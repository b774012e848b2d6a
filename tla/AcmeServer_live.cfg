\* Two requests at once on one order for one name; one restart.
SPECIFICATION FairSpec
CONSTANTS
    o1 = o1
    z1 = z1
    z2 = z2
    c1 = c1
    c2 = c2
    c3 = c3
    r1 = r1
    r2 = r2
    Order <- OneOrder
    Authz <- OneName
    Chal <- TwoChallenges
    OrderOf <- Name
    AuthzOf <- OfferedBoth
    Req <- TwoRequests
    MaxRestart = 1
PROPERTIES ValidationEnds
CHECK_DEADLOCK FALSE
