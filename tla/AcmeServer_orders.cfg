\* Two requests at once on one order for two names; one restart.
SPECIFICATION Spec
CONSTANTS
    o1 = o1
    z1 = z1
    z2 = z2
    c1 = c1
    c2 = c2
    c3 = c3
    r1 = r1
    r2 = r2
    Order <- OneOrder
    Authz <- TwoNames
    Chal <- ThreeChallenges
    OrderOf <- Names
    AuthzOf <- Offered
    Req <- TwoRequests
    MaxRestart = 1
SYMMETRY Alike
INVARIANTS OrderSettled AuthorisationEarned ValidHasCertificate
PROPERTIES LifecycleKept KeepsPromise
CHECK_DEADLOCK FALSE
