# opCA: a verification project

opCA is a certificate authority whose state lives in a 1Password vault. Every
change is a series of calls of the `op` command line, each of which can fail,
come late, or be the last thing a process does. Beside it runs an ACME broker:
a daemon with a subordinate CA of its own, which opCA enrols, renews, watches
and revokes over a network. This project models the parts of the repository
where the order of those calls matters, checks them with TLC on small
instances, and proves most of what is checked with TLAPS for every instance:
the vault lock, the CA's store, the cover of CRLs, a broker's enrolment, what
it issued and opCA's account of it, the ACME server and what it promises to
clients, what every command leaves in the vault when a call of it fails, and the
app's session, local copies and lists.

Paths below are relative to the repository's root (`src/` in `PROJECT.json`).

## 1. Inventory

| component | state it keeps | operations | what is hard | what makes it correct |
|---|---|---|---|---|
| vault lock, `crates/opca-core/src/vault_lock.rs` | `CA_Lock` items in the vault; `held` in the process | `acquire` (create, contest), `release`, `held_within_ttl` | no compare-and-swap in 1Password; clocks differ; calls fail; locks go stale | mutual exclusion; a fresh lock is deleted only by its owner; every acquire ends; losers clean up |
| certificate authority, `services/ca.rs` | a copy of the database in memory, the `CA_Database` document, items, the CRL document | issue, renew, rekey, sign CSR, revoke, delete, publish, generate CRL, init, import, re-sign, ignore, rebuild | whole-document write-back, several calls per command, death between any two | serials are unique; a reported revocation stays and is in the CRL; rows are true of the items |
| CA database, `services/database/` | SQLite in memory | rows, counters, classification, migrations, dump and load | a scan that is skipped when no row changed; databases of every version | what is shown is true; a migration loses nothing |
| CRL batches and Lambda, `notification/aws_lambda.py` | batch object, published CRL, container globals | release the CRL that is due, warn | read-compare-write without a condition, warm containers | never rolls back; cover never lapses |
| CRL fetch script, `contrib/openvpn-crl-fetch.sh` | the installed CRL | daily fetch and install | runs that fail, an expired CRL | servers always hold a valid CRL |
| command line, `crates/opca-cli` | one CA value per run | commands; most under `with_lock` | a call of several fails | nothing is lost or recorded before it is there |
| desktop backend, `crates/opca-tauri` | connection, cached CA and key, one `VaultLock`, fingerprints | Tauri commands, background uploads and saves | memory that outlives a failed save, a lock period, a vault | each vault's data stay its own |
| frontend, `frontend/src` | operation and sync stores | `withLock` around each mutation, background tasks | acquire, mutate and release are separate commands | no lock is left behind |
| 1Password access, `crates/opca-core/src/op.rs` | none | one child process per call | an error does not say whether the call took effect; titles need not be unique | callers assume nothing after an error; titles stay unique |
| subordinate CAs, `services/ca/subordinate.rs` | rows and items of subordinate CAs | sign, renew, revoke | same write-back as the CA | one active subordinate per broker |
| broker client, `services/acme_broker/` | broker rows, sync cursor | enrol, renew, pause, revoke, sync issued certificates | lost replies, pages read while they change | nothing is signed twice, or for domains nobody approved; no issued certificate is missed |
| broker daemon, `crates/opca-acme-broker` | key, enrolled chain, pairing code, CRL | enrol once, renew, pause, revoke, reopen, keep the CRL fresh | memory and disk, a command line beside it, crashes | a revocation is not undone; the listener serves what is enrolled; revocations come to be published |
| ACME server, `crates/opca-acme-broker/src/acme/` | accounts, orders, authorisations, nonces, certificates | RFC 8555 requests, validate, issue, revoke, expire | concurrent requests on one order, redirects, restarts | only legal status changes; only proven names are issued; a nonce is used once |
| broker backup, `crates/opca-acme-broker/src/backup.rs` | enrolment and `acme.db` | capture, restore | restoring under calls in flight | no revocation of the broker undone, no cursor misled |
| local copies, `services/local_backup.rs` | files named by the second | write, prune, restore | names collide, copies are skipped | the newest states are there |
| vault backup, `services/{backup,vault}.rs` | an encrypted file | backup, restore | one of many items fails | all or a reported failure |
| private store, `opca-tauri/src/commands/ca.rs`, `services/storage/` | object in S3, SFTP or rsync | upload in the background, skip what is there | two uploads in flight, a reconnect meanwhile | a skip is right |
| publishing, `services/ca/publish.rs`, `contrib/cert-fetch.sh` | parameter store, a row | publish, publish after renewal | partial publication | a row marked published is |
| OpenVPN, `services/openvpn.rs`, `commands/openvpn.rs` | the OpenVPN item, template and profile rows, documents | keys, templates, profiles | templates move from the item into the database while older clients write the item | none lost or reverted |
| DKIM, `commands/dkim.rs`, `services/route53.rs` | items, rows, DNS | create, sync, delete, deploy | item and row are two calls | titles unique, rows true |
| command queue, `services/command_queue.rs` | queued commands | push, collapse, flush | used by no code of the repository | - |
| certificates and keys, settings, MCP server, ACME client example | small or none | I/O, encoding, presentation | - | - |

The command line and the desktop app both call the certificate authority,
which calls 1Password; both bracket a mutation with the vault lock, the app
through three separate Tauri commands that the frontend calls in turn. The
certificate authority signs CRLs, the Lambda releases them, and the script on
each VPN server installs them; these share nothing but the two object stores.
opCA and a broker share nothing but the broker's API: each keeps its own
account of what was agreed, and a lost answer makes the two differ.
`PROJECT.json` lists every component with its status, and under `hazards` what
in each is hard to test.

## 2. Modules

| module | models | composed with |
|---|---|---|
| `VaultLock` | the lock protocol, one step per 1Password call | - |
| `CaStore` | two sessions of the CA over database, items, CRL and batch | the lock is one variable, which `VaultLock`'s mutual exclusion justifies |
| `CrlRelease` | opCA's signing, the Lambda and the fetch script, day by day | `Sign` stands for the whole `generate_crl` of `CaStore` |
| `CommandCalls` | how a command runs: its calls, their failures, the death of the process, the app's memory | extended by the next five |
| `CsrCommands`, `DkimCommands`, `OpenVpnCommands`, `CertCommands`, `CaCommands` | what each command of the command line and of the app calls | `CaCommands` extends `CertCommands` |
| `AppSession` | the app's session over several vaults | - |
| `DatabaseSchema`, `LocalCopies`, `ExpiryWatch` | migrations; local copies; what the lists and the dashboard show | - |
| `Commands` | the nine modules above together, an *area* at a time | extends them |
| `BrokerEnrolment` | opCA's broker commands, the calls between, the daemon, its command line, its backup | - |
| `BrokerLedger`, `AcmeAccounts`, `AcmeIssuance` | issued certificates, the CRL and opCA's pages; accounts, keys, nonces; names, challenges, issuing | - |
| `BrokerStore` | the three above together, a *part* at a time | extends them |
| `OrderPromise` | what clients are promised of an order | implemented by `AcmeServer` |
| `AcmeServer` | the ACME server's tables, requests and validations | instantiates `OrderPromise` |
| `VaultLockProofs`, `CaStoreProofs`, `CrlReleaseProofs`, `CommandsProofs`, `BrokerEnrolmentProofs`, `AcmeServerProofs` | theorems; those of `CommandsProofs` are about session, copies and lists, damaged databases and restores | extend the module they are named after |
| `BrokerStoreProofs` | theorems about the ledger, accounts and issuance | extends `BrokerStore` |
| `CommandCallsProofs` | theorems about the commands on one vault, call by call | extends `Commands` |
| `MC...` | instances for TLC | extend what they are named after |

A definition whose comment begins with *Mutant* is wrong on purpose: put in
place of the definition that follows it, it must make a run fail. `TypeOK`, and
`...TypeOK` in the parts, say what the variables hold; they are proved for
`VaultLock`, `AcmeServer`, `CaStore` and `CrlRelease`, and left out of the runs
because they cost time and say little.

### VaultLock

An *operation* is one `acquire` ... `release` bracket; `ProcOf` gives the
process (the `VaultLock` value) it runs in. The steps are

| action | code |
|---|---|
| `Stamp` | `acquire` fills in `acquired_at` from the machine's clock |
| `Create`, `CreateFails` | `create_item`; on an error the item may exist all the same |
| `ListRivals`, `ReadRival`, `RankRivals` | `contest`: `items_titled`, `read_lock` for each, `created_at` or the fall-back |
| `BreakStale`, `Yield`, `ContestFails` | the loop over rivals ahead: delete a stale one, stop at a live one, fail |
| `Win`, `DropOwn` | `held` is set, with its `Instant`; or the loser deletes its own item |
| `Release`, `ReleaseFails` | `release`, which deletes whatever the process holds |
| `Crash`, `Tick` | a process dies; time passes |

Item ids are numbers because `rank` breaks ties by comparing ids. `created` is
the server's stamp. It advances no later than the first listing that follows
the create (`stime`), so items created between two listings may share a stamp,
the coarsest case the code must handle. `NoStamp` is a stamp that cannot be
parsed. The name and the host of the holder are left out: no decision uses
them.

### CaStore

A *session* is one CertificateAuthority value. It copies the database at
`Open`, which is before any lock is taken, and writes the whole copy back. A
certificate is a number in the order of signing, so two certificates with one
serial stay apart. `pc` is the call the session makes next. Every call has a
twin action ending in `Fails` in which the error is returned and the effect
may or may not have happened. `dirty` and `revokedSet` are the flag and the
cached classification of `process_ca_database`. `issuedOk` and `revokedOk`
record what was reported to the user. What the other commands do is in the
command modules, where one client is at work at a time.

### CommandCalls and the command modules

A command is a sequence of calls (`run.calls`), computed from what the command
has read: `Create`, `Put`, `Read`, `Archive` of an item, `Rows` for rows that
change in memory only, `Store` for `store_ca_database`, `Call` for the rest.
Each is taken by `Succeeds`, `Refused` or `Fails`; a call says in its `on` what
an error of it does: end the command, go on, or go unnoticed. `Fails` may leave
the effect done or not, a `Crash` ends the process before any call, and a
failed save leaves the app's memory (`db`) ahead of the vault (`vault.saved`).
An item is a title and a count, since titles need not be unique and a look-up
of an ambiguous one is an error. In the `ca` area a failed write may leave
`CA_Database` unreadable (`vault.bad`).

Every command that changes something has one operator for its calls
(`ImportCsrCalls`, `GenerateCalls`, `RevokeCalls`, ...) and one action each for
the command line and the app. Bulk forms take their items from `run.todo`, one
after another. The areas are independent: each command touches the titles and
rows of its own area, and what they share (the CA's rows for certificates) is
in one area.

`ExpiryWatch` has the app's memory of the last scan (`seen`), its day
(`scanned`), rows and days.
`AppSession` makes a command one step, as the connection's mutex does, and
splits only what the code does without it: `withLock`, `sync_brokers`, uploads
and backfill saves. `held` is the vault of the lock that `VaultLock` has,
`orphans` are the vaults with lock items that it no longer has, and `amiss` says
where something went wrong that leaves one: a delete that failed (`ReleaseFails`,
`AcquireFails`), or a connection replaced under the lock (`Connect`). `DatabaseSchema` gives each migration as what it does to
each table; `LocalCopies` has one name per second.

### BrokerEnrolment

Disk (`key`, `code`, `enrol`), the daemon's memory (`memKey`, `mem`, `acme`),
the broker's command line (`cli`), the network (`net`, `reply`) and opCA
(`client`, `db`, `saved`). A request is decided on twice, as in the code: when
it is admitted, from memory, and under the state lock, from disk. An answer may
be lost, and a request whose client gave up may still be worked on. `reopen` is
three steps, after each of which it may end. `faults` counts what `Faulty`
calls a failure. One broker; opCA's calls come one at a time, since each of its
commands holds the vault lock.

### BrokerStore

`part` chooses what a behaviour is about. Accounts and certificates are
written by different transactions; the steps of the CRL change nothing that
opCA's pages read and reading changes nothing for the CRL; so each part is
checked without the steps of the others, and a property of one part cannot
depend on them. In `AcmeIssuance` the client controls some servers (`Control`)
and every other server may answer or redirect anywhere but to the client's;
`IssuedRightly` would be false without that restriction, for a server that
redirects to a client vouches for it.

### CrlRelease

Time is in days, and the code's own periods are used (7 days, 10 days, 5 CRLs,
warning below 2). `lists` is the number of revocations a CRL was signed after,
which orders CRLs by what they revoke. The Lambda's run is three calls. The
Lambda's `crl_batch_enabled` is taken as TRUE, and its other alerts, which
only format messages, are left out. `upload_crl` publishes the CRL that is in
memory; it is taken to be the stored document. `Sign` ends as `generate_crl`
does: with all three stores done, with the document and the counter but not the
batch (`CrlBatchUpload`), or with the document alone, whose number the next
signing takes again or not. `kept` is the operator's side of the bargain: cover
was renewed `Slack` days before it ran out. Cover is the batch's as a rule. It
is one CRL's, ten days, when that CRL was signed and its batch was not stored
and it was published by hand: then its number is above the batch's and the
Lambda releases nothing more (`ServedUntil`). And when its number is taken again
by the next batch, that batch's first CRL is not released (`FirstDue`).

### AcmeServer and OrderPromise

The state is the `status` columns of `acme.db` (`account`, `order`, `authz`,
`chal`), the orders that have a row in `certificates` (`certs`), and what the
process holds: the requests being handled, the validations running in the
background, and `resumed`. Every transaction of `store.rs` is one step, as
SQLite makes it, and so is every read; a handler of `server.rs` is as many
steps as it awaits.

| action | code |
|---|---|
| `Accept` | `Post::by_account`: the account is valid when the request comes in, and is not looked at again |
| `CreateOrder`, `DeactivateAccount` | `new_order`, `account` |
| `Expire` | `order_of`, `authorisation_of`: `expire_stale` before the read |
| `ReadOrder`, `Finalise` | `finalise`: the order is read, the leaf signed, then `record_certificate` reads it again |
| `Withdraw` | `authorisation` with `deactivated` |
| `ReadChallenge`, `Expire`, `Decide`, `StartProcessing`, `Spawn` | `challenge`: two reads, the commit, the spawn |
| `Validated` | a task of `validate_in_background` records its outcome |
| `ResumeStart`, `ResumeRead` | `resume` and its task |
| `Refuse` | a handler returns an error: issuance is paused, the CSR does not fit, a read fails |
| `Restart`, `TimeUp` | the process is started again; an order's `expires` passes |

There is one account. Which authorisations and challenges an order gets is
fixed by `OrderOf` and `AuthzOf`, so that ids need no counter. Requests refused
before they touch a row are left out. A transaction that fails is rolled back
and so is no step.

`OrderPromise` knows no requests, challenges or tables: names are proven one
by one or lost together, an order is made, becomes ready when all its names
are proven, is ended when a proof it relied on is lost, and is issued only
while ready and proven. `Promise` in `AcmeServer` is the refinement mapping
(`PhaseOf` reads an order's phase off its row, a name is proven while its
authorisation is valid), and `KeepsPromise` says that every behaviour of the
server is one of the promise.

## 3. Runs

| run | instance | shows |
|---|---|---|
| `lock_faults` | 2 processes, 3 items, TTL 1, skew up to 1, failures and crashes | `MutualExclusion`, `GuardedLockStored` |
| `lock_live` | 2 processes, 4 items, a leftover lock, stamps that cannot be read | `AcquireTerminates`, `NoOrphanedLock` |
| `store_faults` | 1 session after another, 2 certificates, 2 signings, batches or single CRLs, 2 failures or crashes, commands without a lock | serials, reported revocations, batch numbers |
| `crl_cover` | 40 days, 3 signings any of whose stores fails, one failed Lambda run in a row, uploads while the Lambda runs | cover, arrival of revocations, timely warning |
| `crl_lossy` | 10 days, 3 signings, failed signings, late uploads, warm containers, failed fetches | neither the published nor an installed CRL goes back (`NeverRollsBack`) |
| `commands` | 2 names in each of 11 areas, 1 failing call or crash; 2 vaults, 2 sessions, 2 uploads; 21 schema versions; 4 seconds, 3 dumps, 2 copies kept; 2 days, 2 certificates, 1 profile | what follows |
| | requests, DKIM, OpenVPN, profiles, certificates | titles stay unique (`TitlesUnambiguous`); a saved row is true of the vault (`RowsHold`); no template is lost or reverted (`TemplatesKept`); a revocation that is reported is in the CRL, with those an earlier failure left (`RevokedInCrl`) |
| | `ca` | a damaged `CA_Database` has a local copy as new as itself (`DamageRecoverable`); a restore reported whole is, of a CA imported at its own serial too (`RestoreWhole`) |
| | `session` | no vault gets another's data (`OwnVault`); a lock stays behind only where deleting it failed or the connection was replaced, and until the vault's next lock (`LocksCleanedUp`); an upload is skipped rightly (`SkippedIsUploaded`) |
| | `schema`, `copies`, `watch` | every version migrates to the current tables without losing rows (`MigrationSound`); the latest states are in a copy (`RecentKept`); lists and alerts are true of today's rows, as of the day of the last scan, be it days ago (`ShownTrue`) |
| `broker_calls` | 1 broker, 2 keys, 2 codes, 2 serials, 2 rows, a fault, a backup, domains that change | `OneActiveSubordinate`, `ToldStaysRevoked`, `OnlyApprovedDomains`, `ServesAsEnrolled`, `ReopenNotUndone` |
| `ledger` | 2 certificates in pages of 1, a restore, a fault; 2 accounts, 2 keys, 2 requests, 3 nonces of which 2 are kept; 2 hosts, 2 issuers, 2 redirects | opCA's cursor misses nothing (`CursorMissesNothing`), a CRL with a higher number lists more, and a lower number is published only by a write that came late (`CrlAdvances`) and revocations come to be published (`RevocationPublished`); one account per key, a nonce acts once; what is issued was proven and permitted (`IssuedRightly`) |
| `acme_orders` | 1 order for 2 names with 3 challenges, 2 requests at once, 1 restart, expiry | the tables agree, statuses move as `may_become` says, `KeepsPromise` |
| `acme_live` | 1 order for 1 name with 2 challenges, 2 requests at once, 1 restart | `ValidationEnds` |

Two runs must be violated, each a place where the code does not do what a
comment says (quoted in `PROJECT.json`, `findings`):

| run | what happens |
|---|---|
| `store_overlap` | two sessions opened before either locked; the second writes an old copy back and a reported revocation is lost |
| `ledger_empty` | a backup of a broker that had issued nothing is restored; the change count starts again and opCA's cursor passes what is issued next |

### Bounds and why they are enough

- Lock: a wrong winner needs two contenders and a third item (one that was
  broken, or created by a failed call). TTL 1 and `MaxTime` 2 let a lock be
  fresh, at its last instant and stale. `Id` bounds the items ever created.
- CA: two certificates allow a repeated serial, a renewal, and a revocation
  next to a valid certificate. `MaxCrl` = 2 lets a second CRL or batch be signed
  on top of a first; two failures (`MaxFaults`) are the longest chain a property
  needs (a failed store and a crash before the repeat).
- CRL: `MaxDay` = 40 exceeds the life of one batch (4 * 7 + 10 = 38 days);
  `MaxSign` = 3 replaces a batch twice, or once after a signing that failed.
- Commands: two names let a bulk command fail at the first and go on with the
  second, and let a renewal replace a certificate. One failure (`MaxFault`) is
  what leaves a command half done; commands that follow it then work on what it
  left, without a bound on their number. Two vaults and `MaxSession` = 2 let a
  session be left with work under way. `KeepCopies` = 2 and `MaxClock` = 4 let a
  copy be pruned twice. `Life` has a certificate that runs out within `MaxDay`
  and one that does not; `Soon` and `Caution` are 1 and 2 days where the code has
  30 and 183, and only their order matters. Item counts stop at 2, which is
  already ambiguous. `ImportSerial` is the CA's own serial 1, the default of
  `ca import`; an import at 2 makes the very calls that `init` makes. Once there
  is a backup, no new CA is made and its configuration is not changed
  (`NoBackupYet`): what is restored is then compared with one CA's backups.
  `MaxFailed` = 1: a second deletion of a lock fails only while none is left.
  `MaxJob` = 2 bounds what waits in the background, a save after a backfill
  included; it is 1 while a lock is amiss, and no deletion fails while anything
  waits (`HasRoom`, `MayFail`). Locks and background work meet in nothing but the
  connection, and both may be left behind by a reconnect within the bounds.
- Broker: a second key and a second code are what `reopen` makes; two serials
  are a renewal, or a second signature that should not have been; `MaxFault` = 1.
- Ledger: pages of one certificate make two pages; a nonce store of `Capacity`
  2 forgets the first of three; `MaxRedirects` = 2 lets a redirect be followed
  and the next be refused.
- ACME: two requests are what it takes for one to change what another has
  read; validations come on top. Two names let an order wait for the second
  authorisation; two challenges of one name let two validations decide one
  authorisation; one restart lets a challenge be validated twice.

The theorems of section 4 remove these bounds for the properties they state.

Symmetry is used over operations, vaults, and names and challenges that are
alike, and never with a liveness property. Deadlock is checked in the `store_`
runs. In the others the system stops at a bound, or (`acme_`) when the account
is deactivated and nothing is left to do, so it is not.

### Fairness

`lock_live` assumes weak fairness of each operation's next step in `acquire`.
Each such step is one child process that ends with an answer or an error, and
nothing else disables it for ever. No fairness is assumed of `Tick`, of
releases, or of a crash not happening.

`acme_live` assumes weak fairness of a request's next step, of `Validated` and
of the two steps of `resume`: the runtime polls every task, and a validation
has a time limit (`validate.rs`, `TIMEOUT`). None is assumed of new requests or
of time passing. The run assumes that the handler is not dropped between the
commit of `processing` and the spawn, and that the outcome can be written; the
code only logs when it cannot (see the hazards).

`ledger` assumes, for `RevocationPublished`, weak fairness of the CRL task's
steps and of the clock (the task wakes by `CHECK_EVERY` and `RETRY_AFTER`), and
strong fairness of taking the signing mutex: tokio's mutex hands itself out in
the order it was asked for, so nobody waits for ever while others take it. Only
`MaxLedgerFault` signatures fail.

Further assumptions: the clock that names local copies does not go back;
servers a client does not control do not redirect to the client's; opCA makes
one call of a broker at a time (the vault lock).

## 4. Proofs

Every theorem is of a module's `Spec`, for every value of its constants that
its assumptions allow: any number of processes, certificates, requests, days,
failures and restarts, where the runs have two or three. A hypothesis of a
theorem (`ASSUME ~Overlap ...`) is a constant that switches on a behaviour under
which the statement is false; each is said below, and most are what a run shows
to be violated. Every proof module first states the inductive invariant in
named parts, then that each step keeps it, then the theorems.

| module | theorem | property | hypotheses |
|---|---|---|---|
| `VaultLockProofs` | `TypeCorrect` | `TypeOK` | |
| | `MutualExclusionHolds`, `FreshLockIsKept` | `MutualExclusion`, `GuardedLockStored` | `ServerStamps`, `OneOpPerProcess` |
| | `NoLockOrphaned` | `NoOrphanedLock` | `OneOpPerProcess` |
| `CaStoreProofs` | `TypeCorrect` | `TypeOK` | |
| | `SerialsStayUnique`, `RevocationsStay`, `BatchesIncrease` | `IssuedSerialsUnique`, `RevocationStays`, `BatchNumbersIncrease` | `~Overlap` |
| `CrlReleaseProofs` | `TypeCorrect` | `TypeOK` | |
| | `ServersStayCovered`, `RevocationsArrive` | `InstalledCovered`, `RevocationReachesServers` | `~Warm`, `~LateUpload` |
| | `WarnsInTime` | `WarnsBeforeLapse` | the same, and `LowCover \in 1..Count - 1` |
| | `NothingRolledBack` | `NeverRollsBack` | `~Race` |
| `CommandsProofs` | `VaultsStayApart`, `NoLockLeft`, `SkipsRightly` | `OwnVault`, `LocksCleanedUp`, `SkippedIsUploaded` | |
| | `RecentCopiesStay` | `RecentKept` | |
| | `ShownAsItIs` | `ShownTrue` | |
| | `DamageStaysRecoverable` | `DamageRecoverable` | |
| | `RestoresWhole` | `RestoreWhole` | |
| `BrokerEnrolmentProofs` | `OneSubordinatePerBroker`, `NothingUnapproved`, `ListenerFollows`, `ReopensStay` | `OneActiveSubordinate`, `OnlyApprovedDomains`, `ServesAsEnrolled`, `ReopenNotUndone` | |
| | `RevocationsRemembered` | `ToldStaysRevoked` | `~Restores` |
| `CommandCallsProofs` | `TitlesStayUnambiguous`, `RowsStayTrue` | `TitlesUnambiguous`, `RowsHold` | |
| | `RevocationsListed` | `RevokedInCrl` | |
| | `TemplatesStay` | `TemplatesKept` | |
| `BrokerStoreProofs` | `CursorSound` | `CursorMissesNothing` | `~EmptyBackup` |
| | `CrlOnlyAdvances` | `CrlAdvances` | |
| | `KeysHaveOneAccount`, `RequestsTakeEffectOnce` | `OneAccountPerKey`, `EffectOnce` | |
| | `IssuesRightly` | `IssuedRightly` | |
| `AcmeServerProofs` | `AcmeTypeCorrect`, `OrdersAreSettled`, `AuthorisationsAreEarned`, `ValidOrdersHaveCertificates` | `TypeOK`, `OrderSettled`, `AuthorisationEarned`, `ValidHasCertificate` | |
| | `IssuesOnlyAuthorised`, `LifecycleIsKept`, `ServerKeepsPromise` | `IssuedWasAuthorised`, `LifecycleKept`, `KeepsPromise` | |

### VaultLockProofs

`ServerStamps` (creation stamps can be read) and `OneOpPerProcess` (a process
runs one operation at a time, as the command line does) cannot be dropped from
mutual exclusion: two operations of one app share `held`, and the first release
deletes the other's lock; and a stamp that cannot be read changes the order of
locks after one has won. Where both are missing a lock is even left behind
without a failure: two operations of one app with locks of one second, the later
with the lower id, both win, and `held` names the second lock only.

Mutual exclusion is not inductive: it says nothing of operations still in
their contest. `LockInv` adds what the argument needs. Items and stamps are
sound (`StampsKnown`, `OwnItem`, `OwnItemsDiffer`); an item created after
somebody listed is stamped later than the lister's (`ListedEarlier`), so who
lists cannot overlook a lock ahead of its own; a fresh contender's item is in
the vault (`FreshStored`); `held` is the operation's own item (`HeldIsMine`);
all contests rank by the server (`RankedByServer`). The heart is
`AllFacesAhead`: an operation that has listed still has to face every fresh
lock ahead of its own, so one that runs has none. Two running operations with
fresh locks would be ahead of each other. `FreshToAll` quantifies over clocks
within the skew bound, which is why a deleted rival is never fresh: some clock
called it stale.

`NoOrphanedLock` needs only `ItemsOwned`: while nothing fails, an item is that
of an operation between create and end.

### CaStoreProofs

`CaInv`, with one session open at a time (`OneOpen`, which `~Overlap` gives),
has three parts beside the types. `SerialsSound`: the copy in memory is never
behind the document, a reported certificate's serial is below the document's
counter, and that of one being issued is not, whatever save failed.
`NumbersSound`: a signed batch is numbered past the uploaded one, and the
counter is stored past it before the upload. `RevocationsSound`: a session's copy
has every stored revocation, what it classified is still right unless it is
marked `dirty`, and what it signed lists what its copy has. With `Overlap` the
statements are false, as `store_overlap` shows.

### CrlReleaseProofs

The bounds of the runs are gone: any `Period`, `Window` and `Count` with
`Window >= Period + Slack` (`BatchAssumption`), any number of runs that may
fail in a row. `Covered` counts the cover left in days: what is published lasts
`Slack` days from the last successful Lambda run, or as long as the Lambda can
let out more (`ServedUntil`), what is installed `FetchMiss + 2` days from the last
successful fetch; each failed run takes a day away. `Reaching` does the same for
a new batch on its way to the servers, with `Wait` more when its first number was
used before. `Joined` says that a batch can be released after what is published,
and `CoveredToday` and `RunCovered` what holds on the day of a signing and within
a run of the Lambda. All need `NumbersSound` (a CRL whose number is one of the
current batch's is of that batch, but for a failed signing's; a higher number is
of a later signing) and `RunSound` (what a run of the Lambda has read is of
today, unless a batch came in between). The warning needs a low-cover
limit of at least 1 and below the batch's length, as the code's 2 of 5 is; it
has an invariant of its own, `Warning`.

`~Warm` and `~LateUpload` are what section 5 says of the CRL; without either of
them cover or arrival fails. A signing that fails after one or two of its stores
is no hypothesis: `kept` says what the operator owes then. Rolling back is
another matter: `RollInv` (numbers follow what is listed; nothing changes under a
run) holds in all these cases and needs only that the operator does not upload while the Lambda runs
(`~Race`).

### CommandsProofs

`SessionInv` says of every database, in memory, in a vault or on its way to a
private store, whose it is (`ConnSound`, `StoresSound`), that brokers' answers are
taken only by the session that asked (`AskedSound`, by the operator's number),
that a lock item is in the vault at hand and somebody is to release it, or is
where something was amiss (`LockSound`), and that the fingerprint names what is in the private store,
unless an upload failed (`SyncSound`).

`CopiesInv` strengthens `RecentKept` to the newest file at each second, which is
what pruning by age keeps. `WatchInv` says what each class in the last scan means
on the day of that scan (`ClassTrue`, `SeenTrue`), which stays so however many
days pass, as long as no row has changed since; every reader scans again when
one has.

The other two theorems are about the CA's commands and go by the calls a command
has left, as `CommandCallsProofs` does.

`DamageInv` (for `DamageRecoverable`) says that the newest local copy is of the
saved database or of a later one while no write has failed (`LedgerState`), and
lists what a command of the CA may have left (`LedgerToDo`), each with what the
database in memory then is: the CA's serial numbers every row
(`Ledger`), and a save comes right after the copy of the same database
(`Saving`). That the numbers stay in range takes `CaAssumption`: the CA's own
serial is a name, and a serial given to `ca import` a name or the one after
them all. It is about the first failure only. When the local copy failed before
the write did, nothing could be recovered, and the property does not claim it.

`RestoredInv` (for `RestoreWhole`) has two halves. `RestoreInv`, whatever has
failed: until its first error a restore has put back the first k titles of the
order, each once, and nothing else (`PutsBack`); it begins in an empty vault,
since a vault without the CA's item has no item at all. `WholeInv`, while nothing
has failed: items have the CA's titles only, and a backup has the saved rows and
exactly the items whose title named them alone (`Whole`). A backup under way has
what it has taken so far, takes the rest, and nothing changes meanwhile
(`Gathering`); every other command of the CA makes no backup (`CaCalls`). That the
rows it takes are the saved ones, and that a restore is not of two items under
one title, comes from `LedgerState` and `RestoreState`. A title that names two
items is left out of a backup, by the code and by the property: it is what
`ca import` without `--serial` leads to (section 5, CA), which the theorem and
the run cover.

### BrokerEnrolmentProofs

`OneActiveSubordinate` and `ServesAsEnrolled` are inductive once the types are;
`OnlyApprovedDomains` needs what is on its way and in the backup
(`ApprovedInv`). `ReopenNotUndone` is an action property of the types alone: each
step that enrols spends a code under the state lock.

`ToldStaysRevoked` takes more. `RevokedInv`: nothing anywhere is for a key the
broker is yet to have (`KeysPast`); a code can be redeemed only while nothing is
enrolled (`CodeSound`); and the broker's key, once opCA knows or is about to know
of its revocation, has it on disk until a reopen has archived it
(`RevocationKept`). It is proved for a broker that is not restored from a
backup. With restores it needs the bound of the run, one failure: with more
there is a long way around it, which is in section 5.

### CommandCallsProofs

They hold for any number of names and failures. Names are the numbers from 1 on
(`NameAssumption`), since the names of the certificate areas are serials. None
of the properties is inductive, for a command half done has done one half:
the invariants say what may be left of it (`run.calls`), area by area.
`CallSteps` turns every step of a command into its first call being *done* or
*lost*; what the call changes is `PartsChanged`.

`RevokeInv` gives `RevocationsListed`: a list of revocations ends in the CRL
(`EndsInCrl`), and whoever finds it there owes the CRL of what is saved
(`CrlDue`).

`CallsInv` gives `TitlesStayUnambiguous`. For requests it is `CsrInv`, whose
`CsrToDo` lists every remainder of a command: a key whose row is to be written
(`NewKey`, `NewRow`), a key to go and its row (`KeyGoes`, `RowGoes`), an import
at its three stages, and one that the code refuses after it has archived the
request (`ImportStops`). In every other area it is `OwnInv`: calls write rows of
the area's own kinds (`Tags`), the titles that must be unambiguous are created
only while free and once (`FreeCalls`), and a backup starts with the CA's item
(`BackupOrder`), so that whatever a restore finds the CRL's title free
(`CaFirst`).

`RowsInv` adds what `RowsStayTrue` needs. `ProfileInv`: the call that records a
profile follows the one that stores its document, or the document is there
(`StoredFirst`). `DeletedInv`: the saved database is never ahead of the one in
memory (`Numbered`), both are numbered past every row, so a serial that was
deleted is not issued again; what is left of an issue or a delete is one of the
forms in `CertToDo`, and each renewal or rekey that a list still has to do has a
serial left (`Spare`). For uploads and certificates of requests `OwnInv` and
`CsrInv` suffice.

`KeptInv` gives `TemplatesStay`. The first write a command has left brings in the
item's templates, if any does, and later ones only edit (`WritesInOrder`); fields
leave the item only once they are noted and the note archived (`NotesFirst`).
Neither database, the saved one or that in memory, has an edited template beside
its copy from the item (`Tidy`).

### BrokerStoreProofs

`CursorInv`: no cursor is past the broker's last change (`CursorBehind`), the
pages opCA has so far are right up to where they end, whatever changed since
(`PagesSound`), and an answer to a revocation is right unless it changed again
past the cursor (`AnswerSound`). A restore renumbers every row past the changes
of either database, so what it brings back is past every cursor. Only a backup
of a broker that had issued nothing has no row to renumber, which is
`ledger_empty`.

`CrlInv`: one task signs at a time (`OneSigner`); of the CRLs that are finished,
on disk or still to be written by a call that timed out (`Finished`), no two have
one number, and a number taken for a signature is past them all
(`NumbersUnspent`); until a restore a higher number lists more, and the list a
task has read holds all that is finished (`ListsGrow`).

`AccountsInv` follows a nonce: live or not yet given it has no holder and no
effect, redeemed it has one holder (`NoncesUnspent`), however many are forgotten.
`IssuanceInv` says that an authorisation is valid only for a name the client
controls (`OrderSound`) and that a validation, wherever it was redirected, can
have the client's answer only if it began at a server of the client's
(`TaskSound`).

### AcmeServerProofs

It is for any orders, authorisations and challenges in which every order has an
authorisation (`TableAssumption`; `names` refuses an order without a name).

The inductive invariant is `TypeOK /\ Agreement`. To the three invariants it
adds `NoneProcessing` (no commit leaves an order processing, so
`record_certificate` accepts only a ready one, whose authorisations are valid
by `OrderSettled`: that is why `finalise`'s stale read is harmless) and
`RowsTogether` (an order's rows are made together, so a row that `CreateOrder`
writes was not there before). The cases that need an argument are the three
transactions that write more than one table: `ExpireAgrees` for
`expire_stale`, `SettleAgrees` for the two that end in `settle_order_of`.

The refinement needs the same invariant and nothing more. `PromiseStutter`
covers the steps that write no order and no authorisation; `LosesProofs` the
two that withdraw or expire, where the orders ended are those that relied on
what was lost; `SettlePromised` the proof of a name, after which the order is
ready exactly if no name is missing. `PromiseStep` puts the actions together.

### Only model-checked

- Liveness is beyond the prover: `AcquireTerminates`, `ValidationEnds`,
  `RevocationPublished`.
- `MigrationSound`: the migrations are a recursion over versions and tables.
- `ToldStaysRevoked` on a broker that is restored.

## 5. Read in the source

Met while modelling, and stated by no run: each is what the code does, and
where a comment or a document says otherwise it is quoted.

- Lock: `held`'s `Instant` is taken after the contest but `acquired_at` before
  the create, so `held_within_ttl` can outlast the lock. Two operations of one
  app share `held`; a `withLock` in the background that spans a reconnect
  releases the lock of a mutation in the new vault. A `connect` while connected
  leaves the old vault's lock item there (`VaultLock` keeps its id, and the
  release against the new vault fails or finds nothing), and `disconnect` ignores
  a release that fails; such an item stays until its TTL has passed and somebody
  locks that vault. On the command line `ca
  init` and `ca import` take the vault out of the context, and when they fail
  the unlock finds "Not connected", is ignored, and the item stays until its
  TTL. `csr sign`, `crl upload --generate` and `database rebuild` take no lock.
- App: `detect_vault_state` records why a database cannot be opened and
  `replace_connection` clears it. `fresh_cert_pems` and
  `last_private_store_sync` are kept by `replace_connection`, though its doc says
  that what belongs to the old connection goes. An upload may arrive after a
  newer one. A revocation whose save failed stays in memory, so that the retry
  is refused.
- Items: the import of a renewal makes a second `EXT_<cn>`, after which look-ups
  by that title fail. A failed save leaves a DKIM row without its key;
  `backfill_dkim` never stores what it found. On the command line `csr create`
  records no row. An import archives the request before it makes the bundle, and
  the bundle may be refused: in the app when the chain cannot be parsed, on the
  command line when the certificate is DER, which the lines before accept, or the
  request's text is missing. No call has failed; the only copy of the key is then
  in 1Password's archive, and the row stays Pending, although
  `docs/architecture.md` (line 190) has requests kept "with their private key".
  The app offers it to be completed and finds no item; `create_csr` may make a
  second Pending row of that name, and `delete_csr` of the old row archives the
  new key. After a crash between item and database two items carry
  one serial, which a rebuild refuses.
- CA: `re_sign_ca` leaves the CA's row as it was although its doc says
  otherwise. `ca import` without `--serial` starts at 1 ("Extract serial from
  cert if not provided", `crates/opca-cli/src/commands/ca.rs`): when the CA's own
  serial is 1, certificates get it one after another, under one title if their
  name is one; a backup leaves out what a title does not name alone, so a
  restore reported whole has less than there was. A rebuild forgets revocations, and
  with a restored local copy it may issue serials again. `init` runs without a
  local copy. A program opens a database of a newer schema without a word.
- Backup: `create_backup` takes what it can read; an item that fails or is
  ambiguous is dropped silently, `CA_Database` too, and profile documents are
  never in it.
- Shown: `list_openvpn_profiles` says it refreshes the classification "so status
  derivation reflects the current state of every cert", but an unforced scan is
  skipped while no row changed, so a profile that ran out in the meantime is
  still shown as current: `ShownTrue` says as of which day the lists are true, and
  only the dashboard, which forces the scan, is true of today. A renewal ignores
  its predecessor; when the renewal is revoked, the predecessor runs out without
  an alert, as anything that was ignored does. A template deleted in the
  database comes back while it is on the item.
- CRL: a warm Lambda container compares with an old `now`; the Lambda puts a CRL
  it compared with an older read. When the batch upload fails and the CRL that
  was stored is published by hand, as the next step in the app is, its number is
  above the old batch's: the Lambda answers "Published CRL is current" from then
  on and counts the old batch's cover, so the CRL lapses after ten days and no
  warning comes that is about it (`aws_lambda.py`, lines 231-241). When the counter
  is lost too, the next batch begins at a published number, and its first CRL is
  not released: a revocation waits a period, six days more. `kept` names both
  cases, so that `InstalledCovered` is about operators who sign again in time.
- Broker: a write of the CRL that times out "still finishes then, whole", and the
  signing mutex is free by then: it may replace a CRL that was signed later, with
  a lower number and a shorter list, and nothing takes note. The broker serves
  that one until its next signature, up to a day later.
- Broker: a request is admitted from memory and not looked at again under the
  state lock, where only what is on disk is. With a backup and several failures
  that is a way around a revocation opCA was told of: the answer to an enrolment
  is lost and a backup is taken; a reopen is cut short after the key, and the
  daemon, started in the middle of it, has the old key and no enrolment in memory; the
  enrolment is sent again, admitted, and delayed; the backup is restored while the
  new pairing code is unspent; opCA renews to the new key and revokes it; then the
  late enrolment spends the code and overwrites the revoked enrolment, and a
  renewal brings back the key opCA was told is revoked.
- Broker: when the answer to an enrolment is lost, opCA's row stays "never
  taken" although the broker is enrolled, and enrolling again fails; a status
  call mends it. A restored backup takes back revocations of certificates made
  since. A request verified before its account is deactivated, or its key
  changed, still acts after it.
- Command queue: `collapse` keeps the last command of a document, so that a
  create followed by an edit is only an edit; nothing uses it.

## 6. Plan

1. An abstract lock that `VaultLock` implements.
2. The scan of external certificates, a transaction that fails in `AcmeServer`,
   the host's fetch of published certificates.

## 7. Not modelled

Cryptography and encodings (`cert.rs`, `san.rs`, `crypto/`), the storage
backends, settings, the MCP server, AWS credentials, the pages and components
of the frontend, argument parsing and output of the command line, the shaping
of answers, and the example ACME client: they are I/O, formats or presentation
with no state that another actor can disturb. SQL text and dumps are data
formats. The command queue is used by nothing.
