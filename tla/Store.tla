------------------------------- MODULE Store -------------------------------
(***************************************************************************)
(* storage/store.go: management.db (the catalog), the tenant files beside  *)
(* it, and the in-memory maps of open tenant pools.  Create and Import are *)
(* run by any number of HTTP goroutines and take many steps, any of which  *)
(* can fail; Close and the death of the process can come between any two.  *)
(*                                                                         *)
(* A generated name is abstracted to any name the catalog does not hold:   *)
(* what the PRIMARY KEY and UNIQUE constraints enforce.  The -wal and -shm *)
(* files live and die with their database file.  A process crash keeps     *)
(* what was written; power loss is not modelled.                           *)
(***************************************************************************)
CONSTANTS Name,     \* database names ("db_" + ULID)
          User,     \* MySQL usernames ("u_" + ULID)
          Request,  \* goroutines that run Create or Import
          None      \* no name, username, row, transaction or owner of a mutex

VARIABLES
    catalog,    \* committed rows of management.db: Name -> row or None
    files,      \* tenant files: Name -> contents
    phase,      \* where the life of the Store value is
    mgmtOpen,   \* s.mgmt can begin transactions
    tx,         \* the row of the one transaction on s.mgmt, or None
    createMu,   \* the request that holds s.createMu, or None
    byName,     \* s.byName: Name -> username of the Database, or None
    byUser,     \* s.byUser: User -> name of the Database, or None
    pools,      \* names with an open tenant pool, validation pools aside
    pc,         \* the next step of each request
    job,        \* the local variables of each request
    acked       \* history: credentials returned to a caller

disk == <<catalog, files>>
maps == <<byName, byUser, pools>>
life == <<phase, mgmtOpen>>
vars == <<disk, life, tx, createMu, maps, pc, job, acked>>

Status == {"creating", "ready"}
Row == [username : User, status : Status]
Pending == [name : Name, username : User, status : Status]

ASSUME NoneAssumption ==
    None \notin Name \cup User \cup Request \cup Row \cup Pending

Content == {"absent", "garbage", "usable"}
Upload == {"none", "garbage", "usable"}     \* "none": Create, else Import
Phase == {"down", "reconcile", "load", "serving", "closing", "closed"}
Step == {"idle", "lock", "check", "begin", "file", "validate", "mark",
         "commit", "open", "publish"}
Job == [upload : Upload, name : Name \cup {None}, user : User \cup {None}]
NoJob == [upload |-> "none", name |-> None, user |-> None]

Ready(n) == catalog[n] # None /\ catalog[n].status = "ready"
Published == {n \in Name : byName[n] # None}
Empty(keys) == [k \in keys |-> None]

\* GetByUsername and Get, as the MySQL handshake and the HTTP API call them.
GetByUsername(u) == IF phase = "serving" THEN byUser[u] ELSE None
Get(n) == IF phase = "serving" THEN byName[n] ELSE None

Init ==
    /\ catalog = Empty(Name)
    /\ files = [n \in Name |-> "absent"]
    /\ phase = "down"
    /\ mgmtOpen = FALSE
    /\ tx = None
    /\ createMu = None
    /\ byName = Empty(Name)
    /\ byUser = Empty(User)
    /\ pools = {}
    /\ pc = [r \in Request |-> "idle"]
    /\ job = [r \in Request |-> NoJob]
    /\ acked = {}
-----------------------------------------------------------------------------
(***************************************************************************)
(* Create and Import                                                       *)
(***************************************************************************)
At(r, step) == pc[r] = step
Goto(r, step) == pc' = [pc EXCEPT ![r] = step]

\* Every return: the deferred tx.Rollback() and s.createMu.Unlock().
Return(r) ==
    /\ Goto(r, "idle")
    /\ job' = [job EXCEPT ![r] = NoJob]
    /\ tx' = None
    /\ createMu' = None

\* A request with an acceptable label reaches s.createMu.Lock().
Call(r, upload) ==
    /\ At(r, "idle")
    /\ phase \in {"serving", "closing", "closed"}
    /\ Goto(r, "lock")
    /\ job' = [job EXCEPT ![r].upload = upload]
    /\ UNCHANGED <<disk, life, tx, createMu, maps, acked>>

Lock(r) ==
    /\ At(r, "lock")
    /\ createMu = None
    /\ createMu' = r
    /\ Goto(r, "check")
    /\ UNCHANGED <<disk, life, tx, maps, job, acked>>

\* The read of s.closed under s.mu, which Close holds while "closing".
CheckClosed(r) ==
    /\ At(r, "check")
    /\ phase # "closing"
    /\ IF phase = "closed"
         THEN Return(r)
         ELSE Goto(r, "begin") /\ UNCHANGED <<tx, createMu, job>>
    /\ UNCHANGED <<disk, life, maps, acked>>

\* s.mgmt.Begin() and the INSERT of a 'creating' row.
Reserve(r) ==
    /\ At(r, "begin")
    /\ mgmtOpen
    /\ \E n \in Name, u \in User :
         /\ catalog[n] = None
         /\ \A m \in Name : catalog[m] # None => catalog[m].username # u
         /\ tx' = [name |-> n, username |-> u, status |-> "creating"]
         /\ job' = [job EXCEPT ![r] = [upload |-> job[r].upload, name |-> n, user |-> u]]
    /\ Goto(r, "file")
    /\ UNCHANGED <<disk, life, createMu, maps, acked>>

\* No password, a constraint or an I/O error, s.mgmt closed, or the nil s.mgmt
\* that Close leaves behind: net/http recovers that panic, the defers run.
ReserveFails(r) ==
    /\ At(r, "begin")
    /\ Return(r)
    /\ UNCHANGED <<disk, life, maps, acked>>

\* Create opens an empty file with O_EXCL; Import writes over what is there.
WriteFile(r) ==
    LET n == job[r].name  up == job[r].upload IN
    /\ At(r, "file")
    /\ up = "none" => files[n] = "absent"
    /\ files' = [files EXCEPT ![n] = IF up = "none" THEN "usable" ELSE up]
    /\ Goto(r, "validate")
    /\ UNCHANGED <<catalog, life, tx, createMu, maps, job, acked>>

\* An Import that fails half way leaves what it wrote.
WriteFileFails(r) ==
    LET n == job[r].name IN
    /\ At(r, "file")
    /\ \E left \in {files[n], "garbage"} :
         /\ job[r].upload = "none" => left = files[n]
         /\ files' = [files EXCEPT ![n] = left]
    /\ Return(r)
    /\ UNCHANGED <<catalog, life, maps, acked>>

ValidateAnything(r) ==              \* fault: the validation pool is not pinged
    /\ At(r, "validate")
    /\ Goto(r, "mark")
    /\ UNCHANGED <<disk, life, tx, createMu, maps, job, acked>>

\* The validation pool opens on a SQLite file, and closes.
Validate(r) ==
    /\ At(r, "validate")
    /\ files[job[r].name] = "usable"
    /\ Goto(r, "mark")
    /\ UNCHANGED <<disk, life, tx, createMu, maps, job, acked>>

\* validatePool.Close() fails: the only error path that keeps the file.
ValidateCloseFails(r) ==
    /\ At(r, "validate")
    /\ files[job[r].name] = "usable"
    /\ Return(r)
    /\ UNCHANGED <<disk, life, maps, acked>>

DiscardLate(r) ==                   \* fault: the file also goes after COMMIT
    /\ pc[r] \in {"validate", "mark", "commit", "open"}
    /\ files' = [files EXCEPT ![job[r].name] = "absent"]
    /\ Return(r)
    /\ UNCHANGED <<catalog, life, maps, acked>>

\* The validation, the UPDATE or the COMMIT fails and the file is removed.
Discard(r) ==
    /\ pc[r] \in {"validate", "mark", "commit"}
    /\ files' = [files EXCEPT ![job[r].name] = "absent"]
    /\ Return(r)
    /\ UNCHANGED <<catalog, life, maps, acked>>

\* UPDATE databases SET status = 'ready', in the same transaction.
MarkReady(r) ==
    /\ At(r, "mark")
    /\ tx' = [tx EXCEPT !.status = "ready"]
    /\ Goto(r, "commit")
    /\ UNCHANGED <<disk, life, createMu, maps, job, acked>>

\* The transaction keeps its own connection: it commits even after Close.
Commit(r) ==
    /\ At(r, "commit")
    /\ catalog' = [catalog EXCEPT ![tx.name] =
                     [username |-> tx.username, status |-> tx.status]]
    /\ tx' = None
    /\ Goto(r, "open")
    /\ UNCHANGED <<files, life, createMu, maps, job, acked>>

OpenPool(r) ==
    /\ At(r, "open")
    /\ files[job[r].name] = "usable"
    /\ pools' = pools \cup {job[r].name}
    /\ Goto(r, "publish")
    /\ UNCHANGED <<disk, life, tx, createMu, byName, byUser, job, acked>>

\* The caller gets an error, yet the row is durable and ready.
OpenPoolFails(r) ==
    /\ At(r, "open")
    /\ Return(r)
    /\ UNCHANGED <<disk, life, maps, acked>>

PublishSwapped(r) ==                \* fault: byUser is keyed to the username
    LET n == job[r].name  u == job[r].user IN
    /\ At(r, "publish") /\ phase = "serving"
    /\ byName' = [byName EXCEPT ![n] = u]
    /\ byUser' = [byUser EXCEPT ![u] = u]
    /\ acked' = acked \cup {<<n, u>>}
    /\ Return(r)
    /\ UNCHANGED <<disk, life, pools>>

PublishUnchecked(r) ==              \* fault: s.closed is not read again
    LET n == job[r].name  u == job[r].user IN
    /\ At(r, "publish") /\ phase # "closing"
    /\ byName' = [byName EXCEPT ![n] = u]
    /\ byUser' = [byUser EXCEPT ![u] = n]
    /\ acked' = acked \cup {<<n, u>>}
    /\ Return(r)
    /\ UNCHANGED <<disk, life, pools>>

\* publishLocked, under s.mu; the caller gets the credentials.
Publish(r) ==
    LET n == job[r].name  u == job[r].user IN
    /\ At(r, "publish")
    /\ phase = "serving"
    /\ byName[n] = None /\ byUser[u] = None
    /\ byName' = [byName EXCEPT ![n] = u]
    /\ byUser' = [byUser EXCEPT ![u] = n]
    /\ acked' = acked \cup {<<n, u>>}
    /\ Return(r)
    /\ UNCHANGED <<disk, life, pools>>

RefusePublishLeaking(r) ==          \* fault: pool.Close() is forgotten
    /\ At(r, "publish") /\ phase = "closed"
    /\ Return(r)
    /\ UNCHANGED <<disk, life, maps, acked>>

RefusePublishLocked(r) ==           \* fault: no deferred createMu.Unlock()
    /\ At(r, "publish") /\ phase = "closed"
    /\ pools' = pools \ {job[r].name}
    /\ Goto(r, "idle")
    /\ job' = [job EXCEPT ![r] = NoJob]
    /\ UNCHANGED <<disk, life, tx, createMu, byName, byUser, acked>>

\* The store was closed meanwhile, or the name or username is taken.
RefusePublish(r) ==
    LET n == job[r].name  u == job[r].user IN
    /\ At(r, "publish")
    /\ phase # "closing"
    /\ phase = "serving" => byName[n] # None \/ byUser[u] # None
    /\ pools' = pools \ {n}
    /\ Return(r)
    /\ UNCHANGED <<disk, life, byName, byUser, acked>>
-----------------------------------------------------------------------------
(***************************************************************************)
(* Open, Close and the end of the process                                  *)
(***************************************************************************)
\* The catalog is opened and migrated.
Start ==
    /\ phase = "down"
    /\ phase' = "reconcile"
    /\ mgmtOpen' = TRUE
    /\ UNCHANGED <<disk, tx, createMu, maps, pc, job, acked>>

ReconcileReady ==                   \* fault: reconcile removes 'ready' rows
    LET stale == {n \in Name : Ready(n)} IN
    /\ phase = "reconcile"
    /\ phase' = "load"
    /\ catalog' = [n \in Name |-> IF n \in stale THEN None ELSE catalog[n]]
    /\ files' = [n \in Name |-> IF n \in stale THEN "absent" ELSE files[n]]
    /\ UNCHANGED <<mgmtOpen, tx, createMu, maps, pc, job, acked>>

\* Rows found 'creating' lose their files, then themselves.
Reconcile ==
    LET stale == {n \in Name : catalog[n] # None /\ ~Ready(n)} IN
    /\ phase = "reconcile"
    /\ phase' = "load"
    /\ catalog' = [n \in Name |-> IF n \in stale THEN None ELSE catalog[n]]
    /\ files' = [n \in Name |-> IF n \in stale THEN "absent" ELSE files[n]]
    /\ UNCHANGED <<mgmtOpen, tx, createMu, maps, pc, job, acked>>

\* loadReady needs every 'ready' row to have a file that opens and a name
\* and username not yet published: one that fails, and Open fails.
LoadReady ==
    /\ phase = "load"
    /\ \A n \in Name : Ready(n) => files[n] = "usable"
    /\ \A n, m \in Name :
         Ready(n) /\ Ready(m) /\ n # m => catalog[n].username # catalog[m].username
    /\ phase' = "serving"
    /\ byName' = [n \in Name |-> IF Ready(n) THEN catalog[n].username ELSE None]
    /\ byUser' = [u \in User |->
         IF \E n \in Name : Ready(n) /\ catalog[n].username = u
           THEN CHOOSE n \in Name : Ready(n) /\ catalog[n].username = u
           ELSE None]
    /\ pools' = {n \in Name : Ready(n)}
    /\ UNCHANGED <<disk, mgmtOpen, tx, createMu, pc, job, acked>>

\* An error in reconcile or loadReady: Open closes what it opened.
OpenFails ==
    /\ phase \in {"reconcile", "load"}
    /\ phase' = "down"
    /\ mgmtOpen' = FALSE
    /\ UNCHANGED <<disk, tx, createMu, maps, pc, job, acked>>

CloseStartKeeping ==                \* fault: s.byUser is not reset
    /\ phase = "serving"
    /\ phase' = "closing"
    /\ pools' = pools \ Published
    /\ byName' = Empty(Name)
    /\ UNCHANGED <<disk, mgmtOpen, tx, createMu, byUser, pc, job, acked>>

\* Close takes s.mu, sets closed and closes the published pools.
CloseStart ==
    /\ phase = "serving"
    /\ phase' = "closing"
    /\ pools' = pools \ Published
    /\ byName' = Empty(Name)
    /\ byUser' = Empty(User)
    /\ UNCHANGED <<disk, mgmtOpen, tx, createMu, pc, job, acked>>

CloseMgmt ==
    /\ phase = "closing"
    /\ mgmtOpen
    /\ mgmtOpen' = FALSE
    /\ UNCHANGED <<disk, phase, tx, createMu, maps, pc, job, acked>>

CloseEnd ==
    /\ phase = "closing"
    /\ ~mgmtOpen
    /\ phase' = "closed"
    /\ UNCHANGED <<disk, mgmtOpen, tx, createMu, maps, pc, job, acked>>

\* The process exits or is killed: SQLite rolls the transaction back.
Halt ==
    /\ phase # "down"
    /\ phase' = "down"
    /\ mgmtOpen' = FALSE
    /\ tx' = None
    /\ createMu' = None
    /\ byName' = Empty(Name)
    /\ byUser' = Empty(User)
    /\ pools' = {}
    /\ pc' = [r \in Request |-> "idle"]
    /\ job' = [r \in Request |-> NoJob]
    /\ UNCHANGED <<disk, acked>>
-----------------------------------------------------------------------------
\* What a request does once it holds s.createMu.
Work(r) ==
    \/ CheckClosed(r)
    \/ Reserve(r) \/ ReserveFails(r)
    \/ WriteFile(r) \/ WriteFileFails(r)
    \/ Validate(r) \/ ValidateCloseFails(r) \/ Discard(r)
    \/ MarkReady(r) \/ Commit(r)
    \/ OpenPool(r) \/ OpenPoolFails(r)
    \/ Publish(r) \/ RefusePublish(r)

Close == CloseStart \/ CloseMgmt \/ CloseEnd

Next ==
    \/ \E r \in Request : (\E up \in Upload : Call(r, up)) \/ Lock(r) \/ Work(r)
    \/ Start \/ Reconcile \/ LoadReady \/ OpenFails
    \/ Close
    \/ Halt

\* Goroutines run on; a sync.Mutex is handed to a waiter that starves (hence
\* SF on Lock); a Close that started runs on.
Fairness ==
    /\ \A r \in Request : SF_vars(Lock(r)) /\ WF_vars(Work(r))
    /\ WF_vars(CloseMgmt) /\ WF_vars(CloseEnd)

Spec == Init /\ [][Next]_vars /\ Fairness
-----------------------------------------------------------------------------
TypeOK ==
    /\ catalog \in [Name -> Row \cup {None}]
    /\ files \in [Name -> Content]
    /\ phase \in Phase
    /\ mgmtOpen \in BOOLEAN
    /\ tx \in Pending \cup {None}
    /\ createMu \in Request \cup {None}
    /\ byName \in [Name -> User \cup {None}]
    /\ byUser \in [User -> Name \cup {None}]
    /\ pools \in SUBSET Name
    /\ pc \in [Request -> Step]
    /\ job \in [Request -> Job]
    /\ acked \in SUBSET (Name \X User)

\* Credentials that Create or Import returned stay good: the catalog keeps
\* their row and a usable file, and whenever the store serves, a handshake
\* with that username reaches that database, across Close, crash and Open.
AcknowledgedKept ==
    \A n \in Name, u \in User : <<n, u>> \in acked =>
        /\ catalog[n] = [username |-> u, status |-> "ready"]
        /\ files[n] = "usable"
        /\ phase = "serving" => GetByUsername(u) = n /\ Get(n) = u

\* Whatever the catalog holds, at whatever point the process dies, the next
\* Open is not refused by it: loadReady rejects the whole store for one
\* missing or unreadable file, and no row is left for reconcile to delete.
Reopenable ==
    \A n \in Name : catalog[n] # None =>
        /\ Ready(n)
        /\ files[n] = "usable"
        /\ \A m \in Name \ {n} :
             catalog[m] # None => catalog[m].username # catalog[n].username

\* s.byName and s.byUser describe one set of databases, each of them durable.
MapsAgree ==
    /\ \A n \in Name, u \in User : byName[n] = u <=> byUser[u] = n
    /\ \A n \in Published : Ready(n) /\ catalog[n].username = byName[n]

\* No tenant pool leaks: the open ones are the published ones and the one of
\* a request about to publish, also when Close runs in between.
PoolsAccounted ==
    pools = Published \cup {job[r].name : r \in {q \in Request : At(q, "publish")}}

\* What is in the catalog is never altered, nor its file removed, by a
\* request that fails, by reconcile or by Close.
NothingTakenBack ==
    [][\A n \in Name : catalog[n] # None => /\ catalog'[n] = catalog[n]
                                            /\ files'[n] = files[n]]_vars

\* Every Create and Import returns (or dies with the process), whichever
\* error path the others took and whether or not the store is closing.
RequestsReturn == \A r \in Request : ~At(r, "idle") ~> At(r, "idle")

\* Store implements Provisioning.
P == INSTANCE Provisioning WITH
       owner  <- [n \in Name |-> IF Ready(n) THEN catalog[n].username ELSE None],
       served <- Published,
       told   <- acked,
       up     <- phase = "serving"

\* The storage layer keeps the abstract promise: a committed row is a database
\* provisioned, publishing it is announcing it, Close or a crash withdraws.
Provisions == P!Spec
=============================================================================
