---------------------------- MODULE StoreProofs ----------------------------
(***************************************************************************)
(* Proofs about Store, for any sets of names, usernames and requests.      *)
(***************************************************************************)
EXTENDS Store, TLAPS

\* Where a request stands.
Outside == {"idle", "lock"}
InTx == {"file", "validate", "mark", "commit"}
InRow == {"open", "publish"}

\* createMu admits one request at a time, and none before Open returned.
Mutex ==
    /\ \A r \in Request : pc[r] \notin Outside => createMu = r
    /\ phase \in {"down", "reconcile", "load"} => \A r \in Request : At(r, "idle")

\* Outside of "serving" the maps are empty.
Offline == phase # "serving" => byName = Empty(Name) /\ byUser = Empty(User)

\* The request inside the transaction owns it, and its name and username are
\* still free; past the validation its file is usable.
Reserved ==
    \A r \in Request :
        /\ pc[r] \in InTx =>
             /\ tx \in Pending
             /\ tx.name = job[r].name
             /\ tx.username = job[r].user
             /\ catalog[tx.name] = None
             /\ \A m \in Name : catalog[m] # None => catalog[m].username # tx.username
        /\ pc[r] \in {"mark", "commit"} => files[job[r].name] = "usable"
        /\ At(r, "commit") => tx.status = "ready"

\* The request past COMMIT owns a durable row that is not published yet.
Committed ==
    \A r \in Request : pc[r] \in InRow =>
        /\ job[r].name \in Name
        /\ job[r].user \in User
        /\ catalog[job[r].name] = [username |-> job[r].user, status |-> "ready"]
        /\ byName[job[r].name] = None

Safety == AcknowledgedKept /\ Reopenable /\ MapsAgree /\ PoolsAccounted

\* The inductive invariant.
IInv == TypeOK /\ Mutex /\ Offline /\ Reserved /\ Committed /\ Safety
-----------------------------------------------------------------------------
USE NoneAssumption
USE DEF disk, life, maps, At, Goto, Return, Ready, Empty, Published,
        GetByUsername, Get

\* The request inside the transaction: its name is in no map and no promise.
LEMMA InTxFacts ==
  ASSUME IInv, NEW r \in Request, pc[r] \in InTx
  PROVE  /\ job[r].name \in Name
         /\ job[r].user \in User
         /\ catalog[job[r].name] = None
         /\ \A u \in User : <<job[r].name, u>> \notin acked
         /\ \A q \in Request \ {r} : pc[q] \in Outside
<1>1. /\ tx \in Pending
      /\ tx.name = job[r].name
      /\ tx.username = job[r].user
      /\ catalog[tx.name] = None
  BY DEF IInv, Reserved
<1>2. \A q \in Request \ {r} : pc[q] \in Outside
  BY DEF IInv, Mutex, InTx, Outside
<1>3. \A u \in User : catalog[job[r].name] # [username |-> u, status |-> "ready"]
  BY <1>1 DEF Row, Status
<1> QED
  BY <1>1, <1>2, <1>3 DEF IInv, Safety, AcknowledgedKept, Pending

\* The request past COMMIT: neither its name nor its username is published.
LEMMA InRowFacts ==
  ASSUME IInv, NEW r \in Request, pc[r] \in InRow
  PROVE  /\ job[r].name \in Name
         /\ job[r].user \in User
         /\ catalog[job[r].name] = [username |-> job[r].user, status |-> "ready"]
         /\ byName[job[r].name] = None
         /\ byUser[job[r].user] = None
         /\ files[job[r].name] = "usable"
         /\ \A q \in Request \ {r} : pc[q] \in Outside
<1> DEFINE n == job[r].name
           u == job[r].user
<1>1. /\ n \in Name
      /\ u \in User
      /\ catalog[n] = [username |-> u, status |-> "ready"]
      /\ byName[n] = None
  BY DEF IInv, Committed
<1>2. \A q \in Request \ {r} : pc[q] \in Outside
  BY DEF IInv, Mutex, InRow, Outside
<1>3. catalog[n] # None
  BY <1>1 DEF Row, Status
<1>4. files[n] = "usable"
  BY <1>1, <1>3 DEF IInv, Safety, Reopenable
<1>5. ASSUME byUser[u] # None PROVE FALSE
  <2>1. PICK m \in Name : byUser[u] = m
    BY <1>1, <1>5 DEF IInv, TypeOK
  <2>2. byName[m] = u
    BY <1>1, <2>1 DEF IInv, Safety, MapsAgree
  <2>3. catalog[m] # None /\ catalog[m].username = u
    BY <1>1, <2>2 DEF IInv, Safety, MapsAgree
  <2>4. m = n
    BY <1>1, <1>3, <2>3 DEF IInv, Safety, Reopenable
  <2> QED
    BY <1>1, <2>2, <2>4
<1> QED
  BY <1>1, <1>2, <1>4, <1>5

LEMMA CallStep ==
  ASSUME IInv, NEW r \in Request, NEW up \in Upload, Call(r, up)
  PROVE  IInv'
<1>1. TypeOK'
  BY DEF IInv, TypeOK, Step, Job, NoJob, Upload, Call
<1>2. Mutex' /\ Offline'
  BY DEF IInv, Mutex, Offline, TypeOK, Outside, Call
<1>3. Reserved'
  BY DEF IInv, Reserved, TypeOK, InTx, Call
<1>4. Committed'
  BY DEF IInv, Committed, TypeOK, InRow, Call
<1>5. AcknowledgedKept' /\ Reopenable' /\ MapsAgree'
  BY DEF IInv, Safety, AcknowledgedKept, Reopenable, MapsAgree, Call
<1>6. PoolsAccounted'
  BY DEF IInv, Safety, PoolsAccounted, Call
<1> QED
  BY <1>1, <1>2, <1>3, <1>4, <1>5, <1>6 DEF IInv, Safety

LEMMA LockStep ==
  ASSUME IInv, NEW r \in Request, Lock(r)
  PROVE  IInv'
<1>1. TypeOK'
  BY DEF IInv, TypeOK, Step, Lock
<1>2. Mutex' /\ Offline'
  BY DEF IInv, Mutex, Offline, Lock
<1>3. Reserved'
  BY DEF IInv, Reserved, TypeOK, InTx, Lock
<1>4. Committed'
  BY DEF IInv, Committed, TypeOK, InRow, Lock
<1>5. AcknowledgedKept' /\ Reopenable' /\ MapsAgree'
  BY DEF IInv, Safety, AcknowledgedKept, Reopenable, MapsAgree, Lock
<1>6. PoolsAccounted'
  BY DEF IInv, Safety, PoolsAccounted, Lock
<1> QED
  BY <1>1, <1>2, <1>3, <1>4, <1>5, <1>6 DEF IInv, Safety

LEMMA CheckClosedStep ==
  ASSUME IInv, NEW r \in Request, CheckClosed(r)
  PROVE  IInv'
<1>1. TypeOK'
  BY DEF IInv, TypeOK, Step, Job, NoJob, Upload, CheckClosed
<1>2. Mutex' /\ Offline'
  BY DEF IInv, Mutex, Offline, TypeOK, Outside, CheckClosed
<1>3. Reserved'
  BY DEF IInv, Reserved, Mutex, TypeOK, Outside, InTx, CheckClosed
<1>4. Committed'
  BY DEF IInv, Committed, TypeOK, InRow, CheckClosed
<1>5. AcknowledgedKept' /\ Reopenable' /\ MapsAgree'
  BY DEF IInv, Safety, AcknowledgedKept, Reopenable, MapsAgree, CheckClosed
<1>6. PoolsAccounted'
  BY DEF IInv, Safety, PoolsAccounted, TypeOK, CheckClosed
<1> QED
  BY <1>1, <1>2, <1>3, <1>4, <1>5, <1>6 DEF IInv, Safety

LEMMA ReserveStep ==
  ASSUME IInv, NEW r \in Request, Reserve(r)
  PROVE  IInv'
<1>1. PICK n \in Name, u \in User :
        /\ catalog[n] = None
        /\ \A m \in Name : catalog[m] # None => catalog[m].username # u
        /\ tx' = [name |-> n, username |-> u, status |-> "creating"]
        /\ job' = [job EXCEPT ![r] = [upload |-> job[r].upload, name |-> n, user |-> u]]
  BY DEF Reserve
<1>2. /\ job'[r].name = n /\ job'[r].user = u
      /\ \A q \in Request \ {r} : job'[q] = job[q]
      /\ job' \in [Request -> Job]
  <2> DEFINE mine == [upload |-> job[r].upload, name |-> n, user |-> u]
  <2>1. job \in [Request -> Job]
    BY DEF IInv, TypeOK
  <2>2. mine \in Job
    BY <2>1 DEF Job
  <2>3. job' = [job EXCEPT ![r] = mine]
    BY <1>1
  <2> QED
    BY <2>1, <2>2, <2>3
<1>3. tx' \in Pending
  BY <1>1 DEF Pending, Status
<1>4. pc' = [pc EXCEPT ![r] = "file"] /\ pc[r] = "begin"
  BY DEF Reserve
<1>5. \A q \in Request \ {r} : pc'[q] \in Outside
  BY <1>4 DEF IInv, TypeOK, Mutex, Outside
<1>6. TypeOK'
  BY <1>2, <1>3, <1>4 DEF IInv, TypeOK, Reserve, Step
<1>7. Mutex' /\ Offline'
  BY DEF IInv, Mutex, Offline, TypeOK, Outside, Reserve
<1>8. Reserved'
  BY <1>1, <1>2, <1>3, <1>4, <1>5 DEF IInv, TypeOK, Reserved, Outside, InTx, Reserve
<1>9. Committed'
  BY <1>2, <1>4, <1>5 DEF IInv, TypeOK, Committed, Outside, InRow, Reserve
<1>10. AcknowledgedKept' /\ Reopenable' /\ MapsAgree'
  BY DEF IInv, Safety, AcknowledgedKept, Reopenable, MapsAgree, Reserve
<1>11. PoolsAccounted'
  BY <1>4, <1>5 DEF IInv, Safety, TypeOK, PoolsAccounted, Outside, Reserve
<1> QED
  BY <1>6, <1>7, <1>8, <1>9, <1>10, <1>11 DEF IInv, Safety

LEMMA ReserveFailsStep ==
  ASSUME IInv, NEW r \in Request, ReserveFails(r)
  PROVE  IInv'
<1>1. TypeOK'
  BY DEF IInv, TypeOK, Step, Job, NoJob, Upload, ReserveFails
<1>2. Mutex' /\ Offline'
  BY DEF IInv, Mutex, Offline, TypeOK, Outside, ReserveFails
<1>3. Reserved'
  BY DEF IInv, Reserved, Mutex, TypeOK, Outside, InTx, ReserveFails
<1>4. Committed'
  BY DEF IInv, Committed, TypeOK, InRow, ReserveFails
<1>5. AcknowledgedKept' /\ Reopenable' /\ MapsAgree'
  BY DEF IInv, Safety, AcknowledgedKept, Reopenable, MapsAgree, ReserveFails
<1>6. PoolsAccounted'
  BY DEF IInv, Safety, PoolsAccounted, ReserveFails
<1> QED
  BY <1>1, <1>2, <1>3, <1>4, <1>5, <1>6 DEF IInv, Safety

LEMMA WriteFileStep ==
  ASSUME IInv, NEW r \in Request, WriteFile(r)
  PROVE  IInv'
<1>1. TypeOK'
  BY DEF IInv, Safety, TypeOK, Mutex, Outside, Reserved, Committed, InTx,
       InRow, Row, Pending, Job, NoJob, Step, Status, Upload, Content, Phase,
       WriteFile
<1>2. Mutex' /\ Offline'
  BY DEF IInv, Mutex, Offline, TypeOK, Outside, WriteFile
<1>3. Reserved'
  BY DEF IInv, Reserved, Mutex, TypeOK, Outside, InTx, WriteFile
<1>4. Committed'
  BY DEF IInv, Committed, TypeOK, InRow, WriteFile
<1>5. AcknowledgedKept'
  BY InTxFacts DEF IInv, Safety, InTx, AcknowledgedKept, TypeOK, WriteFile
<1>6. Reopenable'
  BY DEF IInv, Safety, Reopenable, TypeOK, Reserved, InTx, WriteFile
<1>7. MapsAgree'
  BY DEF IInv, Safety, MapsAgree, WriteFile
<1>8. PoolsAccounted'
  BY DEF IInv, Safety, PoolsAccounted, WriteFile
<1> QED
  BY <1>1, <1>2, <1>3, <1>4, <1>5, <1>6, <1>7, <1>8 DEF IInv, Safety

LEMMA WriteFileFailsStep ==
  ASSUME IInv, NEW r \in Request, WriteFileFails(r)
  PROVE  IInv'
<1>1. TypeOK'
  BY DEF IInv, Safety, TypeOK, Mutex, Outside, Reserved, Committed, InTx,
       InRow, Row, Pending, Job, NoJob, Step, Status, Upload, Content, Phase,
       WriteFileFails
<1>2. Mutex' /\ Offline'
  BY DEF IInv, Mutex, Offline, TypeOK, Outside, WriteFileFails
<1>3. Reserved'
  BY DEF IInv, Reserved, Mutex, TypeOK, Outside, InTx, WriteFileFails
<1>4. Committed'
  BY DEF IInv, Committed, TypeOK, InRow, WriteFileFails
<1>5. AcknowledgedKept'
  BY InTxFacts DEF IInv, Safety, InTx, AcknowledgedKept, TypeOK, WriteFileFails
<1>6. Reopenable'
  BY DEF IInv, Safety, Reopenable, TypeOK, Reserved, InTx, WriteFileFails
<1>7. MapsAgree'
  BY DEF IInv, Safety, MapsAgree, WriteFileFails
<1>8. PoolsAccounted'
  BY DEF IInv, Safety, PoolsAccounted, WriteFileFails
<1> QED
  BY <1>1, <1>2, <1>3, <1>4, <1>5, <1>6, <1>7, <1>8 DEF IInv, Safety

LEMMA ValidateStep ==
  ASSUME IInv, NEW r \in Request, Validate(r)
  PROVE  IInv'
<1>1. TypeOK'
  BY DEF IInv, TypeOK, Step, Validate
<1>2. Mutex' /\ Offline'
  BY DEF IInv, Mutex, Offline, TypeOK, Outside, Validate
<1>3. Reserved'
  BY DEF IInv, Reserved, TypeOK, InTx, Validate
<1>4. Committed'
  BY DEF IInv, Committed, TypeOK, InRow, Validate
<1>5. AcknowledgedKept' /\ Reopenable' /\ MapsAgree'
  BY DEF IInv, Safety, AcknowledgedKept, Reopenable, MapsAgree, Validate
<1>6. PoolsAccounted'
  BY DEF IInv, Safety, PoolsAccounted, Validate
<1> QED
  BY <1>1, <1>2, <1>3, <1>4, <1>5, <1>6 DEF IInv, Safety

LEMMA ValidateCloseFailsStep ==
  ASSUME IInv, NEW r \in Request, ValidateCloseFails(r)
  PROVE  IInv'
<1>1. TypeOK'
  BY DEF IInv, TypeOK, Step, Job, NoJob, Upload, ValidateCloseFails
<1>2. Mutex' /\ Offline'
  BY DEF IInv, Mutex, Offline, TypeOK, Outside, ValidateCloseFails
<1>3. Reserved'
  BY DEF IInv, Reserved, Mutex, TypeOK, Outside, InTx, ValidateCloseFails
<1>4. Committed'
  BY DEF IInv, Committed, TypeOK, InRow, ValidateCloseFails
<1>5. AcknowledgedKept' /\ Reopenable' /\ MapsAgree'
  BY DEF IInv, Safety, AcknowledgedKept, Reopenable, MapsAgree,
       ValidateCloseFails
<1>6. PoolsAccounted'
  BY DEF IInv, Safety, PoolsAccounted, ValidateCloseFails
<1> QED
  BY <1>1, <1>2, <1>3, <1>4, <1>5, <1>6 DEF IInv, Safety

LEMMA DiscardStep ==
  ASSUME IInv, NEW r \in Request, Discard(r)
  PROVE  IInv'
<1>1. TypeOK'
  BY DEF IInv, Safety, TypeOK, Mutex, Outside, Reserved, Committed, InTx,
       InRow, Row, Pending, Job, NoJob, Step, Status, Upload, Content, Phase,
       Discard
<1>2. Mutex' /\ Offline'
  BY DEF IInv, Mutex, Offline, TypeOK, Outside, Discard
<1>3. Reserved'
  BY DEF IInv, Reserved, Mutex, TypeOK, Outside, InTx, Discard
<1>4. Committed'
  BY DEF IInv, Committed, TypeOK, InRow, Discard
<1>5. AcknowledgedKept'
  BY InTxFacts DEF IInv, Safety, InTx, AcknowledgedKept, TypeOK, Discard
<1>6. Reopenable'
  BY DEF IInv, Safety, Reopenable, TypeOK, Reserved, InTx, Discard
<1>7. MapsAgree'
  BY DEF IInv, Safety, MapsAgree, Discard
<1>8. PoolsAccounted'
  BY DEF IInv, Safety, PoolsAccounted, Discard
<1> QED
  BY <1>1, <1>2, <1>3, <1>4, <1>5, <1>6, <1>7, <1>8 DEF IInv, Safety

LEMMA MarkReadyStep ==
  ASSUME IInv, NEW r \in Request, MarkReady(r)
  PROVE  IInv'
<1>1. TypeOK'
  BY DEF IInv, TypeOK, Step, Row, Pending, Status, Reserved, InTx, MarkReady
<1>2. Mutex' /\ Offline'
  BY DEF IInv, Mutex, Offline, TypeOK, Outside, MarkReady
<1>3. Reserved'
  <2>1. tx \in Pending /\ tx' \in Pending /\ tx'.status = "ready"
        /\ tx'.name = tx.name /\ tx'.username = tx.username
    BY DEF IInv, Reserved, InTx, MarkReady, Pending, Status
  <2> QED
    BY <2>1, InTxFacts DEF IInv, TypeOK, Reserved, Outside, InTx, MarkReady
<1>4. Committed'
  BY DEF IInv, Committed, TypeOK, InRow, MarkReady
<1>5. AcknowledgedKept' /\ Reopenable' /\ MapsAgree'
  BY DEF IInv, Safety, AcknowledgedKept, Reopenable, MapsAgree, MarkReady
<1>6. PoolsAccounted'
  BY DEF IInv, Safety, PoolsAccounted, MarkReady
<1> QED
  BY <1>1, <1>2, <1>3, <1>4, <1>5, <1>6 DEF IInv, Safety

LEMMA CommitStep ==
  ASSUME IInv, NEW r \in Request, Commit(r)
  PROVE  IInv'
<1>1. TypeOK'
  BY DEF IInv, TypeOK, Step, Row, Pending, Status, Reserved, InTx, Commit
<1>2. Mutex' /\ Offline'
  BY DEF IInv, Mutex, Offline, TypeOK, Outside, Commit
<1>3. Reserved'
  BY DEF IInv, Reserved, Mutex, TypeOK, Outside, InTx, Commit
<1>4. Committed'
  BY DEF IInv, Safety, TypeOK, Mutex, Reserved, Committed, MapsAgree,
       Outside, InTx, InRow, Pending, Row, Job, Commit
<1>5. AcknowledgedKept'
  BY DEF IInv, Safety, TypeOK, Mutex, Offline, Reserved, Committed, InTx,
       InRow, Outside, Row, Pending, AcknowledgedKept, MapsAgree, Commit
<1>6. Reopenable'
  BY DEF IInv, Safety, Reopenable, TypeOK, Reserved, InTx, Commit
<1>7. MapsAgree'
  BY DEF IInv, Safety, MapsAgree, TypeOK, Reserved, InTx, Commit
<1>8. PoolsAccounted'
  BY DEF IInv, Safety, PoolsAccounted, Commit
<1> QED
  BY <1>1, <1>2, <1>3, <1>4, <1>5, <1>6, <1>7, <1>8 DEF IInv, Safety

LEMMA OpenPoolStep ==
  ASSUME IInv, NEW r \in Request, OpenPool(r)
  PROVE  IInv'
<1>1. TypeOK'
  BY ZenonT(60) DEF IInv, Safety, TypeOK, Mutex, Outside, Reserved, Committed, InTx,
       InRow, Row, Pending, Job, NoJob, Step, Status, Upload, Content, Phase,
       OpenPool
<1>2. Mutex' /\ Offline'
  BY DEF IInv, Mutex, Offline, TypeOK, Outside, OpenPool
<1>3. Reserved'
  BY DEF IInv, Reserved, TypeOK, InTx, OpenPool
<1>4. Committed'
  BY DEF IInv, Committed, TypeOK, InRow, OpenPool
<1>5. AcknowledgedKept'
  BY DEF IInv, Safety, AcknowledgedKept, OpenPool
<1>6. Reopenable'
  BY DEF IInv, Safety, Reopenable, OpenPool
<1>7. MapsAgree'
  BY DEF IInv, Safety, MapsAgree, OpenPool
<1>8. PoolsAccounted'
  BY DEF IInv, Safety, PoolsAccounted, TypeOK, OpenPool
<1> QED
  BY <1>1, <1>2, <1>3, <1>4, <1>5, <1>6, <1>7, <1>8 DEF IInv, Safety

LEMMA OpenPoolFailsStep ==
  ASSUME IInv, NEW r \in Request, OpenPoolFails(r)
  PROVE  IInv'
<1>1. TypeOK'
  BY DEF IInv, TypeOK, Step, Job, NoJob, Upload, OpenPoolFails
<1>2. Mutex' /\ Offline'
  BY DEF IInv, Mutex, Offline, TypeOK, Outside, OpenPoolFails
<1>3. Reserved'
  BY DEF IInv, Reserved, Mutex, TypeOK, Outside, InTx, OpenPoolFails
<1>4. Committed'
  BY DEF IInv, Committed, TypeOK, InRow, OpenPoolFails
<1>5. AcknowledgedKept' /\ Reopenable' /\ MapsAgree'
  BY DEF IInv, Safety, AcknowledgedKept, Reopenable, MapsAgree, OpenPoolFails
<1>6. PoolsAccounted'
  BY DEF IInv, Safety, PoolsAccounted, OpenPoolFails
<1> QED
  BY <1>1, <1>2, <1>3, <1>4, <1>5, <1>6 DEF IInv, Safety

LEMMA PublishStep ==
  ASSUME IInv, NEW r \in Request, Publish(r)
  PROVE  IInv'
<1> DEFINE n == job[r].name
           u == job[r].user
<1>1. /\ n \in Name /\ u \in User
      /\ catalog[n] = [username |-> u, status |-> "ready"]
      /\ catalog[n] # None
      /\ byName[n] = None /\ byUser[u] = None
      /\ files[n] = "usable"
      /\ \A q \in Request \ {r} : pc[q] \in Outside
  <2>1. pc[r] \in InRow
    BY DEF Publish, InRow
  <2> QED
    BY <2>1, InRowFacts DEF Row, Status
<1>2. /\ byName' = [byName EXCEPT ![n] = u]
      /\ byUser' = [byUser EXCEPT ![u] = n]
      /\ acked' = acked \cup {<<n, u>>}
      /\ UNCHANGED <<catalog, files, phase, mgmtOpen, pools>>
      /\ phase = "serving"
  BY DEF Publish
<1>3. pc' = [pc EXCEPT ![r] = "idle"] /\ job' = [job EXCEPT ![r] = NoJob]
  BY DEF Publish
<1>4. \A q \in Request : pc'[q] \in Outside
  BY <1>1, <1>3 DEF IInv, TypeOK, Outside
<1>5. TypeOK'
  BY <1>1, <1>2, <1>3 DEF IInv, TypeOK, NoJob, Job, Upload, Step, Publish
<1>6. Mutex' /\ Offline'
  BY <1>2, <1>4 DEF Mutex, Offline
<1>7. Reserved' /\ Committed'
  BY <1>4 DEF Reserved, Committed, Outside, InTx, InRow
<1>8. MapsAgree'
  <2>1. \A m \in Name, v \in User : byName'[m] = v <=> byUser'[v] = m
    BY <1>1, <1>2 DEF IInv, TypeOK, Safety, MapsAgree
  <2>2. \A m \in Published' : Ready(m)' /\ catalog'[m].username = byName'[m]
    BY <1>1, <1>2 DEF IInv, TypeOK, Safety, MapsAgree
  <2> QED
    BY <2>1, <2>2 DEF MapsAgree
<1>9. AcknowledgedKept'
  <2> SUFFICES ASSUME NEW m \in Name, NEW v \in User, <<m, v>> \in acked'
               PROVE  /\ catalog'[m] = [username |-> v, status |-> "ready"]
                      /\ files'[m] = "usable"
                      /\ byUser'[v] = m /\ byName'[m] = v
    BY <1>2 DEF AcknowledgedKept
  <2>1. CASE <<m, v>> = <<n, u>>
    BY <1>1, <1>2, <2>1 DEF IInv, TypeOK
  <2>2. CASE <<m, v>> \in acked
    <3>1. /\ catalog[m] = [username |-> v, status |-> "ready"]
          /\ files[m] = "usable"
          /\ byUser[v] = m /\ byName[m] = v
      BY <1>2, <2>2 DEF IInv, Safety, AcknowledgedKept
    <3>2. m # n /\ v # u
      BY <1>1, <3>1
    <3> QED
      BY <1>1, <1>2, <3>1, <3>2 DEF IInv, TypeOK
  <2> QED
    BY <1>2, <2>1, <2>2
<1>10. Reopenable'
  BY <1>2 DEF IInv, Safety, Reopenable
<1>11. PoolsAccounted'
  <2>1. \A q \in Request : pc[q] = "publish" <=> q = r
    BY <1>1 DEF Publish, Outside
  <2>2. pools = Published \cup {n}
    BY <2>1 DEF IInv, Safety, PoolsAccounted
  <2>3. Published' = Published \cup {n}
    BY <1>1, <1>2 DEF IInv, TypeOK
  <2>4. {job'[q].name : q \in {q \in Request : pc'[q] = "publish"}} = {}
    BY <1>4 DEF Outside
  <2> QED
    BY <1>2, <2>2, <2>3, <2>4 DEF PoolsAccounted
<1> QED
  BY <1>5, <1>6, <1>7, <1>8, <1>9, <1>10, <1>11 DEF IInv, Safety

LEMMA RefusePublishStep ==
  ASSUME IInv, NEW r \in Request, RefusePublish(r)
  PROVE  IInv'
<1>1. TypeOK'
  BY DEF IInv, TypeOK, Step, Job, NoJob, Upload, RefusePublish
<1>2. Mutex' /\ Offline'
  BY DEF IInv, Mutex, Offline, TypeOK, Outside, RefusePublish
<1>3. Reserved'
  BY DEF IInv, Reserved, Mutex, TypeOK, Outside, InTx, RefusePublish
<1>4. Committed'
  BY DEF IInv, Committed, TypeOK, InRow, RefusePublish
<1>5. AcknowledgedKept'
  BY DEF IInv, Safety, AcknowledgedKept, RefusePublish
<1>6. Reopenable'
  BY DEF IInv, Safety, Reopenable, RefusePublish
<1>7. MapsAgree'
  BY DEF IInv, Safety, MapsAgree, RefusePublish
<1>8. PoolsAccounted'
  <2>1. pc[r] \in InRow
    BY DEF RefusePublish, InRow
  <2>2. /\ \A q \in Request : pc[q] = "publish" <=> q = r
        /\ \A q \in Request : pc'[q] # "publish"
    BY <2>1, InRowFacts DEF IInv, TypeOK, RefusePublish, Outside
  <2>3. job[r].name \notin Published
    BY <2>1, InRowFacts
  <2> QED
    BY <2>2, <2>3 DEF IInv, Safety, PoolsAccounted, RefusePublish
<1> QED
  BY <1>1, <1>2, <1>3, <1>4, <1>5, <1>6, <1>7, <1>8 DEF IInv, Safety

LEMMA StartStep ==
  ASSUME IInv, Start
  PROVE  IInv'
<1>1. TypeOK'
  BY DEF IInv, TypeOK, Phase, Start
<1>2. Mutex' /\ Offline'
  BY DEF IInv, Mutex, Offline, Start
<1>3. Reserved'
  BY DEF IInv, Reserved, Start
<1>4. Committed'
  BY DEF IInv, Committed, Start
<1>5. AcknowledgedKept'
  BY DEF IInv, Safety, AcknowledgedKept, Start
<1>6. Reopenable'
  BY DEF IInv, Safety, Reopenable, Start
<1>7. MapsAgree'
  BY DEF IInv, Safety, MapsAgree, Start
<1>8. PoolsAccounted'
  BY DEF IInv, Safety, PoolsAccounted, Start
<1> QED
  BY <1>1, <1>2, <1>3, <1>4, <1>5, <1>6, <1>7, <1>8 DEF IInv, Safety

LEMMA ReconcileStep ==
  ASSUME IInv, Reconcile
  PROVE  IInv'
<1>1. TypeOK'
  BY DEF IInv, Safety, TypeOK, Mutex, Outside, Reserved, Committed, InTx,
       InRow, Row, Pending, Job, NoJob, Step, Status, Upload, Content, Phase,
       Reconcile
<1>2. Mutex' /\ Offline'
  BY DEF IInv, Mutex, Offline, Reconcile
<1>3. Reserved'
  BY DEF IInv, Reserved, Mutex, TypeOK, Outside, InTx, Reconcile
<1>4. Committed'
  BY DEF IInv, Committed, Reconcile
<1>5. AcknowledgedKept'
  BY DEF IInv, Safety, AcknowledgedKept, Reconcile
<1>6. Reopenable'
  BY DEF IInv, Safety, Reopenable, Reconcile
<1>7. MapsAgree'
  BY DEF IInv, Safety, MapsAgree, Reconcile
<1>8. PoolsAccounted'
  BY DEF IInv, Safety, PoolsAccounted, Reconcile
<1> QED
  BY <1>1, <1>2, <1>3, <1>4, <1>5, <1>6, <1>7, <1>8 DEF IInv, Safety

LEMMA LoadReadyStep ==
  ASSUME IInv, LoadReady
  PROVE  IInv'
<1>1. TypeOK'
  BY DEF IInv, Safety, TypeOK, Mutex, Outside, Reserved, Committed, InTx,
       InRow, Row, Pending, Job, NoJob, Step, Status, Upload, Content, Phase,
       LoadReady
<1>2. Mutex' /\ Offline'
  BY DEF IInv, Mutex, Offline, LoadReady
<1>3. Reserved'
  BY DEF IInv, Reserved, LoadReady
<1>4. Committed'
  BY DEF IInv, Committed, Mutex, TypeOK, Outside, InRow, LoadReady
<1>5. AcknowledgedKept'
  <2> SUFFICES ASSUME NEW n \in Name, NEW u \in User, <<n, u>> \in acked
               PROVE  /\ catalog[n] = [username |-> u, status |-> "ready"]
                      /\ files[n] = "usable"
                      /\ byUser'[u] = n /\ byName'[n] = u
    BY DEF AcknowledgedKept, LoadReady
  <2>1. catalog[n] = [username |-> u, status |-> "ready"] /\ files[n] = "usable"
    BY DEF IInv, Safety, AcknowledgedKept
  <2>2. catalog[n] # None /\ catalog[n].status = "ready" /\ catalog[n].username = u
    BY <2>1 DEF Row, Status
  <2>3. \A m \in Name : Ready(m) /\ catalog[m].username = u => m = n
    BY <2>2 DEF LoadReady
  <2> QED
    BY <2>1, <2>2, <2>3 DEF LoadReady
<1>6. Reopenable'
  BY DEF IInv, Safety, Reopenable, LoadReady
<1>7. MapsAgree'
  BY DEF IInv, Safety, MapsAgree, LoadReady
<1>8. PoolsAccounted'
  BY DEF IInv, Safety, TypeOK, Mutex, Offline, Committed, InRow,
       PoolsAccounted, Outside, Row, LoadReady
<1> QED
  BY <1>1, <1>2, <1>3, <1>4, <1>5, <1>6, <1>7, <1>8 DEF IInv, Safety

LEMMA OpenFailsStep ==
  ASSUME IInv, OpenFails
  PROVE  IInv'
<1>1. TypeOK'
  BY DEF IInv, TypeOK, Phase, OpenFails
<1>2. Mutex' /\ Offline'
  BY DEF IInv, Mutex, Offline, OpenFails
<1>3. Reserved'
  BY DEF IInv, Reserved, OpenFails
<1>4. Committed'
  BY DEF IInv, Committed, OpenFails
<1>5. AcknowledgedKept'
  BY DEF IInv, Safety, AcknowledgedKept, OpenFails
<1>6. Reopenable'
  BY DEF IInv, Safety, Reopenable, OpenFails
<1>7. MapsAgree'
  BY DEF IInv, Safety, MapsAgree, OpenFails
<1>8. PoolsAccounted'
  BY DEF IInv, Safety, PoolsAccounted, OpenFails
<1> QED
  BY <1>1, <1>2, <1>3, <1>4, <1>5, <1>6, <1>7, <1>8 DEF IInv, Safety

LEMMA CloseStartStep ==
  ASSUME IInv, CloseStart
  PROVE  IInv'
<1>1. TypeOK'
  BY DEF IInv, TypeOK, Phase, CloseStart
<1>2. Mutex' /\ Offline'
  BY DEF IInv, Mutex, Offline, CloseStart
<1>3. Reserved'
  BY DEF IInv, Reserved, CloseStart
<1>4. Committed'
  BY DEF IInv, Committed, CloseStart
<1>5. AcknowledgedKept'
  BY DEF IInv, Safety, AcknowledgedKept, CloseStart
<1>6. Reopenable'
  BY DEF IInv, Safety, Reopenable, CloseStart
<1>7. MapsAgree'
  BY DEF IInv, Safety, MapsAgree, CloseStart
<1>8. PoolsAccounted'
  <2>1. \A q \in Request : pc[q] = "publish" => job[q].name \notin Published
    BY InRowFacts DEF InRow
  <2>2. pools' = pools \ Published /\ Published' = {}
    BY DEF CloseStart
  <2>3. pc' = pc /\ job' = job
    BY DEF CloseStart
  <2> QED
    BY <2>1, <2>2, <2>3 DEF IInv, Safety, PoolsAccounted
<1> QED
  BY <1>1, <1>2, <1>3, <1>4, <1>5, <1>6, <1>7, <1>8 DEF IInv, Safety

LEMMA CloseMgmtStep ==
  ASSUME IInv, CloseMgmt
  PROVE  IInv'
<1>1. TypeOK'
  BY DEF IInv, TypeOK, CloseMgmt
<1>2. Mutex' /\ Offline'
  BY DEF IInv, Mutex, Offline, CloseMgmt
<1>3. Reserved'
  BY DEF IInv, Reserved, CloseMgmt
<1>4. Committed'
  BY DEF IInv, Committed, CloseMgmt
<1>5. AcknowledgedKept' /\ Reopenable' /\ MapsAgree'
  BY DEF IInv, Safety, AcknowledgedKept, Reopenable, MapsAgree, CloseMgmt
<1>6. PoolsAccounted'
  BY DEF IInv, Safety, PoolsAccounted, CloseMgmt
<1> QED
  BY <1>1, <1>2, <1>3, <1>4, <1>5, <1>6 DEF IInv, Safety

LEMMA CloseEndStep ==
  ASSUME IInv, CloseEnd
  PROVE  IInv'
<1>1. TypeOK'
  BY DEF IInv, TypeOK, Phase, CloseEnd
<1>2. Mutex' /\ Offline'
  BY DEF IInv, Mutex, Offline, CloseEnd
<1>3. Reserved'
  BY DEF IInv, Reserved, CloseEnd
<1>4. Committed'
  BY DEF IInv, Committed, CloseEnd
<1>5. AcknowledgedKept'
  BY DEF IInv, Safety, AcknowledgedKept, CloseEnd
<1>6. Reopenable'
  BY DEF IInv, Safety, Reopenable, CloseEnd
<1>7. MapsAgree'
  BY DEF IInv, Safety, MapsAgree, CloseEnd
<1>8. PoolsAccounted'
  BY DEF IInv, Safety, PoolsAccounted, CloseEnd
<1> QED
  BY <1>1, <1>2, <1>3, <1>4, <1>5, <1>6, <1>7, <1>8 DEF IInv, Safety

LEMMA HaltStep ==
  ASSUME IInv, Halt
  PROVE  IInv'
<1>1. TypeOK'
  BY DEF IInv, Safety, TypeOK, Mutex, Outside, Reserved, Committed, InTx,
       InRow, Row, Pending, Job, NoJob, Step, Status, Upload, Content, Phase,
       Halt
<1>2. Mutex' /\ Offline'
  BY DEF IInv, Mutex, Offline, TypeOK, Outside, Halt
<1>3. Reserved'
  BY DEF IInv, Reserved, TypeOK, InTx, Halt
<1>4. Committed'
  BY DEF IInv, Committed, TypeOK, InRow, Halt
<1>5. AcknowledgedKept'
  BY DEF IInv, Safety, AcknowledgedKept, Halt
<1>6. Reopenable'
  BY DEF IInv, Safety, Reopenable, Halt
<1>7. MapsAgree'
  BY DEF IInv, Safety, MapsAgree, Halt
<1>8. PoolsAccounted'
  BY DEF IInv, Safety, PoolsAccounted, Halt
<1> QED
  BY <1>1, <1>2, <1>3, <1>4, <1>5, <1>6, <1>7, <1>8 DEF IInv, Safety
-----------------------------------------------------------------------------
\* An empty catalog, before the first Open.
LEMMA InitIInv == Init => IInv
<1> SUFFICES ASSUME Init PROVE IInv
  OBVIOUS
<1>1. TypeOK
  BY DEF Init, TypeOK, NoJob, Job, Content, Phase, Upload, Step
<1>2. Mutex /\ Offline /\ Reserved /\ Committed
  BY DEF Init, Mutex, Offline, Reserved, Committed, Outside, InTx, InRow
<1>3. AcknowledgedKept /\ Reopenable
  BY DEF Init, AcknowledgedKept, Reopenable
<1>4. MapsAgree /\ PoolsAccounted
  BY DEF Init, MapsAgree, PoolsAccounted
<1> QED
  BY <1>1, <1>2, <1>3, <1>4 DEF IInv, Safety

\* A step that changes nothing keeps the inductive invariant.
LEMMA StutterIInv == IInv /\ UNCHANGED vars => IInv'
  BY DEF vars, IInv, Safety, TypeOK, Mutex, Offline, Reserved, Committed,
       AcknowledgedKept, Reopenable, MapsAgree, PoolsAccounted

\* Every step keeps the inductive invariant.
LEMMA NextIInv == IInv /\ [Next]_vars => IInv'
<1> SUFFICES ASSUME IInv, [Next]_vars PROVE IInv'
  OBVIOUS
<1>1. ASSUME NEW r \in Request, NEW up \in Upload, Call(r, up) PROVE IInv'
  BY <1>1, CallStep
<1>2. ASSUME NEW r \in Request, Lock(r) PROVE IInv'
  BY <1>2, LockStep
<1>3. ASSUME NEW r \in Request, Work(r) PROVE IInv'
  BY <1>3, CheckClosedStep, ReserveStep, ReserveFailsStep, WriteFileStep,
       WriteFileFailsStep, ValidateStep, ValidateCloseFailsStep, DiscardStep,
       MarkReadyStep, CommitStep, OpenPoolStep, OpenPoolFailsStep,
       PublishStep, RefusePublishStep
     DEF Work
<1>4. CASE Start \/ Reconcile \/ LoadReady \/ OpenFails
  BY <1>4, StartStep, ReconcileStep, LoadReadyStep, OpenFailsStep
<1>5. CASE Close
  BY <1>5, CloseStartStep, CloseMgmtStep, CloseEndStep DEF Close
<1>6. CASE Halt
  BY <1>6, HaltStep
<1>7. CASE UNCHANGED vars
  BY <1>7, StutterIInv
<1> QED
  BY <1>1, <1>2, <1>3, <1>4, <1>5, <1>6, <1>7 DEF Next

\* Hence it holds throughout.
LEMMA Invariance == Spec => []IInv
<1> QED
  BY InitIInv, NextIInv, PTL DEF Spec

\* Every variable keeps its type, for any number of names and requests.
THEOREM TypeCorrect == Spec => []TypeOK
<1>1. IInv => TypeOK
  BY DEF IInv
<1> QED
  BY <1>1, Invariance, PTL

\* Credentials that Create or Import returned stay durable and, whenever the
\* store serves, reach their database.
THEOREM AcknowledgedIsKept == Spec => []AcknowledgedKept
<1>1. IInv => AcknowledgedKept
  BY DEF IInv, Safety
<1> QED
  BY <1>1, Invariance, PTL

\* No crash or failed step leaves a catalog that the next Open refuses.
THEOREM AlwaysReopenable == Spec => []Reopenable
<1>1. IInv => Reopenable
  BY DEF IInv, Safety
<1> QED
  BY <1>1, Invariance, PTL

\* The two maps describe one set of durable databases.
THEOREM MapsAlwaysAgree == Spec => []MapsAgree
<1>1. IInv => MapsAgree
  BY DEF IInv, Safety
<1> QED
  BY <1>1, Invariance, PTL

\* No tenant pool leaks, whatever Close interrupts.
THEOREM PoolsAlwaysAccounted == Spec => []PoolsAccounted
<1>1. IInv => PoolsAccounted
  BY DEF IInv, Safety
<1> QED
  BY <1>1, Invariance, PTL
-----------------------------------------------------------------------------
\* No step removes or alters a committed row, or its file.
LEMMA NextKeeps ==
  ASSUME IInv, [Next]_vars, NEW n \in Name, catalog[n] # None
  PROVE  catalog'[n] = catalog[n] /\ files'[n] = files[n]
<1>1. Ready(n) /\ files[n] = "usable"
  BY DEF IInv, Safety, Reopenable
<1>2. \A r \in Request : pc[r] \in InTx => job[r].name # n /\ tx.name = job[r].name
  BY InTxFacts DEF IInv, Reserved
<1>3. ASSUME NEW r \in Request, Work(r)
      PROVE  catalog'[n] = catalog[n] /\ files'[n] = files[n]
  <2>1. CASE WriteFile(r) \/ WriteFileFails(r) \/ Discard(r)
    BY <1>2, <2>1 DEF IInv, TypeOK, WriteFile, WriteFileFails, Discard, InTx
  <2>2. CASE Commit(r)
    BY <1>2, <2>2 DEF IInv, TypeOK, Commit, InTx
  <2>3. CASE CheckClosed(r) \/ Reserve(r) \/ ReserveFails(r) \/ Validate(r)
               \/ ValidateCloseFails(r) \/ MarkReady(r) \/ OpenPool(r)
               \/ OpenPoolFails(r) \/ Publish(r) \/ RefusePublish(r)
    BY <2>3 DEF CheckClosed, Reserve, ReserveFails, Validate,
         ValidateCloseFails, MarkReady, OpenPool, OpenPoolFails, Publish,
         RefusePublish
  <2> QED
    BY <1>3, <2>1, <2>2, <2>3 DEF Work
<1>4. CASE Reconcile
  BY <1>1, <1>4 DEF Reconcile
<1>5. CASE Start \/ LoadReady \/ OpenFails \/ Close \/ Halt \/ UNCHANGED vars
  BY <1>5 DEF Start, LoadReady, OpenFails, Close, CloseStart, CloseMgmt,
       CloseEnd, Halt, vars
<1>6. CASE \E r \in Request : (\E up \in Upload : Call(r, up)) \/ Lock(r) \/ Work(r)
  <2>1. PICK r \in Request : (\E up \in Upload : Call(r, up)) \/ Lock(r) \/ Work(r)
    BY <1>6
  <2>2. CASE Work(r)
    BY <1>3, <2>2
  <2>3. CASE (\E up \in Upload : Call(r, up)) \/ Lock(r)
    BY <2>3 DEF Call, Lock
  <2> QED
    BY <2>1, <2>2, <2>3
<1> QED
  BY <1>4, <1>5, <1>6 DEF Next

\* What is in the catalog stays there, row and file, whatever fails later.
THEOREM NothingIsTakenBack == Spec => NothingTakenBack
<1>1. IInv /\ [Next]_vars => [\A n \in Name : catalog[n] # None =>
                                 /\ catalog'[n] = catalog[n]
                                 /\ files'[n] = files[n]]_vars
  BY NextKeeps
<1> QED
  BY <1>1, Invariance, PTL DEF Spec, NothingTakenBack
-----------------------------------------------------------------------------
(***************************************************************************)
(* Store implements Provisioning                                           *)
(***************************************************************************)
LEMMA InitRefines == Init => P!Init
  BY DEF Init, P!Init

\* Steps that leave the catalog, the maps and the serving phase alone stutter.
LEMMA QuietRefines ==
  ASSUME catalog' = catalog, byName' = byName, acked' = acked,
         phase' = "serving" <=> phase = "serving"
  PROVE  UNCHANGED P!vars
  BY DEF P!vars

\* COMMIT provisions the database.
LEMMA CommitRefines ==
  ASSUME IInv, NEW r \in Request, Commit(r)
  PROVE  P!Next
<1>1. /\ tx \in Pending
      /\ catalog[tx.name] = None
      /\ \A m \in Name : catalog[m] # None => catalog[m].username # tx.username
      /\ tx.status = "ready"
  BY DEF IInv, Reserved, InTx, Commit
<1>2. catalog' = [catalog EXCEPT ![tx.name] =
                    [username |-> tx.username, status |-> "ready"]]
  BY <1>1 DEF Commit
<1>3. /\ [username |-> tx.username, status |-> "ready"] # None
      /\ tx.name \in Name /\ tx.username \in User /\ tx.username # None
  BY <1>1 DEF Row, Pending, Status
<1> DEFINE owner == [n \in Name |-> IF Ready(n) THEN catalog[n].username ELSE None]
<1>4. owner' = [owner EXCEPT ![tx.name] = tx.username]
  BY <1>2, <1>3 DEF IInv, TypeOK
<1>5. owner[tx.name] = None /\ \A m \in Name : owner[m] # tx.username
  BY <1>1, <1>3
<1> HIDE DEF owner
<1>6. P!Provision(tx.name, tx.username)
  BY <1>4, <1>5 DEF Commit, P!Provision, owner
<1> QED
  BY <1>3, <1>6 DEF P!Next, P!Provision

\* Publish announces it.
LEMMA PublishRefines ==
  ASSUME IInv, NEW r \in Request, Publish(r)
  PROVE  P!Next
<1> DEFINE n == job[r].name
           u == job[r].user
<1>1. pc[r] \in InRow
  BY DEF Publish, InRow
<1>2. /\ n \in Name /\ u \in User /\ u # None
      /\ catalog[n] = [username |-> u, status |-> "ready"]
      /\ catalog[n] # None
      /\ byName[n] = None
  BY <1>1, InRowFacts DEF Row, Status
<1>3. Published' = Published \cup {n}
  BY <1>2 DEF IInv, TypeOK, Publish
<1> QED
  BY <1>2, <1>3 DEF Publish, P!Announce, P!Durable, P!Next

\* The end of Open lets credentials work again.
LEMMA LoadRefines ==
  ASSUME IInv, LoadReady
  PROVE  P!Resume
<1>1. \A n \in Name : Ready(n) => catalog[n].username \in User
  BY DEF IInv, TypeOK, Row
<1>2. Published' = {n \in Name : Ready(n)}
  BY <1>1 DEF LoadReady
<1> QED
  BY <1>1, <1>2 DEF LoadReady, P!Resume, P!Durable

\* Close, and a death while serving, withdraw them.
LEMMA WithdrawRefines ==
  ASSUME IInv, phase = "serving", CloseStart \/ Halt
  PROVE  P!Withdraw
  BY DEF CloseStart, Halt, P!Withdraw

\* Every step maps to a step of Provisioning, or to none.
LEMMA NextRefines ==
  ASSUME IInv, [Next]_vars
  PROVE  [P!Next]_(P!vars)
<1>1. ASSUME NEW r \in Request, (\E up \in Upload : Call(r, up)) \/ Lock(r)
      PROVE  UNCHANGED P!vars
  BY <1>1, QuietRefines DEF Call, Lock
<1>2. ASSUME NEW r \in Request, Work(r)
      PROVE  P!Next \/ UNCHANGED P!vars
  <2>1. CASE Commit(r)
    BY <2>1, CommitRefines
  <2>2. CASE Publish(r)
    BY <2>2, PublishRefines
  <2>3. CASE CheckClosed(r) \/ Reserve(r) \/ ReserveFails(r) \/ WriteFile(r)
               \/ WriteFileFails(r) \/ Validate(r) \/ ValidateCloseFails(r)
               \/ Discard(r) \/ MarkReady(r) \/ OpenPool(r)
               \/ OpenPoolFails(r) \/ RefusePublish(r)
    BY <2>3, QuietRefines DEF CheckClosed, Reserve, ReserveFails, WriteFile,
         WriteFileFails, Validate, ValidateCloseFails, Discard, MarkReady,
         OpenPool, OpenPoolFails, RefusePublish
  <2> QED
    BY <1>2, <2>1, <2>2, <2>3 DEF Work
<1>3. CASE LoadReady
  BY <1>3, LoadRefines DEF P!Next
<1>4. CASE Reconcile
  <2>1. catalog' = catalog
    BY <1>4 DEF IInv, TypeOK, Safety, Reopenable, Reconcile
  <2> QED
    BY <1>4, <2>1, QuietRefines DEF Reconcile
<1>5. CASE Start \/ OpenFails \/ CloseMgmt \/ CloseEnd \/ UNCHANGED vars
  BY <1>5, QuietRefines DEF Start, OpenFails, CloseMgmt, CloseEnd, vars
<1>6. CASE CloseStart \/ (Halt /\ phase = "serving")
  BY <1>6, WithdrawRefines DEF P!Next, CloseStart
<1>7. CASE Halt /\ phase # "serving"
  BY <1>7, QuietRefines DEF IInv, Offline, Halt
<1>8. CASE \E r \in Request : (\E up \in Upload : Call(r, up)) \/ Lock(r) \/ Work(r)
  BY <1>1, <1>2, <1>8
<1> QED
  BY <1>3, <1>4, <1>5, <1>6, <1>7, <1>8 DEF Next, Close

\* Every behaviour of the store, failures, Close and crashes included, keeps
\* the abstract promise of Provisioning.
THEOREM StoreImplementsProvisioning == Spec => Provisions
<1>1. IInv /\ [Next]_vars => [P!Next]_(P!vars)
  BY NextRefines
<1> QED
  BY <1>1, InitRefines, Invariance, PTL DEF Spec, Provisions, P!Spec
=============================================================================
