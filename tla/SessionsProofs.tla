--------------------------- MODULE SessionsProofs ---------------------------
(***************************************************************************)
(* Proofs about Sessions, for any sets of sessions, connections and rows.  *)
(* What holds whatever the clients send comes first.  What the client is   *)
(* told is proved for clients that send none of three commands, and a disk *)
(* that never fills: with bareSavepoint and with rollbackTo the runs       *)
(* savepoint_leak and rollback_to show it violated, with a full disk the   *)
(* configuration MCSessionsDiskLost, and preparedBegin opens a transaction *)
(* that the session does not know of.                                      *)
(***************************************************************************)
EXTENDS Sessions, TLAPS

\* No savepoint outside a transaction, no ROLLBACK TO, no prepared BEGIN, and
\* no error on which SQLite ends a transaction by itself.
Orderly ==
    /\ Command \cap {"bareSavepoint", "rollbackTo", "preparedBegin"} = {}
    /\ ~DiskFills

Unpinned == {"commit", "rollback", "rollbackTo", "closeStmt"}

\* What a command in flight may count on: its guards still hold, and it has
\* the connection that it needs.
Routed ==
    \A s \in Session :
        /\ cmd[s] = None <=> pc[s] \in {"off", "ready", "reply"}
        /\ pc[s] \in {"off", "pin"} => pinned[s] = None
        /\ inTx[s] => pinned[s] # None
        /\ cmd[s] # None =>
             /\ cmd[s].op \in Command
             /\ Sensible(s, cmd[s].op)
             /\ cmd[s].op \in {"write", "execute"} => cmd[s].row # None
        /\ pc[s] = "run" => cmd[s].op \in Unpinned \/ pinned[s] # None

\* The first conjunct of ConnectionsArePrivate.
Exclusive ==
    \A s, t \in Session :
        s # t /\ pinned[s] # None => pinned[s] \notin {pinned[t], aux[t]}

\* The inductive invariant for all clients.
Base == TypeOK /\ Routed /\ Exclusive

\* The client, the session and SQLite agree on every connection at any time.
Agreed ==
    /\ \A s \in Session :
         /\ told[s] <=> pinned[s] # None /\ sqlTx[pinned[s]] = "begin"
         /\ told[s] => inTx[s] /\ mine[s] = writes[pinned[s]]
         /\ ~told[s] => mine[s] = {} /\ mark[s] = None
    /\ \A c \in Conn :
         /\ sqlTx[c] # "savepoint"
         /\ sqlTx[c] = "none" => writes[c] = {} /\ depth[c] = 0
         /\ sqlTx[c] # "none" => \E s \in Session : pinned[s] = c

\* Every row is in one place: in the database, undone, pending in one
\* transaction, or about to be written by one command.
Apart ==
    /\ promised \subseteq committed
    /\ revoked \cap committed = {}
    /\ \A s \in Session :
         /\ reply[s] \subseteq committed
         /\ mine[s] \cap (committed \cup revoked) = {}
         /\ \A t \in Session \ {s} : mine[s] \cap mine[t] = {}
         /\ cmd[s] # None =>
              /\ cmd[s].row \notin committed \cup revoked
              /\ \A t \in Session : cmd[s].row \notin mine[t]
              /\ \A t \in Session \ {s} :
                   cmd[t] # None /\ cmd[s].row # None => cmd[t].row # cmd[s].row

\* The inductive invariant for orderly clients.
IInv == Base /\ Agreed /\ Apart
-----------------------------------------------------------------------------
USE SessionsAssumption
USE DEF session, sqlite, client, Op, Runs, Finish, EndTx, EndSessionTx, ToldEnd

\* The pool is empty and nobody is connected.
LEMMA InitBase == Init => Base
<1> SUFFICES ASSUME Init PROVE Base
  OBVIOUS
<1>1. TypeOK
  BY DEF Init, TypeOK
<1>2. Routed
  BY DEF Init, Routed
<1>3. Exclusive
  BY DEF Init, Exclusive
<1> QED
  BY <1>1, <1>2, <1>3 DEF Base

\* A client sends a command: only what it waits for changes.
LEMMA BaseSubmit ==
  ASSUME Base, NEW s \in Session, Request(s)
  PROVE  Base'
<1>1. PICK op \in Command, r \in Row \cup {None} :
         /\ Submit(s, op, r)
         /\ op \in {"write", "execute"} => r # None
  BY DEF Request
<1> DEFINE job == [op |-> op, row |-> r]
<1>2. job \in [op : Op, row : Row \cup {None}] /\ job # None
  OBVIOUS
<1>3. TypeOK'
  BY <1>1, <1>2 DEF Base, TypeOK, Submit
<1>4. Routed'
  BY <1>1, <1>2 DEF Base, TypeOK, Routed, Sensible, Unpinned, Submit
<1>5. Exclusive'
  BY <1>1 DEF Base, Exclusive, Submit
<1> QED
  BY <1>3, <1>4, <1>5 DEF Base

\* A session takes a slot that no other one holds.
LEMMA BaseConnect ==
  ASSUME Base, NEW s \in Session, Connect(s) \/ Pin(s) \/ TakeAux(s)
  PROVE  Base'
<1>1. TypeOK'
  BY DEF Base, TypeOK, Connect, Pin, TakeAux
<1>2. Routed'
  BY DEF Base, TypeOK, Routed, Sensible, Unpinned, Connect, Pin, TakeAux
<1>3. Exclusive'
  BY DEF Base, TypeOK, Exclusive, Held, Connect, Pin, TakeAux
<1> QED
  BY <1>1, <1>2, <1>3 DEF Base

\* What Base asks of the session whose command ends: the rest of the state of
\* its session is untouched.
LEMMA BaseReply ==
  ASSUME Base, TypeOK', NEW s \in Session, pc[s] # "off",
         Finish(s) \/ (\E rows : Answer(s, rows)) \/ Reply(s),
         UNCHANGED pinned,
         aux' = [aux EXCEPT ![s] = None] \/ UNCHANGED aux,
         \A t \in Session : inTx'[t] => inTx[t] \/ pinned[t] # None,
         \A t \in Session \ {s} :
           /\ told'[t] = told[t]
           /\ mark'[t] = mark[t]
           /\ stmt'[t] = stmt[t]
  PROVE  Base'
<1>1. /\ pc' = [pc EXCEPT ![s] = pc'[s]] /\ pc'[s] \in {"ready", "reply"}
      /\ cmd' = [cmd EXCEPT ![s] = None]
  BY DEF Base, TypeOK, Routed, Answer, Reply
<1>2. Routed'
  BY <1>1 DEF Base, TypeOK, Routed, Sensible, Unpinned
<1>3. Exclusive'
  BY DEF Base, TypeOK, Exclusive
<1> QED
  BY <1>2, <1>3 DEF Base

\* Replies that leave SQLite alone, and the reply that is due.
LEMMA BaseRefusal ==
  ASSUME Base, NEW s \in Session,
         \/ PinFails(s) \/ ReturnAux(s)
         \/ BeginFails(s) \/ Prepare(s) \/ CloseStmt(s) \/ WriteBusy(s)
         \/ ExecuteClosed(s) \/ Refuse(s) \/ RawFails(s) \/ Reply(s)
  PROVE  Base'
<1>1. TypeOK'
  BY DEF Base, TypeOK, PinFails, ReturnAux, BeginFails, Prepare, CloseStmt,
         WriteBusy, ExecuteClosed, Refuse, RawFails, Reply
<1>2. /\ Finish(s) \/ Reply(s)
      /\ pc[s] # "off"
      /\ UNCHANGED <<pinned, inTx, told, mark>>
      /\ aux' = [aux EXCEPT ![s] = None] \/ UNCHANGED aux
      /\ \A t \in Session \ {s} : stmt'[t] = stmt[t]
  BY DEF Base, TypeOK, PinFails, ReturnAux, BeginFails, Prepare, CloseStmt,
         WriteBusy, ExecuteClosed, Refuse, RawFails, Reply
<1> QED
  BY <1>1, <1>2, BaseReply

\* The commands that end a transaction, or find none.
LEMMA BaseEnds ==
  ASSUME Base, NEW s \in Session,
         \/ Commit(s) \/ CommitFails(s) \/ CommitNothing(s)
         \/ Rollback(s) \/ RollbackFails(s)
  PROVE  Base'
<1> DEFINE c == pinned[s]
<1>1. inTx[s] => c \in Conn
  BY DEF Base, TypeOK, Routed
<1>2. ASSUME Commit(s) PROVE TypeOK'
  BY <1>1, <1>2 DEF Base, TypeOK, Commit, CommitTx, Outdated, Answer
<1>3. ASSUME CommitFails(s) PROVE TypeOK'
  BY <1>1, <1>3 DEF Base, TypeOK, CommitFails, DiscardTx
<1>4. ASSUME CommitNothing(s) \/ RollbackFails(s) PROVE TypeOK'
  <2>1. CASE CommitNothing(s)
    BY <2>1 DEF Base, TypeOK, CommitNothing
  <2>2. CASE RollbackFails(s)
    <3>1. /\ ToldEnd(s) \/ UNCHANGED <<told, mine, mark>>
          /\ Finish(s) /\ EndSessionTx(s)
          /\ UNCHANGED <<pinned, aux, sqlite, reply, promised, revoked>>
      BY <2>2 DEF RollbackFails
    <3> QED
      BY <3>1 DEF Base, TypeOK
  <2> QED
    BY <1>4, <2>1, <2>2
<1>5. ASSUME Rollback(s) PROVE TypeOK'
  <2>1. cmd[s].op = "rollbackTo" => mark[s] \in SUBSET Row
    BY <1>5 DEF Base, TypeOK, Routed, Sensible, Rollback
  <2>2. CASE cmd[s].op = "rollback"
    <3>1. /\ revoked' \in SUBSET Row
          /\ UNCHANGED <<pinned, aux, reply, promised>>
          /\ Finish(s) /\ EndSessionTx(s) /\ ToldEnd(s)
          /\ (inTx[s] /\ DiscardTx(c)) \/ UNCHANGED sqlite
      BY <1>5, <2>2 DEF Base, TypeOK, Rollback
    <3> QED
      <4>1. /\ sqlTx' \in [Conn -> {"none", "begin", "savepoint"}]
            /\ writes' \in [Conn -> SUBSET Row]
            /\ snapshot' \in [Conn -> {"none", "current", "stale"}]
            /\ depth' \in [Conn -> 0 .. MaxSavepoints]
            /\ committed' \in SUBSET Row
        <5>1. CASE UNCHANGED sqlite
          BY <5>1 DEF Base, TypeOK
        <5>2. CASE inTx[s] /\ DiscardTx(c)
          BY <1>1, <5>2 DEF Base, TypeOK, DiscardTx
        <5> QED
          BY <3>1, <5>1, <5>2
      <4> QED
        BY <3>1, <4>1 DEF Base, TypeOK
  <2>3. CASE cmd[s].op = "rollbackTo"
    BY <1>1, <1>5, <2>1, <2>3, SMTT(30) DEF Base, TypeOK, Rollback, DiscardTx
  <2> QED
    BY <1>5, <2>2, <2>3 DEF Rollback
<1>6. ASSUME Commit(s) \/ CommitFails(s) \/ CommitNothing(s)
      PROVE  /\ Finish(s) \/ (\E rows : Answer(s, rows))
             /\ pc[s] # "off"
             /\ UNCHANGED <<pinned, aux>>
             /\ inTx' = [inTx EXCEPT ![s] = FALSE] \/ UNCHANGED inTx
             /\ \A t \in Session \ {s} :
                  told'[t] = told[t] /\ mark'[t] = mark[t] /\ stmt'[t] = stmt[t]
  BY <1>6 DEF Base, TypeOK, Commit, CommitFails, CommitNothing
<1>7. ASSUME Rollback(s) \/ RollbackFails(s)
      PROVE  /\ Finish(s) /\ pc[s] # "off"
             /\ UNCHANGED <<pinned, aux>>
             /\ inTx' = [inTx EXCEPT ![s] = FALSE]
             /\ \A t \in Session \ {s} :
                  told'[t] = told[t] /\ mark'[t] = mark[t] /\ stmt'[t] = stmt[t]
  BY <1>7 DEF Base, TypeOK, Rollback, RollbackFails
<1>8. \A t \in Session : inTx'[t] => inTx[t]
  BY <1>6, <1>7 DEF Base, TypeOK
<1> QED
  BY <1>2, <1>3, <1>4, <1>5, <1>6, <1>7, <1>8, BaseReply

\* The commands that run on the pinned connection.
LEMMA BaseRuns ==
  ASSUME Base, NEW s \in Session,
         \/ Begin(s) \/ Write(s) \/ Read(s) \/ Savepoint(s) \/ Release(s)
         \/ PreparedBegin(s) \/ PreparedCommit(s) \/ RefuseAll(s)
  PROVE  Base'
<1> DEFINE c == pinned[s]
<1>1. c \in Conn
  BY DEF Base, TypeOK, Routed, Unpinned, Begin, Write, Read, Savepoint,
         Release, PreparedBegin, PreparedCommit, RefuseAll
<1>2. ASSUME Begin(s) PROVE TypeOK'
  BY <1>1, <1>2 DEF Base, TypeOK, Begin
<1>3. ASSUME Write(s) PROVE TypeOK'
  <2>1. cmd[s].row \in Row
    BY <1>3 DEF Base, TypeOK, Routed, Write
  <2> QED
    <3>1. /\ writes' \in [Conn -> SUBSET Row]
          /\ snapshot' \in [Conn -> {"none", "current", "stale"}]
          /\ committed' \in SUBSET Row
          /\ UNCHANGED <<pinned, inTx, stmt, aux, sqlTx, depth, told, mark, promised, revoked>>
      BY <1>1, <1>3, <2>1 DEF Base, TypeOK, Write, Insert, Outdated
    <3>2. /\ pc' \in [Session -> {"off", "ready", "pin", "run", "take", "scan", "reply"}]
          /\ cmd' \in [Session -> [op : Op, row : Row \cup {None}] \cup {None}]
          /\ mine' \in [Session -> SUBSET Row]
          /\ reply' \in [Session -> SUBSET Row]
      BY <1>3, <2>1 DEF Base, TypeOK, Write, Answer
    <3> QED
      BY <3>1, <3>2 DEF Base, TypeOK
<1>4. ASSUME Read(s) PROVE TypeOK'
  BY <1>1, <1>4 DEF Base, TypeOK, Read
<1>5. ASSUME Savepoint(s) PROVE TypeOK'
  BY <1>1, <1>5 DEF Base, TypeOK, Savepoint, Accepts
<1>6. ASSUME Release(s) PROVE TypeOK'
  BY <1>1, <1>6 DEF Base, TypeOK, Release, Accepts, CommitTx, Outdated
<1>7. ASSUME PreparedBegin(s) PROVE TypeOK'
  BY <1>1, <1>7 DEF Base, TypeOK, PreparedBegin
<1>8. ASSUME PreparedCommit(s) PROVE TypeOK'
  BY <1>1, <1>8 DEF Base, TypeOK, PreparedCommit, CommitTx, Outdated, Answer
<1>9. ASSUME RefuseAll(s) PROVE TypeOK'
  BY <1>1, <1>9 DEF Base, TypeOK, RefuseAll, DiscardTx
<1>10. TypeOK'
  BY <1>2, <1>3, <1>4, <1>5, <1>6, <1>7, <1>8, <1>9
<1>11. /\ Finish(s) \/ (\E rows : Answer(s, rows))
       /\ UNCHANGED <<pinned, aux>>
       /\ inTx' = inTx \/ inTx' = [inTx EXCEPT ![s] = TRUE]
       /\ UNCHANGED stmt
  BY DEF Begin, Write, Read, Savepoint, Release, PreparedBegin, PreparedCommit,
         RefuseAll
<1>12. \A t \in Session \ {s} : told'[t] = told[t] /\ mark'[t] = mark[t]
  <2>1. \/ told' = told \/ told' = [told EXCEPT ![s] = TRUE]
        \/ told' = [told EXCEPT ![s] = FALSE]
    BY DEF Begin, Write, Read, Savepoint, Release, PreparedBegin, PreparedCommit, RefuseAll
  <2>2. \E m : mark' = mark \/ mark' = [mark EXCEPT ![s] = m]
    BY DEF Begin, Write, Read, Savepoint, Release, PreparedBegin, PreparedCommit, RefuseAll
  <2> QED
    BY <2>1, <2>2 DEF Base, TypeOK
<1>13. pc[s] # "off"
  BY DEF Begin, Write, Read, Savepoint, Release, PreparedBegin, PreparedCommit,
         RefuseAll
<1>14. \A t \in Session : inTx'[t] => inTx[t] \/ pinned[t] # None
  <2>1. pinned[s] # None
    BY <1>1 DEF Base, TypeOK
  <2> QED
    BY <1>11, <2>1 DEF Base, TypeOK
<1> QED
  BY <1>10, <1>11, <1>12, <1>13, <1>14, BaseReply

\* Close gives the pinned connection back to the pool.
LEMMA BaseLeaves ==
  ASSUME Base, NEW s \in Session, Disconnect(s)
  PROVE  Base'
<1> DEFINE c == pinned[s]
<1>1. c # None => c \in Conn
  BY DEF Base, TypeOK
<1>2. TypeOK'
  BY <1>1, SMTT(30) DEF Base, TypeOK, Disconnect, DiscardTx
<1>3. Routed'
  BY DEF Base, TypeOK, Routed, Sensible, Unpinned, Disconnect
<1>4. Exclusive'
  BY DEF Base, TypeOK, Exclusive, Disconnect
<1> QED
  BY <1>2, <1>3, <1>4 DEF Base

\* The management API writes on a connection of its own; a death of the process
\* empties the pool.
LEMMA BaseElsewhere ==
  ASSUME Base, AdminQuery \/ Crash
  PROVE  Base'
<1>1. ASSUME AdminQuery PROVE Base'
  <2>1. TypeOK'
    BY <1>1 DEF Base, TypeOK, AdminQuery
  <2> QED
    BY <1>1, <2>1 DEF Base, Routed, Sensible, Unpinned, Exclusive, AdminQuery
<1>2. ASSUME Crash PROVE Base'
  <2>1. TypeOK'
    BY <1>2 DEF Base, TypeOK, Crash
  <2> QED
    BY <1>2, <2>1 DEF Base, Routed, Exclusive, Crash
<1> QED
  BY <1>1, <1>2

\* Every step keeps Base, whatever the commands.
LEMMA BaseNext == Base /\ [Next]_vars => Base'
<1> SUFFICES ASSUME Base, [Next]_vars PROVE Base'
  OBVIOUS
<1>1. CASE AdminQuery \/ Crash
  BY <1>1, BaseElsewhere
<1>2. ASSUME NEW s \in Session,
             \/ Connect(s) \/ Request(s) \/ Disconnect(s)
             \/ Acquire(s) \/ TakeAux(s) \/ ReturnAux(s)
             \/ Execute(s) \/ Refuse(s) \/ RefuseAll(s)
      PROVE  Base'
  BY <1>2, BaseConnect, BaseSubmit, BaseRefusal, BaseEnds, BaseRuns, BaseLeaves
     DEF Acquire, Execute
<1>3. CASE UNCHANGED vars
  BY <1>3 DEF vars, Base, TypeOK, Routed, Sensible, Unpinned, Exclusive
<1> QED
  BY <1>1, <1>2, <1>3 DEF Next

\* Hence Base holds throughout, for any set of commands.
LEMMA BaseInvariance == Spec => []Base
  BY InitBase, BaseNext, PTL DEF Spec

\* Sessions is type-correct whatever its clients send: savepoints stay within
\* their bound and no reply needs a connection that the session does not have.
THEOREM TypeCorrect == Spec => []TypeOK
  BY BaseInvariance, PTL DEF Base

\* No two sessions hold one connection of the pool, whatever the clients send:
\* a pinned connection is nobody else's, not even for one metadata query.
THEOREM PinsAreExclusive == Spec => []Exclusive
  BY BaseInvariance, PTL DEF Base
-----------------------------------------------------------------------------
(***************************************************************************)
(* Orderly clients                                                         *)
(***************************************************************************)
LEMMA InitIInv == Init => IInv
<1>1. Init => Agreed /\ Apart
  BY DEF Init, Agreed, Apart
<1> QED
  BY <1>1, InitBase DEF IInv

\* An open transaction of SQLite is the one its session's client knows of.
LEMMA OwnTransaction ==
  ASSUME IInv
  PROVE  /\ \A s \in Session : pinned[s] # None =>
              pinned[s] \in Conn /\ (sqlTx[pinned[s]] # "none" <=> told[s])
         /\ \A s \in Session : told[s] => pinned[s] # None
         /\ \A c \in Conn : writes[c] # {} =>
              \E s \in Session : told[s] /\ pinned[s] = c /\ mine[s] = writes[c]
<1>1. \A s \in Session : pinned[s] # None => pinned[s] \in Conn
  BY DEF IInv, Base, TypeOK
<1>2. \A c \in Conn : sqlTx[c] \in {"none", "begin"}
  BY DEF IInv, Base, TypeOK, Agreed
<1> QED
  BY <1>1, <1>2 DEF IInv, Agreed

\* A reply that changes nothing but the session's statement or snapshots.
LEMMA QuietReply ==
  ASSUME IInv, Base', NEW s \in Session, Finish(s),
         UNCHANGED <<pinned, inTx, sqlTx, writes, depth, committed, client>>
  PROVE  IInv'
<1>1. Agreed'
  BY DEF IInv, Agreed
<1>2. Apart'
  BY DEF IInv, Base, TypeOK, Apart
<1> QED
  BY <1>1, <1>2 DEF IInv

\* The end of a client's transaction, and SQLite's with it.
LEMMA AgreedEnd ==
  ASSUME IInv, TypeOK', NEW s \in Session, ToldEnd(s),
         UNCHANGED pinned \/ pinned' = [pinned EXCEPT ![s] = None],
         \A t \in Session \ {s} : inTx'[t] = inTx[t],
         \/ pinned[s] # None /\ EndTx(pinned[s])
         \/ ~told[s] /\ UNCHANGED <<sqlTx, writes, depth>>
  PROVE  Agreed'
<1> DEFINE c == pinned[s]
<1>1. /\ c # None => c \in Conn
      /\ \A d \in Conn : sqlTx[d] # "none" =>
           \E t \in Session : told[t] /\ pinned[t] = d
  BY DEF IInv, Base, TypeOK, Agreed
<1>2. \A t \in Session \ {s} : told'[t] = told[t] /\ mine'[t] = mine[t]
                                 /\ mark'[t] = mark[t] /\ pinned'[t] = pinned[t]
  BY DEF IInv, Base, TypeOK
<1>3. ~told'[s] /\ mine'[s] = {} /\ mark'[s] = None
  BY DEF IInv, Base, TypeOK
<1>4. \A d \in Conn : d # c =>
        sqlTx'[d] = sqlTx[d] /\ writes'[d] = writes[d] /\ depth'[d] = depth[d]
  BY <1>1 DEF IInv, Base, TypeOK
<1>5. c # None => sqlTx'[c] = "none" /\ writes'[c] = {} /\ depth'[c] = 0
  BY <1>1 DEF IInv, Base, TypeOK, Agreed
<1>6. \A t \in Session \ {s} : pinned[t] # None => pinned[t] # c /\ pinned[t] \in Conn
  BY DEF IInv, Base, TypeOK, Exclusive
<1>7. \A t \in Session \ {s} :
        /\ told'[t] <=> pinned'[t] # None /\ sqlTx'[pinned'[t]] = "begin"
        /\ told'[t] => inTx'[t] /\ mine'[t] = writes'[pinned'[t]]
        /\ ~told'[t] => mine'[t] = {} /\ mark'[t] = None
  BY <1>2, <1>4, <1>6 DEF IInv, Agreed
<1>8. pinned'[s] # None => pinned'[s] = c
  BY DEF IInv, Base, TypeOK
<1>9. \A d \in Conn :
        /\ sqlTx'[d] # "savepoint"
        /\ sqlTx'[d] = "none" => writes'[d] = {} /\ depth'[d] = 0
        /\ sqlTx'[d] # "none" => \E t \in Session : pinned'[t] = d
  <2> SUFFICES ASSUME NEW d \in Conn
               PROVE /\ sqlTx'[d] # "savepoint"
                     /\ sqlTx'[d] = "none" => writes'[d] = {} /\ depth'[d] = 0
                     /\ sqlTx'[d] # "none" => \E t \in Session : pinned'[t] = d
    OBVIOUS
  <2>1. CASE d = c
    BY <1>1, <1>5, <2>1
  <2>2. CASE d # c
    BY <1>1, <1>2, <1>4, <2>2 DEF IInv, Agreed
  <2> QED
    BY <2>1, <2>2
<1> QED
  BY <1>3, <1>5, <1>7, <1>8, <1>9 DEF Agreed

\* The rows of a transaction that ends become the database's, or are undone.
LEMMA ApartEnd ==
  ASSUME IInv, NEW s \in Session, ToldEnd(s), UNCHANGED promised,
         \/ /\ committed' = committed \cup mine[s]
            /\ Answer(s, mine[s])
            /\ UNCHANGED revoked
         \/ /\ revoked' = revoked \cup mine[s]
            /\ Finish(s) \/ UNCHANGED cmd
            /\ UNCHANGED <<committed, reply>>
  PROVE  Apart'
<1>1. \A t \in Session : mine'[t] = IF t = s THEN {} ELSE mine[t]
  BY DEF IInv, Base, TypeOK
<1>2. \A t \in Session : cmd'[t] = None \/ cmd'[t] = cmd[t]
  BY DEF IInv, Base, TypeOK, Answer
<1>3. committed' \cup revoked' = committed \cup revoked \cup mine[s]
  OBVIOUS
<1>4. promised' \subseteq committed' /\ revoked' \cap committed' = {}
  BY DEF IInv, Apart
<1>5. \A t \in Session : reply'[t] \subseteq committed'
  BY DEF IInv, Base, TypeOK, Apart, Answer
<1>6. \A t \in Session :
         /\ mine'[t] \cap (committed' \cup revoked') = {}
         /\ \A u \in Session \ {t} : mine'[t] \cap mine'[u] = {}
  BY <1>1, <1>3 DEF IInv, Apart
<1>7. \A t \in Session : cmd'[t] # None =>
         /\ cmd'[t].row \notin committed' \cup revoked'
         /\ \A u \in Session : cmd'[t].row \notin mine'[u]
         /\ \A u \in Session \ {t} :
              cmd'[u] # None /\ cmd'[t].row # None => cmd'[u].row # cmd'[t].row
  BY <1>1, <1>2, <1>3 DEF IInv, Apart
<1> QED
  BY <1>4, <1>5, <1>6, <1>7 DEF Apart

\* COMMIT and ROLLBACK end the transaction for the session, for SQLite and for
\* the client at once.
LEMMA EndsStep ==
  ASSUME Orderly, IInv, NEW s \in Session,
         \/ Commit(s) \/ CommitFails(s) \/ CommitNothing(s)
         \/ Rollback(s) \/ RollbackFails(s) \/ PreparedCommit(s)
  PROVE  IInv'
<1> DEFINE c == pinned[s]
<1>1. Base'
  BY BaseEnds, BaseRuns DEF IInv
<1>2. /\ inTx[s] => c # None
      /\ told[s] => inTx[s]
      /\ c # None => c \in Conn /\ (sqlTx[c] # "none" <=> told[s])
      /\ told[s] => mine[s] = writes[c]
      /\ ~told[s] => mine[s] = {}
  BY OwnTransaction DEF IInv, Base, Routed, Agreed
<1>3. ASSUME Commit(s) PROVE IInv'
  <2>1. /\ EndTx(c) /\ ToldEnd(s) /\ Answer(s, mine[s])
        /\ committed' = committed \cup mine[s]
        /\ UNCHANGED <<pinned, promised, revoked>>
        /\ \A t \in Session \ {s} : inTx'[t] = inTx[t]
    BY <1>2, <1>3 DEF Commit, CommitTx
  <2> QED
    BY <1>1, <1>2, <1>3, <2>1, AgreedEnd, ApartEnd DEF IInv, Base, Commit
<1>4. ASSUME PreparedCommit(s) PROVE IInv'
  <2>1. c # None
    BY <1>4 DEF IInv, Base, Routed, Unpinned, PreparedCommit
  <2>2. /\ EndTx(c) /\ ToldEnd(s) /\ Answer(s, mine[s])
        /\ committed' = committed \cup mine[s]
        /\ UNCHANGED <<pinned, inTx, promised, revoked>>
    BY <1>2, <1>4, <2>1 DEF PreparedCommit, CommitTx, Accepts
  <2> QED
    BY <1>1, <2>1, <2>2, AgreedEnd, ApartEnd DEF IInv, Base
<1>5. ASSUME CommitFails(s) \/ CommitNothing(s) \/ Rollback(s) \/ RollbackFails(s)
      PROVE  IInv'
  <2>1. cmd[s].op # "rollbackTo"
    BY <1>5 DEF Orderly, IInv, Base, Routed, CommitFails, CommitNothing, Rollback,
                  RollbackFails
  <2>2. /\ ToldEnd(s) /\ Finish(s)
        /\ revoked' = revoked \cup mine[s]
        /\ UNCHANGED <<pinned, committed, reply, promised>>
        /\ \A t \in Session \ {s} : inTx'[t] = inTx[t]
    <3>1. CASE CommitFails(s)
      BY <3>1 DEF CommitFails, DiscardTx
    <3>2. CASE CommitNothing(s)
      BY <1>2, <3>2 DEF CommitNothing
    <3>3. CASE Rollback(s)
      BY <2>1, <3>3 DEF Rollback, DiscardTx
    <3>4. CASE RollbackFails(s)
      BY <1>2, <2>1, <3>4 DEF RollbackFails
    <3> QED
      BY <1>5, <3>1, <3>2, <3>3, <3>4
  <2>3. \/ c # None /\ EndTx(c)
        \/ ~told[s] /\ UNCHANGED <<sqlTx, writes, depth>>
    BY <1>2, <1>5 DEF CommitFails, CommitNothing, Rollback, RollbackFails, DiscardTx
  <2> QED
    BY <1>1, <2>2, <2>3, AgreedEnd, ApartEnd DEF IInv, Base
<1> QED
  BY <1>3, <1>4, <1>5

\* A disconnect rolls back what the session knows to be open, which is all.
LEMMA LeavesStep ==
  ASSUME IInv, NEW s \in Session, Disconnect(s)
  PROVE  IInv'
<1> DEFINE c == pinned[s]
<1>1. Base'
  BY BaseLeaves DEF IInv
<1>2. /\ told[s] => inTx[s]
      /\ inTx[s] => c # None
  BY DEF IInv, Base, Routed, Agreed
<1>3. /\ ToldEnd(s) /\ UNCHANGED cmd
      /\ revoked' = revoked \cup mine[s]
      /\ UNCHANGED <<committed, reply, promised>>
      /\ pinned' = [pinned EXCEPT ![s] = None]
      /\ \A t \in Session \ {s} : inTx'[t] = inTx[t]
  BY DEF Disconnect, DiscardTx
<1>4. \/ c # None /\ EndTx(c)
      \/ ~told[s] /\ UNCHANGED <<sqlTx, writes, depth>>
  BY <1>2 DEF Disconnect, DiscardTx
<1> QED
  BY <1>1, <1>3, <1>4, AgreedEnd, ApartEnd DEF IInv, Base

\* BEGIN opens one for the session, for SQLite and for the client at once.
LEMMA BeginStep ==
  ASSUME IInv, NEW s \in Session, Begin(s)
  PROVE  IInv'
<1> DEFINE c == pinned[s]
<1>1. Base'
  BY BaseRuns DEF IInv
<1>2. /\ c \in Conn /\ c # None
      /\ \A t \in Session \ {s} : pinned[t] # c
  BY DEF IInv, Base, TypeOK, Routed, Exclusive, Unpinned, Begin
<1>3. Agreed'
  <2>1. /\ \A d \in Conn : sqlTx'[d] = IF d = c THEN "begin" ELSE sqlTx[d]
        /\ told'[s] /\ inTx'[s]
        /\ \A t \in Session \ {s} : told'[t] = told[t] /\ inTx'[t] = inTx[t]
        /\ ~told[s] /\ writes[c] = {} /\ mine[s] = {}
        /\ UNCHANGED <<pinned, writes, depth, mine, mark>>
    BY <1>2 DEF IInv, Base, TypeOK, Agreed, Begin
  <2>2. \A t \in Session \ {s} :
          /\ told'[t] <=> pinned'[t] # None /\ sqlTx'[pinned'[t]] = "begin"
          /\ told'[t] => inTx'[t] /\ mine'[t] = writes'[pinned'[t]]
          /\ ~told'[t] => mine'[t] = {} /\ mark'[t] = None
    BY <1>2, <2>1 DEF IInv, Base, TypeOK, Agreed
  <2>3. \A d \in Conn :
          /\ sqlTx'[d] # "savepoint"
          /\ sqlTx'[d] = "none" => writes'[d] = {} /\ depth'[d] = 0
          /\ sqlTx'[d] # "none" => \E t \in Session : pinned'[t] = d
    BY <2>1 DEF IInv, Agreed
  <2>4. /\ told'[s] <=> pinned'[s] # None /\ sqlTx'[pinned'[s]] = "begin"
        /\ told'[s] => inTx'[s] /\ mine'[s] = writes'[pinned'[s]]
        /\ ~told'[s] => mine'[s] = {} /\ mark'[s] = None
    BY <1>2, <2>1
  <2> QED
    BY <2>2, <2>3, <2>4 DEF Agreed
<1>4. Apart'
  BY DEF IInv, Base, TypeOK, Apart, Begin
<1> QED
  BY <1>1, <1>3, <1>4 DEF IInv

\* An INSERT is pending on the connection of its session, or committed at once.
LEMMA WriteStep ==
  ASSUME IInv, NEW s \in Session, Write(s)
  PROVE  IInv'
<1> DEFINE c == pinned[s]
           r == cmd[s].row
<1>1. Base'
  BY BaseRuns DEF IInv
<1>2. /\ c \in Conn /\ c # None
      /\ \A t \in Session \ {s} : pinned[t] # c
      /\ cmd[s] # None /\ r # None
      /\ sqlTx[c] # "none" <=> told[s]
  BY OwnTransaction
     DEF IInv, Base, TypeOK, Routed, Exclusive, Unpinned, Write
<1>3. CASE told[s]
  <2>1. /\ writes' = [writes EXCEPT ![c] = @ \cup {r}]
        /\ mine' = [mine EXCEPT ![s] = @ \cup {r}]
        /\ UNCHANGED <<pinned, inTx, sqlTx, depth, committed,
                       told, mark, reply, promised, revoked>>
        /\ Finish(s)
    BY <1>2, <1>3 DEF Write, Insert
  <2>2. Agreed'
    <3>1. /\ \A d \in Conn \ {c} : writes'[d] = writes[d]
          /\ writes'[c] = writes[c] \cup {r}
          /\ mine'[s] = mine[s] \cup {r}
          /\ \A t \in Session \ {s} : mine'[t] = mine[t]
      BY <1>2, <2>1 DEF IInv, Base, TypeOK
    <3>2. \A t \in Session \ {s} :
            /\ told'[t] <=> pinned'[t] # None /\ sqlTx'[pinned'[t]] = "begin"
            /\ told'[t] => inTx'[t] /\ mine'[t] = writes'[pinned'[t]]
            /\ ~told'[t] => mine'[t] = {} /\ mark'[t] = None
      BY <1>2, <2>1, <3>1 DEF IInv, Base, TypeOK, Agreed
    <3>3. \A d \in Conn :
            /\ sqlTx'[d] # "savepoint"
            /\ sqlTx'[d] = "none" => writes'[d] = {} /\ depth'[d] = 0
            /\ sqlTx'[d] # "none" => \E t \in Session : pinned'[t] = d
      BY <1>2, <1>3, <2>1, <3>1 DEF IInv, Agreed
    <3>4. mine[s] = writes[c] /\ inTx[s] /\ sqlTx[c] = "begin"
      BY <1>3 DEF IInv, Agreed
    <3>5. /\ told'[s] <=> pinned'[s] # None /\ sqlTx'[pinned'[s]] = "begin"
          /\ told'[s] => inTx'[s] /\ mine'[s] = writes'[pinned'[s]]
          /\ ~told'[s] => mine'[s] = {} /\ mark'[s] = None
      BY <1>2, <1>3, <2>1, <3>1, <3>4
    <3> QED
      BY <3>2, <3>3, <3>5 DEF Agreed
  <2>3. Apart'
    BY <1>2, <2>1 DEF IInv, Base, TypeOK, Apart
  <2> QED
    BY <1>1, <2>2, <2>3 DEF IInv
<1>4. CASE ~told[s]
  <2>1. /\ committed' = committed \cup {r}
        /\ Answer(s, {r})
        /\ UNCHANGED <<pinned, inTx, sqlTx, writes, depth,
                       told, mine, mark, promised, revoked>>
    BY <1>2, <1>4 DEF Write, Insert
  <2>2. Agreed'
    BY <2>1 DEF IInv, Agreed
  <2>3. Apart'
    BY <1>2, <2>1 DEF IInv, Base, TypeOK, Apart, Answer
  <2> QED
    BY <1>1, <2>2, <2>3 DEF IInv
<1> QED
  BY <1>3, <1>4

\* The reply calls committed what is in the database.
LEMMA ReplyStep ==
  ASSUME IInv, NEW s \in Session, Reply(s)
  PROVE  IInv'
<1>1. Base'
  BY BaseRefusal DEF IInv
<1>2. Agreed'
  BY DEF IInv, Agreed, Reply
<1>3. Apart'
  BY DEF IInv, Base, TypeOK, Apart, Reply
<1> QED
  BY <1>1, <1>2, <1>3 DEF IInv

\* Within a transaction SAVEPOINT and RELEASE neither open nor end one.
LEMMA SavepointStep ==
  ASSUME Orderly, IInv, NEW s \in Session, Savepoint(s) \/ Release(s)
  PROVE  IInv'
<1> DEFINE c == pinned[s]
<1>1. Base'
  BY BaseRuns DEF IInv
<1>2. cmd[s].op # "bareSavepoint"
  BY DEF Orderly, IInv, Base, Routed, Savepoint, Release
<1>3. c \in Conn /\ c # None /\ told[s] /\ sqlTx[c] = "begin"
  BY <1>2 DEF IInv, Base, TypeOK, Routed, Sensible, Unpinned, Agreed,
              Savepoint, Release
<1>4. /\ UNCHANGED <<pinned, inTx, sqlTx, writes, committed,
                     told, mine, reply, promised, revoked>>
      /\ Finish(s)
      /\ \A d \in Conn : sqlTx[d] = "none" => depth'[d] = depth[d]
      /\ \A t \in Session \ {s} : mark'[t] = mark[t]
  BY <1>3 DEF IInv, Base, TypeOK, Savepoint, Release
<1>5. Agreed'
  BY <1>3, <1>4 DEF IInv, Agreed
<1>6. Apart'
  BY <1>4 DEF IInv, Base, TypeOK, Apart
<1> QED
  BY <1>1, <1>5, <1>6 DEF IInv

\* Refusals, reads and statements that fail change no transaction.
LEMMA QuietStep ==
  ASSUME IInv, NEW s \in Session,
         \/ PinFails(s) \/ ReturnAux(s)
         \/ BeginFails(s) \/ Prepare(s) \/ CloseStmt(s) \/ WriteBusy(s)
         \/ ExecuteClosed(s) \/ Refuse(s) \/ RawFails(s) \/ Read(s)
  PROVE  IInv'
<1>1. Base'
  BY BaseRefusal, BaseRuns DEF IInv
<1>2. Finish(s) /\ UNCHANGED <<pinned, inTx, sqlTx, writes, depth, committed, client>>
  BY DEF PinFails, ReturnAux, BeginFails, Prepare, CloseStmt, WriteBusy,
         ExecuteClosed, Refuse, RawFails, Read
<1> QED
  BY <1>1, <1>2, QuietReply

\* A connection taken from the pool carries no transaction.
LEMMA ConnectStep ==
  ASSUME IInv, NEW s \in Session, Connect(s) \/ Pin(s) \/ TakeAux(s)
  PROVE  IInv'
<1>1. Base'
  BY BaseConnect DEF IInv
<1>2. Apart'
  BY DEF IInv, Apart, Connect, Pin, TakeAux
<1>3. CASE Connect(s) \/ TakeAux(s)
  <2>1. Agreed'
    BY <1>3 DEF IInv, Agreed, Connect, TakeAux
  <2> QED
    BY <1>1, <1>2, <2>1 DEF IInv
<1>4. CASE Pin(s)
  <2>1. PICK c \in Conn : ~Held(c) /\ pinned' = [pinned EXCEPT ![s] = c]
    BY <1>4 DEF Pin
  <2>2. sqlTx[c] = "none"
    BY <2>1 DEF IInv, Agreed, Held
  <2>3. Agreed'
    <3>1. /\ pinned[s] = None
          /\ pinned'[s] = c
          /\ \A t \in Session \ {s} : pinned'[t] = pinned[t]
      BY <1>4, <2>1 DEF IInv, Base, TypeOK, Routed, Pin
    <3> QED
      BY <1>4, <2>2, <3>1 DEF IInv, Base, TypeOK, Agreed, Pin
  <2> QED
    BY <1>1, <1>2, <2>3 DEF IInv
<1> QED
  BY <1>3, <1>4

\* A row that nobody knows of is in no transaction and was never undone.
LEMMA UnknownRow ==
  ASSUME NEW r, r \notin Known
  PROVE  /\ r \notin committed \cup revoked
         /\ \A t \in Session : r \notin mine[t]
<1>1. ASSUME NEW t \in Session, r \in mine[t] PROVE FALSE
  <2>1. r \in UNION {mine[s] : s \in Session}
    BY <1>1
  <2> QED
    BY <2>1 DEF Known
<1> QED
  BY <1>1 DEF Known

\* A row that is sent in an INSERT is new to all.
LEMMA RequestStep ==
  ASSUME IInv, NEW s \in Session, Request(s)
  PROVE  IInv'
<1>1. Base'
  BY BaseSubmit DEF IInv
<1>2. PICK op \in Command, r \in (Row \ Known) \cup {None} :
         /\ Submit(s, op, r)
         /\ r # None => \A t \in Session : cmd[t] # None => cmd[t].row # r
  BY DEF Request
<1>3. /\ r \notin committed \cup revoked
      /\ \A t \in Session : r \notin mine[t]
  <2>1. None \notin committed \cup revoked /\ \A t \in Session : None \notin mine[t]
    BY DEF IInv, Base, TypeOK
  <2> QED
    BY <2>1, UnknownRow
<1>4. /\ cmd'[s].row = r
      /\ \A t \in Session \ {s} : cmd'[t] = cmd[t]
      /\ UNCHANGED <<session, aux, sqlite, client>>
  BY <1>2 DEF IInv, Base, TypeOK, Submit
<1>5. Agreed'
  BY <1>4 DEF IInv, Agreed
<1>6. Apart'
  BY <1>2, <1>3, <1>4 DEF IInv, Apart
<1> QED
  BY <1>1, <1>5, <1>6 DEF IInv

\* A row of the management API is committed at once; a death of the process
\* takes all that is pending with it.
LEMMA ElsewhereStep ==
  ASSUME IInv, AdminQuery \/ Crash
  PROVE  IInv'
<1>1. Base'
  BY BaseElsewhere DEF IInv
<1>2. CASE AdminQuery
  <2>1. PICK r \in Row \ Known :
          /\ \A s \in Session : cmd[s] # None => cmd[s].row # r
          /\ committed' = committed \cup {r}
          /\ promised' = promised \cup {r}
    BY <1>2 DEF AdminQuery
  <2>2. r \notin revoked /\ \A s \in Session : r \notin mine[s]
    BY UnknownRow
  <2>3. Agreed'
    BY <1>2 DEF IInv, Agreed, AdminQuery
  <2>4. Apart'
    BY <1>2, <2>1, <2>2 DEF IInv, Apart, AdminQuery
  <2> QED
    BY <1>1, <2>3, <2>4 DEF IInv
<1>3. CASE Crash
  <2>1. Agreed'
    BY <1>3 DEF Agreed, Crash
  <2>2. Apart'
    BY <1>3 DEF IInv, Apart, Crash
  <2> QED
    BY <1>1, <2>1, <2>2 DEF IInv
<1> QED
  BY <1>2, <1>3

\* Every step keeps the inductive invariant, without the commands of the
\* findings.
LEMMA NextKeeps == Orderly /\ IInv /\ [Next]_vars => IInv'
<1> SUFFICES ASSUME Orderly, IInv, [Next]_vars PROVE IInv'
  OBVIOUS
<1>1. CASE AdminQuery \/ Crash
  BY <1>1, ElsewhereStep
<1>2. ASSUME NEW s \in Session,
             \/ Connect(s) \/ Request(s) \/ Disconnect(s)
             \/ Acquire(s) \/ TakeAux(s) \/ ReturnAux(s)
             \/ Refuse(s)
      PROVE  IInv'
  BY <1>2, ConnectStep, RequestStep, LeavesStep, QuietStep DEF Acquire
<1>3. ASSUME NEW s \in Session, Execute(s) \/ RefuseAll(s)
      PROVE  IInv'
  <2>1. ~PreparedBegin(s) /\ ~RefuseAll(s)
    BY DEF Orderly, IInv, Base, Routed, PreparedBegin, RefuseAll
  <2> QED
    BY <1>3, <2>1, EndsStep, BeginStep, WriteStep, ReplyStep, SavepointStep,
       QuietStep DEF Execute
<1>4. CASE UNCHANGED vars
  <2>1. Base'
    BY <1>4, BaseNext DEF IInv
  <2> QED
    BY <1>4, <2>1 DEF vars, IInv, Agreed, Apart
<1> QED
  BY <1>1, <1>2, <1>3, <1>4 DEF Next

\* Hence it holds throughout.
LEMMA Invariance == Orderly => (Spec => []IInv)
<1> SUFFICES ASSUME Orderly PROVE Spec => []IInv
  OBVIOUS
<1>1. IInv /\ [Next]_vars => IInv'
  BY NextKeeps
<1> QED
  BY <1>1, InitIInv, PTL DEF Spec
-----------------------------------------------------------------------------
\* What a reply called committed is in the database for good, through every
\* failure of a later command, disconnect and crash.
THEOREM PromisesAreKept == Orderly => (Spec => []PromisedKept)
<1>1. IInv => PromisedKept
  BY DEF IInv, Apart, PromisedKept
<1> QED
  BY <1>1, Invariance, PTL

\* What a ROLLBACK, a failed COMMIT or a disconnect undid does not come back,
\* not even with the COMMIT of whoever uses the connection next.
THEOREM RevokedStaysGone == Orderly => (Spec => []RevokedGone)
<1>1. IInv => RevokedGone
  <2> SUFFICES ASSUME IInv PROVE RevokedGone
    OBVIOUS
  <2>1. ASSUME NEW c \in Conn PROVE revoked \cap writes[c] = {}
    <3>1. CASE writes[c] = {}
      BY <3>1
    <3>2. CASE writes[c] # {}
      BY <3>2, OwnTransaction DEF IInv, Apart
    <3> QED
      BY <3>1, <3>2
  <2> QED
    BY <2>1 DEF IInv, Apart, RevokedGone
<1> QED
  BY <1>1, Invariance, PTL

\* The client's account of its transaction is SQLite's.
THEOREM ClientsAreToldTheTruth == Orderly => (Spec => []ClientViewMatches)
<1>1. IInv => ClientViewMatches
  BY OwnTransaction DEF IInv, Agreed, ClientViewMatches
<1> QED
  BY <1>1, Invariance, PTL

\* No session meets another one's connection, transaction or rows.
THEOREM SessionsAreIsolated == Orderly => (Spec => []ConnectionsArePrivate)
<1>1. IInv => ConnectionsArePrivate
  <2> SUFFICES ASSUME IInv, NEW s \in Session, NEW t \in Session, s # t,
                      pinned[s] # None
               PROVE  /\ pinned[s] \notin {pinned[t], aux[t]}
                      /\ writes[pinned[s]] \cap mine[t] = {}
    BY DEF ConnectionsArePrivate
  <2>1. pinned[s] \notin {pinned[t], aux[t]} /\ pinned[s] \in Conn
    BY DEF IInv, Base, TypeOK, Exclusive
  <2>2. CASE told[s]
    BY <2>1, <2>2 DEF IInv, Agreed, Apart
  <2>3. CASE ~told[s]
    BY <2>1, <2>3, OwnTransaction DEF IInv, Agreed
  <2> QED
    BY <2>1, <2>2, <2>3
<1> QED
  BY <1>1, Invariance, PTL

\* A connection of the pool that no session has pinned carries no transaction
\* to its next user.
THEOREM ConnectionsComeBackClean == Orderly => (Spec => []PooledConnectionsClean)
<1>1. IInv => PooledConnectionsClean
  BY DEF IInv, Agreed, PooledConnectionsClean
<1> QED
  BY <1>1, Invariance, PTL
-----------------------------------------------------------------------------
(***************************************************************************)
(* Sessions implements Transactions                                        *)
(***************************************************************************)
LEMMA InitRefines == Init => T!Init
  BY DEF Init, T!Init

\* A client's transaction ends as a whole: with its rows, or without.
LEMMA EndRefines ==
  ASSUME IInv, NEW s \in Session, ToldEnd(s),
         committed' = committed \cup mine[s] \/ UNCHANGED committed
  PROVE  T!Next \/ UNCHANGED T!vars
<1>1. CASE told[s]
  BY <1>1 DEF T!End, T!Commit, T!Abort, T!Next
<1>2. CASE ~told[s]
  <2>1. told[s] = FALSE /\ mine[s] = {}
    BY <1>2 DEF IInv, Base, TypeOK, Agreed
  <2>2. told' = told
    BY <2>1 DEF IInv, Base, TypeOK
  <2>3. mine' = mine
    BY <2>1 DEF IInv, Base, TypeOK
  <2>4. committed' = committed
    BY <2>1
  <2> QED
    BY <2>2, <2>3, <2>4 DEF T!vars
<1> QED
  BY <1>1, <1>2

\* An INSERT is pending in the client's transaction, or durable on its own.
LEMMA WriteRefines ==
  ASSUME IInv, NEW s \in Session, Write(s)
  PROVE  T!Next
<1> DEFINE c == pinned[s]
           r == cmd[s].row
<1>1. /\ sqlTx[c] # "none" <=> told[s]
      /\ r \in Row
      /\ T!Fresh(r)
  BY OwnTransaction
     DEF IInv, Base, TypeOK, Routed, Unpinned, Apart, T!Fresh, Write
<1>2. CASE told[s]
  <2>1. mine' = [mine EXCEPT ![s] = @ \cup {r}] /\ UNCHANGED <<committed, told>>
    BY <1>1, <1>2 DEF Write, Insert
  <2>2. T!Write(s, r)
    BY <1>1, <1>2, <2>1 DEF T!Write
  <2> QED
    BY <1>1, <2>2 DEF T!Next
<1>3. CASE ~told[s]
  <2>1. committed' = committed \cup {r} /\ UNCHANGED <<told, mine>>
    BY <1>1, <1>3 DEF Write, Insert
  <2>2. T!AutoCommit(r)
    BY <1>1, <2>1 DEF T!AutoCommit
  <2> QED
    BY <1>1, <2>2 DEF T!Next
<1> QED
  BY <1>2, <1>3

\* The ends of transactions, a disconnect among them.
LEMMA EndsRefine ==
  ASSUME Orderly, IInv, NEW s \in Session,
         \/ Commit(s) \/ CommitFails(s) \/ CommitNothing(s)
         \/ Rollback(s) \/ RollbackFails(s) \/ PreparedCommit(s) \/ Disconnect(s)
  PROVE  T!Next \/ UNCHANGED T!vars
<1>1. cmd[s].op # "rollbackTo" \/ Disconnect(s)
  BY DEF Orderly, IInv, Base, Routed, Commit, CommitFails, CommitNothing,
         Rollback, RollbackFails, PreparedCommit
<1>2. ToldEnd(s)
  BY <1>1 DEF Commit, CommitFails, CommitNothing, Rollback, RollbackFails,
              PreparedCommit, Disconnect
<1>3. CASE Commit(s) \/ PreparedCommit(s)
  <2>1. told[s] /\ mine[s] = writes[pinned[s]]
    BY <1>3, OwnTransaction
       DEF IInv, Base, Routed, Unpinned, Agreed, Accepts, Commit, PreparedCommit
  <2>2. committed' = committed \cup mine[s]
    BY <1>3, <2>1 DEF Commit, PreparedCommit, CommitTx
  <2> QED
    BY <1>2, <2>2, EndRefines
<1>4. CASE \/ CommitFails(s) \/ CommitNothing(s)
           \/ Rollback(s) \/ RollbackFails(s) \/ Disconnect(s)
  <2>1. UNCHANGED committed
    BY <1>4 DEF CommitFails, CommitNothing, Rollback, RollbackFails, Disconnect,
                DiscardTx
  <2> QED
    BY <1>2, <2>1, EndRefines
<1> QED
  BY <1>3, <1>4

\* Steps that clients conclude nothing from.
LEMMA QuietRefines ==
  ASSUME Orderly, IInv, NEW s \in Session,
         \/ Connect(s) \/ Request(s) \/ Acquire(s) \/ TakeAux(s) \/ ReturnAux(s)
         \/ BeginFails(s) \/ Prepare(s) \/ CloseStmt(s) \/ WriteBusy(s)
         \/ ExecuteClosed(s) \/ Refuse(s) \/ RawFails(s) \/ Reply(s)
         \/ Read(s) \/ Savepoint(s) \/ Release(s)
  PROVE  UNCHANGED T!vars
<1>1. CASE Release(s)
  <2>1. sqlTx[pinned[s]] # "savepoint"
    BY <1>1 DEF IInv, Base, TypeOK, Routed, Unpinned, Agreed, Release
  <2> QED
    BY <1>1, <2>1 DEF Release, T!vars
<1>2. CASE Savepoint(s) \/ Read(s)
  BY <1>2 DEF Savepoint, Read, T!vars
<1>3. CASE \/ Connect(s) \/ Request(s) \/ Acquire(s) \/ TakeAux(s) \/ ReturnAux(s)
           \/ BeginFails(s) \/ Prepare(s) \/ CloseStmt(s) \/ WriteBusy(s)
           \/ ExecuteClosed(s) \/ Refuse(s) \/ RawFails(s) \/ Reply(s)
  BY <1>3 DEF Connect, Request, Submit, Acquire, Pin, PinFails, TakeAux,
     ReturnAux, BeginFails, Prepare, CloseStmt, WriteBusy, ExecuteClosed,
     Refuse, RawFails, Reply, T!vars
<1> QED
  BY <1>1, <1>2, <1>3

\* BEGIN opens the transaction.
LEMMA BeginRefines ==
  ASSUME IInv, NEW s \in Session, Begin(s)
  PROVE  T!Next
<1>1. ~told[s]
  BY OwnTransaction DEF Begin
<1>2. T!Begin(s)
  BY <1>1 DEF Begin, T!Begin
<1> QED
  BY <1>2 DEF T!Next

\* The management API makes a row durable; a death of the process ends all.
LEMMA ElsewhereRefines ==
  ASSUME IInv, AdminQuery \/ Crash
  PROVE  T!Next
<1>1. CASE AdminQuery
  <2>1. PICK r \in Row \ Known : committed' = committed \cup {r}
    BY <1>1 DEF AdminQuery
  <2>2. T!AutoCommit(r)
    BY <1>1, <2>1, UnknownRow DEF AdminQuery, T!AutoCommit, T!Fresh
  <2> QED
    BY <2>2 DEF T!Next
<1>2. CASE Crash
  BY <1>2 DEF Crash, T!AbortAll, T!Next
<1> QED
  BY <1>1, <1>2

\* Every step maps to a step of Transactions, or to none.
LEMMA NextRefines == Orderly /\ IInv /\ [Next]_vars => [T!Next]_(T!vars)
<1> SUFFICES ASSUME Orderly, IInv, [Next]_vars PROVE T!Next \/ UNCHANGED T!vars
  OBVIOUS
<1>1. CASE AdminQuery \/ Crash
  BY <1>1, ElsewhereRefines
<1>2. CASE UNCHANGED vars
  BY <1>2 DEF vars, T!vars
<1>3. ASSUME NEW s \in Session,
             \/ Connect(s) \/ Request(s) \/ Disconnect(s)
             \/ Acquire(s) \/ TakeAux(s) \/ ReturnAux(s)
             \/ Execute(s) \/ Refuse(s) \/ RefuseAll(s)
      PROVE  T!Next \/ UNCHANGED T!vars
  <2>1. ~PreparedBegin(s) /\ ~RefuseAll(s)
    BY DEF Orderly, IInv, Base, Routed, PreparedBegin, RefuseAll
  <2> QED
    BY <1>3, <2>1, BeginRefines, WriteRefines, EndsRefine, QuietRefines DEF Execute
<1> QED
  BY <1>1, <1>2, <1>3 DEF Next

\* The tenant's database behind the pool serves atomic transactions: every
\* behaviour of sessions, connections and crashes is one of Transactions.
THEOREM SessionsImplementTransactions == Orderly => (Spec => Transactional)
<1> SUFFICES ASSUME Orderly PROVE Spec => Transactional
  OBVIOUS
<1>1. IInv /\ [Next]_vars => [T!Next]_(T!vars)
  BY NextRefines
<1> QED
  BY <1>1, InitRefines, Invariance, PTL DEF Spec, Transactional, T!Spec
=============================================================================
