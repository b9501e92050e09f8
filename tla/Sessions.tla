------------------------------ MODULE Sessions ------------------------------
(***************************************************************************)
(* server/handler.go and server/session.go over one tenant's sqlite.Pool:  *)
(* client sessions run text-protocol commands, each session pins one       *)
(* pooled connection from its first statement to its disconnect, and       *)
(* SQLite transactions live on the connections.                            *)
(*                                                                         *)
(* The model keeps two accounts of every transaction: what the session and *)
(* the connection hold (inTx, sqlTx, writes), and what the replies have    *)
(* told the client (told, mine, mark, reply, promised, revoked).  Data is  *)
(* a set of rows, each written by one INSERT.  Where SQLite makes rows     *)
(* durable the reply is a step of its own: the process may die before it.  *)
(*                                                                         *)
(* External, modelled from their use: database/sql (a Conn owns its driver *)
(* connection; a waiter for the pool is served in turn; a returned         *)
(* connection is kept or closed), mattn/go-sqlite3 (deferred BEGIN, no     *)
(* reset of a returned connection) and SQLite (one writer; a reader whose  *)
(* snapshot is outdated cannot write).                                     *)
(***************************************************************************)
EXTENDS Naturals

CONSTANTS Session,        \* client connections
          Conn,           \* the MaxOpenConns slots of the tenant's pool
          Row,            \* rows that clients insert
          Command,        \* the commands clients use, a subset of Op
          MaxSavepoints,  \* bound: open savepoints on one connection
          DiskFills,      \* whether SQLite meets FULL, IOERR or NOMEM
          None

Op == {"begin", "commit", "rollback", "write", "read", "infoSchema",
       "savepoint", "bareSavepoint", "release", "rollbackTo",
       "prepare", "execute", "closeStmt", "preparedBegin", "preparedCommit"}

ASSUME SessionsAssumption ==
    /\ Command \subseteq Op
    /\ MaxSavepoints \in Nat
    /\ DiskFills \in BOOLEAN
    /\ None \notin Session \cup Conn \cup Row
    /\ None \notin [op : Op, row : Row \cup {None}]
    /\ \A rows \in SUBSET Row : rows # None

VARIABLES
    pc,         \* where the goroutine of each session is
    cmd,        \* the command it runs: [op, row], or None
    pinned,     \* Session.DB: the pinned connection, or None
    inTx,       \* Session.InTransaction, that is Session.Tx # nil
    aux,        \* a second pool connection taken for information_schema
    stmt,       \* what its prepared INSERT belongs to, "none" without one
    sqlTx,      \* what opened the SQLite transaction of each connection
    writes,     \* rows written by that transaction
    snapshot,   \* "none", or whether its read snapshot is outdated
    depth,      \* number of open savepoints on the connection
    committed,  \* rows of the database
    told,       \* client: a transaction is open, by the replies given or due
    mine,       \* client: the rows it wrote in that transaction
    mark,       \* client: the rows it had at SAVEPOINT, or None
    reply,      \* the durable rows that the reply due will call committed
    promised,   \* history: rows that a reply called committed
    revoked     \* history: rows that a reply or a disconnect undid

session == <<pinned, inTx, stmt>>
sqlite == <<sqlTx, writes, snapshot, depth, committed>>
client == <<told, mine, mark, reply, promised, revoked>>
vars == <<pc, cmd, session, aux, sqlite, client>>

HeldPinned(c) == \E s \in Session : pinned[s] = c    \* fault: aux is forgotten
Held(c) == \E s \in Session : c \in {pinned[s], aux[s]}
LockedOut(c) == \E d \in Conn \ {c} : writes[d] # {}
Known == committed \cup promised \cup revoked
           \cup (UNION {writes[c] : c \in Conn}) \cup (UNION {mine[s] : s \in Session})

Init ==
    /\ pc = [s \in Session |-> "off"]
    /\ cmd = [s \in Session |-> None]
    /\ pinned = [s \in Session |-> None]
    /\ inTx = [s \in Session |-> FALSE]
    /\ aux = [s \in Session |-> None]
    /\ stmt = [s \in Session |-> "none"]
    /\ sqlTx = [c \in Conn |-> "none"]
    /\ writes = [c \in Conn |-> {}]
    /\ snapshot = [c \in Conn |-> "none"]
    /\ depth = [c \in Conn |-> 0]
    /\ committed = {}
    /\ told = [s \in Session |-> FALSE]
    /\ mine = [s \in Session |-> {}]
    /\ mark = [s \in Session |-> None]
    /\ reply = [s \in Session |-> {}]
    /\ promised = {}
    /\ revoked = {}
-----------------------------------------------------------------------------
(***************************************************************************)
(* SQLite, on one connection                                               *)
(***************************************************************************)
\* Readers of other connections keep the snapshot they have.
Outdated(rows, c) == [d \in Conn |->
    IF d = c THEN "none"
    ELSE IF snapshot[d] = "current" /\ rows # {} THEN "stale"
    ELSE snapshot[d]]

EndTxPopping(c) ==                  \* fault: one savepoint is popped, not all
    /\ sqlTx' = [sqlTx EXCEPT ![c] = "none"]
    /\ writes' = [writes EXCEPT ![c] = {}]
    /\ depth' = [depth EXCEPT ![c] = @ - 1]

EndTx(c) ==
    /\ sqlTx' = [sqlTx EXCEPT ![c] = "none"]
    /\ writes' = [writes EXCEPT ![c] = {}]
    /\ depth' = [depth EXCEPT ![c] = 0]

CommitTx(c) ==
    /\ EndTx(c)
    /\ committed' = committed \cup writes[c]
    /\ snapshot' = Outdated(writes[c], c)

DiscardTx(c) ==
    /\ EndTx(c)
    /\ snapshot' = [snapshot EXCEPT ![c] = "none"]
    /\ UNCHANGED committed

InsertThrough(c, r) ==              \* fault: the transaction does not hold it back
    /\ committed' = committed \cup {r}
    /\ writes' = [writes EXCEPT ![c] = IF sqlTx[c] = "none" THEN @ ELSE @ \cup {r}]
    /\ snapshot' = Outdated({r}, c)
    /\ UNCHANGED <<sqlTx, depth>>

Insert(c, r) ==
    /\ IF sqlTx[c] = "none"
         THEN /\ committed' = committed \cup {r}
              /\ snapshot' = Outdated({r}, c)
              /\ UNCHANGED writes
         ELSE /\ writes' = [writes EXCEPT ![c] = @ \cup {r}]
              /\ snapshot' = [snapshot EXCEPT ![c] = "current"]
              /\ UNCHANGED committed
    /\ UNCHANGED <<sqlTx, depth>>
-----------------------------------------------------------------------------
(***************************************************************************)
(* Connecting, and the way of a command to its connection                  *)
(***************************************************************************)
Connect(s) ==
    /\ pc[s] = "off"
    /\ pc' = [pc EXCEPT ![s] = "ready"]
    /\ UNCHANGED <<cmd, session, aux, sqlite, client>>

\* Savepoints are used as the README shows: one, inside a transaction.  A
\* "bareSavepoint" is the same statement with no transaction open.
Sensible(s, op) ==
    /\ op \in {"savepoint", "rollbackTo"} => told[s]
    /\ op = "bareSavepoint" => ~told[s]
    /\ op \in {"savepoint", "bareSavepoint"} => mark[s] = None
    /\ op \in {"release", "rollbackTo"} => mark[s] # None
    /\ op = "prepare" => stmt[s] = "none"
    /\ op \in {"execute", "closeStmt"} => stmt[s] # "none"

\* ensureConnection pins a connection on first use; COMMIT and ROLLBACK need
\* none; information_schema goes to the pool (h.db.Pool.DB()).
Submit(s, op, r) ==
    /\ pc[s] = "ready"
    /\ Sensible(s, op)
    /\ cmd' = [cmd EXCEPT ![s] = [op |-> op, row |-> r]]
    /\ pc' = [pc EXCEPT ![s] =
         IF op = "infoSchema" THEN "take"
         ELSE IF op \in {"commit", "rollback", "rollbackTo", "closeStmt"}
                   \/ pinned[s] # None
           THEN "run"
         ELSE "pin"]
    /\ UNCHANGED <<session, aux, sqlite, client>>

Request(s) ==
    \/ \E op \in Command \ {"write", "execute"} : Submit(s, op, None)
    \/ \E op \in Command \cap {"write", "execute"}, r \in Row \ Known :
         /\ \A t \in Session : cmd[t] # None => cmd[t].row # r
         /\ Submit(s, op, r)

Finish(s) ==
    /\ pc' = [pc EXCEPT ![s] = "ready"]
    /\ cmd' = [cmd EXCEPT ![s] = None]

\* DB.Conn(context.Background()): waits as long as the pool is exhausted.
Pin(s) ==
    /\ pc[s] = "pin"
    /\ \E c \in Conn : ~Held(c) /\ pinned' = [pinned EXCEPT ![s] = c]
    /\ pc' = [pc EXCEPT ![s] = "run"]
    /\ UNCHANGED <<cmd, inTx, stmt, aux, sqlite, client>>

\* Opening a new SQLite connection fails: the command is answered an error.
PinFails(s) ==
    /\ pc[s] = "pin"
    /\ \E c \in Conn : ~Held(c) /\ sqlTx[c] = "none"
    /\ Finish(s)
    /\ UNCHANGED <<session, aux, sqlite, client>>

TakeAux(s) ==
    /\ pc[s] = "take"
    /\ \E c \in Conn : ~Held(c) /\ aux' = [aux EXCEPT ![s] = c]
    /\ pc' = [pc EXCEPT ![s] = "scan"]
    /\ UNCHANGED <<cmd, session, sqlite, client>>

ReturnAux(s) ==
    /\ pc[s] = "scan"
    /\ aux' = [aux EXCEPT ![s] = None]
    /\ Finish(s)
    /\ UNCHANGED <<session, sqlite, client>>
-----------------------------------------------------------------------------
(***************************************************************************)
(* The commands.  Each ends with the reply that the client learns from.    *)
(***************************************************************************)
Runs(s, ops) == pc[s] = "run" /\ cmd[s].op \in ops

\* These rows are durable: the reply that says so is yet to be given.
Answer(s, rows) ==
    /\ pc' = [pc EXCEPT ![s] = "reply"]
    /\ cmd' = [cmd EXCEPT ![s] = None]
    /\ reply' = [reply EXCEPT ![s] = rows]

Reply(s) ==
    /\ pc[s] = "reply"
    /\ pc' = [pc EXCEPT ![s] = "ready"]
    /\ promised' = promised \cup reply[s]
    /\ reply' = [reply EXCEPT ![s] = {}]
    /\ UNCHANGED <<cmd, session, aux, sqlite, told, mine, mark, revoked>>

\* database/sql closes the statements of a Tx that ends.
EndSessionTx(s) ==
    /\ inTx' = [inTx EXCEPT ![s] = FALSE]
    /\ stmt' = [stmt EXCEPT ![s] = IF @ = "tx" THEN "closed" ELSE @]

\* The client hears that its transaction ended, and keeps or loses its rows.
ToldEnd(s) ==
    /\ told' = [told EXCEPT ![s] = FALSE]
    /\ mine' = [mine EXCEPT ![s] = {}]
    /\ mark' = [mark EXCEPT ![s] = None]

BeginUnsent(s) ==                   \* fault: the session is marked, BEGIN not sent
    /\ Runs(s, {"begin"})
    /\ ~inTx[s]
    /\ inTx' = [inTx EXCEPT ![s] = TRUE]
    /\ told' = [told EXCEPT ![s] = TRUE]
    /\ Finish(s)
    /\ UNCHANGED <<pinned, stmt, aux, sqlite, mine, mark, reply, promised, revoked>>

\* handleBegin.
Begin(s) ==
    LET c == pinned[s] IN
    /\ Runs(s, {"begin"})
    /\ ~inTx[s]
    /\ sqlTx[c] = "none"
    /\ sqlTx' = [sqlTx EXCEPT ![c] = "begin"]
    /\ inTx' = [inTx EXCEPT ![s] = TRUE]
    /\ told' = [told EXCEPT ![s] = TRUE]
    /\ Finish(s)
    /\ UNCHANGED <<pinned, stmt, aux, writes, snapshot, depth, committed,
                   mine, mark, reply, promised, revoked>>

\* "transaction already in progress", from the session or from SQLite.
BeginFails(s) ==
    /\ Runs(s, {"begin"})
    /\ inTx[s] \/ sqlTx[pinned[s]] # "none"
    /\ Finish(s)
    /\ UNCHANGED <<session, aux, sqlite, client>>

CommitUnsent(s) ==                  \* fault: Tx is dropped, COMMIT not sent
    /\ Runs(s, {"commit"})
    /\ inTx[s]
    /\ EndSessionTx(s)
    /\ ToldEnd(s)
    /\ Answer(s, mine[s])
    /\ UNCHANGED <<pinned, aux, sqlite, promised, revoked>>

\* handleCommit, Session.CommitTransaction, up to the reply.
Commit(s) ==
    LET c == pinned[s] IN
    /\ Runs(s, {"commit"})
    /\ inTx[s]
    /\ sqlTx[c] # "none"
    /\ CommitTx(c)
    /\ EndSessionTx(s)
    /\ ToldEnd(s)
    /\ Answer(s, mine[s])
    /\ UNCHANGED <<pinned, aux, promised, revoked>>

\* COMMIT fails in SQLite, which may have no transaction any more: the driver
\* rolls back, the session clears Tx.
CommitFails(s) ==
    /\ Runs(s, {"commit"})
    /\ inTx[s]
    /\ DiscardTx(pinned[s])
    /\ EndSessionTx(s)
    /\ revoked' = revoked \cup mine[s]
    /\ ToldEnd(s)
    /\ Finish(s)
    /\ UNCHANGED <<pinned, aux, reply, promised>>

\* "no active transaction".
CommitNothing(s) ==
    /\ Runs(s, {"commit"})
    /\ ~inTx[s]
    /\ ToldEnd(s)
    /\ Finish(s)
    /\ UNCHANGED <<session, aux, sqlite, reply, promised, revoked>>

RollbackUnsent(s) ==                \* fault: Tx is dropped, ROLLBACK not sent
    /\ Runs(s, {"rollback"})
    /\ EndSessionTx(s)
    /\ revoked' = revoked \cup mine[s]
    /\ ToldEnd(s)
    /\ Finish(s)
    /\ UNCHANGED <<pinned, aux, sqlite, reply, promised>>

\* handleRollback, for ROLLBACK and for ROLLBACK TO SAVEPOINT alike: the
\* parser gives both the same statement type.  The client was asked to forget
\* everything, or what it wrote since its savepoint.
Rollback(s) ==
    LET kept == IF cmd[s].op = "rollbackTo" THEN mark[s] ELSE {} IN
    /\ Runs(s, {"rollback", "rollbackTo"})
    /\ inTx[s] => sqlTx[pinned[s]] # "none"
    /\ IF inTx[s] THEN DiscardTx(pinned[s]) ELSE UNCHANGED sqlite
    /\ EndSessionTx(s)
    /\ revoked' = revoked \cup (mine[s] \ kept)
    /\ IF cmd[s].op = "rollback"
         THEN ToldEnd(s)
         ELSE mine' = [mine EXCEPT ![s] = kept] /\ UNCHANGED <<told, mark>>
    /\ Finish(s)
    /\ UNCHANGED <<pinned, aux, reply, promised>>

\* SQLite has no transaction any more: an error, and the session clears Tx.
RollbackFails(s) ==
    /\ Runs(s, {"rollback", "rollbackTo"})
    /\ inTx[s]
    /\ sqlTx[pinned[s]] = "none"
    /\ EndSessionTx(s)
    /\ IF cmd[s].op = "rollback" THEN ToldEnd(s) ELSE UNCHANGED <<told, mine, mark>>
    /\ Finish(s)
    /\ UNCHANGED <<pinned, aux, sqlite, reply, promised, revoked>>

\* HandleStmtPrepare of an INSERT: in a transaction the statement is its own.
Prepare(s) ==
    /\ Runs(s, {"prepare"})
    /\ stmt' = [stmt EXCEPT ![s] = IF inTx[s] THEN "tx" ELSE "conn"]
    /\ Finish(s)
    /\ UNCHANGED <<pinned, inTx, aux, sqlite, client>>

CloseStmt(s) ==
    /\ Runs(s, {"closeStmt"})
    /\ stmt' = [stmt EXCEPT ![s] = "none"]
    /\ Finish(s)
    /\ UNCHANGED <<pinned, inTx, aux, sqlite, client>>

Usable(s) == cmd[s].op = "execute" => stmt[s] # "closed"

\* An INSERT, on the transaction or on the pinned connection; or one prepared,
\* which is executed on the connection, whatever it was prepared in.
Write(s) ==
    LET c == pinned[s]  r == cmd[s].row IN
    /\ Runs(s, {"write", "execute"})
    /\ Usable(s)
    /\ ~LockedOut(c)
    /\ snapshot[c] # "stale"
    /\ Insert(c, r)
    /\ IF told[s]
         THEN mine' = [mine EXCEPT ![s] = @ \cup {r}] /\ Finish(s) /\ UNCHANGED reply
         ELSE Answer(s, {r}) /\ UNCHANGED mine
    /\ UNCHANGED <<session, aux, told, mark, promised, revoked>>

WriteBusyRetried(s) ==              \* fault: SQLITE_BUSY is retried for ever
    /\ Runs(s, {"write"})
    /\ LockedOut(pinned[s])
    /\ UNCHANGED vars

\* SQLITE_BUSY: once the busy timeout has passed with another writer active,
\* or at once when the transaction's snapshot is outdated.
WriteBusy(s) ==
    LET c == pinned[s] IN
    /\ Runs(s, {"write", "execute"})
    /\ Usable(s)
    /\ LockedOut(c) \/ snapshot[c] = "stale"
    /\ Finish(s)
    /\ UNCHANGED <<session, aux, sqlite, client>>

\* "sql: statement is closed": it was prepared in a transaction that ended.
ExecuteClosed(s) ==
    /\ Runs(s, {"execute"})
    /\ ~Usable(s)
    /\ Finish(s)
    /\ UNCHANGED <<session, aux, sqlite, client>>

\* A constraint, an unknown name, a syntax error: the statement alone is undone.
Refuse(s) ==
    /\ Runs(s, {"write", "execute", "read", "prepare"})
    /\ Finish(s)
    /\ UNCHANGED <<session, aux, sqlite, client>>

\* SQLITE_FULL, IOERR or NOMEM: SQLite rolls the whole transaction back.  The
\* client hears of an error, the session keeps its Tx.
RefuseAll(s) ==
    LET c == pinned[s] IN
    /\ DiskFills
    /\ Runs(s, {"write", "execute", "read"})
    /\ Usable(s)
    /\ sqlTx[c] # "none"
    /\ DiscardTx(c)
    /\ Finish(s)
    /\ UNCHANGED <<session, aux, client>>

\* A SELECT; the first one of a transaction takes its snapshot.  One that is
\* prepared without parameters is executed when it is prepared, too.
Read(s) ==
    LET c == pinned[s] IN
    /\ Runs(s, {"read"})
    /\ snapshot' = [snapshot EXCEPT ![c] =
         IF sqlTx[c] # "none" /\ @ = "none" THEN "current" ELSE @]
    /\ Finish(s)
    /\ UNCHANGED <<session, aux, sqlTx, writes, depth, committed, client>>

\* What SQLite accepts (or, for SAVEPOINT, the bound of the model).
Accepts(c, op) ==
    /\ op = "preparedBegin" => sqlTx[c] = "none"
    /\ op = "preparedCommit" => sqlTx[c] # "none"
    /\ op = "release" => depth[c] > 0
    /\ op \in {"savepoint", "bareSavepoint"} => depth[c] < MaxSavepoints

\* SAVEPOINT goes to SQLite as it is: outside a transaction it opens one.
Savepoint(s) ==
    LET c == pinned[s] IN
    /\ Runs(s, {"savepoint", "bareSavepoint"})
    /\ Accepts(c, cmd[s].op)
    /\ depth' = [depth EXCEPT ![c] = @ + 1]
    /\ sqlTx' = [sqlTx EXCEPT ![c] = IF @ = "none" THEN "savepoint" ELSE @]
    /\ mark' = [mark EXCEPT ![s] = mine[s]]
    /\ Finish(s)
    /\ UNCHANGED <<session, aux, writes, snapshot, committed,
                   told, mine, reply, promised, revoked>>

\* RELEASE SAVEPOINT; of the savepoint that opened the transaction: a COMMIT.
Release(s) ==
    LET c == pinned[s] IN
    /\ Runs(s, {"release"})
    /\ Accepts(c, "release")
    /\ IF depth[c] = 1 /\ sqlTx[c] = "savepoint"
         THEN CommitTx(c)
         ELSE /\ depth' = [depth EXCEPT ![c] = @ - 1]
              /\ UNCHANGED <<sqlTx, writes, snapshot, committed>>
    /\ mark' = [mark EXCEPT ![s] = None]
    /\ Finish(s)
    /\ UNCHANGED <<session, aux, told, mine, reply, promised, revoked>>

\* A prepared BEGIN runs on the connection behind the session's back, and so
\* does one in a text that the parser refuses.
PreparedBegin(s) ==
    LET c == pinned[s] IN
    /\ Runs(s, {"preparedBegin"})
    /\ Accepts(c, "preparedBegin")
    /\ sqlTx' = [sqlTx EXCEPT ![c] = "begin"]
    /\ told' = [told EXCEPT ![s] = TRUE]
    /\ Finish(s)
    /\ UNCHANGED <<session, aux, writes, snapshot, depth, committed,
                   mine, mark, reply, promised, revoked>>

\* A prepared COMMIT does the same.
PreparedCommit(s) ==
    LET c == pinned[s] IN
    /\ Runs(s, {"preparedCommit"})
    /\ Accepts(c, "preparedCommit")
    /\ CommitTx(c)
    /\ ToldEnd(s)
    /\ Answer(s, mine[s])
    /\ UNCHANGED <<session, aux, promised, revoked>>

\* SQLite has no transaction to commit, or no such savepoint.
RawFails(s) ==
    /\ Runs(s, {"preparedBegin", "preparedCommit", "release", "savepoint", "bareSavepoint"})
    /\ ~Accepts(pinned[s], cmd[s].op)
    /\ Finish(s)
    /\ UNCHANGED <<session, aux, sqlite, client>>
-----------------------------------------------------------------------------
DisconnectPinned(s) ==              \* fault: Close does not roll back
    /\ pc[s] = "ready"
    /\ pc' = [pc EXCEPT ![s] = "off"]
    /\ pinned' = [pinned EXCEPT ![s] = None]
    /\ inTx' = [inTx EXCEPT ![s] = FALSE]
    /\ stmt' = [stmt EXCEPT ![s] = "none"]
    /\ revoked' = revoked \cup mine[s]
    /\ ToldEnd(s)
    /\ UNCHANGED <<cmd, aux, sqlite, reply, promised>>

\* The client goes away: SessionManager.Remove, Session.Close.  A Tx is rolled
\* back; then the pool keeps the connection or closes it (SetMaxIdleConns,
\* SetConnMaxLifetime), which undoes whatever was still open on it.
Disconnect(s) ==
    LET c == pinned[s] IN
    /\ pc[s] = "ready"
    /\ pc' = [pc EXCEPT ![s] = "off"]
    /\ pinned' = [pinned EXCEPT ![s] = None]
    /\ inTx' = [inTx EXCEPT ![s] = FALSE]
    /\ stmt' = [stmt EXCEPT ![s] = "none"]
    /\ \E closed \in BOOLEAN :
         IF c # None /\ (inTx[s] \/ closed) THEN DiscardTx(c) ELSE UNCHANGED sqlite
    /\ revoked' = revoked \cup mine[s]
    /\ ToldEnd(s)
    /\ UNCHANGED <<cmd, aux, reply, promised>>

\* Store.Query of the management API: a connection of its own, closed after one
\* statement, an INSERT here.  It waits for the lock like any other.
AdminQuery ==
    /\ \A c \in Conn : writes[c] = {}
    /\ \E r \in Row \ Known :
         /\ \A s \in Session : cmd[s] # None => cmd[s].row # r
         /\ committed' = committed \cup {r}
         /\ promised' = promised \cup {r}
         /\ snapshot' = [c \in Conn |-> IF snapshot[c] = "current" THEN "stale" ELSE snapshot[c]]
    /\ UNCHANGED <<pc, cmd, session, aux, sqlTx, writes, depth,
                   told, mine, mark, reply, revoked>>

\* The process dies and restarts: all connections are gone.  Of a COMMIT whose
\* reply was due the client knows nothing.
Crash ==
    /\ pc' = [s \in Session |-> "off"]
    /\ cmd' = [s \in Session |-> None]
    /\ pinned' = [s \in Session |-> None]
    /\ inTx' = [s \in Session |-> FALSE]
    /\ aux' = [s \in Session |-> None]
    /\ stmt' = [s \in Session |-> "none"]
    /\ sqlTx' = [c \in Conn |-> "none"]
    /\ writes' = [c \in Conn |-> {}]
    /\ snapshot' = [c \in Conn |-> "none"]
    /\ depth' = [c \in Conn |-> 0]
    /\ told' = [s \in Session |-> FALSE]
    /\ mine' = [s \in Session |-> {}]
    /\ mark' = [s \in Session |-> None]
    /\ reply' = [s \in Session |-> {}]
    /\ revoked' = revoked \cup (UNION {mine[s] : s \in Session})
    /\ UNCHANGED <<committed, promised>>
-----------------------------------------------------------------------------
Execute(s) ==
    \/ Begin(s) \/ BeginFails(s)
    \/ Commit(s) \/ CommitFails(s) \/ CommitNothing(s)
    \/ Rollback(s) \/ RollbackFails(s)
    \/ Prepare(s) \/ CloseStmt(s)
    \/ Write(s) \/ WriteBusy(s) \/ ExecuteClosed(s) \/ Read(s)
    \/ Savepoint(s) \/ Release(s)
    \/ PreparedBegin(s) \/ PreparedCommit(s) \/ RawFails(s)
    \/ Reply(s)

Acquire(s) == Pin(s) \/ PinFails(s)

Next ==
    \/ \E s \in Session :
         \/ Connect(s) \/ Request(s) \/ Disconnect(s)
         \/ Acquire(s) \/ TakeAux(s) \/ ReturnAux(s)
         \/ Execute(s) \/ Refuse(s) \/ RefuseAll(s)
    \/ AdminQuery
    \/ Crash

\* A goroutine that can run does; the pool serves its waiters in turn, so one
\* that keeps finding a connection free in the end gets it (SF).  Clients
\* need not send, nor leave, and no command may count on a refusal.
Fairness == \A s \in Session :
    /\ SF_vars(Acquire(s)) /\ SF_vars(TakeAux(s))
    /\ WF_vars(ReturnAux(s)) /\ WF_vars(Execute(s))

Spec == Init /\ [][Next]_vars /\ Fairness
-----------------------------------------------------------------------------
TypeOK ==
    /\ pc \in [Session -> {"off", "ready", "pin", "run", "take", "scan", "reply"}]
    /\ cmd \in [Session -> [op : Op, row : Row \cup {None}] \cup {None}]
    /\ pinned \in [Session -> Conn \cup {None}]
    /\ inTx \in [Session -> BOOLEAN]
    /\ aux \in [Session -> Conn \cup {None}]
    /\ stmt \in [Session -> {"none", "conn", "tx", "closed"}]
    /\ sqlTx \in [Conn -> {"none", "begin", "savepoint"}]
    /\ writes \in [Conn -> SUBSET Row]
    /\ snapshot \in [Conn -> {"none", "current", "stale"}]
    /\ depth \in [Conn -> 0 .. MaxSavepoints]
    /\ committed \in SUBSET Row
    /\ told \in [Session -> BOOLEAN]
    /\ mine \in [Session -> SUBSET Row]
    /\ mark \in [Session -> (SUBSET Row) \cup {None}]
    /\ reply \in [Session -> SUBSET Row]
    /\ promised \in SUBSET Row
    /\ revoked \in SUBSET Row

\* What the replies called committed is in the database and stays there, also
\* when the session is gone, its connection reused, or the process restarted.
PromisedKept == promised \subseteq committed

\* What a reply or a disconnect undid is not in the database, nor can the
\* COMMIT of whoever gets the connection next bring it back.
RevokedGone ==
    /\ revoked \cap committed = {}
    /\ \A c \in Conn : revoked \cap writes[c] = {}

\* The client and SQLite agree on what is pending: between two commands the
\* client's transaction is open on its connection and holds just its rows.
ClientViewMatches ==
    \A s \in Session : pc[s] = "ready" =>
        /\ told[s] <=> pinned[s] # None /\ sqlTx[pinned[s]] # "none"
        /\ told[s] => writes[pinned[s]] = mine[s]

\* A session never has another one's transaction or rows on its connection,
\* and pins its connection alone.
ConnectionsArePrivate ==
    \A s, t \in Session : s # t =>
        /\ pinned[s] # None => pinned[s] \notin {pinned[t], aux[t]}
        /\ pinned[s] # None => writes[pinned[s]] \cap mine[t] = {}

\* README, "Transaction state is maintained per session" and "Session cleanup
\* happens automatically on disconnect": no transaction outlives its session
\* on a connection that the pool can hand to another one.
PooledConnectionsClean ==
    \A c \in Conn : (\A s \in Session : pinned[s] # c)
                      => sqlTx[c] = "none" /\ writes[c] = {}

\* Sessions provides the transactions of Transactions, to the clients' account.
T == INSTANCE Transactions WITH
       durable <- committed,
       open    <- told,
       pending <- mine

\* All or nothing: rows become part of the database one whole transaction, or
\* one autocommitted row, at a time, and rows of a failed COMMIT, a ROLLBACK, a
\* disconnect or a crash never do.
Transactional == T!Spec

\* Every command is answered, unless from some point on every connection of the
\* pool is always held by a session (information_schema takes a second one).
RepliesUnlessExhausted ==
    ([]<>(\E c \in Conn : ~Held(c))) =>
        \A s \in Session : pc[s] \notin {"off", "ready"} ~> pc[s] \in {"off", "ready"}
=============================================================================
