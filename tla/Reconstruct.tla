----------------------------- MODULE Reconstruct -----------------------------
(***************************************************************************)
(* server/handler.go, handleReconstructTable: ALTER TABLE t MODIFY COLUMN  *)
(* as a copy of the table.  Four statements, each of them its own          *)
(* transaction on some connection of the pool, create "_tmp_t", copy into  *)
(* it, drop t and rename the copy, while other sessions insert into t, run *)
(* the same command, or create t anew, and the process may die.            *)
(*                                                                         *)
(* Any statement may fail: SQLite refuses it, is locked by another writer, *)
(* or cannot open a connection.                                            *)
(***************************************************************************)
CONSTANTS Session,    \* sessions that run MODIFY COLUMN
          Row,        \* rows that other sessions insert
          Column,     \* columns of t
          Def,        \* column definitions
          None

ASSUME ReconstructAssumption ==
    /\ "MODIFY" \notin Column
    /\ None \notin [def : [Column -> Def], rows : SUBSET Row]

VARIABLES
    table,      \* "t" and "tmp": their definition and rows, or None
    pc,         \* the next statement of each session
    job,        \* what each session has of its command, or None
    reply,      \* the last answer to each session
    acked,      \* history: rows whose INSERT was answered OK
    gap         \* history: those inserted between a copy and its drop

vars == <<table, pc, job, reply, acked, gap>>

Table == [def : [Column -> Def], rows : SUBSET Row]
Rows(n) == IF table[n] = None THEN {} ELSE table[n].rows

Init ==
    /\ \E d \in [Column -> Def] :
         table = [n \in {"t", "tmp"} |->
                    IF n = "t" THEN [def |-> d, rows |-> {}] ELSE None]
    /\ pc = [s \in Session |-> "idle"]
    /\ job = [s \in Session |-> None]
    /\ reply = [s \in Session |-> "none"]
    /\ acked = {}
    /\ gap = {}
-----------------------------------------------------------------------------
At(s, step) == pc[s] = step
Goto(s, step) == pc' = [pc EXCEPT ![s] = step]
Put(n, content) == table' = [table EXCEPT ![n] = content]

Answer(s, how) ==
    /\ reply' = [reply EXCEPT ![s] = how]
    /\ job' = [job EXCEPT ![s] = None]
    /\ Goto(s, "idle")

\* The words of the marker: translateAlterTable writes "t MODIFY c def" where
\* handleReconstructTable splits off a table, a column and a definition.
Marker(c, d) == [column |-> "MODIFY", def |-> <<c, d>>]

\* A statement that the parser accepts is restored with double quotes, which
\* the pattern for MODIFY COLUMN does not allow for: SQLite gets it as it is.
ModifyParsed(s) ==
    /\ At(s, "idle")
    /\ Answer(s, "error")
    /\ UNCHANGED <<table, acked, gap>>

\* One that the parser refuses is translated as text, into the marker.
ModifyUnparsed(s, c, d) ==
    /\ At(s, "idle")
    /\ job' = [job EXCEPT ![s] = [asked |-> <<c, d>>, marker |-> Marker(c, d),
                                  def |-> None]]
    /\ Goto(s, "info")
    /\ UNCHANGED <<table, reply, acked, gap>>

InfoUnchecked(s) ==                 \* fault: a table without columns is let pass
    /\ At(s, "info")
    /\ job' = IF table["t"] = None THEN job
              ELSE [job EXCEPT ![s].def = table["t"].def]
    /\ Goto(s, "create")
    /\ UNCHANGED <<table, reply, acked, gap>>

\* PRAGMA table_info(t), with the definition of the named column replaced.
Info(s) ==
    LET m == job[s].marker IN
    /\ At(s, "info")
    /\ table["t"] # None
    /\ job' = [job EXCEPT ![s].def = [c \in Column |->
                 IF c = m.column THEN m.def ELSE table["t"].def[c]]]
    /\ Goto(s, "create")
    /\ UNCHANGED <<table, reply, acked, gap>>

CreateIfMissing(s) ==               \* fault: CREATE TABLE IF NOT EXISTS _tmp_t
    /\ At(s, "create")
    /\ IF table["tmp"] = None THEN Put("tmp", [def |-> job[s].def, rows |-> {}])
                               ELSE UNCHANGED table
    /\ Goto(s, "copy")
    /\ UNCHANGED <<job, reply, acked, gap>>

\* CREATE TABLE _tmp_t
Create(s) ==
    /\ At(s, "create")
    /\ table["tmp"] = None
    /\ Put("tmp", [def |-> job[s].def, rows |-> {}])
    /\ Goto(s, "copy")
    /\ UNCHANGED <<job, reply, acked, gap>>

CopyUnchecked(s) ==                 \* fault: an error of the copy is ignored
    /\ At(s, "copy")
    /\ Goto(s, "drop")
    /\ UNCHANGED <<table, job, reply, acked, gap>>

\* INSERT INTO _tmp_t SELECT ... FROM t
Copy(s) ==
    /\ At(s, "copy")
    /\ table["t"] # None /\ table["tmp"] # None
    /\ Put("tmp", [table["tmp"] EXCEPT !.rows = @ \cup table["t"].rows])
    /\ Goto(s, "drop")
    /\ UNCHANGED <<job, reply, acked, gap>>

\* The copy fails: DROP TABLE IF EXISTS _tmp_t, whose own error is ignored.
CopyFails(s) ==
    /\ At(s, "copy")
    /\ \E left \in {None, table["tmp"]} : Put("tmp", left)
    /\ Answer(s, "error")
    /\ UNCHANGED <<acked, gap>>

\* DROP TABLE t
Drop(s) ==
    /\ At(s, "drop")
    /\ table["t"] # None
    /\ Put("t", None)
    /\ Goto(s, "rename")
    /\ UNCHANGED <<job, reply, acked, gap>>

\* ALTER TABLE _tmp_t RENAME TO t
Rename(s) ==
    /\ At(s, "rename")
    /\ table["t"] = None /\ table["tmp"] # None
    /\ table' = [table EXCEPT !["t"] = table["tmp"], !["tmp"] = None]
    /\ Answer(s, "ok")
    /\ UNCHANGED <<acked, gap>>

FailsCleaning(s) ==                 \* fault: every failure drops _tmp_t
    /\ pc[s] \in {"info", "create", "drop", "rename"}
    /\ Put("tmp", None)
    /\ Answer(s, "error")
    /\ UNCHANGED <<acked, gap>>

\* No table t, _tmp_t there already, or t gone or back: nothing is cleaned up.
Fails(s) ==
    /\ pc[s] \in {"info", "create", "drop", "rename"}
    /\ Answer(s, "error")
    /\ UNCHANGED <<table, acked, gap>>
-----------------------------------------------------------------------------
(***************************************************************************)
(* Everyone else                                                           *)
(***************************************************************************)
Insert(r) ==
    /\ table["t"] # None
    /\ r \notin acked
    /\ Put("t", [table["t"] EXCEPT !.rows = @ \cup {r}])
    /\ acked' = acked \cup {r}
    /\ gap' = IF \E s \in Session : At(s, "drop") THEN gap \cup {r} ELSE gap
    /\ UNCHANGED <<pc, job, reply>>

\* CREATE TABLE t by a client that finds it missing.
CreateAnew ==
    /\ table["t"] = None
    /\ \E d \in [Column -> Def] : Put("t", [def |-> d, rows |-> {}])
    /\ UNCHANGED <<pc, job, reply, acked, gap>>

Crash ==
    /\ pc' = [s \in Session |-> "idle"]
    /\ job' = [s \in Session |-> None]
    /\ reply' = [s \in Session |-> "none"]
    /\ UNCHANGED <<table, acked, gap>>

Modify(s) ==
    \/ ModifyParsed(s)
    \/ \E c \in Column, d \in Def : ModifyUnparsed(s, c, d)
    \/ Info(s) \/ Create(s) \/ Copy(s) \/ CopyFails(s) \/ Drop(s) \/ Rename(s)
    \/ Fails(s)

Next ==
    \/ \E s \in Session : Modify(s)
    \/ \E r \in Row : Insert(r)
    \/ CreateAnew
    \/ Crash

Spec == Init /\ [][Next]_vars
-----------------------------------------------------------------------------
Job == [asked : Column \X Def,
        marker : [column : Column \cup {"MODIFY"}, def : Column \X Def],
        def : [Column -> Def] \cup {None}]

TypeOK ==
    /\ table \in [{"t", "tmp"} -> Table \cup {None}]
    /\ pc \in [Session -> {"idle", "info", "create", "copy", "drop", "rename"}]
    /\ job \in [Session -> Job \cup {None}]
    /\ reply \in [Session -> {"none", "ok", "error"}]
    /\ acked \in SUBSET Row
    /\ gap \in SUBSET acked

\* Acknowledged rows are in t or in its copy, at every step, failure and crash,
\* save those that another session inserted between the copy and the drop.
RowsSurvive == acked \ gap \subseteq Rows("t") \cup Rows("tmp")

\* The table never vanishes under both of its names.
NeverBothGone == table["t"] # None \/ table["tmp"] # None

\* A session that still copies, and may drop its copy again, is the only one
\* past its CREATE: it cannot take away the copy another one relies on.
CopyIsPrivate ==
    \A s, u \in Session :
        At(s, "copy") /\ s # u => pc[u] \notin {"copy", "drop", "rename"}

\* handler.go, "Use the new column definition": a MODIFY COLUMN that is
\* answered OK has given the column its new definition.
ModifiedWhenAnswered ==
    [][\A s \in Session : pc[s] # "idle" /\ pc'[s] = "idle" /\ reply'[s] = "ok" =>
         LET asked == job[s].asked IN table'["t"].def[asked[1]] = asked[2]]_vars
=============================================================================
