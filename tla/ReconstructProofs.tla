-------------------------- MODULE ReconstructProofs --------------------------
(***************************************************************************)
(* Proofs about Reconstruct, for any sets of sessions, rows, columns and   *)
(* definitions.                                                            *)
(***************************************************************************)
EXTENDS Reconstruct, TLAPS

\* Between a session's CREATE of the copy and its RENAME.
Past == {"copy", "drop", "rename"}

\* A session with a command has read its marker, and later a definition.
Tasked ==
    \A s \in Session :
        /\ pc[s] # "idle" => job[s] \in Job /\ job[s].marker.column = "MODIFY"
        /\ pc[s] \in Past \cup {"create"} => job[s].def \in [Column -> Def]

\* One session at a time is past its CREATE, and its copy exists.
OneCopy ==
    /\ \A s \in Session : pc[s] \in Past => table["tmp"] # None
    /\ \A s, u \in Session : pc[s] \in Past /\ pc[u] \in Past => s = u

\* Until its DROP the table exists; before the copy all rows are in it, and
\* after the copy all are in the copy.
Copied ==
    \A s \in Session :
        /\ pc[s] \in {"copy", "drop"} => table["t"] # None
        /\ At(s, "copy") => acked \ gap \subseteq Rows("t")
        /\ At(s, "drop") => acked \ gap \subseteq Rows("tmp")

\* The inductive invariant.
IInv == TypeOK /\ Tasked /\ OneCopy /\ Copied /\ RowsSurvive /\ NeverBothGone
-----------------------------------------------------------------------------
USE ReconstructAssumption
USE DEF At, Goto, Put, Answer, Rows

\* The table exists, the copy does not.
LEMMA InitIInv == Init => IInv
<1> SUFFICES ASSUME Init PROVE IInv
  OBVIOUS
<1>1. PICK d \in [Column -> Def] :
        table = [n \in {"t", "tmp"} |->
                   IF n = "t" THEN [def |-> d, rows |-> {}] ELSE None]
  BY DEF Init
<1>2. [def |-> d, rows |-> {}] \in Table /\ [def |-> d, rows |-> {}] # None
  BY DEF Table
<1>3. TypeOK /\ NeverBothGone
  BY <1>1, <1>2 DEF Init, TypeOK, NeverBothGone
<1>4. Tasked /\ OneCopy /\ Copied /\ RowsSurvive
  BY DEF Init, Tasked, OneCopy, Copied, RowsSurvive, Past
<1> QED
  BY <1>3, <1>4 DEF IInv

\* The copy and the table, where they exist.
LEMMA Contents ==
  ASSUME TypeOK, NEW n \in {"t", "tmp"}, table[n] # None
  PROVE  /\ table[n].def \in [Column -> Def]
         /\ table[n].rows \in SUBSET Row
         /\ Rows(n) = table[n].rows
  BY DEF TypeOK, Table

\* A table has some definition and rows, and is never None.
LEMMA NewTable ==
  ASSUME NEW d \in [Column -> Def], NEW rows \in SUBSET Row
  PROVE  [def |-> d, rows |-> rows] \in Table /\ [def |-> d, rows |-> rows] # None
  BY DEF Table

\* An answer that leaves the tables alone.
LEMMA AnswerStep ==
  ASSUME IInv, NEW s \in Session, NEW how \in {"ok", "error"}, Answer(s, how),
         UNCHANGED <<table, acked, gap>>
  PROVE  IInv'
<1>1. TypeOK'
  BY DEF IInv, TypeOK
<1>2. Tasked' /\ OneCopy' /\ Copied'
  BY DEF IInv, TypeOK, Tasked, OneCopy, Copied, Past
<1> QED
  BY <1>1, <1>2 DEF IInv, RowsSurvive, NeverBothGone

\* Taking the command: the marker's column is the word MODIFY.
LEMMA UnparsedStep ==
  ASSUME IInv, NEW s \in Session, NEW c \in Column, NEW d \in Def,
         ModifyUnparsed(s, c, d)
  PROVE  IInv'
<1> DEFINE new == [asked |-> <<c, d>>, marker |-> Marker(c, d), def |-> None]
<1>1. new \in Job /\ new.marker.column = "MODIFY"
  BY DEF Job, Marker
<1> HIDE DEF new
<1>2. /\ job' = [job EXCEPT ![s] = new]
      /\ pc' = [pc EXCEPT ![s] = "info"]
      /\ UNCHANGED <<table, reply, acked, gap>>
  BY DEF ModifyUnparsed, new
<1>3. TypeOK' /\ Tasked'
  BY <1>1, <1>2 DEF IInv, TypeOK, Tasked, Past
<1>4. OneCopy' /\ Copied'
  BY <1>2 DEF IInv, TypeOK, OneCopy, Copied, Past
<1> QED
  BY <1>2, <1>3, <1>4 DEF IInv, RowsSurvive, NeverBothGone

\* No column is named MODIFY: the definitions are read as they are.
LEMMA InfoStep ==
  ASSUME IInv, NEW s \in Session, Info(s)
  PROVE  IInv'
<1> DEFINE old == table["t"].def
<1>1. /\ job[s] \in Job
      /\ job[s].marker.column = "MODIFY"
      /\ old \in [Column -> Def]
  BY Contents DEF IInv, Tasked, Info
<1>2. job' = [job EXCEPT ![s].def = old]
  BY <1>1 DEF Info
<1>3. job'[s] = [job[s] EXCEPT !.def = old]
  BY <1>2 DEF IInv, TypeOK
<1>4. job'[s] \in Job /\ job'[s].marker.column = "MODIFY" /\ job'[s].def = old
  BY <1>1, <1>3 DEF Job
<1>5. TypeOK' /\ Tasked'
  BY <1>1, <1>2, <1>4 DEF IInv, TypeOK, Tasked, Past, Info
<1>6. OneCopy' /\ Copied'
  BY DEF IInv, TypeOK, OneCopy, Copied, Past, Info
<1> QED
  BY <1>5, <1>6 DEF IInv, RowsSurvive, NeverBothGone, Info

\* CREATE TABLE makes the copy, if there is none, with the columns read before.
LEMMA CreateStep ==
  ASSUME IInv, NEW s \in Session, Create(s)
  PROVE  IInv'
<1> DEFINE new == [def |-> job[s].def, rows |-> {}]
<1>1. new \in Table /\ new # None
  BY NewTable DEF IInv, Tasked, Past, Create
<1> HIDE DEF new
<1>2. /\ table["tmp"] = None
      /\ table' = [table EXCEPT !["tmp"] = new]
      /\ pc' = [pc EXCEPT ![s] = "copy"]
      /\ UNCHANGED <<job, reply, acked, gap>>
  BY DEF Create, new
<1>3. /\ table["t"] # None /\ table'["t"] = table["t"]
      /\ table'["tmp"] = new
      /\ \A u \in Session : pc[u] \notin Past
      /\ acked \ gap \subseteq Rows("t")
  BY <1>2 DEF IInv, TypeOK, NeverBothGone, OneCopy, RowsSurvive
<1>4. TypeOK'
  BY <1>1, <1>2 DEF IInv, TypeOK
<1>5. Tasked'
  BY <1>2 DEF IInv, TypeOK, Tasked, Past, Create
<1>6. OneCopy' /\ Copied'
  BY <1>1, <1>2, <1>3 DEF IInv, TypeOK, OneCopy, Copied, Past
<1>7. RowsSurvive' /\ NeverBothGone'
  BY <1>2, <1>3 DEF RowsSurvive, NeverBothGone
<1> QED
  BY <1>4, <1>5, <1>6, <1>7 DEF IInv

\* INSERT ... SELECT: the copy has all rows of the table now.
LEMMA CopyStep ==
  ASSUME IInv, NEW s \in Session, Copy(s)
  PROVE  IInv'
<1> DEFINE new == [table["tmp"] EXCEPT !.rows = @ \cup table["t"].rows]
<1>1. /\ new \in Table /\ new # None
      /\ new.rows = table["tmp"].rows \cup table["t"].rows
  BY Contents DEF IInv, TypeOK, Table, Copy
<1> HIDE DEF new
<1>2. /\ table["t"] # None /\ table["tmp"] # None
      /\ table' = [table EXCEPT !["tmp"] = new]
      /\ pc[s] = "copy" /\ pc' = [pc EXCEPT ![s] = "drop"]
      /\ UNCHANGED <<job, reply, acked, gap>>
  BY DEF Copy, new
<1>3. /\ table'["t"] = table["t"] /\ table'["tmp"] = new
      /\ \A u \in Session : pc[u] \in Past => u = s
      /\ acked \ gap \subseteq Rows("t")
  BY <1>2 DEF IInv, TypeOK, OneCopy, Copied, Past
<1>4. acked' \ gap' \subseteq Rows("tmp")'
  BY <1>1, <1>2, <1>3
<1>5. TypeOK' /\ Tasked'
  BY <1>1, <1>2 DEF IInv, TypeOK, Tasked, Past
<1>6. OneCopy' /\ Copied'
  BY <1>1, <1>2, <1>3, <1>4 DEF IInv, TypeOK, OneCopy, Copied, Past
<1>7. RowsSurvive' /\ NeverBothGone'
  BY <1>2, <1>3, <1>4 DEF RowsSurvive, NeverBothGone
<1> QED
  BY <1>5, <1>6, <1>7 DEF IInv

\* A failed copy drops its copy, or leaves it; the table stands.
LEMMA CopyFailsStep ==
  ASSUME IInv, NEW s \in Session, CopyFails(s)
  PROVE  IInv'
<1>1. PICK left \in {None, table["tmp"]} : table' = [table EXCEPT !["tmp"] = left]
  BY DEF CopyFails
<1>2. /\ table["t"] # None /\ table'["t"] = table["t"]
      /\ acked \ gap \subseteq Rows("t")
      /\ \A u \in Session : pc[u] \in Past => u = s
      /\ \A u \in Session : pc'[u] = IF u = s THEN "idle" ELSE pc[u]
  BY <1>1 DEF IInv, TypeOK, OneCopy, Copied, Past, CopyFails
<1>3. TypeOK'
  BY <1>1 DEF IInv, TypeOK, CopyFails
<1>4. Tasked'
  BY <1>2 DEF IInv, TypeOK, Tasked, Past, CopyFails
<1>5. OneCopy' /\ Copied'
  BY <1>2 DEF OneCopy, Copied, Past
<1>6. RowsSurvive' /\ NeverBothGone'
  BY <1>2 DEF CopyFails, RowsSurvive, NeverBothGone
<1> QED
  BY <1>3, <1>4, <1>5, <1>6 DEF IInv

\* DROP TABLE: the copy has all rows but those of the gap.
LEMMA DropStep ==
  ASSUME IInv, NEW s \in Session, Drop(s)
  PROVE  IInv'
<1>1. /\ table'["t"] = None /\ table'["tmp"] = table["tmp"]
      /\ table["tmp"] # None
      /\ acked \ gap \subseteq Rows("tmp")
      /\ \A u \in Session : pc[u] \in Past => u = s
      /\ \A u \in Session : pc'[u] = IF u = s THEN "rename" ELSE pc[u]
  BY DEF IInv, TypeOK, OneCopy, Copied, Past, Drop
<1>2. TypeOK'
  BY DEF IInv, TypeOK, Drop
<1>3. Tasked'
  BY <1>1 DEF IInv, Tasked, Past, Drop
<1>4. OneCopy' /\ Copied'
  BY <1>1 DEF OneCopy, Copied, Past
<1>5. RowsSurvive' /\ NeverBothGone'
  BY <1>1 DEF Drop, RowsSurvive, NeverBothGone
<1> QED
  BY <1>2, <1>3, <1>4, <1>5 DEF IInv

\* The copy becomes the table.
LEMMA RenameStep ==
  ASSUME IInv, NEW s \in Session, Rename(s)
  PROVE  IInv'
<1>1. /\ table["t"] = None /\ table["tmp"] # None
      /\ table'["t"] = table["tmp"] /\ table'["tmp"] = None
      /\ \A u \in Session : pc[u] \in Past => u = s
      /\ \A u \in Session : pc'[u] = IF u = s THEN "idle" ELSE pc[u]
  BY DEF IInv, TypeOK, OneCopy, Past, Rename
<1>2. TypeOK'
  BY DEF IInv, TypeOK, Rename
<1>3. Tasked'
  BY <1>1 DEF IInv, TypeOK, Tasked, Past, Rename
<1>4. OneCopy' /\ Copied'
  BY <1>1 DEF OneCopy, Copied, Past
<1>5. RowsSurvive' /\ NeverBothGone'
  BY <1>1 DEF IInv, Rename, RowsSurvive, NeverBothGone
<1> QED
  BY <1>2, <1>3, <1>4, <1>5 DEF IInv

\* A row that is answered is in the table; after a copy it is in the gap.
LEMMA InsertStep ==
  ASSUME IInv, NEW r \in Row, Insert(r)
  PROVE  IInv'
<1> DEFINE new == [table["t"] EXCEPT !.rows = @ \cup {r}]
<1>1. /\ new \in Table /\ new # None
      /\ new.rows = table["t"].rows \cup {r}
  BY Contents DEF IInv, TypeOK, Table, Insert
<1> HIDE DEF new
<1>2. /\ table["t"] # None
      /\ table' = [table EXCEPT !["t"] = new]
      /\ acked' = acked \cup {r}
      /\ gap' = IF \E s \in Session : At(s, "drop") THEN gap \cup {r} ELSE gap
      /\ UNCHANGED <<pc, job, reply>>
  BY DEF Insert, new
<1>3. table'["t"] = new /\ table'["tmp"] = table["tmp"]
  BY <1>2 DEF IInv, TypeOK
<1>4. TypeOK'
  BY <1>1, <1>2 DEF IInv, TypeOK
<1>5. Tasked' /\ OneCopy'
  BY <1>2, <1>3 DEF IInv, Tasked, OneCopy
<1>6. Rows("t")' = Rows("t") \cup {r} /\ Rows("tmp")' = Rows("tmp")
  BY <1>1, <1>2, <1>3
<1>7. Copied'
  BY <1>1, <1>2, <1>3, <1>6 DEF IInv, Copied
<1>8. RowsSurvive' /\ NeverBothGone'
  BY <1>1, <1>2, <1>3, <1>6 DEF IInv, RowsSurvive, NeverBothGone
<1> QED
  BY <1>4, <1>5, <1>7, <1>8 DEF IInv

\* Somebody finds the table missing and creates it; the process dies.
LEMMA ElsewhereStep ==
  ASSUME IInv, CreateAnew \/ Crash
  PROVE  IInv'
<1>1. CASE CreateAnew
  <2>1. PICK d \in [Column -> Def] :
          table' = [table EXCEPT !["t"] = [def |-> d, rows |-> {}]]
    BY <1>1 DEF CreateAnew
  <2>2. /\ table["t"] = None
        /\ table'["t"] \in Table /\ table'["t"] # None
        /\ table'["tmp"] = table["tmp"]
    BY <1>1, <2>1, NewTable DEF IInv, TypeOK, CreateAnew
  <2>3. TypeOK'
    BY <1>1, <2>1, NewTable DEF IInv, TypeOK, CreateAnew
  <2>4. Tasked' /\ OneCopy'
    BY <1>1, <2>2 DEF IInv, Tasked, OneCopy, CreateAnew
  <2>5. Copied' /\ RowsSurvive' /\ NeverBothGone'
    BY <1>1, <2>2 DEF IInv, Copied, RowsSurvive, NeverBothGone, CreateAnew
  <2> QED
    BY <2>3, <2>4, <2>5 DEF IInv
<1>2. CASE Crash
  <2>1. TypeOK'
    BY <1>2 DEF IInv, TypeOK, Crash
  <2>2. Tasked' /\ OneCopy' /\ Copied'
    BY <1>2 DEF Tasked, OneCopy, Copied, Past, Crash
  <2>3. RowsSurvive' /\ NeverBothGone'
    BY <1>2 DEF IInv, RowsSurvive, NeverBothGone, Crash
  <2> QED
    BY <2>1, <2>2, <2>3 DEF IInv
<1> QED
  BY <1>1, <1>2

\* Every step keeps the inductive invariant.
LEMMA NextKeeps == IInv /\ [Next]_vars => IInv'
<1> SUFFICES ASSUME IInv, [Next]_vars PROVE IInv'
  OBVIOUS
<1>1. ASSUME NEW s \in Session, Modify(s) PROVE IInv'
  <2>1. CASE ModifyParsed(s) \/ Fails(s)
    BY <2>1, AnswerStep DEF ModifyParsed, Fails
  <2>2. CASE \E c \in Column, d \in Def : ModifyUnparsed(s, c, d)
    BY <2>2, UnparsedStep
  <2>3. CASE \/ Info(s) \/ Create(s) \/ Copy(s) \/ CopyFails(s) \/ Drop(s)
             \/ Rename(s)
    BY <2>3, InfoStep, CreateStep, CopyStep, CopyFailsStep, DropStep, RenameStep
  <2> QED
    BY <1>1, <2>1, <2>2, <2>3 DEF Modify
<1>2. CASE \E r \in Row : Insert(r)
  BY <1>2, InsertStep
<1>3. CASE CreateAnew \/ Crash
  BY <1>3, ElsewhereStep
<1>4. CASE UNCHANGED vars
  BY <1>4 DEF vars, IInv, TypeOK, Tasked, OneCopy, Copied, RowsSurvive, NeverBothGone
<1> QED
  BY <1>1, <1>2, <1>3, <1>4 DEF Next

\* Hence it holds throughout.
LEMMA Invariance == Spec => []IInv
  BY InitIInv, NextKeeps, PTL DEF Spec

\* Type correctness: the definition list of the copy has a definition for every
\* column, whatever words the marker has.
THEOREM TypeCorrect == Spec => []TypeOK
  BY Invariance, PTL DEF IInv

\* However sessions interleave, fail and crash between the four statements, an
\* acknowledged row is in the table or in the copy, unless it came in the gap.
THEOREM RowsAreKept == Spec => []RowsSurvive
  BY Invariance, PTL DEF IInv

\* The table and its copy are never both dropped.
THEOREM OneTableRemains == Spec => []NeverBothGone
  BY Invariance, PTL DEF IInv

\* No session drops, as the copy of its own that failed, another one's copy.
THEOREM CopiesArePrivate == Spec => []CopyIsPrivate
<1>1. IInv => CopyIsPrivate
  BY DEF IInv, OneCopy, Past, CopyIsPrivate
<1> QED
  BY <1>1, Invariance, PTL
=============================================================================
