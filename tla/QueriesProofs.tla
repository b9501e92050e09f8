---------------------------- MODULE QueriesProofs ----------------------------
(***************************************************************************)
(* Proofs about Queries, for any sets of sessions and texts, any bound on  *)
(* the statements of a text, and any sizes that append goes through.       *)
(***************************************************************************)
EXTENDS Queries, Induction, SequenceTheorems

\* Where a session holds a slice of the parser's array.
Slicing == {"route", "parse2", "parsing2", "schema", "loop"}

Readable(slice) ==
    /\ slice \in Slice
    /\ slice.len <= slice.cap
    /\ \A i \in 1 .. slice.len : array[slice.cap][i] \in Stmt

\* A slice that a session still reads lies within its array and has statements,
\* of whatever texts, at all its indexes.
Sliced ==
    \A s \in Session :
        /\ pc[s] \in Slicing => Readable(stmts[s])
        /\ pc[s] = "schema" => Readable(again[s])

\* What is executed is counted by the loop; nothing is before it.
Progress ==
    \A s \in Session :
        /\ pc[s] # "idle" => query[s] # <<>>
        /\ pc[s] = "loop" => Len(done[s]) = next[s] - 1 /\ next[s] <= stmts[s].len + 1
        /\ pc[s] \notin {"idle", "loop"} => done[s] = <<>>
        /\ pc[s] # "loop" => next[s] = 1

\* Calls that overlap do so as long as they run, and disturb their sessions.
Raced == \A s \in raced : pc[s] \in Parsing /\ s \in disturbed

\* parser.result lies within its array, and has statements at its indexes.
Header == len <= cap /\ \A i \in 1 .. len : array[cap][i] \in Stmt

\* While a session calls the parser, all others that hold a slice are disturbed
\* and all others that call it are in the race.
Alone ==
    \A s, t \in Session : s # t /\ pc[s] \in Parsing =>
        /\ pc[t] \in Slicing => t \in disturbed
        /\ pc[t] \in Parsing => t \in raced

\* A call that nobody races has filled parser.result from its own text.
Filled ==
    \A s \in Session \ raced : pc[s] \in Parsing =>
        /\ len <= Len(Accepted(query[s]))
        /\ \A i \in 1 .. len : array[cap][i] = query[s][i]

Calls == Raced /\ Header /\ Alone /\ Filled

Holds(slice, q) ==
    /\ slice.len = Len(q)
    /\ \A i \in 1 .. Len(q) : array[slice.cap][i] = q[i]

\* An undisturbed session holds its own statements, and takes the way that the
\* first of them asks for.
Undisturbed ==
    \A s \in Session \ disturbed :
        /\ pc[s] \in Slicing =>
             Holds(stmts[s], query[s]) /\ Accepted(query[s]) = query[s]
        /\ pc[s] = "schema" => Holds(again[s], query[s])
        /\ pc[s] \in {"parse2", "parsing2", "schema"} => query[s][1].kind = "schema"
        /\ pc[s] = "loop" => query[s][1].kind \notin {"own", "schema"}
        /\ pc[s] = "text" => Accepted(query[s]) # query[s]
        /\ Len(done[s]) <= Len(query[s])
        /\ \A i \in 1 .. Len(done[s]) : done[s][i] = query[s][i]

\* The inductive invariant.
IInv == TypeOK /\ Sliced /\ Progress /\ Calls /\ Undisturbed /\ AnswerTells
-----------------------------------------------------------------------------
USE QueriesAssumption
USE DEF Goto, parser

(***************************************************************************)
(* The parser's array                                                      *)
(***************************************************************************)
\* What the parser accepts of a text is a prefix of it.
LEMMA AcceptedPrefix ==
  ASSUME NEW q \in Seq(Stmt)
  PROVE  Len(Accepted(q)) \in Nat /\ Len(Accepted(q)) <= Len(q)
<1> DEFINE refused == {i \in DOMAIN q : q[i].kind = "foreign"}
           first == CHOOSE i \in refused : \A j \in refused : i <= j
<1>1. Len(q) \in Nat /\ DOMAIN q = 1 .. Len(q)
  BY LenProperties
<1>2. CASE refused = {}
  BY <1>1, <1>2 DEF Accepted
<1>3. CASE refused # {}
  <2>1. refused \in SUBSET Nat
    BY <1>1
  <2>2. \E i \in refused : \A j \in refused : i <= j
    BY <1>3, <2>1, Smallest
  <2>3. first \in refused
    BY <2>2
  <2>4. first - 1 \in 0 .. Len(q)
    BY <1>1, <2>3
  <2>5. Accepted(q) = SubSeq(q, 1, first - 1)
    BY <1>3 DEF Accepted
  <2> HIDE DEF first, refused
  <2> QED
    BY <1>1, <2>4, <2>5, SubSeqProperties
<1> QED
  BY <1>2, <1>3

\* append finds an array that is large enough, and not smaller than before.
LEMMA AppendGrows ==
  ASSUME TypeOK, NEW n \in 1 .. MaxLen
  PROVE  LET grown == CHOOSE c \in Capacity :
                         Fits(c, n) /\ \A d \in Capacity : Fits(d, n) => c <= d
         IN  grown \in Capacity /\ grown >= cap /\ grown >= n
<1> DEFINE fits == {c \in Capacity : Fits(c, n)}
<1>0. MaxLen \in Nat /\ \A c \in Capacity \cup {0} : c \in Nat
  BY QueriesAssumption
<1>1. fits \in SUBSET Nat
  BY <1>0
<1>2. fits # {}
  <2>1. PICK c \in Capacity : c >= MaxLen
    OBVIOUS
  <2>2. cap \in Capacity \cup {0}
    BY DEF TypeOK
  <2>3. c \in Nat /\ cap \in Nat /\ n \in Nat /\ n <= MaxLen /\ 1 <= n
    BY <1>0, <2>2
  <2>4. c \in fits \/ cap \in fits
    BY <2>1, <2>2, <2>3 DEF Fits
  <2> QED
    BY <2>4
<1>3. PICK c \in fits : \A d \in fits : c <= d
  BY <1>1, <1>2, Smallest
<1>4. \E c1 \in Capacity : Fits(c1, n) /\ \A d \in Capacity : Fits(d, n) => c1 <= d
  BY <1>3
<1> HIDE DEF fits
<1>5. \A c1 : Fits(c1, n) => c1 >= cap /\ c1 >= n
  BY DEF Fits
<1> QED
  BY <1>4, <1>5

\* What append writes: the statement at its index, and before it, where the
\* array is a larger one, what parser.result had before.
LEMMA PutWrites ==
  ASSUME TypeOK, Header, NEW stmt \in Stmt, NEW i \in 1 .. MaxLen, i <= len + 1,
         Put(stmt, i)
  PROVE  /\ len' = i
         /\ cap' \in Capacity
         /\ cap' >= i
         /\ DOMAIN array' = Capacity
         /\ \A c \in Capacity : array'[c] \in [1 .. c -> Stmt \cup {None}]
         /\ \A c \in Capacity : \A j \in 1 .. c :
              \/ array'[c][j] = array[c][j]
              \/ j = i /\ array'[c][j] = stmt
              \/ j < i /\ array'[c][j] = array[cap][j]
         /\ array'[cap'][i] = stmt
         /\ \A j \in 1 .. i - 1 : array'[cap'][j] = array[cap][j]
<1>0. /\ len \in Nat /\ cap \in Nat /\ i \in Nat /\ MaxLen \in Nat
      /\ \A c \in Capacity : c \in Nat
  <2>1. MaxLen \in Nat /\ \A c \in Capacity \cup {0} : c \in Nat
    BY QueriesAssumption
  <2>2. cap \in Capacity \cup {0} /\ len \in 0 .. MaxLen
    BY DEF TypeOK
  <2> QED
    BY <2>1, <2>2
<1>1. cap' \in Capacity /\ cap' >= cap /\ cap' >= i /\ len' = i /\ cap' \in Nat
  BY <1>0, AppendGrows DEF Put
<1> DEFINE new(j) == IF j = i THEN stmt
                     ELSE IF j < i THEN array[cap][j] ELSE array[cap'][j]
<1>2. array' = [array EXCEPT ![cap'] = [j \in 1 .. cap' |-> new(j)]]
  BY DEF Put
<1>3. /\ DOMAIN array' = Capacity
      /\ array'[cap'] = [j \in 1 .. cap' |-> new(j)]
      /\ \A c \in Capacity \ {cap'} : array'[c] = array[c]
  BY <1>1, <1>2 DEF TypeOK
<1>4. \A j \in 1 .. i - 1 : array[cap][j] \in Stmt
  BY <1>0 DEF Header
<1>5. ASSUME NEW j \in 1 .. cap'
      PROVE  new(j) \in Stmt \cup {None}
  <2>1. array[cap'] \in [1 .. cap' -> Stmt \cup {None}]
    BY <1>1 DEF TypeOK
  <2>2. array[cap'][j] \in Stmt \cup {None}
    BY <2>1
  <2>3. j < i => j \in 1 .. i - 1
    BY <1>0, <1>1
  <2> QED
    BY <1>4, <2>2, <2>3
<1>6. array'[cap'] \in [1 .. cap' -> Stmt \cup {None}]
  BY <1>3, <1>5
<1>7. \A j \in 1 .. cap' : array'[cap'][j] = new(j)
  BY <1>3
<1>8. i \in 1 .. cap' /\ \A j \in 1 .. i - 1 : j \in 1 .. cap' /\ j < i /\ j # i
  BY <1>0, <1>1
<1>9. \A c \in Capacity : array'[c] \in [1 .. c -> Stmt \cup {None}]
  BY <1>3, <1>6 DEF TypeOK
<1>10. \A c \in Capacity : \A j \in 1 .. c :
              \/ array'[c][j] = array[c][j]
              \/ j = i /\ array'[c][j] = stmt
              \/ j < i /\ array'[c][j] = array[cap][j]
  BY <1>3, <1>7
<1>11. array'[cap'][i] = stmt
  BY <1>7, <1>8
<1>12. \A j \in 1 .. i - 1 : array'[cap'][j] = array[cap][j]
  BY <1>7, <1>8
<1> QED
  BY <1>1, <1>3, <1>9, <1>10, <1>11, <1>12
-----------------------------------------------------------------------------
(***************************************************************************)
(* The inductive invariant                                                 *)
(***************************************************************************)
\* Numbers the steps below count with.
LEMMA Counts ==
  ASSUME TypeOK
  PROVE  /\ MaxLen \in Nat /\ 1 <= MaxLen
         /\ \A s \in Session :
              /\ query[s] \in Seq(Stmt) /\ Len(query[s]) \in Nat /\ Len(query[s]) <= MaxLen
              /\ done[s] \in Seq(Stmt) /\ Len(done[s]) \in Nat /\ Len(done[s]) <= MaxLen
              /\ next[s] \in Nat /\ 1 <= next[s]
              /\ query[s] # <<>> => 1 <= Len(query[s])
  BY LenProperties, EmptySeq DEF TypeOK

\* A slice that can be read yields statements.
LEMMA Reads ==
  ASSUME TypeOK, NEW slice, Readable(slice), NEW i \in 1 .. slice.len
  PROVE  /\ Read(slice, i) \in Stmt
         /\ slice.len \in Nat /\ 1 <= slice.len /\ slice.len <= MaxLen
<1>1. slice.len \in 1 .. MaxLen /\ MaxLen \in Nat
  BY QueriesAssumption DEF Readable, Slice
<1> QED
  BY <1>1 DEF Readable, Read

\* The calls of the parser go on as they were while a session does something
\* else: it does not come to hold a slice, and disturbs nobody.
LEMMA CallsGoOn ==
  ASSUME IInv, NEW s \in Session, NEW where,
         UNCHANGED parser, Goto(s, where),
         pc[s] \notin Parsing, where \notin Parsing,
         disturbed \ {s} \subseteq disturbed', pc[s] \in Slicing => s \notin disturbed \ disturbed',
         where \in Slicing => pc[s] \in Slicing,
         \A t \in Session \ {s} : query'[t] = query[t]
  PROVE  Calls'
<1>1. /\ pc'[s] = where
      /\ \A t \in Session \ {s} : pc'[t] = pc[t]
      /\ array' = array /\ cap' = cap /\ len' = len /\ raced' = raced
  BY DEF IInv, TypeOK
<1>2. Raced /\ Header /\ Alone /\ Filled
  BY DEF IInv, Calls
<1>3. s \notin raced /\ raced \subseteq Session
  BY <1>2 DEF Raced, IInv, TypeOK
<1>4. Raced'
  BY <1>1, <1>2, <1>3 DEF Raced
<1>5. Header'
  BY <1>1, <1>2 DEF Header
<1>6. Alone'
  BY <1>1, <1>2, <1>3 DEF Alone
<1>7. Filled'
  BY <1>1, <1>2 DEF Filled
<1> QED
  BY <1>4, <1>5, <1>6, <1>7 DEF Calls

\* Nothing is parsed, asked or done.
LEMMA InitIInv == Init => IInv
<1> SUFFICES ASSUME Init PROVE IInv
  OBVIOUS
<1>1. <<>> \in Seq(Stmt) /\ Len(<<>>) = 0
  BY EmptySeq
<1>2. TypeOK
  <2>1. \A c \in Capacity : array[c] \in [1 .. c -> Stmt \cup {None}]
    BY DEF Init
  <2>2. 1 \in 1 .. MaxLen + 1 /\ 0 <= MaxLen
    BY QueriesAssumption
  <2>3. \A s \in Session : Len(query[s]) <= MaxLen /\ Len(done[s]) <= MaxLen
    BY <1>1, <2>2 DEF Init
  <2> QED
    BY <1>1, <2>1, <2>2, <2>3 DEF Init, TypeOK
<1>3. Sliced /\ Calls
  BY DEF Init, Sliced, Slicing, Calls, Raced, Header, Alone, Filled, Parsing
<1>4. Progress
  BY DEF Init, Progress
<1>5. Undisturbed
  <2>1. \A s \in Session : /\ pc[s] = "idle"
                          /\ Len(done[s]) = 0 /\ Len(query[s]) = 0
    BY <1>1 DEF Init
  <2>2. \A i \in 1 .. 0 : FALSE
    OBVIOUS
  <2>3. ASSUME NEW s \in Session
        PROVE  /\ pc[s] \notin Slicing /\ pc[s] # "text"
               /\ Len(done[s]) <= Len(query[s])
               /\ \A i \in 1 .. Len(done[s]) : done[s][i] = query[s][i]
    BY <2>1, <2>2 DEF Slicing
  <2> QED
    BY <2>3 DEF Undisturbed, Slicing
<1>6. AnswerTells
  BY DEF Init, AnswerTells
<1> QED
  BY <1>2, <1>3, <1>4, <1>5, <1>6 DEF IInv

\* A new query, of statements of this session.
LEMMA SubmitStep ==
  ASSUME IInv, NEW s \in Session, NEW kinds \in Text, Submit(s, kinds)
  PROVE  IInv'
<1> USE DEF IInv, Submit
<1>1. PICK k \in 1 .. MaxLen : kinds \in [1 .. k -> Kind]
  BY QueriesAssumption
<1> DEFINE q == [i \in DOMAIN kinds |-> [of |-> s, n |-> i, kind |-> kinds[i]]]
<1>2. k \in Nat /\ 1 <= k /\ k <= MaxLen
  BY QueriesAssumption
<1>3. q \in [1 .. k -> Stmt]
  BY <1>1, <1>2 DEF Stmt
<1>4. q \in Seq(Stmt) /\ Len(q) = k
  BY <1>2, <1>3, IsASeq, LenProperties
<1>5. query'[s] = q /\ \A t \in Session \ {s} : query'[t] = query[t]
  BY DEF TypeOK
<1>6. <<>> \in Seq(Stmt) /\ Len(<<>>) = 0
  BY EmptySeq
<1> HIDE DEF q
<1>7. TypeOK'
  <2>1. query' \in [Session -> Seq(Stmt)] /\ \A t \in Session : Len(query'[t]) <= MaxLen
    BY <1>2, <1>4, <1>5 DEF TypeOK, q
  <2>2. done' \in [Session -> Seq(Stmt)] /\ \A t \in Session : Len(done'[t]) <= MaxLen
    BY <1>6, QueriesAssumption DEF TypeOK
  <2> QED
    BY <2>1, <2>2 DEF TypeOK
<1>8. Sliced' /\ Calls'
  <2>1. Sliced'
    BY DEF TypeOK, Sliced, Slicing, Readable
  <2>2. /\ UNCHANGED parser /\ Goto(s, "parse")
        /\ pc[s] \notin Parsing /\ pc[s] \notin Slicing
        /\ "parse" \notin Parsing /\ "parse" \notin Slicing
        /\ disturbed \ {s} \subseteq disturbed'
        /\ \A t \in Session \ {s} : query'[t] = query[t]
    BY <1>5 DEF Parsing, Slicing
  <2>3. IInv
    OBVIOUS
  <2> HIDE DEF Submit, IInv
  <2>4. Calls'
    BY <2>2, <2>3, CallsGoOn
  <2> QED
    BY <2>1, <2>4
<1>9. Progress'
  <2>1. q # <<>>
    BY <1>2, <1>4, <1>6
  <2> QED
    BY <1>5, <2>1 DEF TypeOK, Progress
<1>10. Undisturbed'
  <2>1. /\ pc'[s] = "parse" /\ done'[s] = <<>>
        /\ \A t \in Session \ {s} : /\ pc'[t] = pc[t] /\ done'[t] = done[t]
                                   /\ query'[t] = query[t]
        /\ stmts' = stmts /\ again' = again /\ array' = array
        /\ disturbed' = disturbed \ {s}
    BY <1>5 DEF TypeOK
  <2>2. 0 <= Len(q) /\ \A i \in 1 .. 0 : FALSE
    BY <1>2, <1>4
  <2>3. /\ pc'[s] \notin Slicing /\ pc'[s] # "text"
        /\ Len(done'[s]) <= Len(query'[s])
        /\ \A i \in 1 .. Len(done'[s]) : done'[s][i] = query'[s][i]
    BY <1>5, <1>6, <2>1, <2>2 DEF Slicing
  <2>4. ASSUME NEW t \in Session \ disturbed', t # s
        PROVE  /\ t \in Session /\ t \notin disturbed
               /\ pc'[t] = pc[t] /\ done'[t] = done[t] /\ query'[t] = query[t]
               /\ stmts'[t] = stmts[t] /\ again'[t] = again[t]
    BY <2>1, <2>4
  <2> HIDE DEF Submit
  <2>5. ASSUME NEW t \in Session \ disturbed', t # s
        PROVE  /\ pc'[t] \in Slicing =>
                    Holds(stmts[t], query[t])' /\ Accepted(query'[t]) = query'[t]
               /\ pc'[t] = "schema" => Holds(again[t], query[t])'
    BY <2>1, <2>4, <2>5 DEF Undisturbed, Holds
  <2>6. ASSUME NEW t \in Session \ disturbed', t # s
        PROVE  /\ pc'[t] \in {"parse2", "parsing2", "schema"} => query'[t][1].kind = "schema"
               /\ pc'[t] = "loop" => query'[t][1].kind \notin {"own", "schema"}
               /\ pc'[t] = "text" => Accepted(query'[t]) # query'[t]
               /\ Len(done'[t]) <= Len(query'[t])
               /\ \A i \in 1 .. Len(done'[t]) : done'[t][i] = query'[t][i]
    BY <2>4, <2>6 DEF Undisturbed
  <2>7. pc'[s] \notin {"parse2", "parsing2", "schema", "loop"}
    BY <2>3 DEF Slicing
  <2> QED
    BY <2>3, <2>5, <2>6, <2>7 DEF Undisturbed
<1>11. AnswerTells'
  BY <1>5 DEF TypeOK, AnswerTells
<1> QED
  BY <1>7, <1>8, <1>9, <1>10, <1>11

\* A call empties parser.result: it disturbs those that hold a slice, and when
\* it meets another call, both.
LEMMA ParseStartStep ==
  ASSUME IInv, NEW s \in Session, ParseStart(s)
  PROVE  IInv'
<1> USE DEF IInv
<1> DEFINE others == {t \in Session : pc[t] \in Parsing}
           racing == IF others = {} THEN {} ELSE others \cup {s}
           place == IF pc[s] = "parse" THEN "parsing" ELSE "parsing2"
<1>1. /\ pc[s] \in {"parse", "parse2"}
      /\ len' = 0
      /\ raced' = raced \cup racing
      /\ disturbed' = disturbed \cup racing \cup {t \in Session \ {s} : Reading(t)}
      /\ pc' = [pc EXCEPT ![s] = place]
      /\ UNCHANGED <<array, cap, query, stmts, again, next, done, reply>>
  BY DEF ParseStart
<1>2. /\ pc'[s] \in Parsing /\ (pc'[s] = "parsing" <=> pc[s] = "parse")
      /\ \A t \in Session \ {s} : pc'[t] = pc[t]
  BY <1>1 DEF TypeOK, Parsing
<1>3. /\ racing \subseteq Session
      /\ \A t \in racing : t = s \/ pc[t] \in Parsing
      /\ \A t \in others : t \in racing /\ s \in racing
  BY <1>1 DEF Parsing
<1>4. s \notin others
  BY <1>1 DEF Parsing
<1>5. \A t \in Session : t \in others <=> pc[t] \in Parsing
  OBVIOUS
<1> HIDE DEF racing, others, place
<1>6. raced \subseteq disturbed /\ \A t \in raced : t \in Session /\ pc[t] \in Parsing
  BY DEF Calls, Raced, TypeOK
<1>7. TypeOK'
  <2>1. place \in {"parsing", "parsing2"}
    BY DEF place
  <2>2. len' \in 0 .. MaxLen
    BY <1>1, Counts
  <2> QED
    BY <1>1, <1>3, <2>1, <2>2 DEF TypeOK
<1>8. Sliced'
  BY <1>1, <1>2 DEF TypeOK, Sliced, Slicing, Readable, Parsing
<1>9. Progress'
  BY <1>1, <1>2 DEF TypeOK, Progress, Parsing
<1>10. Calls'
  <2>1. Raced'
    BY <1>1, <1>2, <1>3, <1>6 DEF Raced
  <2>2. Header'
    BY <1>1 DEF Header, TypeOK
  <2>3. ASSUME NEW t \in Session, NEW u \in Session, t # u, pc'[t] \in Parsing
        PROVE  /\ pc'[u] \in Slicing => u \in disturbed'
               /\ pc'[u] \in Parsing => u \in raced'
    <3>1. CASE u = s
      <4>1. s \in racing
        BY <1>2, <1>3, <1>5, <2>3, <3>1
      <4> QED
        BY <1>1, <3>1, <4>1
    <3>2. CASE u # s
      <4>1. pc'[u] = pc[u]
        BY <1>2, <3>2
      <4>2. pc[u] \in Slicing => u \in disturbed'
        BY <1>1, <3>2 DEF Reading, Slicing
      <4>3. pc[u] \in Parsing => u \in racing
        BY <1>3, <1>5
      <4> QED
        BY <1>1, <4>1, <4>2, <4>3
    <3> QED
      BY <3>1, <3>2
  <2>4. Filled'
    <3>1. ASSUME NEW t \in Session \ raced', pc'[t] \in Parsing
          PROVE  0 <= Len(Accepted(query[t]))
      <4>1. Len(Accepted(query[t])) \in Nat
        BY AcceptedPrefix, Counts
      <4> QED
        BY <4>1
    <3> QED
      BY <1>1, <3>1 DEF Filled
  <2> QED
    BY <2>1, <2>2, <2>3, <2>4 DEF Calls, Alone
<1>11. Undisturbed'
  <2> SUFFICES ASSUME NEW t \in Session \ disturbed'
               PROVE  Undisturbed!(t)'
    BY DEF Undisturbed
  <2>1. t \notin disturbed
    BY <1>1
  <2>2. CASE t = s
    BY <1>1, <1>2, <2>1, <2>2 DEF Undisturbed, Slicing, Holds, Parsing
  <2>3. CASE t # s
    BY <1>1, <1>2, <2>1, <2>3 DEF Undisturbed, Holds
  <2> QED
    BY <2>2, <2>3
<1>12. AnswerTells'
  BY <1>1, <1>2 DEF AnswerTells, Parsing
<1> QED
  BY <1>7, <1>8, <1>9, <1>10, <1>11, <1>12
-----------------------------------------------------------------------------
\* The first statement decides; an undisturbed session reads its own.
LEMMA RouteStep ==
  ASSUME IInv, NEW s \in Session, Route(s)
  PROVE  IInv'
<1> USE DEF IInv, Route
<1>0. /\ Readable(stmts[s]) /\ Len(done[s]) = 0 /\ next[s] = 1
      /\ stmts[s].len \in Nat /\ 1 <= stmts[s].len
      /\ query[s] # <<>>
  <2>1. 1 \in 1 .. 1 /\ Readable(stmts[s]) /\ done[s] = <<>> /\ next[s] = 1 /\ query[s] # <<>>
    BY DEF Sliced, Slicing, Progress
  <2>2. stmts[s].len \in 1 .. MaxLen /\ MaxLen \in Nat
    BY <2>1, QueriesAssumption DEF Readable, Slice
  <2> QED
    BY <2>1, <2>2, EmptySeq
<1>1. TypeOK'
  BY DEF TypeOK
<1>2. Sliced'
  BY DEF TypeOK, Sliced, Slicing, Readable
<1>3. Progress'
  BY <1>0, SMTT(30) DEF TypeOK, Progress
<1>4. Calls'
  <2>1. PICK where \in {"parse2", "loop"} : Goto(s, where)
    BY Zenon
  <2>2. /\ UNCHANGED parser /\ UNCHANGED <<query, disturbed>>
        /\ pc[s] \notin Parsing /\ pc[s] \in Slicing /\ where \notin Parsing
    BY <2>1 DEF Parsing, Slicing
  <2>3. IInv
    OBVIOUS
  <2> HIDE DEF Route, IInv
  <2> QED
    BY <2>1, <2>2, <2>3, CallsGoOn
<1>5. Undisturbed'
  <2>1. s \notin disturbed => Read(stmts[s], 1) = query[s][1]
    BY <1>0, Counts DEF Undisturbed, Slicing, Holds, Read
  <2> QED
    BY <2>1 DEF TypeOK, Undisturbed, Slicing, Holds
<1>6. AnswerTells'
  BY DEF TypeOK, AnswerTells
<1> QED
  BY <1>1, <1>2, <1>3, <1>4, <1>5, <1>6

\* What all answers leave: the session is idle, and waits for its next query.
LEMMA Answered ==
  ASSUME IInv, NEW s \in Session, NEW how \in {"ok", "error"}, Answer(s, how),
         pc[s] \notin Parsing,
         \/ done' = done
         \/ \E stmt \in Stmt : done[s] = <<>> /\ Execute(s, stmt)
  PROVE  TypeOK' /\ Sliced' /\ Progress' /\ Calls'
<1> USE DEF IInv, Answer
<1>1. /\ done' \in [Session -> Seq(Stmt)]
      /\ \A t \in Session : Len(done'[t]) <= MaxLen
      /\ \A t \in Session \ {s} : done'[t] = done[t]
  <2>1. CASE done' = done
    BY <2>1 DEF TypeOK
  <2>2. CASE \E stmt \in Stmt : done[s] = <<>> /\ Execute(s, stmt)
    <3>1. PICK stmt \in Stmt : done[s] = <<>> /\ Execute(s, stmt)
      BY <2>2
    <3>2. /\ done'[s] = Append(<<>>, stmt) /\ done' = [done EXCEPT ![s] = Append(<<>>, stmt)]
          /\ \A t \in Session \ {s} : done'[t] = done[t]
      BY <3>1 DEF TypeOK, Execute
    <3>3. Append(<<>>, stmt) \in Seq(Stmt) /\ Len(Append(<<>>, stmt)) = 1
      BY EmptySeq, AppendProperties
    <3> QED
      BY <3>2, <3>3, Counts DEF TypeOK
  <2> QED
    BY <2>1, <2>2
<1>2. TypeOK'
  <2>1. 1 \in 1 .. MaxLen + 1
    BY Counts
  <2>2. UNCHANGED <<array, cap, len, raced, query, disturbed>>
    OBVIOUS
  <2>3. /\ pc' \in [Session -> {"idle", "parse", "parsing", "parse2", "parsing2",
                               "route", "schema", "loop", "text"}]
        /\ next' \in [Session -> 1 .. MaxLen + 1]
        /\ reply' \in [Session -> {"none", "ok", "error"}]
    BY <2>1 DEF TypeOK
  <2>4. stmts' \in [Session -> Slice \cup {None}] /\ again' \in [Session -> Slice \cup {None}]
    BY DEF TypeOK
  <2>5. \A f \in {query', done'} : f \in [Session -> Seq(Stmt)]
                                /\ \A t \in Session : Len(f[t]) <= MaxLen
    BY <1>1, <2>2 DEF TypeOK
  <2> QED
    BY <2>2, <2>3, <2>4, <2>5 DEF TypeOK
<1>3. Sliced'
  BY DEF TypeOK, Sliced, Slicing, Readable
<1>4. Progress'
  BY <1>1 DEF TypeOK, Progress
<1>5. Calls'
  BY CallsGoOn DEF Parsing, Slicing
<1> QED
  BY <1>2, <1>3, <1>4, <1>5

\* What is left to show of an answer: that the session, if nobody disturbed its
\* query, executed its own statements, and as many as the answer says.
LEMMA AnsweredTruly ==
  ASSUME IInv, NEW s \in Session, NEW how \in {"ok", "error"}, Answer(s, how),
         \A t \in Session \ {s} : done'[t] = done[t],
         s \notin disturbed =>
           /\ Len(done'[s]) <= Len(query[s])
           /\ \A i \in 1 .. Len(done'[s]) : done'[s][i] = query[s][i],
         s \notin disturbed /\ Accepted(query[s]) = query[s] =>
           /\ how = "ok" /\ query[s][1].kind \notin {"own", "schema"} =>
                Len(done'[s]) = Len(query[s])
           /\ how = "error" => Len(done'[s]) < Len(query[s])
  PROVE  Undisturbed' /\ AnswerTells'
<1> USE DEF IInv, Answer
<1>1. /\ UNCHANGED <<array, query, disturbed>>
      /\ pc'[s] = "idle" /\ reply'[s] = how
      /\ \A t \in Session \ {s} : /\ pc'[t] = pc[t] /\ reply'[t] = reply[t]
                                  /\ stmts'[t] = stmts[t] /\ again'[t] = again[t]
  BY DEF TypeOK
<1>2. Undisturbed'
  <2> SUFFICES ASSUME NEW t \in Session \ disturbed
               PROVE  Undisturbed!(t)'
    BY <1>1 DEF Undisturbed
  <2>1. CASE t = s
    BY <1>1, <2>1 DEF Slicing
  <2>2. CASE t # s
    BY <1>1, <2>2 DEF Undisturbed, Slicing, Holds
  <2> QED
    BY <2>1, <2>2
<1>3. AnswerTells'
  <2> SUFFICES ASSUME NEW t \in Session \ disturbed
               PROVE  AnswerTells!(t)'
    BY <1>1 DEF AnswerTells
  <2>1. CASE t = s
    BY <1>1, <2>1
  <2>2. CASE t # s
    BY <1>1, <2>2 DEF AnswerTells
  <2> QED
    BY <2>1, <2>2
<1> QED
  BY <1>2, <1>3

\* HandleQuery answers the first statement, or fails, and is done.
LEMMA AnswerItselfStep ==
  ASSUME IInv, NEW s \in Session, AnswerItself(s)
  PROVE  IInv'
<1> USE DEF IInv
<1> DEFINE first == Read(stmts[s], 1)
<1>0. /\ pc[s] = "route" /\ first.kind = "own" /\ Readable(stmts[s])
      /\ done[s] = <<>> /\ query[s] # <<>>
  BY DEF AnswerItself, Sliced, Slicing, Progress
<1>1. stmts[s].len \in Nat /\ 1 <= stmts[s].len /\ first \in Stmt
  <2>1. stmts[s].len \in 1 .. MaxLen /\ MaxLen \in Nat
    BY <1>0, QueriesAssumption DEF Readable, Slice
  <2> QED
    BY <1>0, <2>1, Reads
<1>2. s \notin disturbed => first = query[s][1]
  BY <1>0, <1>1, Counts DEF Undisturbed, Slicing, Holds, Read
<1>3. \A t \in Session \ {s} : done'[t] = done[t]
  BY DEF AnswerItself, Execute, TypeOK
<1> HIDE DEF first
<1>4. CASE Execute(s, first) /\ Answer(s, "ok")
  <2>1. TypeOK' /\ Sliced' /\ Progress' /\ Calls'
    BY <1>0, <1>1, <1>4, Answered DEF Parsing
  <2>2. /\ done'[s] = Append(<<>>, first) /\ Len(done'[s]) = 1 /\ done'[s][1] = first
    BY <1>0, <1>1, <1>4, EmptySeq, AppendProperties DEF Execute, TypeOK
  <2>3. 1 <= Len(query[s]) /\ Len(query[s]) \in Nat
    BY <1>0, Counts
  <2>4. s \notin disturbed => \A i \in 1 .. Len(done'[s]) : done'[s][i] = query[s][i]
    BY <1>2, <2>2
  <2>5. Undisturbed' /\ AnswerTells'
    BY <1>0, <1>2, <1>3, <1>4, <2>2, <2>3, <2>4, AnsweredTruly
  <2> QED
    BY <2>1, <2>5
<1>5. CASE UNCHANGED done /\ Answer(s, "error")
  <2>1. TypeOK' /\ Sliced' /\ Progress' /\ Calls'
    BY <1>0, <1>5, Answered DEF Parsing
  <2>2. Len(done'[s]) = 0 /\ 1 <= Len(query[s]) /\ Len(query[s]) \in Nat
    BY <1>0, <1>5, EmptySeq, Counts
  <2>3. Undisturbed' /\ AnswerTells'
    BY <1>3, <1>5, <2>2, AnsweredTruly
  <2> QED
    BY <2>1, <2>3
<1> QED
  BY <1>4, <1>5 DEF AnswerItself, first

\* handleInfoSchemaQuery executes the first statement, or gives up; it is done.
LEMMA AnswerSchemaStep ==
  ASSUME IInv, NEW s \in Session, AnswerSchema(s)
  PROVE  IInv'
<1> USE DEF IInv
<1> DEFINE first == Read(again[s], 1)
<1>0. /\ pc[s] = "schema" /\ first.kind = "schema" /\ Readable(again[s])
      /\ done[s] = <<>> /\ query[s] # <<>>
      /\ Execute(s, first) \/ UNCHANGED done
      /\ Answer(s, "ok")
  BY DEF AnswerSchema, Sliced, Slicing, Progress
<1>1. again[s].len \in Nat /\ 1 <= again[s].len /\ first \in Stmt
  <2>1. again[s].len \in 1 .. MaxLen /\ MaxLen \in Nat
    BY <1>0, QueriesAssumption DEF Readable, Slice
  <2> QED
    BY <1>0, <2>1, Reads
<1>2. s \notin disturbed => first = query[s][1] /\ query[s][1].kind = "schema"
  BY <1>0, <1>1, Counts DEF Undisturbed, Slicing, Holds, Read
<1>3. \A t \in Session \ {s} : done'[t] = done[t]
  BY <1>0 DEF Execute, TypeOK
<1> HIDE DEF first
<1>4. TypeOK' /\ Sliced' /\ Progress' /\ Calls'
  BY <1>0, <1>1, Answered DEF Parsing
<1>5. \/ Len(done'[s]) = 0
      \/ Len(done'[s]) = 1 /\ done'[s][1] = first
  BY <1>0, <1>1, EmptySeq, AppendProperties DEF Execute, TypeOK
<1>6. 1 <= Len(query[s]) /\ Len(query[s]) \in Nat
  BY <1>0, Counts
<1>7. s \notin disturbed => \A i \in 1 .. Len(done'[s]) : done'[s][i] = query[s][i]
  BY <1>2, <1>5
<1>8. Len(done'[s]) <= Len(query[s])
  <2>1. PICK n : n = Len(done'[s])
    OBVIOUS
  <2>2. n = 0 \/ n = 1
    BY <1>5, <2>1
  <2>3. n <= Len(query[s])
    BY <1>6, <2>2
  <2> QED
    BY <2>1, <2>3
<1>9. Undisturbed' /\ AnswerTells'
  BY <1>0, <1>2, <1>3, <1>7, <1>8, AnsweredTruly
<1> QED
  BY <1>4, <1>9

\* The second parse finds another kind of statement than the first: only if
\* somebody else's statements are in the array.
LEMMA NoSchemaStep ==
  ASSUME IInv, NEW s \in Session, NoSchema(s)
  PROVE  IInv'
<1> USE DEF IInv, NoSchema
<1>0. /\ Readable(stmts[s]) /\ Readable(again[s]) /\ Len(done[s]) = 0 /\ next[s] = 1
      /\ stmts[s].len \in Nat /\ 1 <= stmts[s].len
  <2>1. Readable(stmts[s]) /\ Readable(again[s]) /\ done[s] = <<>> /\ next[s] = 1
    BY DEF Sliced, Slicing, Progress
  <2>2. stmts[s].len \in 1 .. MaxLen /\ MaxLen \in Nat
    BY <2>1, QueriesAssumption DEF Readable, Slice
  <2> QED
    BY <2>1, <2>2, EmptySeq
<1>1. TypeOK'
  BY DEF TypeOK
<1>2. Sliced'
  BY DEF TypeOK, Sliced, Slicing, Readable
<1>3. Progress'
  BY <1>0 DEF TypeOK, Progress
<1>4. Calls'
  BY CallsGoOn, Zenon DEF Parsing, Slicing
<1>5. Undisturbed'
  <2>1. s \in disturbed
    <3>1. again[s].len \in 1 .. MaxLen /\ MaxLen \in Nat
      BY <1>0, QueriesAssumption DEF Readable, Slice
    <3>2. query[s] # <<>> /\ 1 <= Len(query[s])
      BY Counts DEF Progress
    <3> QED
      BY <3>2, Counts DEF Undisturbed, Slicing, Holds, Read
  <2> QED
    BY <2>1 DEF TypeOK, Undisturbed, Slicing, Holds
<1>6. AnswerTells'
  BY DEF TypeOK, AnswerTells
<1> QED
  BY <1>1, <1>2, <1>3, <1>4, <1>5, <1>6

\* A text that does not parse is executed as a whole.
LEMMA ExecuteTextStep ==
  ASSUME IInv, NEW s \in Session, ExecuteText(s)
  PROVE  IInv'
<1> USE DEF IInv
<1>1. PICK how \in {"ok", "error"} : Answer(s, how)
  BY DEF ExecuteText
<1>2. pc[s] = "text" /\ done' = done /\ done[s] = <<>>
  BY DEF ExecuteText, Progress
<1>3. TypeOK' /\ Sliced' /\ Progress' /\ Calls'
  BY <1>1, <1>2, Answered DEF Parsing
<1>4. s \notin disturbed =>
        /\ Accepted(query[s]) # query[s]
        /\ Len(done[s]) <= Len(query[s])
        /\ \A i \in 1 .. Len(done[s]) : done[s][i] = query[s][i]
  BY <1>2 DEF Undisturbed
<1>5. Undisturbed' /\ AnswerTells'
  BY <1>1, <1>2, <1>4, AnsweredTruly
<1> QED
  BY <1>3, <1>5

\* Where the loop over the statements is.
LEMMA Looping ==
  ASSUME IInv, NEW s \in Session, pc[s] = "loop"
  PROVE  /\ Readable(stmts[s])
         /\ stmts[s].len \in Nat /\ 1 <= stmts[s].len /\ stmts[s].len <= MaxLen
         /\ Len(done[s]) = next[s] - 1 /\ next[s] <= stmts[s].len + 1
         /\ s \notin disturbed =>
              /\ stmts[s].len = Len(query[s])
              /\ \A i \in 1 .. Len(query[s]) : Read(stmts[s], i) = query[s][i]
              /\ query[s][1].kind \notin {"own", "schema"}
              /\ \A i \in 1 .. Len(done[s]) : done[s][i] = query[s][i]
<1>1. Readable(stmts[s])
  BY DEF IInv, Sliced, Slicing
<1>2. stmts[s].len \in 1 .. MaxLen /\ MaxLen \in Nat
  BY <1>1, QueriesAssumption DEF Readable, Slice
<1> QED
  BY <1>1, <1>2 DEF IInv, Progress, Undisturbed, Slicing, Holds, Read

\* The loop stops at an error, or has gone through its slice.
LEMMA StatementFailsStep ==
  ASSUME IInv, NEW s \in Session, StatementFails(s) \/ AllDone(s)
  PROVE  IInv'
<1> DEFINE how == IF StatementFails(s) THEN "error" ELSE "ok"
<1>1. /\ pc[s] = "loop" /\ how \in {"ok", "error"} /\ Answer(s, how)
      /\ done' = done
  BY DEF StatementFails, AllDone
<1>2. /\ how = "error" => next[s] <= stmts[s].len
      /\ how = "ok" => next[s] > stmts[s].len
  BY DEF StatementFails, AllDone
<1> HIDE DEF how
<1>3. TypeOK' /\ Sliced' /\ Progress' /\ Calls'
  BY <1>1, Answered DEF Parsing
<1>4. /\ Len(done[s]) \in Nat /\ next[s] \in Nat
      /\ s \notin disturbed => Len(done[s]) <= Len(query[s])
      /\ s \notin disturbed /\ how = "error" => Len(done[s]) < Len(query[s])
      /\ s \notin disturbed /\ how = "ok" => Len(done[s]) = Len(query[s])
  BY <1>1, <1>2, Looping, Counts DEF IInv
<1>5. Undisturbed' /\ AnswerTells'
  BY <1>1, <1>4, Looping, AnsweredTruly
<1> QED
  BY <1>3, <1>5 DEF IInv

\* The loop executes the statement at its index.
LEMMA StatementStep ==
  ASSUME IInv, NEW s \in Session, Statement(s)
  PROVE  IInv'
<1> USE DEF IInv, Statement
<1> DEFINE stmt == Read(stmts[s], next[s])
<1>1. /\ next[s] \in Nat /\ 1 <= next[s] /\ next[s] <= stmts[s].len
      /\ stmts[s].len <= MaxLen /\ stmts[s].len \in Nat /\ MaxLen \in Nat
      /\ Len(done[s]) = next[s] - 1 /\ done[s] \in Seq(Stmt)
  BY Looping, Counts
<1>2. stmt \in Stmt
  BY <1>1, Looping, Reads
<1> HIDE DEF stmt
<1>3. done' = [done EXCEPT ![s] = Append(done[s], stmt)]
  BY DEF Execute, stmt
<1>4. /\ Append(done[s], stmt) \in Seq(Stmt)
      /\ Len(Append(done[s], stmt)) = next[s]
      /\ \A i \in 1 .. Len(done[s]) : Append(done[s], stmt)[i] = done[s][i]
      /\ Append(done[s], stmt)[next[s]] = stmt
  BY <1>1, <1>2, AppendProperties
<1>5. /\ done'[s] = Append(done[s], stmt)
      /\ \A t \in Session \ {s} : done'[t] = done[t] /\ next'[t] = next[t]
      /\ next'[s] = next[s] + 1
  BY <1>3 DEF TypeOK
<1>6. TypeOK'
  <2>1. next' \in [Session -> 1 .. MaxLen + 1]
    BY <1>1 DEF TypeOK
  <2>2. done' \in [Session -> Seq(Stmt)] /\ \A t \in Session : Len(done'[t]) <= MaxLen
    BY <1>1, <1>3, <1>4, <1>5 DEF TypeOK
  <2> QED
    BY <2>1, <2>2 DEF TypeOK
<1>7. Sliced'
  BY DEF Sliced, Slicing, Readable
<1>8. Progress'
  <2> SUFFICES ASSUME NEW t \in Session
               PROVE  Progress!(t)'
    BY DEF Progress
  <2>1. CASE t = s
    BY <1>1, <1>4, <1>5, <2>1, SMTT(30) DEF Progress
  <2>2. CASE t # s
    BY <1>5, <2>2 DEF Progress
  <2> QED
    BY <2>1, <2>2
<1>9. Calls'
  BY DEF Calls, Raced, Header, Alone, Filled
<1>10. Undisturbed'
  <2> SUFFICES ASSUME NEW t \in Session \ disturbed
               PROVE  Undisturbed!(t)'
    BY DEF Undisturbed
  <2>1. CASE t = s
    <3>1. stmt = query[s][next[s]] /\ next[s] <= Len(query[s])
      BY <1>1, <2>1, Looping, Counts DEF stmt
    <3>2. Len(done'[s]) <= Len(query[s])
      BY <1>4, <1>5, <3>1
    <3>3. \A i \in 1 .. Len(done'[s]) : done'[s][i] = query[s][i]
      BY <1>1, <1>4, <1>5, <2>1, <3>1, Looping, SMTT(30)
    <3> QED
      BY <2>1, <3>2, <3>3 DEF Undisturbed, Slicing, Holds
  <2>2. CASE t # s
    BY <1>5, <2>2 DEF Undisturbed, Slicing, Holds
  <2> QED
    BY <2>1, <2>2
<1>11. AnswerTells'
  BY <1>5 DEF AnswerTells
<1> QED
  BY <1>6, <1>7, <1>8, <1>9, <1>10, <1>11
-----------------------------------------------------------------------------
\* A call appends a statement: of its own text when nobody races it.  It changes
\* the slices of sessions that are disturbed, and of its own session nothing.
LEMMA ParseStatementStep ==
  ASSUME IInv, NEW s \in Session, ParseStatement(s)
  PROVE  IInv'
<1> USE DEF IInv
<1>0. /\ pc[s] \in Parsing
      /\ UNCHANGED <<raced, pc, query, stmts, again, next, done, reply, disturbed>>
      /\ len \in Nat /\ cap \in Nat /\ MaxLen \in Nat
      /\ Raced /\ Header /\ Alone /\ Filled
  BY QueriesAssumption DEF ParseStatement, TypeOK, Calls
<1>1. \A t \in Session : /\ query[t] \in Seq(Stmt)
                         /\ Len(query[t]) \in Nat /\ Len(query[t]) <= MaxLen
                         /\ Len(Accepted(query[t])) \in Nat
                         /\ Len(Accepted(query[t])) <= Len(query[t])
                         /\ \A k \in 1 .. Len(query[t]) : query[t][k] \in Stmt
  BY AcceptedPrefix, Counts, ElementOfSeq
<1>2. \E i \in 1 .. MaxLen, stmt \in Stmt :
        /\ i <= len + 1 /\ Put(stmt, i)
        /\ s \notin raced => /\ i = len + 1 /\ stmt = query[s][i]
                             /\ i <= Len(Accepted(query[s]))
  <2>1. CASE s \notin raced
    <3>1. len < Len(Accepted(query[s])) /\ Put(query[s][len + 1], len + 1)
      BY <2>1 DEF ParseStatement
    <3>2. len + 1 \in 1 .. Len(query[s]) /\ len + 1 \in 1 .. MaxLen
      BY <1>0, <1>1, <3>1
    <3> QED
      BY <1>0, <1>1, <3>1, <3>2
  <2>2. CASE s \in raced
    <3>1. PICK t \in Session, i \in 1 .. len + 1 :
            /\ i <= MaxLen
            /\ \E k \in 1 .. Len(Accepted(query[t])) : Put(query[t][k], i)
      BY <2>2 DEF ParseStatement
    <3>2. PICK k \in 1 .. Len(Accepted(query[t])) : Put(query[t][k], i)
      BY <3>1
    <3>3. k \in 1 .. Len(query[t]) /\ i \in 1 .. MaxLen /\ i <= len + 1
      BY <1>0, <1>1, <3>1, <3>2
    <3> QED
      BY <1>1, <2>2, <3>2, <3>3
  <2> QED
    BY <2>1, <2>2
<1>3. PICK i \in 1 .. MaxLen, stmt \in Stmt :
        /\ i <= len + 1 /\ Put(stmt, i)
        /\ s \notin raced => /\ i = len + 1 /\ stmt = query[s][i]
                             /\ i <= Len(Accepted(query[s]))
  BY <1>2
<1>4. /\ len' = i
      /\ cap' \in Capacity
      /\ cap' >= i
      /\ DOMAIN array' = Capacity
      /\ \A c \in Capacity : array'[c] \in [1 .. c -> Stmt \cup {None}]
      /\ \A c \in Capacity : \A j \in 1 .. c :
           \/ array'[c][j] = array[c][j]
           \/ j = i /\ array'[c][j] = stmt
           \/ j < i /\ array'[c][j] = array[cap][j]
      /\ array'[cap'][i] = stmt
      /\ \A j \in 1 .. i - 1 : array'[cap'][j] = array[cap][j]
  BY <1>0, <1>3, PutWrites
<1>5. /\ i \in Nat /\ 1 <= i
      /\ \A j \in 1 .. i - 1 : j \in 1 .. len
      /\ \A j \in Nat : 1 <= j /\ j < i => j \in 1 .. len
      /\ \A j \in 1 .. i : j = i \/ j \in 1 .. i - 1
  BY <1>0, <1>3
\* What is written are statements, and those of s when nobody races it.
<1>6. ASSUME NEW c \in Capacity, NEW j \in 1 .. c
      PROVE  array'[c][j] = array[c][j] \/ array'[c][j] \in Stmt
  <2>1. j < i => j \in 1 .. len
    BY <1>5
  <2> QED
    BY <1>0, <1>4, <2>1 DEF Header
<1>7. ASSUME NEW c \in Capacity, NEW j \in 1 .. c, s \notin raced
      PROVE  array'[c][j] = array[c][j] \/ array'[c][j] = query[s][j]
  <2>1. j < i => j \in 1 .. len
    BY <1>5
  <2>2. \A k \in 1 .. len : array[cap][k] = query[s][k]
    BY <1>0, <1>7 DEF Filled
  <2>3. j = i => stmt = query[s][j]
    BY <1>3, <1>7
  <2>4. \/ array'[c][j] = array[c][j]
        \/ j = i /\ array'[c][j] = stmt
        \/ j < i /\ array'[c][j] = array[cap][j]
    BY <1>4
  <2> QED
    BY <2>1, <2>2, <2>3, <2>4
<1>8. ASSUME NEW sl, Readable(sl)
      PROVE  /\ sl.cap \in Capacity /\ sl.len \in Nat
             /\ \A j \in 1 .. sl.len : j \in 1 .. sl.cap
  <2>1. sl.cap \in Capacity /\ sl.len \in 1 .. MaxLen /\ sl.len <= sl.cap
    BY <1>8 DEF Readable, Slice
  <2>2. PICK c, n : c = sl.cap /\ n = sl.len
    OBVIOUS
  <2>3. c \in Capacity /\ c \in Nat /\ n \in Nat /\ n <= c
    <3>1. c \in Capacity /\ n \in 1 .. MaxLen /\ n <= c
      BY <2>1, <2>2
    <3>2. \A d \in Capacity : d \in Nat
      BY QueriesAssumption
    <3> HIDE QueriesAssumption
    <3>3. c \in Nat
      BY <3>1, <3>2
    <3> QED
      BY <1>0, <3>1, <3>3
  <2>4. \A j \in 1 .. n : j \in 1 .. c
    BY <2>3
  <2> QED
    BY <2>2, <2>3, <2>4
<1>9. ASSUME NEW sl, Readable(sl) PROVE Readable(sl)'
  <2>1. ASSUME NEW j \in 1 .. sl.len PROVE array'[sl.cap][j] \in Stmt
    <3>1. array[sl.cap][j] \in Stmt
      BY <1>9 DEF Readable
    <3> QED
      BY <1>6, <1>8, <1>9, <3>1
  <2> QED
    BY <1>9, <2>1 DEF Readable
<1>10. TypeOK'
  <2>1. len' \in 0 .. MaxLen
    BY <1>0, <1>4
  <2>2. cap' \in Capacity \cup {0}
    BY <1>4
  <2> QED
    BY <1>0, <1>4, <2>1, <2>2 DEF TypeOK
<1>11. Sliced'
  BY <1>0, <1>9 DEF Sliced
<1>12. Progress'
  BY <1>0 DEF Progress
<1>13. Calls'
  <2>1. Raced' /\ Alone'
    BY <1>0 DEF Raced, Alone
  <2>2. Header'
    <3>1. \A j \in 1 .. i : array'[cap'][j] \in Stmt
      BY <1>0, <1>4, <1>5 DEF Header
    <3> QED
      BY <1>4, <3>1 DEF Header
  <2>3. ASSUME NEW t \in Session \ raced, pc[t] \in Parsing
        PROVE  /\ i <= Len(Accepted(query[t]))
               /\ \A j \in 1 .. i : array'[cap'][j] = query[t][j]
    <3>1. t = s
      BY <1>0, <2>3 DEF Alone
    <3>2. \A j \in 1 .. len : array[cap][j] = query[s][j]
      BY <1>0, <2>3, <3>1 DEF Filled
    <3>3. s \notin raced
      BY <2>3, <3>1
    <3> QED
      BY <1>3, <1>4, <1>5, <3>1, <3>2, <3>3
  <2>4. Filled'
    BY <1>0, <1>4, <2>3 DEF Filled
  <2> QED
    BY <2>1, <2>2, <2>4 DEF Calls
<1>14. Undisturbed'
  <2> SUFFICES ASSUME NEW t \in Session \ disturbed
               PROVE  Undisturbed!(t)'
    BY <1>0 DEF Undisturbed
  <2>1. ASSUME NEW sl, Readable(sl), Holds(sl, query[t]), pc[t] \in Slicing
        PROVE  Holds(sl, query[t])'
    <3>1. t = s /\ s \notin raced
      BY <1>0, <2>1 DEF Alone, Raced
    <3>2. \A j \in 1 .. Len(query[t]) : array'[sl.cap][j] = query[t][j]
      BY <1>7, <1>8, <2>1, <3>1 DEF Holds
    <3> QED
      BY <1>0, <2>1, <3>2 DEF Holds
  <2>2. pc[t] \in Slicing => Readable(stmts[t]) /\ Holds(stmts[t], query[t])
    BY DEF Sliced, Undisturbed
  <2>3. pc[t] = "schema" => /\ pc[t] \in Slicing
                            /\ Readable(again[t]) /\ Holds(again[t], query[t])
    BY DEF Sliced, Undisturbed, Slicing
  <2>4. pc[t] \in Slicing => Holds(stmts[t], query[t])'
    BY <1>0, <2>1, <2>2 DEF Holds
  <2>5. pc[t] = "schema" => Holds(again[t], query[t])'
    BY <1>0, <2>1, <2>3 DEF Holds
  <2> HIDE DEF Holds
  <2> QED
    BY <1>0, <2>4, <2>5 DEF Undisturbed
<1>15. AnswerTells'
  BY <1>0 DEF AnswerTells
<1> QED
  BY <1>10, <1>11, <1>12, <1>13, <1>14, <1>15

\* A call returns parser.result: when nobody races it, the statements of its own
\* text, unless one of them was refused.
LEMMA ParseEndStep ==
  ASSUME IInv, NEW s \in Session, ParseEnd(s)
  PROVE  IInv'
<1> USE DEF IInv
<1>1. PICK failed \in IF s \in raced THEN BOOLEAN ELSE {Accepted(query[s]) # query[s]} :
        /\ pc[s] \in Parsing
        /\ s \in raced \/ len = Len(Accepted(query[s]))
        /\ raced' = raced \ {s}
        /\ IF pc[s] = "parsing"
             THEN /\ stmts' = [stmts EXCEPT ![s] = IF Parsed(failed)
                                   THEN [cap |-> cap, len |-> len] ELSE None]
                  /\ pc' = [pc EXCEPT ![s] = IF Parsed(failed) THEN "route" ELSE "text"]
                  /\ UNCHANGED again
             ELSE /\ again' = [again EXCEPT ![s] = IF Parsed(failed)
                                   THEN [cap |-> cap, len |-> len] ELSE None]
                  /\ pc' = [pc EXCEPT ![s] = IF Parsed(failed) THEN "schema" ELSE "loop"]
                  /\ UNCHANGED stmts
        /\ UNCHANGED <<array, cap, len, query, next, done, reply, disturbed>>
  BY DEF ParseEnd
<1> DEFINE ok == Parsed(failed)
           first == pc[s] = "parsing"
<1>0. PICK slice : slice = [cap |-> cap, len |-> len]
  OBVIOUS
<1>2. /\ len \in Nat /\ MaxLen \in Nat /\ cap \in Nat /\ len <= MaxLen
      /\ Raced /\ Header /\ Alone /\ Filled
  BY QueriesAssumption DEF TypeOK, Calls
\* Where the session goes, and with what.
<1>5. /\ first => /\ stmts' = [stmts EXCEPT ![s] = IF ok THEN slice ELSE None]
                  /\ pc' = [pc EXCEPT ![s] = IF ok THEN "route" ELSE "text"]
                  /\ again' = again
      /\ ~first => /\ pc[s] = "parsing2" /\ stmts' = stmts
                   /\ again' = [again EXCEPT ![s] = IF ok THEN slice ELSE None]
                   /\ pc' = [pc EXCEPT ![s] = IF ok THEN "schema" ELSE "loop"]
  BY <1>0, <1>1 DEF Parsing
<1>6. ok => /\ slice \in Slice /\ 1 <= len
            /\ slice.len = len /\ slice.cap = cap /\ Readable(slice)
  <2>1. ok => len > 0
    BY DEF Parsed
  <2>2. ok => cap \in Capacity /\ len <= cap
    BY <1>2, <2>1 DEF TypeOK, Header
  <2>3. ok => slice \in Slice /\ 1 <= len /\ slice.len = len /\ slice.cap = cap
    BY <1>0, <1>2, <2>1, <2>2 DEF Slice
  <2> QED
    BY <1>2, <2>2, <2>3 DEF Readable, Header
<1>7. UNCHANGED <<array, cap, len, query, next, done, reply, disturbed>>
  BY <1>1
\* When nobody races it, it found what its query has.
<1>8. ASSUME s \notin disturbed
      PROVE  /\ ok => Holds(slice, query[s]) /\ Accepted(query[s]) = query[s]
             /\ ~ok => Accepted(query[s]) # query[s]
  <2>1. s \notin raced
    BY <1>2, <1>8 DEF Raced
  <2>2. failed = (Accepted(query[s]) # query[s]) /\ len = Len(Accepted(query[s]))
    BY <1>1, <2>1
  <2>3. 1 <= Len(query[s]) /\ Len(query[s]) \in Nat
    BY <1>1, Counts DEF Progress, Parsing
  <2>4. ok <=> Accepted(query[s]) = query[s]
    <3>1. len = Len(Accepted(query[s]))
      BY <2>2
    <3>2. Accepted(query[s]) = query[s] => len > 0
      BY <2>3, <3>1
    <3> QED
      BY <2>2, <3>2, Zenon DEF Parsed
  <2>5. \A i \in 1 .. len : array[cap][i] = query[s][i]
    BY <1>1, <1>2, <2>1 DEF Filled
  <2>6. ok => len = Len(query[s])
    BY <2>2, <2>4
  <2> HIDE DEF ok
  <2>7. ok => Holds(slice, query[s])
    BY <1>6, <2>5, <2>6 DEF Holds
  <2> QED
    BY <2>4, <2>7
<1> HIDE DEF ok, first
<1>9. \A sl : Readable(sl) => Readable(sl)'
  BY <1>7 DEF Readable
<1>11. \A t \in Session \ {s} : pc'[t] = pc[t] /\ stmts'[t] = stmts[t] /\ again'[t] = again[t]
  BY <1>5 DEF TypeOK
<1>12. /\ first => /\ pc'[s] = IF ok THEN "route" ELSE "text"
                   /\ stmts'[s] = IF ok THEN slice ELSE None
       /\ ~first => /\ pc'[s] = IF ok THEN "schema" ELSE "loop"
                    /\ stmts'[s] = stmts[s]
                    /\ again'[s] = IF ok THEN slice ELSE None
  BY <1>5 DEF TypeOK
<1>13. TypeOK'
  <2>1. raced' \in SUBSET Session
    BY <1>1 DEF TypeOK
  <2>2. /\ stmts' \in [Session -> Slice \cup {None}]
        /\ again' \in [Session -> Slice \cup {None}]
    <3>1. /\ stmts \in [Session -> Slice \cup {None}]
          /\ again \in [Session -> Slice \cup {None}]
          /\ (IF ok THEN slice ELSE None) \in Slice \cup {None}
      BY <1>6 DEF TypeOK
    <3> HIDE DEF Slice
    <3> QED
      BY <1>5, <3>1
  <2>3. pc' \in [Session -> {"idle", "parse", "parsing", "parse2", "parsing2",
                            "route", "schema", "loop", "text"}]
    BY <1>5 DEF TypeOK
  <2> QED
    BY <1>7, <2>1, <2>2, <2>3 DEF TypeOK, Slice, Stmt
<1>14. Sliced'
  BY <1>5, <1>6, <1>9, <1>11, <1>12 DEF Sliced, Slicing
<1>15. Progress'
  <2>1. /\ pc[s] \in Parsing /\ query[s] # <<>> /\ done[s] = <<>> /\ next[s] = 1
    BY <1>1 DEF Progress, Parsing
  <2>2. ~first => Readable(stmts[s])
    BY <1>5 DEF Sliced, Slicing
  <2>3. ~first => stmts[s].len \in Nat
    BY <1>2, <2>2 DEF Readable, Slice
  <2> SUFFICES ASSUME NEW t \in Session
               PROVE  Progress!(t)'
    BY DEF Progress
  <2>4. CASE t = s
    BY <1>7, <1>12, <2>1, <2>3, <2>4, EmptySeq
  <2>5. CASE t # s
    BY <1>7, <1>11, <2>5 DEF Progress
  <2> QED
    BY <2>4, <2>5
<1>16. Calls'
  <2>1. pc'[s] \notin Parsing
    BY <1>12 DEF Parsing
  <2>2. Raced'
    BY <1>1, <1>2, <1>7, <1>11 DEF TypeOK, Raced
  <2>3. Header'
    BY <1>2, <1>7 DEF Header
  <2>4. Alone'
    <3> SUFFICES ASSUME NEW t \in Session, NEW u \in Session, t # u, pc'[t] \in Parsing
                 PROVE  /\ pc'[u] \in Slicing => u \in disturbed'
                        /\ pc'[u] \in Parsing => u \in raced'
      BY DEF Alone
    <3>1. t # s /\ pc[t] \in Parsing
      BY <1>11, <2>1
    <3>2. CASE u = s
      <4>1. s \in raced
        BY <1>1, <1>2, <3>1 DEF Alone
      <4> QED
        BY <1>2, <1>7, <2>1, <3>2, <4>1 DEF Raced
    <3>3. CASE u # s
      BY <1>1, <1>2, <1>7, <1>11, <3>1, <3>3 DEF Alone
    <3> QED
      BY <3>2, <3>3
  <2>5. Filled'
    <3> SUFFICES ASSUME NEW t \in Session \ raced', pc'[t] \in Parsing
                 PROVE  /\ len <= Len(Accepted(query[t]))
                        /\ \A i \in 1 .. len : array[cap][i] = query[t][i]
      BY <1>7 DEF Filled
    <3>1. t # s /\ pc[t] \in Parsing /\ t \notin raced
      BY <1>1, <1>11, <2>1
    <3> QED
      BY <1>2, <3>1 DEF Filled
  <2> QED
    BY <2>2, <2>3, <2>4, <2>5 DEF Calls
<1>17. AnswerTells'
  BY <1>1, <1>7, <1>11, <1>12 DEF AnswerTells
<1>18. Undisturbed'
  <2> SUFFICES ASSUME NEW t \in Session \ disturbed
               PROVE  Undisturbed!(t)'
    BY <1>7 DEF Undisturbed
  <2>1. \A sl, q : Holds(sl, q)' <=> Holds(sl, q')
    BY <1>7 DEF Holds
  <2>2. CASE t # s
    BY <1>7, <1>11, <2>2 DEF Undisturbed, Holds
  <2>3. CASE t = s
    <3>1. /\ Len(done[s]) <= Len(query[s])
          /\ \A i \in 1 .. Len(done[s]) : done[s][i] = query[s][i]
      BY <2>3 DEF Undisturbed
    <3>2. CASE first
      <4>1. ok => Holds(slice, query[s]) /\ Accepted(query[s]) = query[s]
        BY <1>8, <2>3
      <4>2. ~ok => Accepted(query[s]) # query[s]
        BY <1>8, <2>3
      <4> QED
        BY <1>7, <1>12, <2>3, <3>1, <3>2, <4>1, <4>2 DEF Slicing, Holds
    <3>3. CASE ~first
      <4>1. /\ Holds(stmts[s], query[s])
            /\ Accepted(query[s]) = query[s] /\ query[s][1].kind = "schema"
        BY <1>5, <2>3, <3>3 DEF Undisturbed, Slicing
      <4>2. ok /\ Holds(slice, query[s])
        BY <1>8, <2>3, <4>1
      <4> QED
        BY <1>7, <1>12, <2>3, <3>1, <3>3, <4>1, <4>2 DEF Slicing, Holds
    <3> QED
      BY <3>2, <3>3
  <2> QED
    BY <2>2, <2>3
<1> QED
  BY <1>13, <1>14, <1>15, <1>16, <1>17, <1>18
-----------------------------------------------------------------------------
(***************************************************************************)
(* The theorems                                                            *)
(***************************************************************************)
LEMMA NextKeeps == IInv /\ [Next]_vars => IInv'
<1> SUFFICES ASSUME IInv, [Next]_vars PROVE IInv'
  OBVIOUS
<1>1. ASSUME NEW s \in Session, NEW kinds \in Text, Submit(s, kinds) PROVE IInv'
  BY <1>1, SubmitStep
<1>2. ASSUME NEW s \in Session, HandleQuery(s) PROVE IInv'
  BY <1>2, ParseStartStep, ParseStatementStep, ParseEndStep, AnswerItselfStep, RouteStep, AnswerSchemaStep,
     NoSchemaStep, ExecuteTextStep, StatementStep, StatementFailsStep DEF HandleQuery
<1>3. CASE UNCHANGED vars
  <2> USE <1>3 DEF vars
  <2>1. TypeOK'
    BY DEF IInv, TypeOK
  <2>2. Sliced' /\ Progress' /\ Calls'
    BY DEF IInv, Sliced, Readable, Progress, Calls, Raced, Header, Alone, Filled
  <2>3. Undisturbed' /\ AnswerTells'
    BY DEF IInv, Undisturbed, Holds, AnswerTells
  <2> QED
    BY <2>1, <2>2, <2>3 DEF IInv
<1> QED
  BY <1>1, <1>2, <1>3 DEF Next

\* Hence it holds throughout.
LEMMA Invariance == Spec => []IInv
<1>1. Init => IInv
  BY InitIInv
<1>2. IInv /\ [Next]_vars => IInv'
  BY NextKeeps
<1> QED
  BY <1>1, <1>2, PTL DEF Spec

\* Every variable keeps its type: no loop runs past MaxLen statements, and a
\* slice, however stale, has the length of a query.
THEOREM TypeCorrect == Spec => []TypeOK
<1>1. IInv => TypeOK
  BY DEF IInv
<1> QED
  BY <1>1, Invariance, PTL

\* A session executes its own statements, each once and in order, as long as
\* nobody else calls the shared parser of safeParseSQL while it does or holds
\* what it got from it: whatever was parsed or raced before, and whatever arrays
\* append went through.
THEOREM StatementsAreOwn == Spec => []OwnUnlessDisturbed
<1>1. IInv => OwnUnlessDisturbed
  <2> SUFFICES ASSUME IInv, NEW s \in Session \ disturbed
               PROVE  IsPrefixOf(done[s], query[s])
    BY DEF OwnUnlessDisturbed
  <2>1. /\ done[s] \in Seq(Stmt) /\ query[s] \in Seq(Stmt)
        /\ Len(done[s]) \in Nat /\ Len(query[s]) \in Nat
    BY Counts DEF IInv
  <2>2. /\ Len(done[s]) <= Len(query[s])
        /\ \A i \in 1 .. Len(done[s]) : done[s][i] = query[s][i]
    BY DEF IInv, Undisturbed
  <2> DEFINE p == SubSeq(query[s], 1, Len(done[s]))
  <2>3. /\ p \in Seq(Stmt) /\ Len(p) = Len(done[s])
        /\ \A i \in 1 .. Len(done[s]) : p[i] = query[s][i]
    BY <2>1, <2>2, SubSeqProperties
  <2> HIDE DEF p
  <2>4. done[s] = p
    BY <2>1, <2>2, <2>3, SeqEqual
  <2> QED
    BY <2>2, <2>4 DEF IsPrefixOf, p
<1> QED
  BY <1>1, Invariance, PTL

\* What handleTranslated answers to such a query that parses tells how much of it
\* was done: all of it after OK, not all of it after an error.
THEOREM AnswersAreTrue == Spec => []AnswerTells
<1>1. IInv => AnswerTells
  BY DEF IInv
<1> QED
  BY <1>1, Invariance, PTL
=============================================================================
