------------------------------ MODULE Queries ------------------------------
(***************************************************************************)
(* server/handler.go, HandleQuery and handleTranslated, with safeParseSQL  *)
(* of server/infoschema.go: from the text of a query, of one or several    *)
(* statements, to the statements executed.  All sessions of all tenants    *)
(* use one parser object, without a lock.                                  *)
(*                                                                         *)
(* External, modelled from their use: a call of the parser empties its     *)
(* slice of statements, parser.result, appends each statement as soon as   *)
(* it is complete and returns the slice, whose array the next call fills   *)
(* again; append moves to a larger array when the present one is full.     *)
(* Calls that overlap are a data race: each may append statements of any   *)
(* of the texts, at an index it read before, and return what it finds, or  *)
(* an error.  Words torn by the race are left out: an index, a statement   *)
(* and an array are one that somebody wrote.                               *)
(*                                                                         *)
(* Prepared statements are parsed as well: to the other sessions, that is  *)
(* one more query.                                                         *)
(***************************************************************************)
EXTENDS Naturals, Sequences

CONSTANTS Session,    \* connections, of any tenants
          MaxLen,     \* bound: statements in a query, and in parser.result
          Capacity,   \* the sizes of array that append goes through
          Text,       \* the queries clients send: the kinds of their statements
          None

\* How HandleQuery tells statements apart: it answers USE, SHOW DATABASES and
\* SELECT DATABASE() itself ("own"), information_schema apart ("schema"); the
\* rest goes to SQLite, "foreign" being what the parser refuses.
Kind == {"own", "schema", "plain", "foreign"}

ASSUME QueriesAssumption ==
    /\ MaxLen \in Nat \ {0}
    /\ Capacity \subseteq Nat \ {0}
    /\ \E c \in Capacity : c >= MaxLen
    /\ Text \subseteq UNION {[1 .. k -> Kind] : k \in 1 .. MaxLen}

VARIABLES
    array,      \* the arrays parser.result has had, by capacity
    cap,        \* the capacity of the present one
    len,        \* the present length of parser.result
    raced,      \* sessions whose present call of the parser overlapped another
    pc,         \* where HandleQuery of each session is
    query,      \* its statements, in order
    stmts,      \* the slice it got from the parser
    again,      \* the one handleInfoSchemaQuery got
    next,       \* index of its next statement
    done,       \* the statements executed for it
    reply,      \* its last answer
    disturbed   \* history: sessions in whose present query another one called
                \* the parser, while they did so themselves or held a slice

parser == <<array, cap, len, raced>>
vars == <<parser, pc, query, stmts, again, next, done, reply, disturbed>>

Stmt == [of : Session, n : 1 .. MaxLen, kind : Kind]
Slice == [cap : Capacity, len : 1 .. MaxLen]

Parsing == {"parsing", "parsing2"}

Init ==
    /\ array = [c \in Capacity |-> [i \in 1 .. c |-> None]]
    /\ cap = 0
    /\ len = 0
    /\ raced = {}
    /\ pc = [s \in Session |-> "idle"]
    /\ query = [s \in Session |-> <<>>]
    /\ stmts = [s \in Session |-> None]
    /\ again = [s \in Session |-> None]
    /\ next = [s \in Session |-> 1]
    /\ done = [s \in Session |-> <<>>]
    /\ reply = [s \in Session |-> "none"]
    /\ disturbed = {}
-----------------------------------------------------------------------------
Goto(s, where) == pc' = [pc EXCEPT ![s] = where]

Submit(s, kinds) ==
    /\ pc[s] = "idle"
    /\ query' = [query EXCEPT ![s] =
         [i \in DOMAIN kinds |-> [of |-> s, n |-> i, kind |-> kinds[i]]]]
    /\ done' = [done EXCEPT ![s] = <<>>]
    /\ reply' = [reply EXCEPT ![s] = "none"]
    /\ disturbed' = disturbed \ {s}
    /\ Goto(s, "parse")
    /\ UNCHANGED <<parser, stmts, again, next>>
-----------------------------------------------------------------------------
(***************************************************************************)
(* safeParseSQL                                                            *)
(***************************************************************************)
\* Sessions that hold a slice, and have still to read it.
Reading(t) == pc[t] \in {"route", "parse2", "parsing2", "schema", "loop"}

\* parser.result = parser.result[:0]
ParseStart(s) ==
    LET others == {t \in Session : pc[t] \in Parsing}
        racing == IF others = {} THEN {} ELSE others \cup {s}
    IN
    /\ pc[s] \in {"parse", "parse2"}
    /\ len' = 0
    /\ raced' = raced \cup racing
    /\ disturbed' = disturbed \cup racing \cup {t \in Session \ {s} : Reading(t)}
    /\ Goto(s, IF pc[s] = "parse" THEN "parsing" ELSE "parsing2")
    /\ UNCHANGED <<array, cap, query, stmts, again, next, done, reply>>

\* The statements before the first one that is refused.
Accepted(q) ==
    LET refused == {i \in DOMAIN q : q[i].kind = "foreign"}
        first == CHOOSE i \in refused : \A j \in refused : i <= j
    IN IF refused = {} THEN q ELSE SubSeq(q, 1, first - 1)

Fits(c, i) == c >= cap /\ c >= i

\* append of the i-th statement: in place, or in a larger array that those
\* before it are copied to.
Put(stmt, i) ==
    LET grown == CHOOSE c \in Capacity :
                    Fits(c, i) /\ \A d \in Capacity : Fits(d, i) => c <= d
    IN
    /\ len' = i
    /\ cap' = grown
    /\ array' = [array EXCEPT ![grown] = [j \in 1 .. grown |->
         IF j = i THEN stmt ELSE IF j < i THEN array[cap][j] ELSE array[grown][j]]]

\* parser.result = append(parser.result, stmt)
ParseStatement(s) ==
    /\ pc[s] \in Parsing
    /\ IF s \notin raced
         THEN /\ len < Len(Accepted(query[s]))
              /\ Put(query[s][len + 1], len + 1)
         ELSE \E t \in Session, i \in 1 .. len + 1 :
                /\ i <= MaxLen
                /\ \E k \in 1 .. Len(Accepted(query[t])) : Put(query[t][k], i)
    /\ UNCHANGED <<raced, pc, query, stmts, again, next, done, reply, disturbed>>

ParsedUnchecked(failed) == ~failed  \* fault: an empty list passes for a parse
Parsed(failed) == ~failed /\ len > 0

ParseEnd(s) ==
    \E failed \in IF s \in raced THEN BOOLEAN ELSE {Accepted(query[s]) # query[s]} :
      LET ok == Parsed(failed)
          slice == IF ok THEN [cap |-> cap, len |-> len] ELSE None
      IN
      /\ pc[s] \in Parsing
      /\ s \in raced \/ len = Len(Accepted(query[s]))
      /\ raced' = raced \ {s}
      /\ IF pc[s] = "parsing"
           THEN /\ stmts' = [stmts EXCEPT ![s] = slice]
                /\ Goto(s, IF ok THEN "route" ELSE "text")
                /\ UNCHANGED again
           ELSE /\ again' = [again EXCEPT ![s] = slice]
                /\ Goto(s, IF ok THEN "schema" ELSE "loop")
                /\ UNCHANGED stmts
      /\ UNCHANGED <<array, cap, len, query, next, done, reply, disturbed>>
-----------------------------------------------------------------------------
(***************************************************************************)
(* HandleQuery, handleTranslated                                           *)
(***************************************************************************)
Read(slice, i) == array[slice.cap][i]

Execute(s, stmt) == done' = [done EXCEPT ![s] = Append(@, stmt)]

Answer(s, how) ==
    /\ reply' = [reply EXCEPT ![s] = how]
    /\ stmts' = [stmts EXCEPT ![s] = None]
    /\ again' = [again EXCEPT ![s] = None]
    /\ next' = [next EXCEPT ![s] = 1]
    /\ Goto(s, "idle")
    /\ UNCHANGED <<parser, query, disturbed>>

\* The first statement decides for the whole query.
AnswerItself(s) ==
    LET first == Read(stmts[s], 1) IN
    /\ pc[s] = "route"
    /\ first.kind = "own"
    /\ \/ Execute(s, first) /\ Answer(s, "ok")
       \/ UNCHANGED done /\ Answer(s, "error")

Route(s) ==
    LET first == Read(stmts[s], 1) IN
    /\ pc[s] = "route"
    /\ first.kind # "own"
    /\ Goto(s, IF first.kind = "schema" THEN "parse2" ELSE "loop")
    /\ UNCHANGED <<parser, query, stmts, again, next, done, reply, disturbed>>

\* handleInfoSchemaQuery, after it parsed the query once more.  It answers OK
\* with an empty result after an error, and for a table that it does not know.
AnswerSchema(s) ==
    LET first == Read(again[s], 1) IN
    /\ pc[s] = "schema"
    /\ first.kind = "schema"
    /\ Execute(s, first) \/ UNCHANGED done
    /\ Answer(s, "ok")

NoSchema(s) ==
    /\ pc[s] = "schema"
    /\ Read(again[s], 1).kind # "schema"
    /\ Goto(s, "loop")
    /\ UNCHANGED <<parser, query, stmts, again, next, done, reply, disturbed>>

\* A text that does not parse is translated and executed as a whole.
ExecuteText(s) ==
    /\ pc[s] = "text"
    /\ \E how \in {"ok", "error"} : Answer(s, how)
    /\ UNCHANGED done

StatementSame(s) ==                 \* fault: the loop executes its first statement
    /\ pc[s] = "loop"
    /\ next[s] <= stmts[s].len
    /\ Execute(s, Read(stmts[s], 1))
    /\ next' = [next EXCEPT ![s] = @ + 1]
    /\ UNCHANGED <<parser, pc, query, stmts, again, reply, disturbed>>

\* for _, stmt := range stmts
Statement(s) ==
    /\ pc[s] = "loop"
    /\ next[s] <= stmts[s].len
    /\ Execute(s, Read(stmts[s], next[s]))
    /\ next' = [next EXCEPT ![s] = @ + 1]
    /\ UNCHANGED <<parser, pc, query, stmts, again, reply, disturbed>>

StatementFailsQuietly(s) ==         \* fault: the loop goes on after an error
    /\ pc[s] = "loop"
    /\ next[s] <= stmts[s].len
    /\ next' = [next EXCEPT ![s] = @ + 1]
    /\ UNCHANGED <<parser, pc, query, stmts, again, done, reply, disturbed>>

StatementFails(s) ==
    /\ pc[s] = "loop"
    /\ next[s] <= stmts[s].len
    /\ Answer(s, "error")
    /\ UNCHANGED done

AllDone(s) ==
    /\ pc[s] = "loop"
    /\ next[s] > stmts[s].len
    /\ Answer(s, "ok")
    /\ UNCHANGED done

HandleQuery(s) ==
    \/ ParseStart(s) \/ ParseStatement(s) \/ ParseEnd(s)
    \/ AnswerItself(s) \/ Route(s) \/ AnswerSchema(s) \/ NoSchema(s)
    \/ ExecuteText(s)
    \/ Statement(s) \/ StatementFails(s) \/ AllDone(s)

Next ==
    \E s \in Session :
      \/ \E kinds \in Text : Submit(s, kinds)
      \/ HandleQuery(s)

Spec == Init /\ [][Next]_vars
-----------------------------------------------------------------------------
TypeOK ==
    /\ DOMAIN array = Capacity
    /\ \A c \in Capacity : array[c] \in [1 .. c -> Stmt \cup {None}]
    /\ cap \in Capacity \cup {0}
    /\ len \in 0 .. MaxLen
    /\ raced \in SUBSET Session
    /\ pc \in [Session -> {"idle", "parse", "parsing", "parse2", "parsing2",
                           "route", "schema", "loop", "text"}]
    /\ \A f \in {query, done} : f \in [Session -> Seq(Stmt)] /\ \A s \in Session : Len(f[s]) <= MaxLen
    /\ stmts \in [Session -> Slice \cup {None}]
    /\ again \in [Session -> Slice \cup {None}]
    /\ next \in [Session -> 1 .. MaxLen + 1]
    /\ reply \in [Session -> {"none", "ok", "error"}]
    /\ disturbed \in SUBSET Session

IsPrefixOf(p, q) == Len(p) <= Len(q) /\ p = SubSeq(q, 1, Len(p))

\* A session executes its own statements, each once and in order, as long as
\* nobody else calls the parser while it does or holds what it got from it:
\* whatever was parsed, raced or refused before, and whatever array it got.
OwnUnlessDisturbed ==
    \A s \in Session \ disturbed : IsPrefixOf(done[s], query[s])

\* The answer to such a query, when it parses and is executed statement by
\* statement, tells how far it got: OK after all of it, an error otherwise.
\* Of a query that is answered apart, by its first statement, an OK tells
\* nothing: the others are dropped, and so are errors of information_schema.
AnswerTells ==
    \A s \in Session \ disturbed :
      pc[s] = "idle" /\ Accepted(query[s]) = query[s] =>
        LET q == query[s] IN
        /\ reply[s] = "ok" /\ q[1].kind \notin {"own", "schema"} => Len(done[s]) = Len(q)
        /\ reply[s] = "error" => Len(done[s]) < Len(q)

\* README, "Each client connection maintains its own session state" and "Each
\* database is an isolated SQLite file": what a session executes on its
\* connection is of its own query.
OwnStatements ==
    \A s \in Session : \A i \in DOMAIN done[s] : done[s][i] \in
        {query[s][j] : j \in DOMAIN query[s]}
=============================================================================
