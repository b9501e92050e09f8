----------------------------- MODULE MCQueries -----------------------------
(* Queries on small instances; sessions are model values that the          *)
(* specification treats alike.                                             *)
EXTENDS Queries, TLC

\* A query for SQLite, one for each way to be answered apart, and one that the
\* parser refuses.
const_Text == {<<"plain", "plain">>, <<"own">>, <<"schema">>, <<"foreign">>}

\* Statements for SQLite only.
const_Plain == {<<"plain">>, <<"plain", "plain">>}

\* A schedule in which no two calls of the parser overlap.
Serial == \A s, t \in Session : pc[s] \in Parsing /\ pc[t] \in Parsing => s = t

SerialSpec == Init /\ [][Next /\ Serial']_vars

Symmetry == Permutations(Session)

=============================================================================
