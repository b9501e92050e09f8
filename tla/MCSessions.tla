----------------------------- MODULE MCSessions -----------------------------
(* Sessions on small instances; clients, connections and rows are model    *)
(* values that the specification treats alike.                             *)
EXTENDS Sessions, TLC

Symmetry == Permutations(Session) \cup Permutations(Conn) \cup Permutations(Row)

=============================================================================
