--------------------------- MODULE MCReconstruct ---------------------------
(* Reconstruct on small instances: sessions, rows and definitions are model *)
(* values that the specification treats alike; columns are strings.        *)
EXTENDS Reconstruct, TLC

Symmetry == Permutations(Session) \cup Permutations(Row) \cup Permutations(Def)

=============================================================================
