------------------------------ MODULE MCStore ------------------------------
(* Store on small instances: names, usernames and requests are model       *)
(* values that the specification treats alike.                             *)
EXTENDS Store, TLC

Symmetry == Permutations(Name) \cup Permutations(User) \cup Permutations(Request)

=============================================================================
