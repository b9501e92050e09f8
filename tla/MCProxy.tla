------------------------------ MODULE MCProxy ------------------------------
(* Proxy on small instances: connections, requests, tenants and session    *)
(* ids are model values that the specification treats alike.               *)
EXTENDS Proxy, TLC

Symmetry == Permutations(Client) \cup Permutations(Request)
              \cup Permutations(Tenant) \cup Permutations(SessionId)

\* The clock shows one value to connections that read it at about the same time,
\* before any of them has heard from its client.
SameTick ==
    \A c, d \in Client :
        c # d /\ id[c] # id'[c] /\ id'[c] = id[d] => At(d, "hello")

SameTickSpec == Init /\ [][Next /\ SameTick]_vars

\* Unique ids are named after the connections that get them, and all tenants
\* exist: what is left is all there is, up to the names of ids.
OwnIds == \A c \in Client : id'[c] \in {None, c}

OwnIdsSpec == Init /\ served = Tenant /\ [][Next /\ OwnIds]_vars /\ Fairness

=============================================================================
