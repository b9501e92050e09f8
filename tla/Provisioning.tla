---------------------------- MODULE Provisioning ----------------------------
(***************************************************************************)
(* What the storage layer promises to those who provision tenants: a       *)
(* database belongs to one username for ever, and a pair of credentials    *)
(* that was handed out works whenever the store is up, also after any      *)
(* number of restarts.  Store refines this module (Store.tla,              *)
(* Provisions).                                                            *)
(***************************************************************************)
CONSTANTS Name,     \* generated database names
          User,     \* generated MySQL usernames
          None      \* no name, no username

VARIABLES owner,    \* the durable catalog: Name -> its username, or None
          served,   \* databases that clients can reach
          told,     \* credentials handed out, as pairs <<name, username>>
          up        \* the store is open for clients

vars == <<owner, served, told, up>>

Durable == {n \in Name : owner[n] # None}

Init ==
    /\ owner = [n \in Name |-> None]
    /\ served = {}
    /\ told = {}
    /\ up = FALSE

\* A database becomes durable; its username belongs to no other database.
Provision(n, u) ==
    /\ owner[n] = None
    /\ \A m \in Name : owner[m] # u
    /\ owner' = [owner EXCEPT ![n] = u]
    /\ UNCHANGED <<served, told, up>>

\* A durable database goes live and its credentials are handed out.
Announce(n) ==
    /\ up
    /\ n \in Durable \ served
    /\ served' = served \cup {n}
    /\ told' = told \cup {<<n, owner[n]>>}
    /\ UNCHANGED <<owner, up>>

\* The store opens and serves every durable database.
Resume ==
    /\ ~up
    /\ up' = TRUE
    /\ served' = Durable
    /\ UNCHANGED <<owner, told>>

\* The store closes, or its process dies.
Withdraw ==
    /\ up
    /\ up' = FALSE
    /\ served' = {}
    /\ UNCHANGED <<owner, told>>

Next ==
    \/ \E n \in Name, u \in User : Provision(n, u)
    \/ \E n \in Name : Announce(n)
    \/ Resume
    \/ Withdraw

Spec == Init /\ [][Next]_vars
=============================================================================
