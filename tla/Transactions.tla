---------------------------- MODULE Transactions ----------------------------
(***************************************************************************)
(* What clients of one tenant may rely on: transactions that take effect   *)
(* as a whole or not at all, whatever the proxy does with connections.     *)
(***************************************************************************)
CONSTANTS Session, Row

VARIABLES
    durable,    \* the rows of the database
    open,       \* which clients have a transaction open
    pending     \* the rows each wrote in it

vars == <<durable, open, pending>>

Init ==
    /\ durable = {}
    /\ open = [s \in Session |-> FALSE]
    /\ pending = [s \in Session |-> {}]

Fresh(r) == r \notin durable /\ \A s \in Session : r \notin pending[s]

Begin(s) ==
    /\ ~open[s]
    /\ open' = [open EXCEPT ![s] = TRUE]
    /\ UNCHANGED <<durable, pending>>

Write(s, r) ==
    /\ open[s]
    /\ Fresh(r)
    /\ pending' = [pending EXCEPT ![s] = @ \cup {r}]
    /\ UNCHANGED <<durable, open>>

\* A statement on its own, of a client without a transaction or of no client.
AutoCommit(r) ==
    /\ Fresh(r)
    /\ durable' = durable \cup {r}
    /\ UNCHANGED <<open, pending>>

End(s) ==
    /\ open[s]
    /\ open' = [open EXCEPT ![s] = FALSE]
    /\ pending' = [pending EXCEPT ![s] = {}]

Commit(s) == End(s) /\ durable' = durable \cup pending[s]

Abort(s) == End(s) /\ UNCHANGED durable

AbortAll ==
    /\ open' = [s \in Session |-> FALSE]
    /\ pending' = [s \in Session |-> {}]
    /\ UNCHANGED durable

Next ==
    \/ \E s \in Session :
         Begin(s) \/ (\E r \in Row : Write(s, r)) \/ Commit(s) \/ Abort(s)
    \/ \E r \in Row : AutoCommit(r)
    \/ AbortAll

Spec == Init /\ [][Next]_vars
=============================================================================
