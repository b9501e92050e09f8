------------------------------- MODULE Service -------------------------------
(***************************************************************************)
(* What the proxy promises for each connection, whatever its goroutines    *)
(* and Stop do: it is served as one tenant at most and never as another    *)
(* one, the pool connection it holds is its own until it ends, and after   *)
(* it has ended, or an orderly stop, nothing of it is left and it is never *)
(* served again.  Proxy refines this module (Proxy.tla, Serves).           *)
(***************************************************************************)
CONSTANTS Client,   \* connections
          Tenant,   \* databases, and their usernames
          None      \* no tenant

VARIABLES tenant,   \* whom each connection is served as, or None
          holds,    \* connections that hold a connection of their tenant's pool
          over,     \* connections that have ended
          down      \* Stop returned, and had waited for every connection

vars == <<tenant, holds, over, down>>

Init ==
    /\ tenant = [c \in Client |-> None]
    /\ holds = {}
    /\ over = {}
    /\ down = FALSE

Admit(c, t) ==
    /\ ~down
    /\ c \notin over
    /\ tenant[c] = None
    /\ tenant' = [tenant EXCEPT ![c] = t]
    /\ UNCHANGED <<holds, over, down>>

\* A command of a tenant's connection takes a connection of the pool.
Hold(c) ==
    /\ tenant[c] # None
    /\ holds' = holds \cup {c}
    /\ UNCHANGED <<tenant, over, down>>

\* Also of a connection that was refused, or never admitted.
End(c) ==
    /\ ~down
    /\ c \notin over
    /\ over' = over \cup {c}
    /\ tenant' = [tenant EXCEPT ![c] = None]
    /\ holds' = holds \ {c}
    /\ UNCHANGED down

GoDown ==
    /\ holds = {}
    /\ \A c \in Client : tenant[c] = None
    /\ down' = TRUE
    /\ UNCHANGED <<tenant, holds, over>>

Next ==
    \/ \E c \in Client : (\E t \in Tenant : Admit(c, t)) \/ Hold(c) \/ End(c)
    \/ GoDown

Spec == Init /\ [][Next]_vars
=============================================================================
