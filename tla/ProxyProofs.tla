----------------------------- MODULE ProxyProofs -----------------------------
(***************************************************************************)
(* Proofs about Proxy, for any sets of connections, requests and tenants.  *)
(***************************************************************************)
EXTENDS Proxy, TLAPS

\* The goroutine of a connection runs; it has a session id; it knows the
\* client's handshake response.
Running == {"open", "hello", "auth", "ready", "command", "remove", "close", "done"}
Live == {"hello", "auth", "ready", "command", "remove"}
Heard == {"auth", "ready", "command"}

\* wg counts the accept loop as long as it has a connection in hand, and then
\* the connection's own goroutine; before Start there is none.
Counted ==
    /\ stop = "new" => \A c \in Client : At(c, "off")
    /\ \A c \in Client :
         /\ pc[c] \in {"accepted", "registered"} => "accept" \in wg
         /\ pc[c] \in Running => c \in wg

\* Past Shutdown's wait the management API is silent, unless Stop gave up on it.
Silent ==
    stop \in {"closing", "waiting", "release", "stopped"} =>
        "http" \in gaveUp \/ web = {}

\* The binding under construction: what it holds, the client asked for, and it
\* is final for none but a client that knows its tenant's password.
Binding ==
    \A c \in Client :
        /\ pc[c] \in Heard => hello[c] \in Hello
        /\ pc[c] \notin Live \ {"hello"} =>
             requested[c] = None /\ candidate[c] = None
        /\ pc[c] \notin {"ready", "command", "remove"} => bound[c] = None
        /\ At(c, "auth") /\ "UseDB" \notin todo[c] => requested[c] = hello[c].db
        /\ At(c, "auth") /\ candidate[c] # None => hello[c].knowsPassword

\* The inductive invariant of what has nothing to do with session ids.
IInv ==
    /\ TypeOK /\ Counted /\ Silent /\ Binding
    /\ BoundAsAuthenticated /\ NoneMissed /\ OrderlyStop

\* The living have ids, an entry of the session table is of who has its id, and
\* a connection that had its id alone has its own entry and, once it has ended,
\* no pinned connection.
Identified ==
    /\ \A c \in Client : pc[c] \in Live <=> id[c] # None
    /\ \A t \in SessionId : table[t] # None => id[table[t]] = t
    /\ \A c \in Client \ clash :
         /\ pc[c] \in Live =>
              /\ table[id[c]] = c
              /\ \A d \in Client \ {c} : id[d] # id[c]
         /\ c \in held => pc[c] \in Live

\* Ids are told apart, if they are unique.
Apart == UniqueIds => clash = {}
-----------------------------------------------------------------------------
USE ProxyAssumption
USE DEF binding, sessions, http, At, Goto, StopGoes

\* Before Start there is no connection.
LEMMA InitIInv == Init => IInv
<1> SUFFICES ASSUME Init PROVE IInv
  OBVIOUS
<1>1. TypeOK
  BY DEF Init, TypeOK, Phase, Place
<1>2. Counted /\ Silent /\ Binding
  BY DEF Init, Counted, Silent, Binding, Live, Heard, Running
<1>3. BoundAsAuthenticated /\ NoneMissed /\ OrderlyStop
  BY DEF Init, BoundAsAuthenticated, NoneMissed, OrderlyStop
<1> QED
  BY <1>1, <1>2, <1>3 DEF IInv

\* The accept loop and the end of a connection: sockets, registry and wg.
LEMMA SocketStep ==
  ASSUME IInv, NEW c \in Client,
         \/ Accept(c) \/ Register(c) \/ Spawn(c)
         \/ Unregister(c) \/ Done(c) \/ Command(c) \/ Leave(c)
  PROVE  IInv'
<1>1. TypeOK'
  <2>1. CASE Register(c)
    BY <2>1 DEF IInv, TypeOK, Place, Register
  <2>2. CASE Accept(c) \/ Spawn(c) \/ Unregister(c)
    BY <2>2 DEF IInv, TypeOK, Place, Accept, Spawn, Unregister
  <2>3. CASE Done(c) \/ Command(c) \/ Leave(c)
    BY <2>3 DEF IInv, TypeOK, Place, Done, Command, Leave
  <2> QED
    BY <2>1, <2>2, <2>3
<1>3. Counted'
  <2>1. CASE Accept(c)
    BY <2>1 DEF IInv, TypeOK, Counted, Running, Listening, LoopFree, Accept
  <2>2. CASE Register(c)
    BY <2>2 DEF IInv, TypeOK, Counted, Running, Register
  <2>3. CASE Spawn(c) \/ Unregister(c)
    BY <2>3 DEF IInv, TypeOK, Counted, Running, Spawn, Unregister
  <2>4. CASE Done(c)
    BY <2>4 DEF IInv, TypeOK, Counted, Running, Done
  <2>5. CASE Command(c) \/ Leave(c)
    BY <2>5 DEF IInv, TypeOK, Counted, Running, Command, Leave
  <2> QED
    BY <2>1, <2>2, <2>3, <2>4, <2>5
<1>4. Silent'
  BY DEF IInv, Silent, Accept, Register, Spawn, Unregister, Done, Command, Leave
<1>5. Binding' /\ BoundAsAuthenticated'
  BY DEF IInv, TypeOK, Binding, BoundAsAuthenticated, Live, Heard, Accept,
         Register, Spawn, Unregister, Done, Command, Leave
<1>6. NoneMissed'
  BY DEF IInv, NoneMissed, Stopping, Accept, Register, Spawn, Unregister, Done,
         Command, Leave
<1>7. OrderlyStop'
  BY DEF IInv, TypeOK, OrderlyStop, Listening, Accept, Register, Spawn,
         Unregister, Done, Command, Leave
<1> QED
  BY <1>1, <1>3, <1>4, <1>5, <1>6, <1>7 DEF IInv

\* The session of a connection: created, used by a command, removed.
LEMMA SessionStep ==
  ASSUME IInv, NEW c \in Client, OpenSession(c) \/ Reply(c) \/ Remove(c)
  PROVE  IInv'
<1>1. TypeOK'
  <2>1. CASE OpenSession(c)
    BY <2>1 DEF IInv, TypeOK, Place, Bearers, OpenSession
  <2>2. CASE Reply(c)
    BY <2>2 DEF IInv, TypeOK, Place, Reply
  <2>3. CASE Remove(c)
    <3>1. /\ held' \in SUBSET Client
          /\ table' \in [SessionId -> Client \cup {None}]
          /\ pc' \in [Client -> Place]
      BY <2>3 DEF IInv, TypeOK, Place, Remove
    <3>2. /\ hello' \in [Client -> Hello \cup {None}]
          /\ todo' \in [Client -> SUBSET {"UseDB", "GetCredential"}]
          /\ requested' \in [Client -> Tenant \cup {None}]
          /\ candidate' \in [Client -> Tenant \cup {None}]
          /\ bound' \in [Client -> Tenant \cup {None}]
          /\ id' \in [Client -> SessionId \cup {None}]
      BY <2>3 DEF IInv, TypeOK, Remove, Forget
    <3> QED
      BY <2>3, <3>1, <3>2 DEF IInv, TypeOK, Remove
  <2> QED
    BY <2>1, <2>2, <2>3
<1>3. Counted' /\ Silent'
  BY DEF IInv, TypeOK, Counted, Silent, Running, OpenSession, Reply, Remove
<1>4. Binding' /\ BoundAsAuthenticated'
  BY DEF IInv, TypeOK, Binding, BoundAsAuthenticated, Live, Heard,
         OpenSession, Reply, Remove, Forget
<1>5. NoneMissed' /\ OrderlyStop'
  BY DEF IInv, TypeOK, NoneMissed, OrderlyStop, OpenSession, Reply, Remove
<1> QED
  BY <1>1, <1>3, <1>4, <1>5 DEF IInv

\* The handshake.
LEMMA HandshakeStep ==
  ASSUME IInv, NEW c \in Client,
         ReadHello(c) \/ UseDB(c) \/ GetCredential(c) \/ Finalize(c)
  PROVE  IInv'
<1>1. ASSUME ReadHello(c) PROVE TypeOK' /\ Binding' /\ BoundAsAuthenticated'
  <2>1. TypeOK'
    BY <1>1 DEF IInv, TypeOK, Place, ReadHello
  <2>3. Binding'
    BY <1>1 DEF IInv, TypeOK, Binding, Live, Heard, Hello, ReadHello
  <2>4. BoundAsAuthenticated'
    BY <1>1 DEF IInv, TypeOK, Binding, BoundAsAuthenticated, Live, ReadHello
  <2> QED
    BY <2>1, <2>3, <2>4
<1>2. ASSUME UseDB(c) PROVE TypeOK' /\ Binding' /\ BoundAsAuthenticated'
  <2>1. hello[c] \in Hello
    BY <1>2 DEF IInv, Binding, Heard, UseDB
  <2>2. TypeOK'
    BY <1>2, <2>1 DEF IInv, TypeOK, Hello, UseDB
  <2>3. Binding' /\ BoundAsAuthenticated'
    BY <1>2 DEF IInv, TypeOK, Binding, BoundAsAuthenticated, Live, Heard, UseDB
  <2> QED
    BY <2>2, <2>3
<1>3. ASSUME GetCredential(c) PROVE TypeOK' /\ Binding' /\ BoundAsAuthenticated'
  <2>1. TypeOK'
    BY <1>3 DEF IInv, TypeOK, Place, GetCredential
  <2>2. BoundAsAuthenticated'
    BY <1>3 DEF IInv, TypeOK, BoundAsAuthenticated, Live, GetCredential
  <2>3. Binding'
    BY <1>3 DEF IInv, TypeOK, Binding, Live, Heard, GetCredential
  <2> QED
    BY <2>1, <2>2, <2>3
<1>4. ASSUME Finalize(c) PROVE TypeOK' /\ Binding' /\ BoundAsAuthenticated'
  <2>1. TypeOK'
    BY <1>4 DEF IInv, TypeOK, Place, Finalize
  <2>3. Binding'
    BY <1>4 DEF IInv, TypeOK, Binding, Live, Heard, Finalize
  <2>4. BoundAsAuthenticated'
    BY <1>4 DEF IInv, TypeOK, Binding, BoundAsAuthenticated, Hello, Heard,
                Suits, Finalize
  <2> QED
    BY <2>1, <2>3, <2>4
<1>5. Counted' /\ Silent'
  BY DEF IInv, TypeOK, Counted, Silent, Running, ReadHello, UseDB,
         GetCredential, Finalize
<1>6. NoneMissed' /\ OrderlyStop'
  BY DEF IInv, TypeOK, NoneMissed, OrderlyStop, ReadHello, UseDB,
         GetCredential, Finalize
<1> QED
  BY <1>1, <1>2, <1>3, <1>4, <1>5, <1>6 DEF IInv

\* The steps of Start, of Stop, of the accept loop's end and of the management
\* API, which leave every connection where it is.
LEMMA ProcessStep ==
  ASSUME IInv,
         \/ Start \/ SetStopping \/ Stop \/ LoopEnds \/ ServeReturns
         \/ \E r \in Request : WebRequest(r) \/ WebReply(r)
  PROVE  IInv'
<1> USE DEF Start, SetStopping, Stop, CloseListeners, ShutdownReturns,
            CloseConns, WaitReturns, CloseStore, LoopEnds, ServeReturns,
            WebRequest, WebReply
<1>1. TypeOK'
  BY DEF IInv, TypeOK, Phase
<1>2. Binding' /\ BoundAsAuthenticated'
  BY DEF IInv, Binding, BoundAsAuthenticated
<1>3. Counted'
  <2>1. CASE Start
    BY <2>1 DEF IInv, Counted, Running
  <2>2. CASE LoopEnds
    BY <2>2 DEF IInv, Counted, Running, LoopFree, Listening
  <2>3. CASE ServeReturns
    BY <2>3 DEF IInv, Counted, TypeOK
  <2>4. CASE SetStopping \/ Stop \/ \E r \in Request : WebRequest(r) \/ WebReply(r)
    BY <2>4 DEF IInv, Counted
  <2> QED
    BY <2>1, <2>2, <2>3, <2>4
<1>4. Silent'
  BY DEF IInv, Silent, Listening
<1>5. NoneMissed'
  BY DEF IInv, NoneMissed
<1>6. OrderlyStop'
  <2>1. CASE WaitReturns
    <3>1. ASSUME wg = {} PROVE \A c \in Client : pc[c] \in {"off", "gone"}
      BY <3>1 DEF IInv, TypeOK, Counted, Running, Place
    <3> QED
      BY <2>1, <3>1 DEF IInv, OrderlyStop, Silent
  <2>2. CASE CloseStore
    BY <2>2 DEF IInv, OrderlyStop
  <2>3. CASE \E r \in Request : WebRequest(r) \/ WebReply(r)
    BY <2>3 DEF IInv, OrderlyStop, Listening
  <2>4. CASE \/ Start \/ SetStopping \/ CloseListeners \/ ShutdownReturns
             \/ CloseConns \/ LoopEnds \/ ServeReturns
    BY <2>4 DEF IInv, OrderlyStop
  <2> QED
    BY <2>1, <2>2, <2>3, <2>4 DEF Stop
<1> QED
  BY <1>1, <1>2, <1>3, <1>4, <1>5, <1>6 DEF IInv

\* Every step keeps the inductive invariant.
LEMMA NextKeeps == IInv /\ [Next]_vars => IInv'
<1> SUFFICES ASSUME IInv, [Next]_vars PROVE IInv'
  OBVIOUS
<1>1. CASE \/ Start \/ SetStopping \/ Stop \/ LoopEnds \/ ServeReturns
           \/ \E r \in Request : WebRequest(r) \/ WebReply(r)
  BY <1>1, ProcessStep
<1>2. ASSUME NEW c \in Client,
             Accept(c) \/ Register(c) \/ Spawn(c) \/ Serve(c) \/ Talk(c)
      PROVE  IInv'
  BY <1>2, SocketStep, SessionStep, HandshakeStep DEF Serve, Talk, Cut
<1>3. CASE Exit \/ UNCHANGED vars
  <2> USE <1>3 DEF Exit, vars
  <2>1. TypeOK' /\ Counted' /\ Silent'
    BY DEF IInv, TypeOK, Counted, Silent
  <2>2. Binding' /\ BoundAsAuthenticated' /\ NoneMissed' /\ OrderlyStop'
    BY DEF IInv, Binding, BoundAsAuthenticated, NoneMissed, OrderlyStop
  <2> QED
    BY <2>1, <2>2 DEF IInv
<1> QED
  BY <1>1, <1>2, <1>3 DEF Next, AcceptLoop

\* Hence it holds throughout.
LEMMA Invariance == Spec => []IInv
  BY InitIInv, NextKeeps, PTL DEF Spec

\* Type correctness: what a handshake notes of a client is a tenant or nothing,
\* and whatever Remove finds in the session table, what it unpins is a
\* connection's.
THEOREM TypeCorrect == Spec => []TypeOK
  BY Invariance, PTL DEF IInv

\* No order of UseDB and GetCredential, and no failure, change of the catalog
\* or Stop in between, binds a connection to a tenant whose password its client
\* does not know, or to another one than it asked for.
THEOREM BindingIsAuthentic == Spec => []BoundAsAuthenticated
  BY Invariance, PTL DEF IInv

\* Accepting races Stop, and loses: the registry holds no open socket once
\* Stop's closing loop is over.
THEOREM StopMissesNone == Spec => []NoneMissed
  BY Invariance, PTL DEF IInv

\* The store is closed under nobody's feet, unless Stop ran out of patience.
THEOREM StopIsOrderly == Spec => []OrderlyStop
  BY Invariance, PTL DEF IInv
-----------------------------------------------------------------------------
(***************************************************************************)
(* Session ids                                                             *)
(***************************************************************************)
\* Whoever is found with the new id is marked, and the new connection with them.
LEMMA OpenIdentified ==
  ASSUME IInv, Identified, NEW c \in Client, OpenSession(c)
  PROVE  Identified'
<1>1. PICK t \in SessionId :
        /\ id' = [id EXCEPT ![c] = t]
        /\ table' = [table EXCEPT ![t] = c]
        /\ clash' = IF Bearers(t) = {} THEN clash ELSE clash \cup Bearers(t) \cup {c}
  BY DEF OpenSession
<1>2. pc[c] = "open" /\ pc' = [pc EXCEPT ![c] = "hello"] /\ held' = held
  BY DEF OpenSession
<1>3. \A d \in Client : pc'[d] \in Live <=> id'[d] # None
  BY <1>1, <1>2 DEF IInv, TypeOK, Identified, Live
<1>4. \A u \in SessionId : table'[u] # None => id'[table'[u]] = u
  <2> SUFFICES ASSUME NEW u \in SessionId, table'[u] # None PROVE id'[table'[u]] = u
    OBVIOUS
  <2>1. CASE u = t
    BY <1>1, <2>1 DEF IInv, TypeOK
  <2>2. CASE u # t
    <3>1. table'[u] = table[u] /\ table[u] \in Client /\ id[table[u]] = u
      BY <1>1, <2>2 DEF IInv, TypeOK, Identified
    <3>2. table[u] # c
      BY <1>2, <3>1 DEF Identified, Live
    <3> QED
      BY <1>1, <3>1, <3>2 DEF IInv, TypeOK
  <2> QED
    BY <2>1, <2>2
<1>5. ASSUME NEW d \in Client \ clash'
      PROVE  /\ pc'[d] \in Live =>
                  /\ table'[id'[d]] = d
                  /\ \A f \in Client \ {d} : id'[f] # id'[d]
             /\ d \in held' => pc'[d] \in Live
  <2>1. d \notin clash /\ (d = c \/ Bearers(t) # {} => d \notin Bearers(t))
    BY <1>1, <1>5
  <2>2. CASE d = c
    <3>1. Bearers(t) = {}
      BY <1>1, <1>5, <2>2
    <3>2. \A f \in Client \ {d} : id'[f] # t
      BY <1>1, <2>2, <3>1 DEF IInv, TypeOK, Bearers
    <3> QED
      BY <1>1, <1>2, <2>2, <3>2 DEF IInv, TypeOK, Live
  <2>3. CASE d # c
    <3>1. id[d] # t /\ id'[d] = id[d] /\ pc'[d] = pc[d]
      BY <1>1, <1>2, <2>1, <2>3 DEF IInv, TypeOK, Bearers
    <3>2. pc[d] \in Live => id[d] \in SessionId /\ table[id[d]] = d
      BY <2>1 DEF IInv, TypeOK, Identified
    <3>3. \A f \in Client \ {d} : pc[d] \in Live => id'[f] # id[d]
      BY <1>1, <2>1, <3>1 DEF IInv, TypeOK, Identified
    <3> QED
      BY <1>1, <1>2, <2>1, <3>1, <3>2, <3>3 DEF IInv, TypeOK, Identified
  <2> QED
    BY <2>2, <2>3
<1> QED
  BY <1>3, <1>4, <1>5 DEF Identified

\* A connection removes its own entry if it had its id alone, and nobody else's
\* who had.
LEMMA RemoveIdentified ==
  ASSUME IInv, Identified, NEW c \in Client, Remove(c)
  PROVE  Identified'
<1>1. /\ id[c] \in SessionId
      /\ held' = held \ {table[id[c]]}
      /\ table' = [table EXCEPT ![id[c]] = None]
      /\ id' = [id EXCEPT ![c] = None]
      /\ pc' = [pc EXCEPT ![c] = "close"]
      /\ clash' = clash
  BY DEF IInv, TypeOK, Identified, Live, Remove, Forget
<1>2. \A d \in Client : pc'[d] \in Live <=> id'[d] # None
  BY <1>1 DEF IInv, TypeOK, Identified, Live
<1>3. \A t \in SessionId : table'[t] # None => id'[table'[t]] = t
  <2> SUFFICES ASSUME NEW t \in SessionId, table'[t] # None PROVE id'[table'[t]] = t
    OBVIOUS
  <2>1. t # id[c] /\ table'[t] = table[t] /\ table[t] \in Client /\ id[table[t]] = t
    BY <1>1 DEF IInv, TypeOK, Identified
  <2> QED
    BY <1>1, <2>1 DEF IInv, TypeOK
<1>4. ASSUME NEW d \in Client \ clash'
      PROVE  /\ pc'[d] \in Live =>
                  /\ table'[id'[d]] = d
                  /\ \A f \in Client \ {d} : id'[f] # id'[d]
             /\ d \in held' => pc'[d] \in Live
  <2>1. d \in Client \ clash
    BY <1>1, <1>4
  <2>2. CASE d = c
    <3>1. table[id[c]] = c /\ pc'[c] \notin Live
      BY <1>1, <2>1, <2>2 DEF IInv, TypeOK, Identified, Live
    <3> QED
      BY <1>1, <2>2, <3>1
  <2>3. CASE d # c
    <3>1. id'[d] = id[d] /\ pc'[d] = pc[d]
      BY <1>1, <2>3 DEF IInv, TypeOK
    <3>2. pc[d] \in Live => /\ id[d] \in SessionId /\ id[d] # id[c]
                            /\ table[id[d]] = d
      BY <2>1, <2>3 DEF IInv, TypeOK, Identified
    <3>3. \A f \in Client \ {d} : pc[d] \in Live => id'[f] # id[d]
      BY <1>1, <2>1, <3>2 DEF IInv, TypeOK, Identified
    <3> QED
      BY <1>1, <2>1, <3>1, <3>2, <3>3 DEF IInv, TypeOK, Identified
  <2> QED
    BY <2>2, <2>3
<1> QED
  BY <1>2, <1>3, <1>4 DEF Identified

\* No other step moves a connection into or out of Live.
LEMMA OtherIdentified ==
  ASSUME IInv, Identified,
         UNCHANGED <<id, table, clash>>,
         \A c \in Client : pc[c] \in Live <=> pc'[c] \in Live,
         \A c \in Client : c \in held' => c \in held \/ pc[c] \in Live
  PROVE  Identified'
  BY DEF IInv, TypeOK, Identified

\* Every step keeps it, whatever ids the clock yields.
LEMMA NextIdentified ==
  ASSUME IInv, Identified, [Next]_vars
  PROVE  Identified'
<1>1. ASSUME NEW c \in Client,
             \/ Accept(c) \/ Register(c) \/ Spawn(c) \/ Unregister(c)
             \/ Done(c) \/ Command(c) \/ Leave(c) \/ Reply(c)
      PROVE  Identified'
  BY <1>1, OtherIdentified DEF IInv, TypeOK, Live, Accept, Register, Spawn,
     Unregister, Done, Command, Leave, Reply
<1>2. ASSUME NEW c \in Client,
             ReadHello(c) \/ UseDB(c) \/ GetCredential(c) \/ Finalize(c)
      PROVE  Identified'
  BY <1>2, OtherIdentified DEF IInv, TypeOK, Live, ReadHello, UseDB, GetCredential,
     Finalize
<1>3. CASE \/ Start \/ SetStopping \/ Stop \/ LoopEnds \/ ServeReturns \/ Exit
           \/ UNCHANGED vars
           \/ \E r \in Request : WebRequest(r) \/ WebReply(r)
  BY <1>3, OtherIdentified DEF Start, SetStopping, Stop, CloseListeners,
     ShutdownReturns, CloseConns, WaitReturns, CloseStore, LoopEnds,
     ServeReturns, WebRequest, WebReply, Exit, vars
<1>4. ASSUME NEW c \in Client, OpenSession(c) \/ Remove(c) PROVE Identified'
  BY <1>4, OpenIdentified, RemoveIdentified
<1> QED
  BY <1>1, <1>2, <1>3, <1>4 DEF Next, AcceptLoop, Serve, Talk, Cut

\* Hence it holds throughout.
LEMMA Identification == Spec => []Identified
<1>1. Init => Identified
  BY DEF Init, Identified, Live
<1>2. IInv /\ Identified /\ [Next]_vars => Identified'
  BY NextIdentified
<1> QED
  BY <1>1, <1>2, Invariance, PTL DEF Spec

\* Whatever ids the clock yields and whoever clashes: a connection that had its
\* id for itself leaves neither an entry in the session table nor a pinned
\* connection of the pool when it has ended.
THEOREM SessionsAreCleanedUp == Spec => []CleanedUp
<1>1. ASSUME IInv, Identified, NEW c \in Over \ clash PROVE LeavesNothing(c)
  <2>1. c \in Client \ clash /\ pc[c] \notin Live
    BY <1>1 DEF Over, Live
  <2>2. id[c] = None /\ c \notin held
    BY <1>1, <2>1 DEF Identified
  <2>3. \A t \in SessionId : table[t] # c
    BY <1>1, <2>1, <2>2 DEF Identified
  <2> QED
    BY <2>2, <2>3 DEF LeavesNothing
<1>2. IInv /\ Identified => CleanedUp
  BY <1>1 DEF CleanedUp
<1> QED
  BY <1>2, Identification, Invariance, PTL

\* No connection clashes if the clock never shows one value to two of them at
\* the same time.
LEMMA NoClash == Spec => []Apart
<1>1. Init => Apart
  BY DEF Init, Apart
<1>2. ASSUME Apart, [Next]_vars PROVE Apart'
  <2>1. CASE \E c \in Client : OpenSession(c)
    BY <1>2, <2>1 DEF Apart, OpenSession
  <2>2. CASE ~\E c \in Client : OpenSession(c)
    <3>1. clash' = clash
      BY <1>2, <2>2 DEF Next, AcceptLoop, Serve, Talk, Cut, Accept, Register, Spawn,
         Unregister, Done, Command, Leave, Reply, ReadHello, UseDB, GetCredential,
         Finalize, Remove, Start, SetStopping, Stop, CloseListeners,
         ShutdownReturns, CloseConns, WaitReturns, CloseStore, LoopEnds,
         ServeReturns, WebRequest, WebReply, Exit, vars
    <3> QED
      BY <1>2, <3>1 DEF Apart
  <2> QED
    BY <2>1, <2>2
<1> QED
  BY <1>1, <1>2, PTL DEF Spec
-----------------------------------------------------------------------------
(***************************************************************************)
(* The service                                                             *)
(***************************************************************************)
Down == stop \in {"release", "stopped"} /\ "conns" \notin gaveUp

\* Commands are run for bound connections only.
Admitted == \A c \in Client : pc[c] \in {"ready", "command"} => bound[c] # None

\* What the refinement rests on.
RInv == IInv /\ Identified /\ Admitted /\ clash = {}

\* No connection has ended yet, and nobody is served.
LEMMA InitRefines == Init => S!Init
<1>1. Init => Over = {}
  BY DEF Init, Over
<1> QED
  BY <1>1 DEF Init, S!Init

\* A binding becomes final for a tenant, and is forgotten with the connection.
LEMMA NextAdmitted ==
  ASSUME IInv, Admitted, [Next]_vars
  PROVE  Admitted'
<1>1. ASSUME NEW c \in Client,
             \/ Accept(c) \/ Register(c) \/ Spawn(c) \/ OpenSession(c) \/ ReadHello(c)
             \/ UseDB(c) \/ Unregister(c) \/ Done(c) \/ Command(c) \/ Leave(c)
             \/ Reply(c)
      PROVE  Admitted'
  BY <1>1 DEF IInv, TypeOK, Admitted, Accept, Register, Spawn, OpenSession, ReadHello,
     UseDB, Unregister, Done, Command, Leave, Reply
<1>2. ASSUME NEW c \in Client, GetCredential(c) PROVE Admitted'
  <2>1. bound' = bound /\ pc' \in {pc, [pc EXCEPT ![c] = "remove"]}
    BY <1>2 DEF GetCredential
  <2> QED
    BY <2>1 DEF IInv, TypeOK, Admitted
<1>3. ASSUME NEW c \in Client, Finalize(c) PROVE Admitted'
  <2>1. hello[c] \in Hello
    BY <1>3 DEF IInv, Binding, Heard, Finalize
  <2>2. hello[c].user # None
    BY <2>1 DEF Hello
  <2> QED
    BY <1>3, <2>2 DEF IInv, TypeOK, Admitted, Finalize
<1>4. ASSUME NEW c \in Client, Remove(c) PROVE Admitted'
  BY <1>4 DEF IInv, TypeOK, Admitted, Remove, Forget
<1>5. CASE \/ Start \/ SetStopping \/ Stop \/ LoopEnds \/ ServeReturns \/ Exit
           \/ UNCHANGED vars
           \/ \E r \in Request : WebRequest(r) \/ WebReply(r)
  <2>1. UNCHANGED <<pc, bound>>
    BY <1>5 DEF Start, SetStopping, Stop, CloseListeners,
     ShutdownReturns, CloseConns, WaitReturns, CloseStore, LoopEnds,
     ServeReturns, WebRequest, WebReply, Exit, vars
  <2> QED
    BY <2>1 DEF Admitted
<1> QED
  BY <1>1, <1>2, <1>3, <1>4, <1>5 DEF Next, AcceptLoop, Serve, Talk, Cut

\* Once an orderly stop is through, no connection has a step left.
LEMMA DownIsFinal ==
  ASSUME IInv, Down, NEW c \in Client
  PROVE  ~(Accept(c) \/ Register(c) \/ Spawn(c) \/ Serve(c) \/ Talk(c))
<1>1. pc[c] \in {"off", "gone"}
  BY DEF IInv, OrderlyStop, Down
<1>2. ~Listening
  BY DEF Down, Listening
<1> QED
  BY <1>1, <1>2 DEF Accept, Register, Spawn, Serve, Talk, Cut, OpenSession, UseDB,
     GetCredential, Finalize, Remove, Unregister, Done, ReadHello, Command, Reply, Leave

\* Steps of a connection that its client does not see.
LEMMA ConnectionStutters ==
  ASSUME RInv, NEW c \in Client,
         \/ Accept(c) \/ Spawn(c) \/ OpenSession(c) \/ ReadHello(c) \/ UseDB(c)
         \/ GetCredential(c) \/ Command(c) \/ Leave(c) \/ Unregister(c) \/ Done(c)
  PROVE  UNCHANGED <<bound, held, Over, Down>>
<1>1. UNCHANGED <<bound, held, stop, gaveUp>>
  BY DEF Accept, Spawn, OpenSession, ReadHello, UseDB, GetCredential, Command, Leave,
         Unregister, Done
<1>2. \E place : /\ pc' = [pc EXCEPT ![c] = place] \/ pc' = pc
                 /\ pc[c] \in {"close", "done", "gone"}
                      <=> place \in {"close", "done", "gone"}
  <2>1. GetCredential(c) => pc[c] = "auth" /\ pc' \in {pc, [pc EXCEPT ![c] = "remove"]}
    BY DEF GetCredential
  <2>2. CASE GetCredential(c)
    BY <2>1, <2>2
  <2>3. CASE Unregister(c)
    BY <2>3 DEF Unregister
  <2>4. CASE Done(c)
    BY <2>4 DEF Done
  <2>5. CASE Accept(c) \/ Spawn(c) \/ OpenSession(c) \/ ReadHello(c)
    BY <2>5 DEF Accept, Spawn, OpenSession, ReadHello
  <2>6. CASE UseDB(c) \/ Command(c) \/ Leave(c)
    BY <2>6 DEF UseDB, Command, Leave
  <2> QED
    BY <2>2, <2>3, <2>4, <2>5, <2>6
<1>3. Over' = Over
  BY <1>2 DEF RInv, IInv, TypeOK, Over
<1> QED
  BY <1>1, <1>3 DEF Down

\* Every step of the proxy is one of the service, or none.
LEMMA StepRefines ==
  ASSUME RInv, [Next]_vars
  PROVE  [S!Next]_(S!vars)
<1>1. SUFFICES ASSUME ~UNCHANGED <<bound, held, Over, Down>>
               PROVE  S!Next
  BY DEF S!vars, Down
<1>2. ASSUME NEW c \in Client, Register(c) PROVE S!End(c)
  <2>1. /\ UNCHANGED <<bound, held, stop, gaveUp>>
        /\ pc[c] = "accepted" /\ bound[c] = None /\ c \notin held
    BY <1>2 DEF RInv, IInv, Identified, Live, Binding, Register
  <2>2. CASE Stopping
    <3>1. pc' = [pc EXCEPT ![c] = "gone"]
      BY <1>2, <2>2 DEF Register
    <3>2. Over' = Over \cup {c} /\ c \notin Over
      BY <2>1, <3>1 DEF RInv, IInv, TypeOK, Over
    <3>3. ~Down
      BY <1>2, DownIsFinal DEF RInv
    <3>4. bound' = [bound EXCEPT ![c] = None] /\ held' = held \ {c}
      BY <2>1 DEF RInv, IInv, TypeOK
    <3> QED
      BY <2>1, <3>2, <3>3, <3>4 DEF S!End, Down
  <2>3. CASE ~Stopping
    <3>1. pc' = [pc EXCEPT ![c] = "registered"]
      BY <1>2, <2>3 DEF Register
    <3>2. Over' = Over
      BY <2>1, <3>1 DEF RInv, IInv, TypeOK, Over
    <3> QED
      BY <1>1, <2>1, <3>2 DEF Down
  <2> QED
    BY <2>2, <2>3
<1>3. ASSUME NEW c \in Client, Finalize(c) PROVE \E t \in Tenant : S!Admit(c, t)
  <2>1. hello[c] \in Hello /\ pc[c] = "auth" /\ bound[c] = None
    BY <1>3 DEF RInv, IInv, Binding, Heard, Finalize
  <2>2. UNCHANGED <<held, stop, gaveUp>>
    BY <1>3 DEF Finalize
  <2>3. Over' = Over /\ c \notin Over
    BY <1>3, <2>1 DEF RInv, IInv, TypeOK, Over, Finalize
  <2>4. ~Down
    BY <1>3, DownIsFinal DEF RInv, Serve
  <2>5. PICK t \in Tenant : bound' = [bound EXCEPT ![c] = t]
    <3>1. hello[c].user \in Tenant
      BY <2>1 DEF Hello
    <3> QED
      BY <1>1, <1>3, <2>2, <2>3, <3>1 DEF Finalize, Down
  <2> QED
    BY <2>1, <2>2, <2>3, <2>4, <2>5 DEF S!Admit, Down
<1>4. ASSUME NEW c \in Client, Reply(c) PROVE S!Hold(c)
  <2>1. UNCHANGED <<bound, stop, gaveUp>> /\ pc[c] = "command" /\ held' \in {held, held \cup {c}}
    BY <1>4 DEF Reply
  <2>2. Over' = Over
    BY <1>4 DEF RInv, IInv, TypeOK, Over, Reply
  <2>3. bound[c] # None
    BY <2>1 DEF RInv, Admitted
  <2> QED
    BY <1>1, <2>1, <2>2, <2>3 DEF S!Hold, Down
<1>5. ASSUME NEW c \in Client, Remove(c) PROVE S!End(c)
  <2>1. /\ held' = held \ {c} /\ UNCHANGED <<stop, gaveUp>>
        /\ bound' = [bound EXCEPT ![c] = None]
        /\ pc[c] = "remove" /\ pc' = [pc EXCEPT ![c] = "close"]
    BY <1>5 DEF RInv, Identified, Live, Remove, Forget
  <2>2. Over' = Over \cup {c} /\ c \notin Over
    BY <2>1 DEF RInv, IInv, TypeOK, Over
  <2>3. ~Down
    BY <1>5, DownIsFinal DEF RInv, Serve
  <2> QED
    BY <2>1, <2>2, <2>3 DEF S!End, Down
<1>6. ASSUME WaitReturns PROVE S!GoDown
  <2>1. UNCHANGED <<bound, held, pc>> /\ stop = "waiting" /\ stop' = "release"
    BY <1>6 DEF WaitReturns
  <2>2. Over' = Over /\ ~Down
    BY <2>1 DEF Over, Down
  <2>3. Down'
    BY <1>1, <2>1, <2>2 DEF Down
  <2>4. wg = {}
    BY <1>6, <2>3 DEF WaitReturns, Down
  <2>5. \A c \in Client : pc[c] \in {"off", "gone"}
    <3>1. \A c \in Client : pc[c] \notin {"accepted", "registered"} \cup Running
      BY <2>4 DEF RInv, IInv, Counted
    <3> QED
      BY <3>1 DEF RInv, IInv, TypeOK, Place, Running
  <2>6. held = {} /\ \A c \in Client : bound[c] = None
    BY <2>5 DEF RInv, IInv, TypeOK, Binding, Identified, Live
  <2> QED
    BY <2>1, <2>2, <2>3, <2>6 DEF S!GoDown, Down
<1>7. CASE \/ Start \/ SetStopping \/ CloseListeners \/ ShutdownReturns \/ CloseConns
           \/ CloseStore \/ LoopEnds \/ ServeReturns \/ Exit \/ UNCHANGED vars
           \/ \E r \in Request : WebRequest(r) \/ WebReply(r)
  <2>1. UNCHANGED <<bound, held, pc>>
    BY <1>7 DEF Start, SetStopping, CloseListeners, ShutdownReturns, CloseConns,
       CloseStore, LoopEnds, ServeReturns, WebRequest, WebReply, Exit, vars
  <2>2. Down' = Down
    BY <1>7 DEF Down, Start, SetStopping, CloseListeners, ShutdownReturns, CloseConns,
       CloseStore, LoopEnds, ServeReturns, WebRequest, WebReply, Exit, vars
  <2> QED
    BY <1>1, <2>1, <2>2 DEF Over
<1>8. ASSUME NEW c \in Client,
             \/ Accept(c) \/ Spawn(c) \/ OpenSession(c) \/ ReadHello(c) \/ UseDB(c)
             \/ GetCredential(c) \/ Command(c) \/ Leave(c) \/ Unregister(c) \/ Done(c)
      PROVE  FALSE
  BY <1>1, <1>8, ConnectionStutters
<1> QED
  <2>1. CASE \E c \in Client : Register(c) \/ Finalize(c) \/ Reply(c) \/ Remove(c)
    BY <1>2, <1>3, <1>4, <1>5, <2>1 DEF S!Next
  <2>2. CASE WaitReturns
    BY <1>6, <2>2 DEF S!Next
  <2> QED
    BY <1>7, <1>8, <2>1, <2>2 DEF Next, Stop, AcceptLoop, Serve, Talk, Cut

\* The proxy provides the service: one tenant for each connection, its own pool
\* connection, and nothing of it left when it has ended or the proxy has stopped.
THEOREM ProxyImplementsService == UniqueIds => (Spec => Serves)
<1> SUFFICES ASSUME UniqueIds PROVE Spec => Serves
  OBVIOUS
<1>1. Init => Admitted
  BY DEF Init, Admitted
<1>2. IInv /\ Admitted /\ [Next]_vars => Admitted'
  BY NextAdmitted
<1>3. Spec => []Admitted
  BY <1>1, <1>2, Invariance, PTL DEF Spec
<1>4. IInv /\ Identified /\ Apart /\ Admitted /\ [Next]_vars => [S!Next]_(S!vars)
  BY StepRefines DEF RInv, Apart
<1> QED
  BY <1>3, <1>4, InitRefines, NoClash, Invariance, Identification, PTL DEF Spec, Serves, S!Spec
=============================================================================
