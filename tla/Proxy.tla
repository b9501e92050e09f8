-------------------------------- MODULE Proxy --------------------------------
(***************************************************************************)
(* proxy.go with the handshake of server/auth.go and the session table of  *)
(* server/session.go: the accept loop, one goroutine per MySQL connection, *)
(* the management HTTP server, and Stop, which shuts all of them down      *)
(* while they run.                                                         *)
(*                                                                         *)
(* A tenant stands for its database and for its username: storage keeps    *)
(* the two one-to-one (see Store).  Everything a session does after its    *)
(* handshake is one command that may pin a pool connection (see Sessions). *)
(* Each critical section of connMu and of the session table is one step.   *)
(* One of them waits: SessionManager.Remove closes the Session under the   *)
(* table's lock, and that waits for a command on its connection, which can *)
(* only be another connection's, one of the same id (see Remove).  Time    *)
(* limits may expire whenever they run.                                    *)
(*                                                                         *)
(* External: go-mysql calls UseDB and GetCredential once each during the   *)
(* handshake, in an order that auth.go does not rely on.                   *)
(***************************************************************************)
CONSTANTS Client,     \* TCP connections to the MySQL port
          Request,    \* requests to the management API
          Tenant,     \* databases, and their usernames
          SessionId,  \* what time.Now().UnixNano() may return
          UniqueIds,  \* no two connections have one id at the same time
          None

ASSUME ProxyAssumption ==
    /\ UniqueIds \in BOOLEAN
    /\ None \notin Client \cup Tenant \cup SessionId
    /\ Client \cap {"accept", "http"} = {}

VARIABLES
    stop,       \* how far Start and Stop are
    gaveUp,     \* the waits of Stop that ended by their time limit
    wg,         \* p.wg, as the set of goroutines it counts
    conns,      \* p.conns
    shut,       \* connections whose socket this side has closed
    pc,         \* where each connection is
    hello,      \* what the client sent in its handshake response, or None
    todo,       \* the calls go-mysql still has to make for it
    requested,  \* binding.requestedDB
    candidate,  \* binding.candidate
    bound,      \* binding.database, that is h.db and Session.BoundDB
    id,         \* the sessionID of each connection, or None
    table,      \* SessionManager.sessions: id -> whose Session
    held,       \* connections whose Session has a pinned pool connection
    clash,      \* history: connections that had another one's id beside it
    web,        \* management requests being served
    served      \* tenants in the maps of the store

binding == <<hello, todo, requested, candidate, bound>>
sessions == <<id, table, held, clash>>
http == <<web, served>>
vars == <<stop, gaveUp, wg, conns, shut, pc, binding, sessions, http>>

Hello == [user : Tenant, db : Tenant \cup {None}, knowsPassword : BOOLEAN]
Phase == {"new", "running", "stopping", "shutdown", "closing", "waiting",
          "release", "stopped"}
Place == {"off", "accepted", "registered", "open", "hello", "auth", "ready",
          "command", "remove", "close", "done", "gone"}

Listening == stop \in {"running", "stopping"}
Stopping == stop \notin {"new", "running"}
StoreOpen == stop # "stopped"

Init ==
    /\ stop = "new"
    /\ gaveUp = {}
    /\ wg = {}
    /\ conns = {}
    /\ shut = {}
    /\ pc = [c \in Client |-> "off"]
    /\ hello = [c \in Client |-> None]
    /\ todo = [c \in Client |-> {}]
    /\ requested = [c \in Client |-> None]
    /\ candidate = [c \in Client |-> None]
    /\ bound = [c \in Client |-> None]
    /\ id = [c \in Client |-> None]
    /\ table = [t \in SessionId |-> None]
    /\ held = {}
    /\ clash = {}
    /\ web = {}
    /\ served \in SUBSET Tenant
-----------------------------------------------------------------------------
At(c, place) == pc[c] = place
Goto(c, place) == pc' = [pc EXCEPT ![c] = place]

\* Start, both listeners bound: two goroutines, both counted.
Start ==
    /\ stop = "new"
    /\ stop' = "running"
    /\ wg' = {"accept", "http"}
    /\ UNCHANGED <<gaveUp, conns, shut, pc, binding, sessions, http>>
-----------------------------------------------------------------------------
(***************************************************************************)
(* The accept loop: one connection at a time                               *)
(***************************************************************************)
LoopFree ==
    /\ "accept" \in wg
    /\ \A c \in Client : pc[c] \notin {"accepted", "registered"}

\* A connection that waits in the kernel's backlog is one not made yet.
Accept(c) ==
    /\ At(c, "off")
    /\ Listening
    /\ LoopFree
    /\ Goto(c, "accepted")
    /\ UNCHANGED <<stop, gaveUp, wg, conns, shut, binding, sessions, http>>

RegisterUnchecked(c) ==             \* fault: p.stopping is not looked at
    /\ At(c, "accepted")
    /\ conns' = conns \cup {c}
    /\ Goto(c, "registered")
    /\ UNCHANGED <<stop, gaveUp, wg, shut, binding, sessions, http>>

\* Under connMu: refused once Stop has set p.stopping, else registered.
Register(c) ==
    /\ At(c, "accepted")
    /\ IF Stopping
         THEN /\ shut' = shut \cup {c}
              /\ Goto(c, "gone")
              /\ UNCHANGED conns
         ELSE /\ conns' = conns \cup {c}
              /\ Goto(c, "registered")
              /\ UNCHANGED shut
    /\ UNCHANGED <<stop, gaveUp, wg, binding, sessions, http>>

SpawnUncounted(c) ==                \* fault: wg.Add is left out
    /\ At(c, "registered")
    /\ Goto(c, "open")
    /\ UNCHANGED <<stop, gaveUp, wg, conns, shut, binding, sessions, http>>

\* p.wg.Add(1) and the go statement.
Spawn(c) ==
    /\ At(c, "registered")
    /\ wg' = wg \cup {c}
    /\ Goto(c, "open")
    /\ UNCHANGED <<stop, gaveUp, conns, shut, binding, sessions, http>>

\* Accept fails: the context was cancelled before the listener was closed.
LoopEnds ==
    /\ ~Listening
    /\ LoopFree
    /\ wg' = wg \ {"accept"}
    /\ UNCHANGED <<stop, gaveUp, conns, shut, pc, binding, sessions, http>>
-----------------------------------------------------------------------------
(***************************************************************************)
(* handleConnection                                                        *)
(***************************************************************************)
Bearers(t) == {d \in Client : id[d] = t}

\* The id is what the wall clock shows, which another connection may have read
\* as well; SessionManager.Create overwrites what the table has for it.
OpenSession(c) ==
    /\ At(c, "open")
    /\ \E t \in SessionId :
         /\ UniqueIds => Bearers(t) = {}
         /\ id' = [id EXCEPT ![c] = t]
         /\ table' = [table EXCEPT ![t] = c]
         /\ clash' = IF Bearers(t) = {} THEN clash ELSE clash \cup Bearers(t) \cup {c}
    /\ Goto(c, "hello")
    /\ UNCHANGED <<stop, gaveUp, wg, conns, shut, binding, held, http>>

\* The client's handshake response: username, password, optional database.
ReadHello(c) ==
    /\ At(c, "hello")
    /\ c \notin shut
    /\ \E h \in Hello :
         /\ hello' = [hello EXCEPT ![c] = h]
         /\ todo' = [todo EXCEPT ![c] =
              IF h.db = None THEN {"GetCredential"} ELSE {"UseDB", "GetCredential"}]
    /\ Goto(c, "auth")
    /\ UNCHANGED <<stop, gaveUp, wg, conns, shut, requested, candidate, bound,
                   sessions, http>>

UseDBRaw(c) ==                      \* fault: the response is noted, not the name in it
    /\ At(c, "auth")
    /\ "UseDB" \in todo[c]
    /\ requested' = [requested EXCEPT ![c] = hello[c]]
    /\ todo' = [todo EXCEPT ![c] = @ \ {"UseDB"}]
    /\ UNCHANGED <<stop, gaveUp, wg, conns, shut, pc, hello, candidate, bound,
                   sessions, http>>

\* UseDB before the binding is final: SetRequestedDB only takes a note.
UseDB(c) ==
    /\ At(c, "auth")
    /\ "UseDB" \in todo[c]
    /\ requested' = [requested EXCEPT ![c] = hello[c].db]
    /\ todo' = [todo EXCEPT ![c] = @ \ {"UseDB"}]
    /\ UNCHANGED <<stop, gaveUp, wg, conns, shut, pc, hello, candidate, bound,
                   sessions, http>>

Suits(c, t) == requested[c] \in {None, t}

\* GetCredential, then go-mysql's check of the password.
GetCredential(c) ==
    LET t == hello[c].user IN
    /\ At(c, "auth")
    /\ "GetCredential" \in todo[c]
    /\ IF StoreOpen /\ t \in served /\ Suits(c, t)
         THEN /\ candidate' = [candidate EXCEPT ![c] = t]
              /\ IF hello[c].knowsPassword THEN UNCHANGED pc ELSE Goto(c, "remove")
         ELSE Goto(c, "remove") /\ UNCHANGED candidate
    /\ todo' = [todo EXCEPT ![c] = @ \ {"GetCredential"}]
    /\ UNCHANGED <<stop, gaveUp, wg, conns, shut, hello, requested, bound,
                   sessions, http>>

FinalizeCandidate(c) ==             \* fault: requestedDB is not looked at again
    /\ At(c, "auth")
    /\ todo[c] = {}
    /\ bound' = [bound EXCEPT ![c] = candidate[c]]
    /\ Goto(c, "ready")
    /\ UNCHANGED <<stop, gaveUp, wg, conns, shut, hello, todo, requested,
                   candidate, sessions, http>>

\* SessionHandler.Finalize: ConnectionBinding.Finalize and Session.Bind.
Finalize(c) ==
    /\ At(c, "auth")
    /\ todo[c] = {}
    /\ IF candidate[c] = hello[c].user /\ Suits(c, candidate[c])
         THEN bound' = [bound EXCEPT ![c] = candidate[c]] /\ Goto(c, "ready")
         ELSE Goto(c, "remove") /\ UNCHANGED bound
    /\ UNCHANGED <<stop, gaveUp, wg, conns, shut, hello, todo, requested,
                   candidate, sessions, http>>

ChangeUser(c) ==                    \* fault: a command starts another handshake
    /\ At(c, "ready")
    /\ c \notin shut
    /\ \E h \in Hello : hello' = [hello EXCEPT ![c] = h]
    /\ todo' = [todo EXCEPT ![c] = {"UseDB", "GetCredential"}]
    /\ requested' = [requested EXCEPT ![c] = None]
    /\ candidate' = [candidate EXCEPT ![c] = None]
    /\ bound' = [bound EXCEPT ![c] = None]
    /\ Goto(c, "auth")
    /\ UNCHANGED <<stop, gaveUp, wg, conns, shut, sessions, http>>

Command(c) ==
    /\ At(c, "ready")
    /\ c \notin shut
    /\ Goto(c, "command")
    /\ UNCHANGED <<stop, gaveUp, wg, conns, shut, binding, sessions, http>>

\* A command ends, if ever, having pinned a connection or not.
Reply(c) ==
    /\ At(c, "command")
    /\ held' \in {held, held \cup {c}}
    /\ Goto(c, "ready")
    /\ UNCHANGED <<stop, gaveUp, wg, conns, shut, binding, id, table, clash, http>>

\* The client goes away, or sends what go-mysql refuses.
Leave(c) ==
    /\ pc[c] \in {"hello", "auth", "ready"}
    /\ Goto(c, "remove")
    /\ UNCHANGED <<stop, gaveUp, wg, conns, shut, binding, sessions, http>>

\* A read or write on the socket that Stop has closed.
Cut(c) ==
    /\ c \in shut
    /\ Leave(c)

\* The local variables of handleConnection are gone.
Forget(c) ==
    /\ hello' = [hello EXCEPT ![c] = None]
    /\ todo' = [todo EXCEPT ![c] = {}]
    /\ requested' = [requested EXCEPT ![c] = None]
    /\ candidate' = [candidate EXCEPT ![c] = None]
    /\ bound' = [bound EXCEPT ![c] = None]
    /\ id' = [id EXCEPT ![c] = None]

RemoveEntry(c) ==                   \* fault: the entry goes, the Session stays open
    /\ At(c, "remove")
    /\ table' = [table EXCEPT ![id[c]] = None]
    /\ Forget(c)
    /\ Goto(c, "close")
    /\ UNCHANGED <<stop, gaveUp, wg, conns, shut, held, clash, http>>

\* SessionManager.Remove closes the Session that the table has for this id, and
\* waits for a command that runs on its pinned connection: another one's, since
\* this connection's own are over.  (Others that want the table wait with it,
\* which takes nothing from what they may do before.)
Remove(c) ==
    LET s == table[id[c]] IN
    /\ At(c, "remove")
    /\ s \in held => ~At(s, "command")
    /\ held' = held \ {s}
    /\ table' = [table EXCEPT ![id[c]] = None]
    /\ Forget(c)
    /\ Goto(c, "close")
    /\ UNCHANGED <<stop, gaveUp, wg, conns, shut, clash, http>>

\* conn.Close(), and the deferred delete from p.conns.
Unregister(c) ==
    /\ At(c, "close")
    /\ shut' = shut \cup {c}
    /\ conns' = conns \ {c}
    /\ Goto(c, "done")
    /\ UNCHANGED <<stop, gaveUp, wg, binding, sessions, http>>

Done(c) ==
    /\ At(c, "done")
    /\ wg' = wg \ {c}
    /\ Goto(c, "gone")
    /\ UNCHANGED <<stop, gaveUp, conns, shut, binding, sessions, http>>
-----------------------------------------------------------------------------
(***************************************************************************)
(* The management server                                                   *)
(***************************************************************************)
WebRequest(r) ==
    /\ Listening
    /\ r \notin web
    /\ web' = web \cup {r}
    /\ UNCHANGED <<stop, gaveUp, wg, conns, shut, pc, binding, sessions, served>>

\* A handler returns, if ever; it may have provisioned a tenant.
WebReply(r) ==
    /\ r \in web
    /\ web' = web \ {r}
    /\ \/ UNCHANGED served
       \/ StoreOpen /\ \E t \in Tenant : served' = served \cup {t}
    /\ UNCHANGED <<stop, gaveUp, wg, conns, shut, pc, binding, sessions>>

\* Serve returns as soon as Shutdown has begun, whatever is being served.
ServeReturns ==
    /\ stop \notin {"new", "running", "stopping"}
    /\ "http" \in wg
    /\ wg' = wg \ {"http"}
    /\ UNCHANGED <<stop, gaveUp, conns, shut, pc, binding, sessions, http>>
-----------------------------------------------------------------------------
(***************************************************************************)
(* Stop                                                                    *)
(***************************************************************************)
StopGoes(from, to) == stop = from /\ stop' = to

SetStopping ==
    /\ StopGoes("running", "stopping")
    /\ UNCHANGED <<gaveUp, wg, conns, shut, pc, binding, sessions, http>>

\* p.cancel(), p.listener.Close(), and Shutdown closes the other listener.
CloseListeners ==
    /\ StopGoes("stopping", "shutdown")
    /\ UNCHANGED <<gaveUp, wg, conns, shut, pc, binding, sessions, http>>

\* httpServer.Shutdown returns: no request is left, or 5 s are over.
ShutdownReturns ==
    /\ StopGoes("shutdown", "closing")
    /\ gaveUp' = IF web = {} THEN gaveUp ELSE gaveUp \cup {"http"}
    /\ UNCHANGED <<wg, conns, shut, pc, binding, sessions, http>>

CloseNothing ==                     \* fault: the connections are not closed
    /\ StopGoes("closing", "waiting")
    /\ UNCHANGED <<gaveUp, wg, conns, shut, pc, binding, sessions, http>>

CloseConns ==
    /\ StopGoes("closing", "waiting")
    /\ shut' = shut \cup conns
    /\ UNCHANGED <<gaveUp, wg, conns, pc, binding, sessions, http>>

WaitUnlimited ==                    \* fault: wg.Wait() without the time limit
    /\ StopGoes("waiting", "release")
    /\ wg = {}
    /\ UNCHANGED <<gaveUp, wg, conns, shut, pc, binding, sessions, http>>

\* wg.Wait() returns, or 10 s are over.
WaitReturns ==
    /\ StopGoes("waiting", "release")
    /\ gaveUp' = IF wg = {} THEN gaveUp ELSE gaveUp \cup {"conns"}
    /\ UNCHANGED <<wg, conns, shut, pc, binding, sessions, http>>

CloseStore ==
    /\ StopGoes("release", "stopped")
    /\ served' = {}
    /\ UNCHANGED <<gaveUp, wg, conns, shut, pc, binding, sessions, web>>

\* Nothing is left to do for the process.
Exit ==
    /\ stop = "stopped"
    /\ UNCHANGED vars
-----------------------------------------------------------------------------
AcceptLoop == LoopEnds \/ \E c \in Client : Accept(c) \/ Register(c) \/ Spawn(c)

\* What the goroutine of a connection does on its own.
Serve(c) ==
    \/ OpenSession(c) \/ UseDB(c) \/ GetCredential(c) \/ Finalize(c) \/ Cut(c)
    \/ Remove(c) \/ Unregister(c) \/ Done(c)

Talk(c) == ReadHello(c) \/ Command(c) \/ Reply(c) \/ Leave(c)

Stop ==
    \/ CloseListeners \/ ShutdownReturns \/ CloseConns
    \/ WaitReturns \/ CloseStore

Next ==
    \/ Start \/ SetStopping \/ Stop \/ Exit
    \/ AcceptLoop
    \/ \E c \in Client : Serve(c) \/ Talk(c)
    \/ ServeReturns
    \/ \E r \in Request : WebRequest(r) \/ WebReply(r)

\* Goroutines that can go on do, and time limits expire.  Clients need not
\* send or leave, and commands and management requests need not end.
Fairness ==
    /\ WF_vars(Stop) /\ WF_vars(ServeReturns) /\ WF_vars(AcceptLoop)
    /\ \A c \in Client : WF_vars(Serve(c))

Spec == Init /\ [][Next]_vars /\ Fairness
-----------------------------------------------------------------------------
TypeOK ==
    /\ stop \in Phase
    /\ gaveUp \in SUBSET {"http", "conns"}
    /\ wg \in SUBSET ({"accept", "http"} \cup Client)
    /\ conns \in SUBSET Client
    /\ shut \in SUBSET Client
    /\ pc \in [Client -> Place]
    /\ hello \in [Client -> Hello \cup {None}]
    /\ todo \in [Client -> SUBSET {"UseDB", "GetCredential"}]
    /\ requested \in [Client -> Tenant \cup {None}]
    /\ candidate \in [Client -> Tenant \cup {None}]
    /\ bound \in [Client -> Tenant \cup {None}]
    /\ id \in [Client -> SessionId \cup {None}]
    /\ table \in [SessionId -> Client \cup {None}]
    /\ held \in SUBSET Client
    /\ clash \in SUBSET Client
    /\ web \in SUBSET Request
    /\ served \in SUBSET Tenant

\* A connection is bound to the tenant it authenticated for, and to no other
\* than the database it asked for, whichever of the two came first.
BoundAsAuthenticated ==
    \A c \in Client : bound[c] # None =>
        /\ hello[c].knowsPassword
        /\ hello[c].user = bound[c]
        /\ hello[c].db \in {None, bound[c]}

Over == {c \in Client : pc[c] \in {"close", "done", "gone"}}

LeavesNothing(c) ==
    /\ c \notin held
    /\ \A t \in SessionId : table[t] # c

\* However connections come and go, those that clash included: one that has
\* ended leaves no entry in the session table and no connection pinned, unless
\* it has itself had its id beside another one.
CleanedUp == \A c \in Over \ clash : LeavesNothing(c)

\* README, "Session cleanup happens automatically on disconnect": so it does for
\* every connection.
CleanedUpOnDisconnect == \A c \in Over : LeavesNothing(c)

\* No connection slips past Stop: after its closing loop every connection in
\* the registry, accepted before or during Stop, has its socket closed.
NoneMissed == stop \in {"waiting", "release", "stopped"} => conns \subseteq shut

\* Unless Stop gave up waiting, nobody is left who would use the store that it
\* closes: no connection, and no management request.
OrderlyStop ==
    stop \in {"release", "stopped"} =>
        /\ "conns" \notin gaveUp =>
             \A c \in Client : pc[c] \in {"off", "gone"}
        /\ "http" \notin gaveUp => web = {}

\* Proxy provides the service of Service: the binding of a connection, the pool
\* connection of its Session, and Stop that has waited for all of them.
S == INSTANCE Service WITH
       tenant <- bound,
       holds  <- held,
       over   <- Over,
       down   <- stop \in {"release", "stopped"} /\ "conns" \notin gaveUp

\* Whatever the order of handshake, commands, disconnects and Stop: a binding
\* is final, a pool connection is taken and given back by the connection it was
\* pinned for alone, and an orderly stop leaves nobody served, then or later.
Serves == S!Spec

\* Stop returns, however many clients stay and however long their
\* statements run.
StopReturns == stop = "stopping" ~> stop = "stopped"

\* Once Stop waits for them, connections end, but for those whose statement
\* never does.
ConnectionsEnd ==
    \A c \in Client :
        (stop = "waiting" /\ c \in conns) ~> (c \notin conns \/ At(c, "command"))
=============================================================================
