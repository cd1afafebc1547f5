----------------------------- MODULE DaemonLoop -----------------------------
(***************************************************************************)
(* The life of a daemon (core.Daemon.requestLoop, shutdown, close) on each *)
(* of its transport servers: the accept loop of the thread server and its  *)
(* Housekeeper, the event loop of the multiplex server, and the loop on a  *)
(* connection that already exists.  One thread runs requestLoop; others    *)
(* call shutdown or close, and so may a request that the loop itself is    *)
(* serving.  Every client connects once, may stay silent, and may leave.   *)
(* sleep() orders nothing: the other threads may be slower.                *)
(***************************************************************************)
EXTENDS FiniteSets

CONSTANTS Client, Stopper, Kinds, None

Listener == "listener"      \* the server's own socket, in a set of ready ones

ASSUME NameAssumption == Listener \notin Client /\ None \notin Client \cup Stopper

VARIABLES
    kind,           \* the transport server's class: thread, multiplex, existing
    mustshutdown,   \* Daemon.__mustshutdown
    loopstopped,    \* Daemon.__loopstopped
    transport,      \* is Daemon.transportServer something else than None?
    shutting_down,  \* the server's attribute
    sock,           \* the server's socket: "open", "closed", "none"
    selectorOpen,   \* multiplex: the selector has not been closed
    housekeeper,    \* thread server: is the attribute housekeeper set?
    sweeper,        \* the Housekeeper thread: "runs", "told" (its event is set), "ended"
    poolOpen,       \* thread server: ~pool.closed
    loop,           \* the step of the thread in requestLoop
    how,            \* how requestLoop ended: "normal", "error", None: not yet
    ready,          \* multiplex: the sockets of this round of events
    hand,           \* the client that the loop has in hand
    within,         \* the caller of shutdown that is a request of the loop itself
    peer,           \* of each client: "quiet", "spoken", "gone", "spokenGone"
    fate,           \* "none", "backlog", "held", "served", "refused", "dropped"
    spc, part       \* of each stopper: its step, and the method it is in

flags == <<mustshutdown, loopstopped, transport>>
server == <<shutting_down, sock, selectorOpen, housekeeper, poolOpen>>
loopVars == <<loop, how, ready, hand>>
clients == <<peer, fate>>
stoppers == <<spc, part>>
vars == <<kind, flags, server, sweeper, loopVars, within, clients, stoppers>>

TypeOK ==
    /\ kind \in Kinds
    /\ {mustshutdown, loopstopped, transport, shutting_down} \subseteq BOOLEAN
    /\ {selectorOpen, housekeeper, poolOpen} \subseteq BOOLEAN
    /\ sock \in {"open", "closed", "none"}
    /\ sweeper \in {"runs", "told", "ended"}
    /\ loop \in {"out", "begin", "test", "assert", "wait", "accept", "process",
                 "deny", "handle", "greet", "request", "ended"}
    /\ how \in {None, "normal", "error"}
    /\ ready \subseteq Client \cup {Listener}
    /\ hand \in Client \cup {None} /\ within \in Stopper \cup {None}
    /\ peer \in [Client -> {"quiet", "spoken", "gone", "spokenGone"}]
    /\ fate \in [Client -> {"none", "backlog", "held", "served", "refused", "dropped"}]
    /\ spc \in [Stopper -> {"out", "must", "flag", "release", "join", "test", "close",
                            "unset", "must2", "find", "forget", "await",
                            "returned", "raised"}]
    /\ part \in [Stopper -> {"shutdown", "close"}]

(* init of the servers: an open socket, registered with the selector of a  *)
(* multiplex server; the thread server has a pool and a Housekeeper; on an *)
(* existing connection the one client is connected from the start.         *)
InitSocket == shutting_down = FALSE /\ sock = "open" /\ selectorOpen = TRUE

InitThreads == housekeeper = (kind = "thread") /\ sweeper = "runs" /\ poolOpen = TRUE

InitConnection ==
    IF kind = "existing"
    THEN \E d \in Client : fate = [c \in Client |-> IF c = d THEN "served" ELSE "none"]
    ELSE fate = [c \in Client |-> "none"]

(* Daemon.__init__, and nobody in requestLoop, shutdown or close. *)
Init ==
    /\ kind \in Kinds
    /\ mustshutdown = FALSE /\ loopstopped = TRUE /\ transport = TRUE
    /\ InitSocket /\ InitThreads /\ InitConnection
    /\ loop = "out" /\ how = None /\ ready = {} /\ hand = None /\ within = None
    /\ peer = [c \in Client |-> "quiet"]
    /\ spc = [s \in Stopper |-> "out"]
    /\ part = [s \in Stopper |-> "close"]

-----------------------------------------------------------------------------
(* Clients *)

Connect(c) ==
    /\ kind # "existing" /\ fate[c] = "none" /\ sock = "open"
    /\ fate' = [fate EXCEPT ![c] = "backlog"]
    /\ UNCHANGED <<kind, flags, server, sweeper, loopVars, within, peer, stoppers>>

(* What a client does once a worker of the thread server has it, or once   *)
(* it is sent away, does not reach this loop.                              *)
Heard(c) == fate[c] \in {"backlog", "held"} \/ (fate[c] = "served" /\ kind # "thread")

Speak(c) ==
    /\ Heard(c) /\ peer[c] = "quiet"
    /\ peer' = [peer EXCEPT ![c] = "spoken"]
    /\ UNCHANGED <<kind, flags, server, sweeper, loopVars, within, fate, stoppers>>

Leave(c) ==
    /\ Heard(c) /\ peer[c] \in {"quiet", "spoken"}
    /\ peer' = [peer EXCEPT ![c] = IF @ = "quiet" THEN "gone" ELSE "spokenGone"]
    /\ UNCHANGED <<kind, flags, server, sweeper, loopVars, within, fate, stoppers>>

Speaks(c) == peer[c] \in {"spoken", "spokenGone"}
AfterMessage(c) ==
    [peer EXCEPT ![c] = IF @ = "spokenGone" THEN "gone" ELSE "quiet"]

-----------------------------------------------------------------------------
(* requestLoop *)

Goto(l) == loop' = l /\ UNCHANGED how
End(h) == loop' = "ended" /\ how' = h

EnterLoop ==
    /\ loop = "out" /\ Goto("begin")
    /\ mustshutdown' = FALSE
    /\ UNCHANGED <<kind, loopstopped, transport, server, sweeper, ready, hand,
                   within, clients, stoppers>>

(* self.transportServer.loop is looked up: None has no such attribute.     *)
BeginLoop ==
    /\ loop = "begin"
    /\ loopstopped' = ~transport
    /\ IF transport THEN Goto("test") ELSE End("error")
    /\ UNCHANGED <<kind, mustshutdown, transport, server, sweeper, ready, hand,
                   within, clients, stoppers>>

(* The loop's end is followed by loopstopped.set() on every path.          *)
Step(l, h) ==
    /\ IF l = "ended" THEN End(h) ELSE Goto(l)
    /\ loopstopped' = (loopstopped \/ l = "ended")
    /\ UNCHANGED <<kind, mustshutdown, transport, sweeper>>

Continues ==
    /\ ~mustshutdown
    /\ kind = "thread" => sock # "none" /\ ~shutting_down
    /\ kind = "existing" => sock # "none"

TestLoop ==
    /\ loop = "test"
    /\ IF ~Continues THEN Step("ended", "normal")
       ELSE IF kind = "thread" THEN Step("assert", None) ELSE Step("wait", None)
    /\ UNCHANGED <<server, ready, hand, within, clients, stoppers>>

(* events() asserts that the socket is among those that it is given.  If it *)
(* has become None since: AssertionError, which nobody catches; if it was   *)
(* None when it was given, None is waited for.                              *)
AssertSocket ==
    /\ loop = "assert"
    /\ \/ Step("wait", None)
       \/ sock = "none" /\ Step("ended", "error")
    /\ UNCHANGED <<server, ready, hand, within, clients, stoppers>>

(* A wait that ends without an event.  The thread server selects on a      *)
(* socket that others may have closed; a closed selector raises.           *)
(* Mutant: the accept loop selects without a timeout.                      *)
NothingHappensUnpolled ==
    /\ loop = "wait" /\ kind = "multiplex"
    /\ IF ~selectorOpen THEN Step("ended", "error") ELSE Step("test", None)
    /\ UNCHANGED <<server, ready, hand, within, clients, stoppers>>

NothingHappens ==
    /\ loop = "wait" /\ kind # "existing"
    /\ IF kind = "multiplex" /\ ~selectorOpen
       THEN Step("ended", "error") ELSE Step("test", None)
    /\ UNCHANGED <<server, ready, hand, within, clients, stoppers>>

(* The connection that wakeup() makes is accepted like a client's: it is   *)
(* made after shutting_down is set, and closed at once.                    *)
Backlog == {c \in Client : fate[c] = "backlog"}

(* -- thread server --                                                     *)
SelectListener ==
    /\ kind = "thread" /\ loop = "wait" /\ sock = "open"
    /\ Backlog # {} \/ shutting_down
    /\ Step("accept", None)
    /\ UNCHANGED <<server, ready, hand, within, clients, stoppers>>

(* self.sock.accept() on None is an AttributeError; on a closed socket an  *)
(* OSError, which loop() swallows when it is to end and logs otherwise.    *)
AcceptFails ==
    /\ kind = "thread" /\ loop = "accept" /\ sock # "open"
    /\ IF sock = "none" THEN Step("ended", "error")
       ELSE IF mustshutdown THEN Step("ended", "normal") ELSE Step("test", None)
    /\ UNCHANGED <<server, ready, hand, within, clients, stoppers>>

Accept ==
    /\ kind = "thread" /\ loop = "accept" /\ sock = "open"
    /\ \/ shutting_down /\ Step("test", None) /\ UNCHANGED <<hand, fate>>
       \/ \E c \in Backlog :
            IF shutting_down
            THEN /\ fate' = [fate EXCEPT ![c] = "dropped"]
                 /\ Step("test", None) /\ UNCHANGED hand
            ELSE /\ fate' = [fate EXCEPT ![c] = "held"]
                 /\ Step("process", None) /\ hand' = c
    /\ UNCHANGED <<server, ready, within, peer, stoppers>>

(* pool.process(job): a worker takes it, or none is free, or the pool has  *)
(* been closed: PoolError, which nobody catches.                           *)
ProcessJob ==
    /\ loop = "process"
    /\ \/ /\ poolOpen /\ Step("test", None)
          /\ fate' = [fate EXCEPT ![hand] = "served"] /\ hand' = None
       \/ poolOpen /\ Step("deny", None) /\ UNCHANGED <<fate, hand>>
       \/ /\ ~poolOpen /\ Step("ended", "error")
          /\ fate' = [fate EXCEPT ![hand] = "dropped"] /\ hand' = None
    /\ UNCHANGED <<server, ready, within, peer, stoppers>>

(* denyConnection: the handshake waits for the client's message, in the    *)
(* accept loop, and answers it.  A client that has left before it spoke is *)
(* expected; one that leaves after that makes the answer fail with         *)
(* ConnectionClosedError, which is no socket.error.                        *)
Deny ==
    /\ loop = "deny" /\ peer[hand] # "quiet"
    /\ \/ Step("test", None)
       \/ peer[hand] = "spokenGone" /\ Step("ended", "error")
    /\ fate' = [fate EXCEPT ![hand] = "refused"] /\ hand' = None
    /\ UNCHANGED <<server, ready, within, peer, stoppers>>

(* -- multiplex server --                                                  *)
Readable ==
    {c \in Client : fate[c] = "served" /\ peer[c] # "quiet"}
        \cup {l \in {Listener} : sock = "open" /\ (Backlog # {} \/ shutting_down)}

SelectEvents ==
    /\ kind = "multiplex" /\ loop = "wait" /\ selectorOpen /\ Readable # {}
    /\ ready' = Readable /\ Step("handle", None)
    /\ UNCHANGED <<server, hand, within, clients, stoppers>>

EventsDone ==
    /\ loop = "handle" /\ (ready = {} \/ shutting_down)
    /\ Step("test", None) /\ ready' = {}
    /\ UNCHANGED <<server, hand, within, clients, stoppers>>

(* The listener is recognised by `s is self.sock'.  When that is None by   *)
(* now it is taken for a client, and has no attribute sock.  A closed one  *)
(* cannot be accepted on.                                                  *)
(* Mutant: the listening socket itself is taken for the new connection.    *)
HandleListenerItself ==
    /\ loop = "handle" /\ Listener \in ready /\ ~shutting_down
    /\ ready' = ready \ {Listener} /\ hand' = Listener /\ Step("greet", None)
    /\ UNCHANGED <<server, within, clients, stoppers>>

HandleListener ==
    /\ loop = "handle" /\ Listener \in ready /\ ~shutting_down
    /\ ready' = ready \ {Listener}
    /\ IF sock # "open" THEN Step("ended", "error") /\ UNCHANGED <<fate, hand>>
       ELSE \E c \in Backlog :
            /\ fate' = [fate EXCEPT ![c] = "held"]
            /\ hand' = c /\ Step("greet", None)
    /\ UNCHANGED <<server, within, peer, stoppers>>

(* _handshake in the event loop; every error in it is caught.  A selector  *)
(* that has been closed meanwhile does not register the connection.        *)
Greet ==
    /\ loop = "greet" /\ peer[hand] # "quiet"
    /\ \/ /\ Speaks(hand) /\ selectorOpen
          /\ fate' = [fate EXCEPT ![hand] = "served"] /\ Step("handle", None)
       \/ fate' = [fate EXCEPT ![hand] = "dropped"] /\ Step("handle", None)
       \/ /\ Speaks(hand) /\ ~selectorOpen
          /\ fate' = [fate EXCEPT ![hand] = "dropped"] /\ Step("ended", "error")
    /\ peer' = IF Speaks(hand) THEN AfterMessage(hand) ELSE peer
    /\ hand' = None
    /\ UNCHANGED <<server, ready, within, stoppers>>

(* handleRequest on a client's connection.  The method that it calls may   *)
(* itself call shutdown or close.                                          *)
CallFrom(s, o) ==
    /\ spc[s] = "out"
    /\ spc' = [spc EXCEPT ![s] = IF o = "shutdown" THEN "must" ELSE "must2"]
    /\ part' = [part EXCEPT ![s] = o]

Request(c) ==
    /\ \/ kind = "multiplex" /\ loop = "handle" /\ c \in ready /\ ~shutting_down
       \/ kind = "existing" /\ loop = "wait" /\ fate[c] = "served"
    /\ Speaks(c)
    /\ peer' = AfterMessage(c) /\ ready' = ready \ {c}
    /\ \/ Step(IF kind = "multiplex" THEN "handle" ELSE "test", None)
          /\ UNCHANGED <<within, stoppers>>
       \/ /\ Step("request", None)
          /\ \E s \in Stopper, o \in {"shutdown", "close"} :
                CallFrom(s, o) /\ within' = s
    /\ UNCHANGED <<server, hand, fate>>

RequestReturns ==
    /\ loop = "request" /\ spc[within] \in {"returned", "raised"}
    /\ Step(IF kind = "multiplex" THEN "handle" ELSE "test", None)
    /\ within' = None
    /\ UNCHANGED <<server, ready, hand, clients, stoppers>>

(* The client went away: its connection is unregistered and closed; the    *)
(* server on an existing connection shuts down.  It asks the connection    *)
(* for its peer first, which is an AttributeError if another thread's      *)
(* close has set it to None.                                               *)
Disconnect(c) ==
    /\ peer[c] = "gone" /\ fate[c] = "served"
    /\ \/ /\ kind = "multiplex" /\ loop = "handle" /\ c \in ready /\ ~shutting_down
          /\ IF selectorOpen THEN Step("handle", None) ELSE Step("ended", "error")
          /\ UNCHANGED server
       \/ /\ kind = "existing" /\ loop = "wait"
          /\ Step("test", None)
          /\ shutting_down' = TRUE /\ sock' = "none"
          /\ UNCHANGED <<selectorOpen, housekeeper, poolOpen>>
       \/ /\ kind = "existing" /\ loop = "wait" /\ sock = "none"
          /\ Step("ended", "error") /\ UNCHANGED server
    /\ fate' = [fate EXCEPT ![c] = "dropped"] /\ ready' = ready \ {c}
    /\ UNCHANGED <<hand, within, peer, stoppers>>

(* With COMMTIMEOUT set, a receive from a client that keeps silent gives   *)
(* up: TimeoutError, which each of the loops survives.                     *)
ReceiveTimesOut ==
    /\ \/ /\ kind = "existing" /\ loop = "wait"
          /\ Step("test", None) /\ UNCHANGED <<fate, hand>>
       \/ /\ loop \in {"deny", "greet"} /\ peer[hand] = "quiet"
          /\ Step(IF loop = "deny" THEN "test" ELSE "handle", None)
          /\ fate' = [fate EXCEPT ![hand] = IF loop = "deny" THEN "refused" ELSE "dropped"]
          /\ hand' = None
    /\ UNCHANGED <<server, ready, within, peer, stoppers>>

-----------------------------------------------------------------------------
(* shutdown and close *)

Free == <<kind, loopstopped, loopVars, within, clients>>

Go(s, from, to) == spc[s] = from /\ spc' = [spc EXCEPT ![s] = to]

Call(s, o) ==
    /\ CallFrom(s, o)
    /\ UNCHANGED <<kind, flags, server, sweeper, loopVars, within, clients>>

(* Daemon.shutdown: sets the event, then asks for transportServer.         *)
MustShutdown(s) ==
    /\ Go(s, "must", IF transport THEN "flag" ELSE "must2")
    /\ mustshutdown' = TRUE
    /\ UNCHANGED <<Free, transport, server, sweeper, part>>

(* transportServer.shutdown(): None if another thread's close is ahead.    *)
FlagShutdown(s) ==
    /\ spc[s] = "flag"
    /\ IF transport
       THEN Go(s, "flag", "release") /\ shutting_down' = TRUE
       ELSE Go(s, "flag", "raised") /\ UNCHANGED shutting_down
    /\ UNCHANGED <<Free, flags, sock, selectorOpen, housekeeper, poolOpen, sweeper, part>>

(* close() of the server: first the housekeeper or the selector.           *)
Release(s) ==
    /\ spc[s] = "release"
    /\ IF kind = "thread" /\ housekeeper
       THEN /\ Go(s, "release", "join")
            /\ sweeper' = IF sweeper = "runs" THEN "told" ELSE sweeper
       ELSE Go(s, "release", "test") /\ UNCHANGED sweeper
    /\ selectorOpen' = (selectorOpen /\ kind # "multiplex")
    /\ UNCHANGED <<Free, flags, shutting_down, sock, housekeeper, poolOpen, part>>

(* housekeeper.join(): it waits for the thread, unless another thread's    *)
(* close has set the attribute to None before it is read.                  *)
Join(s) ==
    /\ spc[s] = "join"
    /\ \/ sweeper = "ended" /\ Go(s, "join", "test") /\ housekeeper' = FALSE
       \/ ~housekeeper /\ Go(s, "join", "raised") /\ UNCHANGED housekeeper
    /\ UNCHANGED <<Free, flags, shutting_down, sock, selectorOpen, poolOpen, sweeper, part>>

(* if self.sock: it is closed, unless it is the user's, and set to None    *)
(* after that.  getsockname() of None is an error that is not caught.      *)
TestSocket(s) ==
    /\ Go(s, "test", IF sock = "none" \/ kind = "existing" THEN "unset" ELSE "close")
    /\ UNCHANGED <<Free, flags, server, sweeper, part>>

CloseSocket(s) ==
    /\ Go(s, "close", IF sock = "none" THEN "raised" ELSE "unset")
    /\ sock' = IF sock = "none" THEN sock ELSE "closed"
    /\ UNCHANGED <<Free, flags, shutting_down, selectorOpen, housekeeper, poolOpen,
                   sweeper, part>>

(* The end of the server's close, and of its shutdown.                     *)
UnsetSocket(s) ==
    /\ Go(s, "unset", IF part[s] = "shutdown" THEN "must2" ELSE "forget")
    /\ sock' = "none" /\ poolOpen' = (poolOpen /\ kind # "thread")
    /\ UNCHANGED <<Free, flags, shutting_down, selectorOpen, housekeeper, sweeper, part>>

(* Daemon.close.                                                           *)
MustClose(s) ==
    /\ Go(s, "must2", IF transport THEN "find" ELSE "await")
    /\ mustshutdown' = TRUE /\ part' = [part EXCEPT ![s] = "close"]
    /\ UNCHANGED <<Free, loopstopped, transport, server, sweeper>>

(* Mutant: the attribute is set to None before the server is closed.       *)
FindTransportForgetting(s) ==
    /\ Go(s, "find", IF transport THEN "release" ELSE "raised") /\ transport' = FALSE
    /\ UNCHANGED <<Free, mustshutdown, server, sweeper, part>>

FindTransport(s) ==
    /\ Go(s, "find", IF transport THEN "release" ELSE "raised")
    /\ UNCHANGED <<Free, flags, server, sweeper, part>>

ForgetTransport(s) ==
    /\ Go(s, "forget", "await") /\ transport' = FALSE
    /\ UNCHANGED <<Free, mustshutdown, loopstopped, server, sweeper, part>>

(* loopstopped.wait(timeout=5), in shutdown only: it may time out.         *)
(* Mutant: the wait has no timeout.                                        *)
AwaitForEver(s) ==
    /\ loopstopped /\ Go(s, "await", "returned")
    /\ UNCHANGED <<Free, flags, server, sweeper, part>>

Await(s) ==
    /\ Go(s, "await", "returned")
    /\ UNCHANGED <<Free, flags, server, sweeper, part>>

ShutdownStep(s) ==
    \/ MustShutdown(s) \/ FlagShutdown(s) \/ Release(s) \/ Join(s) \/ TestSocket(s)
    \/ CloseSocket(s) \/ UnsetSocket(s) \/ MustClose(s) \/ FindTransport(s)
    \/ ForgetTransport(s) \/ Await(s)

(* Housekeeper.run leaves its loop when its event is set.                  *)
HousekeeperEnds ==
    /\ sweeper = "told" /\ sweeper' = "ended"
    /\ UNCHANGED <<kind, flags, server, loopVars, within, clients, stoppers>>

-----------------------------------------------------------------------------
LoopStep ==
    \/ BeginLoop \/ TestLoop \/ NothingHappens \/ AssertSocket
    \/ SelectListener \/ AcceptFails \/ Accept \/ ProcessJob \/ Deny
    \/ SelectEvents \/ EventsDone \/ HandleListener \/ Greet \/ RequestReturns
    \/ \E c \in Client : Request(c) \/ Disconnect(c)

Next ==
    \/ EnterLoop \/ LoopStep \/ ReceiveTimesOut \/ HousekeeperEnds
    \/ \E c \in Client : Connect(c) \/ Speak(c) \/ Leave(c)
    \/ \E s \in Stopper : ShutdownStep(s)
    \/ \E s \in Stopper, o \in {"shutdown", "close"} : Call(s, o)

(* Nothing obliges a receive to time out, since COMMTIMEOUT may be 0.      *)
(* Instead, a client whose message the loop waits for sends it or goes     *)
(* away.                                                                   *)
Awaited(c) == hand = c \/ kind = "existing"

Fairness ==
    /\ WF_vars(LoopStep) /\ WF_vars(HousekeeperEnds)
    /\ \A s \in Stopper : WF_vars(ShutdownStep(s))
    /\ \A c \in Client : WF_vars(Awaited(c) /\ (Speak(c) \/ Leave(c)))

Spec == Init /\ [][Next]_vars /\ Fairness

-----------------------------------------------------------------------------
(* Properties *)

(* shutdown and close come to an end in every thread that calls them, even *)
(* in a request of the very loop that is to stop, and although shutdown    *)
(* joins the housekeeper and waits for the loop (core line 1254,           *)
(* threadpoolserver line 228).                                             *)
ShutdownEnds ==
    \A s \in Stopper : spc[s] # "out" ~> spc[s] \in {"returned", "raised"}

(* A shutdown that has returned has released what the server held, however *)
(* many threads shut the daemon down at the same time and whichever of     *)
(* them fails: no socket is open, the housekeeper has ended, and the pool  *)
(* and the selector are closed (threadpoolserver lines 225-243,            *)
(* multiplexserver lines 149-162, core lines 1702-1709).                   *)
Released ==
    \A s \in Stopper : spc[s] = "returned" =>
        /\ ~transport /\ sock = "none"
        /\ kind = "thread" => sweeper = "ended" /\ ~poolOpen
        /\ kind = "multiplex" => ~selectorOpen

(* What holds at every step of the loop and of those who end it.           *)
LoopInv == TypeOK /\ Released

(* The daemon serves until it is asked to stop, ends when it is, and every *)
(* client that it accepts is served or sent away by it: DaemonService, for *)
(* the thread in requestLoop.  A caller of shutdown asks, and so does the  *)
(* client of an existing connection when it leaves.                        *)
Phase ==
    CASE loop \in {"out", "begin"} -> "idle"
      [] loop = "ended" -> "stopped"
      [] OTHER -> "serving"

Asked ==
    \/ \E s \in Stopper : spc[s] # "out"
    \/ kind = "existing" /\ sock = "none"

Outcome(f) ==
    CASE f \in {"backlog", "held"} -> "waiting"
      [] f \in {"refused", "dropped"} -> "dismissed"
      [] OTHER -> f

Service == INSTANCE DaemonService WITH
    phase <- Phase, asked <- Asked, fate <- [c \in Client |-> Outcome(fate[c])]

ServesUntilAsked == Service!Spec

-----------------------------------------------------------------------------
(* What comments say, which the code does not keep.                        *)

(* threadpoolserver.py:179: "socket errors may not lead to a server abort" *)
(* -- the loop fails only after somebody has asked the daemon to stop.     *)
NoAbort == how = "error" => \E s \in Stopper : spc[s] # "out"

(* core.py:1245: shutdown is to "cleanly terminate a daemon that is running *)
(* in the requestloop" -- a loop that runs does not end by an exception    *)
(* when the server has been told to shut down.                             *)
EndsCleanly == [][Phase = "serving" /\ shutting_down => how' # "error"]_vars

=============================================================================
