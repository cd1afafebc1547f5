----------------------------- MODULE ProxyCall ------------------------------
(***************************************************************************)
(* Remote method calls: core.Proxy._pyroInvoke with the retry loop of      *)
(* core._RemoteMethod on one side, core.Daemon.handleRequest and the       *)
(* server's per-connection loop on the other.                              *)
(*                                                                         *)
(* One proxy is shared by several client threads.  Each invocation holds   *)
(* the proxy's lock from connecting to the reply; the retry loop does not. *)
(* The proxy has one connection at a time; a released connection lives on  *)
(* at the server until the server has read what was sent.  A connection is *)
(* a pair of FIFO queues that may break at any time, losing what is in     *)
(* them.  Messages keep their header fields that the code looks at, and    *)
(* the call and attempt they belong to, which it does not see.             *)
(***************************************************************************)
EXTENDS Naturals, Sequences

CONSTANTS
    Thread,       \* the client threads that share the proxy
    Call,         \* the method calls they make
    MaxConn,      \* bound: connections the proxy makes
    MAX_RETRIES,  \* _pyroMaxRetries
    Configs,      \* the configurations to consider
    None

ASSUME CallAssumption ==
    /\ MaxConn \in Nat \ {0} /\ MAX_RETRIES \in Nat
    /\ \A c \in Configs : c.seqMod \in Nat \ {0} /\ c.options \subseteq
           {"multiplex", "keep_open", "timeouts", "oneway_threads", "nested_errors"}
    /\ None \notin Thread /\ None \notin Call /\ None \notin Nat

Conn == 1 .. MaxConn

VARIABLES
    config,                        \* how client and server are configured, fixed
    lock, conn, seq, made,         \* the proxy: lock, connection, _pyroSeq; connections made
    pc, call, attempt, oneway,     \* the client threads
    clientUp, serverUp, req, rep,  \* the connections: their ends and queues
    hpc, cur, spawned,             \* the server: handleRequest, its message, oneway threads
    executed, outcome, answer      \* history: runs, ends of calls, replies they ended with

proxyVars  == <<lock, conn, seq, made>>
threadVars == <<pc, call, attempt, oneway>>
linkVars   == <<clientUp, serverUp, req, rep>>
serverVars == <<hpc, cur, spawned>>
history    == <<executed, outcome, answer>>
vars == <<config, proxyVars, threadVars, linkVars, serverVars, history>>

SeqMod == config.seqMod  \* sequence numbers are taken modulo this (0xffff + 1)

Multiplex     == "multiplex" \in config.options       \* one server thread for all connections
KeepOpen      == "keep_open" \in config.options       \* the connection is an existing socket
Timeouts      == "timeouts" \in config.options        \* _pyroTimeout and COMMTIMEOUT are set
OnewayThreads == "oneway_threads" \in config.options  \* config.ONEWAY_THREADED
NestedErrors  == "nested_errors" \in config.options   \* methods let SecurityErrors of their own
                                               \* calls through

Message == [seq : 0 .. SeqMod - 1, call : Call, attempt : 0 .. MAX_RETRIES, oneway : BOOLEAN]

TypeOK ==
    /\ config \in Configs
    /\ lock \in Thread \cup {None} /\ conn \in Conn \cup {None}
    /\ seq \in 0 .. SeqMod - 1 /\ made \in 0 .. MaxConn
    /\ pc \in [Thread -> {"idle", "lock", "invoke", "recv"}]
    /\ call \in [Thread -> Call \cup {None}]
    /\ attempt \in [Thread -> 0 .. MAX_RETRIES] /\ oneway \in [Thread -> BOOLEAN]
    /\ clientUp \in [Conn -> BOOLEAN] /\ serverUp \in [Conn -> BOOLEAN]
    /\ req \in [Conn -> Seq(Message)] /\ rep \in [Conn -> Seq(Message)]
    /\ hpc \in [Conn -> {"recv", "exec", "reply", "last"}]
    /\ cur \in [Conn -> Message \cup {None}] /\ spawned \subseteq Message
    /\ executed \in [Call -> Nat]
    /\ outcome \in [Call -> {"none", "pending", "returned", "raised", "sent"}]
    /\ answer \in [Thread -> Message \cup {None}]

-----------------------------------------------------------------------------
Init ==
    /\ config \in Configs
    /\ lock = None /\ seq = 0
    /\ conn = (IF KeepOpen THEN 1 ELSE None)
    /\ made = (IF KeepOpen THEN 1 ELSE 0)
    /\ pc = [t \in Thread |-> "idle"] /\ call = [t \in Thread |-> None]
    /\ attempt = [t \in Thread |-> 0] /\ oneway = [t \in Thread |-> FALSE]
    /\ clientUp = [c \in Conn |-> KeepOpen /\ c = 1] /\ serverUp = clientUp
    /\ req = [c \in Conn |-> <<>>] /\ rep = req
    /\ hpc = [c \in Conn |-> "recv"] /\ cur = [c \in Conn |-> None] /\ spawned = {}
    /\ executed = [k \in Call |-> 0] /\ outcome = [k \in Call |-> "none"]
    /\ answer = [t \in Thread |-> None]

-----------------------------------------------------------------------------
(* The proxy. *)

(* The request that thread t is about to send, or is waiting for. *)
Request(t, s) ==
    [seq |-> s, call |-> call[t], attempt |-> attempt[t], oneway |-> oneway[t]]

(* Mutant: the number is not kept within its field. *)
NextSeqUnmasked == seq + 1

NextSeq == (seq + 1) % SeqMod

Begin(t, k) ==
    /\ pc[t] = "idle" /\ outcome[k] = "none"
    /\ pc' = [pc EXCEPT ![t] = "lock"] /\ call' = [call EXCEPT ![t] = k]
    /\ attempt' = [attempt EXCEPT ![t] = 0]
    /\ \E b \in BOOLEAN : oneway' = [oneway EXCEPT ![t] = b]
    /\ outcome' = [outcome EXCEPT ![k] = "pending"]
    /\ answer' = [answer EXCEPT ![t] = None]
    /\ UNCHANGED <<config, proxyVars, linkVars, serverVars, executed>>

Acquire(t) ==
    /\ pc[t] = "lock" /\ lock = None
    /\ lock' = t /\ pc' = [pc EXCEPT ![t] = "invoke"]
    /\ UNCHANGED <<config, conn, seq, made, call, attempt, oneway, linkVars, serverVars, history>>

(* The call ends for thread t, which leaves the lock. *)
Finish(t, o) ==
    /\ outcome' = [outcome EXCEPT ![call[t]] = o]
    /\ pc' = [pc EXCEPT ![t] = "idle"] /\ lock' = None
    /\ UNCHANGED <<config, call, attempt, oneway>>

(* Mutant: one attempt too many. *)
RetryOffByOne(t) ==
    IF attempt[t] <= MAX_RETRIES
    THEN /\ attempt' = [attempt EXCEPT ![t] = @ + 1]
         /\ pc' = [pc EXCEPT ![t] = "lock"] /\ lock' = None
         /\ UNCHANGED <<call, oneway, outcome>>
    ELSE Finish(t, "raised")

(* ConnectionClosedError and TimeoutError: _RemoteMethod tries again. *)
Retry(t) ==
    IF attempt[t] < MAX_RETRIES
    THEN /\ attempt' = [attempt EXCEPT ![t] = @ + 1]
         /\ pc' = [pc EXCEPT ![t] = "lock"] /\ lock' = None
         /\ UNCHANGED <<call, oneway, outcome>>
    ELSE Finish(t, "raised")

(* _pyroRelease: closing the socket drops what has not been read from it;  *)
(* a keep_open connection is left alone.                                   *)
Release ==
    IF KeepOpen
    THEN UNCHANGED <<conn, clientUp, rep>>
    ELSE /\ conn' = None /\ clientUp' = [clientUp EXCEPT ![conn] = FALSE]
         /\ rep' = [rep EXCEPT ![conn] = <<>>]

(* __pyroCreateConnection succeeds: a new socket with its handshake done. *)
Connect(t) ==
    /\ pc[t] = "invoke" /\ conn = None /\ made < MaxConn
    /\ made' = made + 1 /\ conn' = made'
    /\ clientUp' = [clientUp EXCEPT ![made'] = TRUE]
    /\ serverUp' = [serverUp EXCEPT ![made'] = TRUE]
    /\ UNCHANGED <<config, lock, seq, threadVars, req, rep, serverVars, history>>

(* It fails: refused, denied or unreachable is a plain CommunicationError, *)
(* which is not retried; a lost connection or a timeout during the         *)
(* handshake is.                                                           *)
ConnectFails(t) ==
    /\ pc[t] = "invoke" /\ conn = None
    /\ Finish(t, "raised") \/ Retry(t)
    /\ UNCHANGED <<config, conn, seq, made, linkVars, serverVars, executed, answer>>

(* A send succeeds as soon as the local socket accepts it; whether the     *)
(* server still reads the connection cannot be known.                      *)
Send(t) ==
    /\ pc[t] = "invoke" /\ conn # None
    /\ seq' = NextSeq
    /\ IF serverUp[conn] THEN req' = [req EXCEPT ![conn] = Append(@, Request(t, seq'))]
                         ELSE UNCHANGED req
    /\ IF oneway[t]
       THEN Finish(t, "sent")
       ELSE /\ pc' = [pc EXCEPT ![t] = "recv"]
            /\ UNCHANGED <<lock, call, attempt, oneway, outcome>>
    /\ UNCHANGED <<config, conn, made, clientUp, serverUp, rep, serverVars, executed, answer>>

(* The local socket already knows that the connection is gone. *)
SendFails(t) ==
    /\ pc[t] = "invoke" /\ conn # None
    /\ ~serverUp[conn]
    /\ seq' = NextSeq
    /\ Release /\ Retry(t)
    /\ UNCHANGED <<config, made, serverUp, req, serverVars, executed, answer>>

(* Mutant: the sequence number of the reply is not checked. *)
InSequenceUnchecked(m) == m.seq \in 0 .. SeqMod - 1

InSequence(m) == m.seq = seq

(* The reply is read and its sequence number agrees: the call returns, or  *)
(* raises what the method raised.                                          *)
Receive(t) ==
    /\ pc[t] = "recv" /\ rep[conn] # <<>> /\ InSequence(Head(rep[conn]))
    /\ rep' = [rep EXCEPT ![conn] = Tail(@)]
    /\ answer' = [answer EXCEPT ![t] = Head(rep[conn])]
    /\ Finish(t, "returned")
    /\ UNCHANGED <<config, conn, seq, made, clientUp, serverUp, req, serverVars, executed>>

(* It does not agree: ProtocolError, which is not retried. *)
ReceiveOutOfSync(t) ==
    /\ pc[t] = "recv" /\ rep[conn] # <<>> /\ ~InSequence(Head(rep[conn]))
    /\ IF KeepOpen
       THEN rep' = [rep EXCEPT ![conn] = Tail(@)] /\ UNCHANGED <<conn, clientUp>>
       ELSE Release
    /\ Finish(t, "raised")
    /\ UNCHANGED <<config, seq, made, serverUp, req, serverVars, executed, answer>>

ReceiveClosed(t) ==
    /\ pc[t] = "recv" /\ rep[conn] = <<>> /\ ~serverUp[conn]
    /\ Release /\ Retry(t)
    /\ UNCHANGED <<config, seq, made, serverUp, req, serverVars, executed, answer>>

ReceiveTimeout(t) ==
    /\ Timeouts /\ pc[t] = "recv"
    /\ Release /\ Retry(t)
    /\ UNCHANGED <<config, seq, made, serverUp, req, serverVars, executed, answer>>

(* Mutant: only CommunicationErrors release the connection. *)
InterruptUnreleased(t) ==
    /\ pc[t] = "recv"
    /\ Finish(t, "raised")
    /\ UNCHANGED <<config, conn, seq, made, linkVars, serverVars, executed, answer>>

(* KeyboardInterrupt while waiting for the reply: released, not retried. *)
Interrupt(t) ==
    /\ pc[t] = "recv"
    /\ Release /\ Finish(t, "raised")
    /\ UNCHANGED <<config, seq, made, serverUp, req, serverVars, executed, answer>>

Invoke(t) ==
    \/ Acquire(t) \/ Connect(t) \/ ConnectFails(t) \/ Send(t) \/ SendFails(t)
    \/ Receive(t) \/ ReceiveOutOfSync(t) \/ ReceiveClosed(t)

-----------------------------------------------------------------------------
(* The daemon. *)

(* The single thread of the multiplex server has one request at a time. *)
Free(c) == Multiplex => \A d \in Conn \ {c} : hpc[d] = "recv"

Handle(c) ==
    /\ hpc[c] = "recv" /\ serverUp[c] /\ req[c] # <<>> /\ Free(c)
    /\ cur' = [cur EXCEPT ![c] = Head(req[c])] /\ req' = [req EXCEPT ![c] = Tail(@)]
    /\ hpc' = [hpc EXCEPT ![c] = "exec"]
    /\ UNCHANGED <<config, proxyVars, threadVars, clientUp, serverUp, rep, spawned, history>>

ServerReady(c) == hpc' = [hpc EXCEPT ![c] = "recv"] /\ cur' = [cur EXCEPT ![c] = None]

Ran(k) == executed' = [executed EXCEPT ![k] = @ + 1]

(* The method of a oneway call gets a thread of its own. *)
Spawn(c) ==
    /\ hpc[c] = "exec" /\ cur[c].oneway /\ OnewayThreads
    /\ spawned' = spawned \cup {cur[c]}
    /\ ServerReady(c)
    /\ UNCHANGED <<config, proxyVars, threadVars, linkVars, history>>

RunSpawned(m) ==
    /\ m \in spawned /\ spawned' = spawned \ {m}
    /\ Ran(m.call)
    /\ UNCHANGED <<config, proxyVars, threadVars, linkVars, hpc, cur, outcome, answer>>

(* The method returns a value or raises an ordinary exception: both become *)
(* a reply, unless the call is oneway.  The daemon's own errors (an object *)
(* or a serializer it does not know) are replies of this kind too, and are *)
(* counted as runs: that can only make the runs more than they are.        *)
Execute(c) ==
    /\ hpc[c] = "exec" /\ ~(cur[c].oneway /\ OnewayThreads)
    /\ Ran(cur[c].call)
    /\ IF cur[c].oneway
       THEN ServerReady(c)
       ELSE hpc' = [hpc EXCEPT ![c] = "reply"] /\ UNCHANGED cur
    /\ UNCHANGED <<config, proxyVars, threadVars, linkVars, spawned, outcome, answer>>

(* SerializeError or SecurityError: a reply, and then the error is raised  *)
(* again, which makes the server drop the connection.  A SecurityError     *)
(* that comes from a call made by the method carries the message of that   *)
(* call in pyroMsg, and the reply takes its sequence number from there.    *)
ExecuteFatal(c) ==
    /\ hpc[c] = "exec" /\ ~cur[c].oneway
    /\ Ran(cur[c].call)
    /\ \E s \in 0 .. SeqMod - 1 :
        /\ s = cur[c].seq \/ NestedErrors
        /\ cur' = [cur EXCEPT ![c].seq = s]
    /\ hpc' = [hpc EXCEPT ![c] = "last"]
    /\ UNCHANGED <<config, proxyVars, threadVars, linkVars, spawned, outcome, answer>>

ServerDrops(c) ==
    /\ serverUp' = [serverUp EXCEPT ![c] = FALSE]
    /\ req' = [req EXCEPT ![c] = <<>>]
    /\ ServerReady(c)

(* Any other CommunicationError out of the method, such as the failure of  *)
(* a call that it makes itself: no reply, and the connection is dropped;   *)
(* the server of an existing socket goes on unless that was closed.        *)
ExecuteCommError(c) ==
    /\ hpc[c] = "exec" /\ ~(cur[c].oneway /\ OnewayThreads)
    /\ Ran(cur[c].call)
    /\ \/ ServerDrops(c)
       \/ KeepOpen /\ ServerReady(c) /\ UNCHANGED <<serverUp, req>>
    /\ UNCHANGED <<config, proxyVars, threadVars, clientUp, rep, spawned, outcome, answer>>

(* A reply to a client that has closed its end is lost. *)
Deliver(c) ==
    rep' = IF clientUp[c] /\ serverUp[c] THEN [rep EXCEPT ![c] = Append(@, cur[c])] ELSE rep

Reply(c) ==
    /\ hpc[c] = "reply" /\ Deliver(c) /\ ServerReady(c)
    /\ UNCHANGED <<config, proxyVars, threadVars, clientUp, serverUp, req, spawned, history>>

ReplyAndDrop(c) ==
    /\ hpc[c] = "last" /\ Deliver(c) /\ ServerDrops(c)
    /\ UNCHANGED <<config, proxyVars, threadVars, clientUp, spawned, history>>

(* Everything sent has been read and the client is gone, or the server's   *)
(* own COMMTIMEOUT expires: the connection is dropped.                     *)
Disconnect(c) ==
    /\ hpc[c] = "recv" /\ serverUp[c] /\ req[c] = <<>>
    /\ ~clientUp[c] \/ Timeouts
    /\ ServerDrops(c)
    /\ UNCHANGED <<config, proxyVars, threadVars, clientUp, rep, spawned, history>>

Server(c) ==
    \/ Handle(c) \/ Spawn(c) \/ Execute(c) \/ ExecuteFatal(c) \/ ExecuteCommError(c)
    \/ Reply(c) \/ ReplyAndDrop(c)

(* The network, or the server's process, breaks the connection. *)
Break(c) ==
    /\ serverUp[c]
    /\ serverUp' = [serverUp EXCEPT ![c] = FALSE]
    /\ req' = [req EXCEPT ![c] = <<>>]
    /\ rep' \in {rep, [rep EXCEPT ![c] = <<>>]}
    /\ UNCHANGED <<config, proxyVars, threadVars, clientUp, serverVars, history>>

-----------------------------------------------------------------------------
Next ==
    \/ \E t \in Thread : \/ \E k \in Call : Begin(t, k)
                         \/ Invoke(t) \/ ReceiveTimeout(t) \/ Interrupt(t)
    \/ \E c \in Conn : Server(c) \/ Disconnect(c) \/ Break(c)
    \/ \E m \in spawned : RunSpawned(m)

(* Client and server threads are scheduled and methods end.  On an         *)
(* existing socket a reply may never come although nothing is closed       *)
(* (ExecuteCommError): there it is the timeout, if set, that ends the call.*)
Fairness ==
    /\ \A t \in Thread : WF_vars(Invoke(t)) /\ WF_vars(KeepOpen /\ ReceiveTimeout(t))
    /\ \A c \in Conn : WF_vars(Server(c))

Spec == Init /\ [][Next]_vars /\ Fairness

-----------------------------------------------------------------------------
(* Properties *)

(* A call never ends with the reply to another call, nor with the reply to *)
(* an earlier attempt of its own: sequence numbers wrap around, threads    *)
(* share the proxy, replies come late (_pyroInvoke lines 456, 479-487).    *)
OwnAnswer ==
    \A t \in Thread : answer[t] # None =>
        answer[t].call = call[t] /\ answer[t].attempt = attempt[t]

(* Whenever nobody uses the proxy and it is still connected, nothing that  *)
(* could be taken for the reply to the next call is under way: requests    *)
(* that are waiting or being handled are oneway, and no reply is in the    *)
(* socket.  This is what the release in lines 479-487 is for.              *)
InSync ==
    (lock = None /\ conn # None /\ ~KeepOpen) =>
        /\ rep[conn] = <<>>
        /\ \A i \in 1 .. Len(req[conn]) : req[conn][i].oneway
        /\ cur[conn] # None => cur[conn].oneway

(* No call gets an answer that is not its own, because a connection that   *)
(* is kept has nothing under way (_pyroInvoke lines 441-487).              *)
CallInv == TypeOK /\ InSync /\ OwnAnswer

(* The implementation promises what RemoteCall says: a method is run at    *)
(* most once per attempt, a normal return means that it was run, and every *)
(* call ends, whatever breaks on the way.                                  *)
Abstract == INSTANCE RemoteCall WITH outcome <- outcome, executed <- executed
KeepsPromise == Abstract!Spec

=============================================================================
