--------------------------- MODULE ProxyCallProofs ---------------------------
(***************************************************************************)
(* Proofs about ProxyCall, for any threads that share the proxy, any       *)
(* calls, connections, retries and sequence numbers: types, a connection   *)
(* that is kept is in sync, a call ends with its own answer; and ProxyCall *)
(* implements RemoteCall: a method is run at most once for each attempt,   *)
(* and no call returns normally whose method was not run.                  *)
(***************************************************************************)
EXTENDS ProxyCall, FiniteSetTheorems, TLAPS

(* The proxy and its threads: a call under way is one of the calls and has *)
(* no answer yet, a thread in _pyroInvoke holds the lock, and one that     *)
(* waits for a reply has a connection.                                     *)
ClientTyped ==
    /\ config \in Configs
    /\ lock \in Thread \cup {None} /\ conn \in Conn \cup {None}
    /\ seq \in 0 .. SeqMod - 1 /\ made \in 0 .. MaxConn
    /\ pc \in [Thread -> {"idle", "lock", "invoke", "recv"}]
    /\ call \in [Thread -> Call \cup {None}]
    /\ attempt \in [Thread -> 0 .. MAX_RETRIES]
    /\ outcome \in [Call -> {"none", "pending", "returned", "raised", "sent"}]
    /\ \A t \in Thread :
        /\ pc[t] # "idle" => call[t] \in Call
        /\ pc[t] \in {"invoke", "recv"} <=> lock = t
        /\ pc[t] = "recv" => conn # None

(* What is true or false. *)
FlagsTyped ==
    /\ oneway \in [Thread -> BOOLEAN]
    /\ clientUp \in [Conn -> BOOLEAN] /\ serverUp \in [Conn -> BOOLEAN]

(* Messages: handleRequest has one until it is done with it. *)
MessagesTyped ==
    /\ req \in [Conn -> Seq(Message)] /\ rep \in [Conn -> Seq(Message)]
    /\ hpc \in [Conn -> {"recv", "exec", "reply", "last"}]
    /\ cur \in [Conn -> Message \cup {None}] /\ spawned \subseteq Message
    /\ executed \in [Call -> Nat]
    /\ answer \in [Thread -> Message \cup {None}]
    /\ \A c \in Conn : IF hpc[c] = "recv" THEN cur[c] = None ELSE cur[c] \in Message

(* The configuration stays, and with it what a message is. *)
LEMMA ConfigKept ==
    ASSUME [Next]_vars
    PROVE  config' = config /\ SeqMod' = SeqMod /\ Message' = Message
<1>1. config' = config
  BY DEF Next, Begin, Invoke, Acquire, Connect, ConnectFails, Retry, Finish, Send,
     SendFails, Receive, ReceiveOutOfSync, ReceiveClosed, ReceiveTimeout,
     Interrupt, Server, Handle, Spawn, Execute, ExecuteFatal, ExecuteCommError,
     Reply, ReplyAndDrop, Disconnect, Break, RunSpawned, vars
<1>2. QED
  BY <1>1 DEF Message, SeqMod

(* The sequence numbers keep to their field (_pyroInvoke line 441). *)
LEMMA NumberTyped ==
    ASSUME ClientTyped
    PROVE  SeqMod \in Nat \ {0} /\ NextSeq \in 0 .. SeqMod - 1
<1>1. SeqMod \in Nat \ {0} /\ seq \in 0 .. SeqMod - 1
  BY CallAssumption DEF ClientTyped, SeqMod
<1>2. QED
  BY <1>1 DEF NextSeq

(* A call that ends, or is tried again, leaves the lock (_RemoteMethod     *)
(* lines 174-193).                                                         *)
LEMMA EndsTyped ==
    ASSUME ClientTyped, NEW t \in Thread, lock = t,
           Retry(t) \/ \E o \in {"returned", "raised", "sent"} : Finish(t, o)
    PROVE  /\ lock' = None /\ call' = call /\ attempt' \in [Thread -> 0 .. MAX_RETRIES]
           /\ pc' \in [Thread -> {"idle", "lock", "invoke", "recv"}]
           /\ pc'[t] \in {"idle", "lock"} /\ \A u \in Thread \ {t} : pc'[u] = pc[u]
           /\ outcome' \in [Call -> {"none", "pending", "returned", "raised", "sent"}]
<1>1. MAX_RETRIES \in Nat /\ lock # None /\ pc[t] # "idle" /\ call[t] \in Call
  BY CallAssumption DEF ClientTyped
<1>2. ASSUME NEW o \in {"returned", "raised", "sent"}, Finish(t, o)
      PROVE  /\ lock' = None /\ call' = call /\ attempt' = attempt
             /\ pc' = [pc EXCEPT ![t] = "idle"]
             /\ outcome' \in [Call -> {"none", "pending", "returned", "raised", "sent"}]
  BY <1>1, <1>2 DEF ClientTyped, Finish
<1>3. CASE \E o \in {"returned", "raised", "sent"} : Finish(t, o)
  BY <1>1, <1>2, <1>3 DEF ClientTyped
<1>4. CASE Retry(t) /\ attempt[t] < MAX_RETRIES
  <2>1. attempt[t] \in 0 .. MAX_RETRIES /\ attempt[t] + 1 \in 0 .. MAX_RETRIES
    BY <1>1, <1>4 DEF ClientTyped
  <2>2. /\ lock' = None /\ call' = call /\ attempt' = [attempt EXCEPT ![t] = attempt[t] + 1]
        /\ pc' = [pc EXCEPT ![t] = "lock"] /\ outcome' = outcome
    BY <1>4 DEF Retry
  <2>3. QED
    BY <2>1, <2>2 DEF ClientTyped
<1>5. CASE Retry(t) /\ ~(attempt[t] < MAX_RETRIES)
  BY <1>2, <1>5, <1>1 DEF Retry, ClientTyped
<1>6. QED
  BY <1>3, <1>4, <1>5

(* The proxy, its lock and its threads (_pyroInvoke lines 429-487,         *)
(* _RemoteMethod lines 174-193).                                           *)
LEMMA ClientInvariant == Spec => []ClientTyped
<1>1. Init => ClientTyped
  <2> SUFFICES ASSUME Init PROVE ClientTyped
    OBVIOUS
  <2>1. SeqMod \in Nat \ {0} /\ 1 \in Conn
    BY CallAssumption DEF Init, SeqMod, Conn
  <2>2. QED
    BY <2>1, CallAssumption DEF Init, ClientTyped, Conn
<1>2. ClientTyped /\ [Next]_vars => ClientTyped'
  <2> SUFFICES ASSUME ClientTyped, [Next]_vars PROVE ClientTyped'
    OBVIOUS
  <2>a. /\ config' = config /\ SeqMod' = SeqMod /\ NextSeq \in 0 .. SeqMod - 1
        /\ Message' = Message
    BY ConfigKept, NumberTyped
  <2>b. MaxConn \in Nat /\ MAX_RETRIES \in Nat /\ None \notin Thread /\ None \notin Nat
    BY CallAssumption
  <2> USE <2>a, <2>b DEF ClientTyped, proxyVars, threadVars, linkVars, serverVars,
      history
  <2>1. ASSUME NEW t \in Thread, NEW k \in Call, Begin(t, k) PROVE ClientTyped'
    BY <2>1 DEF Begin
  <2>2. ASSUME NEW t \in Thread, Invoke(t) PROVE ClientTyped'
    <3>1. CASE Acquire(t)
      BY <3>1 DEF Acquire
    <3>2. CASE Connect(t)
      BY <3>2 DEF Connect, Conn
    <3>3. CASE ConnectFails(t)
      BY <3>3 DEF ConnectFails, Retry, Finish
    <3>4. CASE Send(t)
      <4>1. CASE oneway[t]
        <5>1. lock = t /\ Finish(t, "sent") /\ conn' = conn /\ seq' = NextSeq /\ made' = made
          BY <3>4, <4>1 DEF Send
        <5>2. QED
          BY <5>1, EndsTyped
      <4>2. CASE ~oneway[t]
        <5>1. /\ lock' = lock /\ call' = call /\ attempt' = attempt /\ outcome' = outcome
              /\ pc' = [pc EXCEPT ![t] = "recv"] /\ conn' = conn /\ seq' = NextSeq
              /\ made' = made /\ conn # None /\ pc[t] = "invoke"
          BY <3>4, <4>2 DEF Send
        <5>2. QED
          BY <5>1
      <4>3. QED
        BY <4>1, <4>2
    <3>5. CASE SendFails(t)
      <4>1. lock = t /\ pc[t] \in {"invoke", "recv"}
        BY <3>5 DEF SendFails
      <4>2. Retry(t) \/ \E o \in {"returned", "raised", "sent"} : Finish(t, o)
        BY <3>5 DEF SendFails
      <4>3. conn' \in {conn, None} /\ seq' \in 0 .. SeqMod - 1 /\ made' = made
        BY <3>5 DEF SendFails, Release
      <4>4. QED
        BY <4>1, <4>2, <4>3, EndsTyped
    <3>6. CASE Receive(t)
      BY <3>6 DEF Receive, Finish
    <3>7. CASE ReceiveOutOfSync(t)
      BY <3>7 DEF ReceiveOutOfSync, Release, Finish
    <3>8. CASE ReceiveClosed(t)
      <4>1. lock = t /\ pc[t] \in {"invoke", "recv"}
        BY <3>8 DEF ReceiveClosed
      <4>2. Retry(t) \/ \E o \in {"returned", "raised", "sent"} : Finish(t, o)
        BY <3>8 DEF ReceiveClosed
      <4>3. conn' \in {conn, None} /\ seq' \in 0 .. SeqMod - 1 /\ made' = made
        BY <3>8 DEF ReceiveClosed, Release
      <4>4. QED
        BY <4>1, <4>2, <4>3, EndsTyped
    <3>9. QED
      BY <2>2, <3>1, <3>2, <3>3, <3>4, <3>5, <3>6, <3>7, <3>8 DEF Invoke
  <2>3. ASSUME NEW t \in Thread, ReceiveTimeout(t) PROVE ClientTyped'
    <3>1. lock = t /\ pc[t] \in {"invoke", "recv"}
      BY <2>3 DEF ReceiveTimeout
    <3>2. Retry(t) \/ \E o \in {"returned", "raised", "sent"} : Finish(t, o)
      BY <2>3 DEF ReceiveTimeout
    <3>3. conn' \in {conn, None} /\ seq' \in 0 .. SeqMod - 1 /\ made' = made
      BY <2>3 DEF ReceiveTimeout, Release
    <3>4. QED
      BY <3>1, <3>2, <3>3, EndsTyped
  <2>4. ASSUME NEW t \in Thread, Interrupt(t) PROVE ClientTyped'
    BY <2>4 DEF Interrupt, Release, Finish
  <2>5. ASSUME NEW c \in Conn, Server(c) PROVE ClientTyped'
    <3>1. CASE Handle(c)
      BY <3>1 DEF Handle, Free
    <3>2. CASE Spawn(c)
      BY <3>2 DEF Spawn, ServerReady
    <3>3. CASE Execute(c)
      BY <3>3 DEF Execute, ServerReady, Ran
    <3>4. CASE ExecuteFatal(c)
      BY <3>4 DEF ExecuteFatal, Ran
    <3>5. CASE ExecuteCommError(c)
      BY <3>5 DEF ExecuteCommError, ServerReady, ServerDrops, Ran
    <3>6. CASE Reply(c)
      BY <3>6 DEF Reply, Deliver, ServerReady
    <3>7. CASE ReplyAndDrop(c)
      BY <3>7 DEF ReplyAndDrop, Deliver, ServerDrops, ServerReady
    <3>8. QED
      BY <2>5, <3>1, <3>2, <3>3, <3>4, <3>5, <3>6, <3>7 DEF Server
  <2>6. ASSUME NEW c \in Conn, Disconnect(c) PROVE ClientTyped'
    BY <2>6 DEF Disconnect, ServerDrops, ServerReady
  <2>7. ASSUME NEW c \in Conn, Break(c) PROVE ClientTyped'
    BY <2>7 DEF Break
  <2>8. ASSUME NEW m \in spawned, RunSpawned(m) PROVE ClientTyped'
    BY <2>8 DEF RunSpawned, Ran
  <2>9. CASE UNCHANGED vars
    BY <2>9 DEF vars
  <2>10. QED
    BY <2>1, <2>2, <2>3, <2>4, <2>5, <2>6, <2>7, <2>8, <2>9 DEF Next
<1>3. QED
  BY <1>1, <1>2, PTL DEF Spec

(* Zenon knows the sets of functions to BOOLEAN. *)
LEMMA FlagsInvariant == Spec => []FlagsTyped
<1>1. Init => FlagsTyped
  BY DEF Init, FlagsTyped
<1>2. ClientTyped /\ FlagsTyped /\ [Next]_vars => FlagsTyped'
  <2> SUFFICES ASSUME ClientTyped, FlagsTyped, [Next]_vars PROVE FlagsTyped'
    OBVIOUS
  <2>a. KeepOpen \/ ~KeepOpen
    OBVIOUS
  <2> USE DEF FlagsTyped, proxyVars, threadVars, linkVars, serverVars, history
  <2>1. ASSUME NEW t \in Thread, NEW k \in Call, Begin(t, k) PROVE FlagsTyped'
    BY <2>1 DEF Begin
  <2>2. ASSUME NEW t \in Thread, Invoke(t) PROVE FlagsTyped'
    <3>1. CASE Acquire(t)
      BY <3>1 DEF Acquire
    <3>2. CASE Connect(t)
      BY <3>2 DEF Connect, Conn
    <3>3. CASE ConnectFails(t)
      BY <3>3 DEF ConnectFails, Retry, Finish
    <3>4. CASE Send(t)
      BY <3>4 DEF Send, Finish
    <3>5. CASE SendFails(t)
      BY <3>5 DEF SendFails, Release, Retry, Finish
    <3>6. CASE Receive(t)
      BY <3>6 DEF Receive, Finish
    <3>7. CASE ReceiveOutOfSync(t)
      BY <3>7 DEF ReceiveOutOfSync, Release, Finish
    <3>8. CASE ReceiveClosed(t)
      BY <3>8 DEF ReceiveClosed, Release, Retry, Finish
    <3>9. QED
      BY <2>2, <3>1, <3>2, <3>3, <3>4, <3>5, <3>6, <3>7, <3>8 DEF Invoke
  <2>3. ASSUME NEW t \in Thread, ReceiveTimeout(t) PROVE FlagsTyped'
    BY <2>3 DEF ReceiveTimeout, Release, Retry, Finish
  <2>4. ASSUME NEW t \in Thread, Interrupt(t) PROVE FlagsTyped'
    BY <2>4 DEF Interrupt, Release, Finish
  <2>5. ASSUME NEW c \in Conn, Server(c) PROVE FlagsTyped'
    <3>1. CASE Handle(c)
      BY <3>1 DEF Handle, Free
    <3>2. CASE Spawn(c)
      BY <3>2 DEF Spawn, ServerReady
    <3>3. CASE Execute(c)
      BY <3>3 DEF Execute, ServerReady, Ran
    <3>4. CASE ExecuteFatal(c)
      BY <3>4 DEF ExecuteFatal, Ran
    <3>5. CASE ExecuteCommError(c)
      BY <3>5 DEF ExecuteCommError, ServerReady, ServerDrops, Ran
    <3>6. CASE Reply(c)
      BY <3>6 DEF Reply, Deliver, ServerReady
    <3>7. CASE ReplyAndDrop(c)
      BY <3>7 DEF ReplyAndDrop, Deliver, ServerDrops, ServerReady
    <3>8. QED
      BY <2>5, <3>1, <3>2, <3>3, <3>4, <3>5, <3>6, <3>7 DEF Server
  <2>6. ASSUME NEW c \in Conn, Disconnect(c) PROVE FlagsTyped'
    BY <2>6 DEF Disconnect, ServerDrops, ServerReady
  <2>7. ASSUME NEW c \in Conn, Break(c) PROVE FlagsTyped'
    BY <2>7 DEF Break
  <2>8. ASSUME NEW m \in spawned, RunSpawned(m) PROVE FlagsTyped'
    BY <2>8 DEF RunSpawned, Ran
  <2>9. CASE UNCHANGED vars
    BY <2>9 DEF vars
  <2>10. QED
    BY <2>1, <2>2, <2>3, <2>4, <2>5, <2>6, <2>7, <2>8, <2>9 DEF Next
<1>3. QED
  BY <1>1, <1>2, ClientInvariant, PTL DEF Spec

(* The fields of a message. *)
LEMMA MessageFields ==
    ASSUME NEW m \in Message
    PROVE  /\ m.seq \in 0 .. SeqMod - 1 /\ m.call \in Call
           /\ m.attempt \in 0 .. MAX_RETRIES /\ m.oneway \in BOOLEAN
BY DEF Message

(* What a thread sends is a message of its call and attempt. *)
LEMMA RequestSent ==
    ASSUME ClientTyped, FlagsTyped, NEW t \in Thread, pc[t] # "idle"
    PROVE  /\ Request(t, NextSeq) \in Message
           /\ Request(t, NextSeq).call = call[t]
           /\ Request(t, NextSeq).attempt = attempt[t]
           /\ Request(t, NextSeq).oneway = oneway[t]
BY NumberTyped DEF Request, Message, ClientTyped, FlagsTyped

(* A reply with another sequence number is still of the same call. *)
LEMMA Renumbered ==
    ASSUME NEW m \in Message, NEW s \in 0 .. SeqMod - 1
    PROVE  /\ [m EXCEPT !.seq = s] \in Message
           /\ [m EXCEPT !.seq = s].call = m.call
           /\ [m EXCEPT !.seq = s].attempt = m.attempt
           /\ [m EXCEPT !.seq = s].oneway = m.oneway
BY DEF Message

(* Messages are messages, wherever they are (handleRequest lines           *)
(* 1383-1503).                                                             *)
LEMMA MessagesInvariant == Spec => []MessagesTyped
<1>1. Init => MessagesTyped
  BY DEF Init, MessagesTyped
<1>2. ClientTyped /\ FlagsTyped /\ MessagesTyped /\ [Next]_vars => MessagesTyped'
  <2> SUFFICES ASSUME ClientTyped, FlagsTyped, MessagesTyped, [Next]_vars
               PROVE  MessagesTyped'
    OBVIOUS
  <2>a. Message' = Message
    BY ConfigKept
  <2> USE <2>a DEF MessagesTyped, proxyVars, threadVars, linkVars, serverVars,
      history
  <2>1. ASSUME NEW t \in Thread, NEW k \in Call, Begin(t, k) PROVE MessagesTyped'
    BY <2>1 DEF Begin
  <2>2. ASSUME NEW t \in Thread, Invoke(t) PROVE MessagesTyped'
    <3>1. CASE Acquire(t)
      BY <3>1 DEF Acquire
    <3>2. CASE Connect(t)
      BY <3>2 DEF Connect, Conn
    <3>3. CASE ConnectFails(t)
      BY <3>3 DEF ConnectFails, Retry, Finish
    <3>4. CASE Send(t)
      <4>1. conn \in Conn /\ Request(t, NextSeq) \in Message
        BY <3>4, RequestSent DEF Send, ClientTyped
      <4>2. req' = req \/ req' = [req EXCEPT ![conn] = Append(req[conn], Request(t, NextSeq))]
        BY <3>4 DEF Send
      <4>3. req' \in [Conn -> Seq(Message)]
        <5>1. CASE req' = req
          BY <4>1, <4>2, <5>1
        <5>2. CASE req' = [req EXCEPT ![conn] = Append(req[conn], Request(t, NextSeq))]
          BY <4>1, <4>2, <5>2
        <5>3. QED
          BY <4>1, <4>2, <5>1, <5>2
      <4>4. UNCHANGED <<rep, serverVars, executed, answer>>
        BY <3>4 DEF Send
      <4>5. QED
        BY <4>1, <4>2, <4>3, <4>4
    <3>5. CASE SendFails(t)
      <4>1. conn \in Conn
        BY <3>5 DEF SendFails, ClientTyped
      <4>2. rep' = rep \/ rep' = [rep EXCEPT ![conn] = <<>>]
        BY <3>5 DEF SendFails, Release
      <4>3. rep' \in [Conn -> Seq(Message)]
        <5>1. CASE rep' = rep
          BY <4>1, <4>2, <5>1
        <5>2. CASE rep' = [rep EXCEPT ![conn] = <<>>]
          BY <4>1, <4>2, <5>2
        <5>3. QED
          BY <4>1, <4>2, <5>1, <5>2
      <4>4. UNCHANGED <<req, serverVars, executed, answer>>
        BY <3>5 DEF SendFails
      <4>5. QED
        BY <4>1, <4>2, <4>3, <4>4
    <3>6. CASE Receive(t)
      <4>1. conn \in Conn /\ rep[conn] # <<>>
        BY <3>6 DEF Receive, ClientTyped
      <4>2. Head(rep[conn]) \in Message /\ Tail(rep[conn]) \in Seq(Message)
        BY <4>1
      <4>3. /\ rep' = [rep EXCEPT ![conn] = Tail(rep[conn])]
            /\ answer' = [answer EXCEPT ![t] = Head(rep[conn])]
        BY <3>6 DEF Receive
      <4>4. UNCHANGED <<req, serverVars, executed>>
        BY <3>6 DEF Receive
      <4>5. QED
        BY <4>1, <4>2, <4>3, <4>4
    <3>7. CASE ReceiveOutOfSync(t)
      <4>1. conn \in Conn /\ rep[conn] # <<>>
        BY <3>7 DEF ReceiveOutOfSync, ClientTyped
      <4>2. rep' \in {[rep EXCEPT ![conn] = <<>>], [rep EXCEPT ![conn] = Tail(rep[conn])]}
        BY <3>7 DEF ReceiveOutOfSync, Release
      <4>3. rep' \in [Conn -> Seq(Message)]
        <5>1. CASE rep' = [rep EXCEPT ![conn] = <<>>]
          BY <4>1, <4>2, <5>1
        <5>2. CASE rep' = [rep EXCEPT ![conn] = Tail(rep[conn])]
          BY <4>1, <4>2, <5>2
        <5>3. QED
          BY <4>1, <4>2, <5>1, <5>2
      <4>4. UNCHANGED <<req, serverVars, executed, answer>>
        BY <3>7 DEF ReceiveOutOfSync
      <4>5. QED
        BY <4>1, <4>2, <4>3, <4>4
    <3>8. CASE ReceiveClosed(t)
      <4>1. conn \in Conn
        BY <3>8 DEF ReceiveClosed, ClientTyped
      <4>2. rep' = rep \/ rep' = [rep EXCEPT ![conn] = <<>>]
        BY <3>8 DEF ReceiveClosed, Release
      <4>3. rep' \in [Conn -> Seq(Message)]
        <5>1. CASE rep' = rep
          BY <4>1, <4>2, <5>1
        <5>2. CASE rep' = [rep EXCEPT ![conn] = <<>>]
          BY <4>1, <4>2, <5>2
        <5>3. QED
          BY <4>1, <4>2, <5>1, <5>2
      <4>4. UNCHANGED <<req, serverVars, executed, answer>>
        BY <3>8 DEF ReceiveClosed
      <4>5. QED
        BY <4>1, <4>2, <4>3, <4>4
    <3>9. QED
      BY <2>2, <3>1, <3>2, <3>3, <3>4, <3>5, <3>6, <3>7, <3>8 DEF Invoke
  <2>3. ASSUME NEW t \in Thread, ReceiveTimeout(t) PROVE MessagesTyped'
    <3>1. conn \in Conn
      BY <2>3 DEF ReceiveTimeout, ClientTyped
    <3>2. rep' = rep \/ rep' = [rep EXCEPT ![conn] = <<>>]
      BY <2>3 DEF ReceiveTimeout, Release
    <3>3. rep' \in [Conn -> Seq(Message)]
      <4>1. CASE rep' = rep
        BY <3>1, <3>2, <4>1
      <4>2. CASE rep' = [rep EXCEPT ![conn] = <<>>]
        BY <3>1, <3>2, <4>2
      <4>3. QED
        BY <3>1, <3>2, <4>1, <4>2
    <3>4. UNCHANGED <<req, serverVars, executed, answer>>
      BY <2>3 DEF ReceiveTimeout
    <3>5. QED
      BY <3>1, <3>2, <3>3, <3>4
  <2>4. ASSUME NEW t \in Thread, Interrupt(t) PROVE MessagesTyped'
    <3>1. conn \in Conn
      BY <2>4 DEF Interrupt, ClientTyped
    <3>2. rep' = rep \/ rep' = [rep EXCEPT ![conn] = <<>>]
      BY <2>4 DEF Interrupt, Release
    <3>3. rep' \in [Conn -> Seq(Message)]
      <4>1. CASE rep' = rep
        BY <3>1, <3>2, <4>1
      <4>2. CASE rep' = [rep EXCEPT ![conn] = <<>>]
        BY <3>1, <3>2, <4>2
      <4>3. QED
        BY <3>1, <3>2, <4>1, <4>2
    <3>4. UNCHANGED <<req, serverVars, executed, answer>>
      BY <2>4 DEF Interrupt
    <3>5. QED
      BY <3>1, <3>2, <3>3, <3>4
  <2>5. ASSUME NEW c \in Conn, Server(c) PROVE MessagesTyped'
    <3>1. CASE Handle(c)
      BY <3>1 DEF Handle, Free
    <3>2. CASE Spawn(c)
      BY <3>2 DEF Spawn, ServerReady
    <3>3. CASE Execute(c)
      <4>1. cur[c] \in Message /\ cur[c].call \in Call
        BY <3>3, MessageFields DEF Execute
      <4>2. executed' \in [Call -> Nat]
        BY <3>3, <4>1 DEF Execute, Ran
      <4>3. \/ hpc' = [hpc EXCEPT ![c] = "recv"] /\ cur' = [cur EXCEPT ![c] = None]
            \/ hpc' = [hpc EXCEPT ![c] = "reply"] /\ cur' = cur
        BY <3>3 DEF Execute, ServerReady
      <4>4. UNCHANGED <<req, rep, spawned, answer>>
        BY <3>3 DEF Execute
      <4>5. QED
        BY <4>1, <4>2, <4>3, <4>4
    <3>4. CASE ExecuteFatal(c)
      <4>1. cur[c] \in Message /\ cur[c].call \in Call
        BY <3>4, MessageFields DEF ExecuteFatal
      <4>2. executed' \in [Call -> Nat]
        BY <3>4, <4>1 DEF ExecuteFatal, Ran
      <4>3. PICK s \in 0 .. SeqMod - 1 : cur' = [cur EXCEPT ![c] = [cur[c] EXCEPT !.seq = s]]
        BY <3>4 DEF ExecuteFatal
      <4>4. [cur[c] EXCEPT !.seq = s] \in Message
        BY <4>1, Renumbered
      <4>5. hpc' = [hpc EXCEPT ![c] = "last"] /\ UNCHANGED <<req, rep, spawned, answer>>
        BY <3>4 DEF ExecuteFatal
      <4>6. QED
        BY <4>1, <4>2, <4>3, <4>4, <4>5
    <3>5. CASE ExecuteCommError(c)
      <4>1. cur[c] \in Message /\ cur[c].call \in Call
        BY <3>5, MessageFields DEF ExecuteCommError
      <4>2. executed' \in [Call -> Nat]
        BY <3>5, <4>1 DEF ExecuteCommError, Ran
      <4>3. req' = req \/ req' = [req EXCEPT ![c] = <<>>]
        BY <3>5 DEF ExecuteCommError, ServerDrops
      <4>4. req' \in [Conn -> Seq(Message)]
        <5>1. CASE req' = req
          BY <4>3, <5>1
        <5>2. CASE req' = [req EXCEPT ![c] = <<>>]
          BY <4>3, <5>2
        <5>3. QED
          BY <4>3, <5>1, <5>2
      <4>5. hpc' = [hpc EXCEPT ![c] = "recv"] /\ cur' = [cur EXCEPT ![c] = None]
        BY <3>5 DEF ExecuteCommError, ServerReady, ServerDrops
      <4>6. UNCHANGED <<rep, spawned, answer>>
        BY <3>5 DEF ExecuteCommError
      <4>7. QED
        BY <4>1, <4>2, <4>3, <4>4, <4>5, <4>6
    <3>6. CASE Reply(c)
      BY <3>6 DEF Reply, Deliver, ServerReady
    <3>7. CASE ReplyAndDrop(c)
      BY <3>7 DEF ReplyAndDrop, Deliver, ServerDrops, ServerReady
    <3>8. QED
      BY <2>5, <3>1, <3>2, <3>3, <3>4, <3>5, <3>6, <3>7 DEF Server
  <2>6. ASSUME NEW c \in Conn, Disconnect(c) PROVE MessagesTyped'
    BY <2>6 DEF Disconnect, ServerDrops, ServerReady
  <2>7. ASSUME NEW c \in Conn, Break(c) PROVE MessagesTyped'
    <3>1. rep' = rep \/ rep' = [rep EXCEPT ![c] = <<>>]
      BY <2>7 DEF Break
    <3>2. rep' \in [Conn -> Seq(Message)]
      <4>1. CASE rep' = rep
        BY <3>1, <4>1
      <4>2. CASE rep' = [rep EXCEPT ![c] = <<>>]
        BY <3>1, <4>2
      <4>3. QED
        BY <3>1, <4>1, <4>2
    <3>3. req' = [req EXCEPT ![c] = <<>>] /\ UNCHANGED <<serverVars, executed, answer>>
      BY <2>7 DEF Break
    <3>4. QED
      BY <3>1, <3>2, <3>3
  <2>8. ASSUME NEW m \in spawned, RunSpawned(m) PROVE MessagesTyped'
    <3>1. m \in Message /\ m.call \in Call
      BY <2>8, MessageFields DEF RunSpawned
    <3>2. executed' \in [Call -> Nat]
      BY <2>8, <3>1 DEF RunSpawned, Ran
    <3>3. spawned' \subseteq Message /\ UNCHANGED <<req, rep, hpc, cur, answer>>
      BY <2>8 DEF RunSpawned
    <3>4. QED
      BY <3>1, <3>2, <3>3
  <2>9. CASE UNCHANGED vars
    BY <2>9 DEF vars
  <2>10. QED
    BY <2>1, <2>2, <2>3, <2>4, <2>5, <2>6, <2>7, <2>8, <2>9 DEF Next
<1>3. QED
  BY <1>1, <1>2, ClientInvariant, FlagsInvariant, PTL DEF Spec

(* Types: the three parts above. *)
Typed == ClientTyped /\ FlagsTyped /\ MessagesTyped

(* All of it, in every reachable state. *)
LEMMA TypedInvariant == Spec => []Typed
BY ClientInvariant, FlagsInvariant, MessagesInvariant, PTL DEF Typed

(* Every variable has its type in every reachable state. *)
THEOREM TypeCorrect == Spec => []TypeOK
<1>1. Typed => TypeOK
  BY DEF Typed, ClientTyped, FlagsTyped, MessagesTyped, TypeOK
<1>2. QED
  BY <1>1, TypedInvariant, PTL

(* The connections that have not been made yet are closed and empty, and   *)
(* the proxy's is one that has been made.                                  *)
LinksInv ==
    /\ conn # None => conn <= made
    /\ \A c \in Conn : c > made =>
        ~serverUp[c] /\ req[c] = <<>> /\ rep[c] = <<>> /\ hpc[c] = "recv"

(* handleRequest replies only to calls that wait for it (line 1495); a     *)
(* thread that waits has not made a oneway call (line 463), and a call     *)
(* under way has no answer yet.                                            *)
WaitInv ==
    /\ \A c \in Conn : hpc[c] \in {"reply", "last"} => ~cur[c].oneway
    /\ \A t \in Thread : /\ pc[t] = "recv" => ~oneway[t]
                         /\ pc[t] # "idle" => answer[t] = None

(* A connection is used only after it has been made                        *)
(* (__pyroCreateConnection).                                               *)
LEMMA LinksInvariant == Spec => []LinksInv
<1>1. Init => LinksInv
  <2> SUFFICES ASSUME Init PROVE LinksInv
    OBVIOUS
  <2>1. MaxConn \in Nat \ {0} /\ None \notin Nat
    BY CallAssumption
  <2>2. CASE KeepOpen
    <3>1. conn = 1 /\ made = 1
      BY <2>2 DEF Init
    <3>a. serverUp = [c \in Conn |-> KeepOpen /\ c = 1]
      BY DEF Init
    <3>b. ASSUME NEW c \in Conn, c > 1 PROVE ~serverUp[c]
      <4>1. c # 1
        BY <3>b, <2>1 DEF Conn
      <4>2. QED
        BY <3>a, <4>1
    <3>2. \A c \in Conn : req[c] = <<>> /\ rep[c] = <<>> /\ hpc[c] = "recv"
      BY DEF Init
    <3>3. QED
      BY <3>1, <3>b, <3>2 DEF LinksInv
  <2>3. CASE ~KeepOpen
    BY <2>1, <2>3 DEF Init, LinksInv, Conn
  <2>4. QED
    BY <2>2, <2>3
<1>2. Typed /\ LinksInv /\ [Next]_vars => LinksInv'
  <2> SUFFICES ASSUME Typed, LinksInv, [Next]_vars PROVE LinksInv'
    OBVIOUS
  <2>a. MaxConn \in Nat /\ None \notin Nat /\ Conn = 1 .. MaxConn /\ made \in 0 .. MaxConn
    BY CallAssumption DEF Conn, Typed, ClientTyped
  <2>b. /\ serverUp = [c \in Conn |-> serverUp[c]] /\ req = [c \in Conn |-> req[c]]
        /\ rep = [c \in Conn |-> rep[c]] /\ hpc = [c \in Conn |-> hpc[c]]
        /\ conn \in Conn \cup {None} /\ \A t \in Thread : pc[t] = "recv" => conn # None
    BY DEF Typed, ClientTyped, FlagsTyped, MessagesTyped
  <2> USE <2>a, <2>b DEF LinksInv, proxyVars, threadVars, linkVars, serverVars,
      history
  <2>1. ASSUME NEW t \in Thread, NEW k \in Call, Begin(t, k) PROVE LinksInv'
    BY <2>1 DEF Begin
  <2>2. ASSUME NEW t \in Thread, Invoke(t) PROVE LinksInv'
    <3>1. CASE Acquire(t)
      BY <3>1 DEF Acquire
    <3>2. CASE Connect(t)
      <4>1. conn' = made + 1 /\ made' = made + 1 /\ UNCHANGED <<req, rep, hpc>>
        BY <3>2 DEF Connect
      <4>2. serverUp' = [serverUp EXCEPT ![made'] = TRUE]
        BY <3>2 DEF Connect
      <4>3. QED
        BY <4>1, <4>2
    <3>3. CASE ConnectFails(t)
      BY <3>3 DEF ConnectFails, Retry, Finish
    <3>4. CASE Send(t)
      <4>1. conn \in Conn /\ conn <= made /\ conn' = conn /\ made' = made
        BY <3>4 DEF Send
      <4>2. UNCHANGED <<serverUp, rep, hpc>>
        BY <3>4 DEF Send
      <4>3. \A d \in Conn \ {conn} : req'[d] = req[d]
        BY <3>4 DEF Send
      <4>4. QED
        BY <4>1, <4>2, <4>3
    <3>5. CASE SendFails(t)
      BY <3>5 DEF SendFails, Release, Retry, Finish
    <3>6. CASE Receive(t)
      BY <3>6 DEF Receive, Finish
    <3>7. CASE ReceiveOutOfSync(t)
      BY <3>7 DEF ReceiveOutOfSync, Release, Finish
    <3>8. CASE ReceiveClosed(t)
      BY <3>8 DEF ReceiveClosed, Release, Retry, Finish
    <3>9. QED
      BY <2>2, <3>1, <3>2, <3>3, <3>4, <3>5, <3>6, <3>7, <3>8 DEF Invoke
  <2>3. ASSUME NEW t \in Thread, ReceiveTimeout(t) PROVE LinksInv'
    BY <2>3 DEF ReceiveTimeout, Release, Retry, Finish
  <2>4. ASSUME NEW t \in Thread, Interrupt(t) PROVE LinksInv'
    BY <2>4 DEF Interrupt, Release, Finish
  <2>5. ASSUME NEW c \in Conn, Server(c) PROVE LinksInv'
    <3>1. CASE Handle(c)
      <4>1. c <= made /\ made' = made /\ conn' = conn
        BY <3>1 DEF Handle
      <4>2. \A d \in Conn \ {c} : /\ serverUp'[d] = serverUp[d] /\ req'[d] = req[d]
                                    /\ rep'[d] = rep[d] /\ hpc'[d] = hpc[d]
        BY <3>1 DEF Handle
      <4>3. QED
        BY <4>1, <4>2
    <3>2. CASE Spawn(c)
      BY <3>2 DEF Spawn, ServerReady
    <3>3. CASE Execute(c)
      BY <3>3 DEF Execute, ServerReady, Ran
    <3>4. CASE ExecuteFatal(c)
      BY <3>4 DEF ExecuteFatal, Ran
    <3>5. CASE ExecuteCommError(c)
      <4>1. c <= made /\ made' = made /\ conn' = conn
        BY <3>5 DEF ExecuteCommError
      <4>2. \/ ServerDrops(c)
            \/ ServerReady(c) /\ serverUp' = serverUp /\ req' = req
        BY <3>5 DEF ExecuteCommError
      <4>3. rep' = rep
        BY <3>5 DEF ExecuteCommError
      <4>4. \A d \in Conn \ {c} : /\ serverUp'[d] = serverUp[d] /\ req'[d] = req[d]
                                    /\ rep'[d] = rep[d] /\ hpc'[d] = hpc[d]
        <5>1. CASE ServerDrops(c)
          BY <4>3, <5>1 DEF ServerDrops, ServerReady
        <5>2. CASE ServerReady(c) /\ serverUp' = serverUp /\ req' = req
          BY <4>3, <5>2 DEF ServerReady
        <5>3. QED
          BY <4>2, <5>1, <5>2
      <4>5. QED
        BY <4>1, <4>2, <4>3, <4>4
    <3>6. CASE Reply(c)
      BY <3>6 DEF Reply, Deliver, ServerReady
    <3>7. CASE ReplyAndDrop(c)
      BY <3>7 DEF ReplyAndDrop, Deliver, ServerDrops, ServerReady
    <3>8. QED
      BY <2>5, <3>1, <3>2, <3>3, <3>4, <3>5, <3>6, <3>7 DEF Server
  <2>6. ASSUME NEW c \in Conn, Disconnect(c) PROVE LinksInv'
    <3>1. c <= made /\ made' = made /\ conn' = conn
      BY <2>6 DEF Disconnect
    <3>2. \A d \in Conn \ {c} : /\ serverUp'[d] = serverUp[d] /\ req'[d] = req[d]
                                  /\ rep'[d] = rep[d] /\ hpc'[d] = hpc[d]
      BY <2>6 DEF Disconnect, ServerDrops, ServerReady
    <3>3. QED
      BY <3>1, <3>2
  <2>7. ASSUME NEW c \in Conn, Break(c) PROVE LinksInv'
    <3>1. rep' = rep \/ rep' = [rep EXCEPT ![c] = <<>>]
      BY <2>7 DEF Break
    <3>2. c <= made /\ made' = made /\ conn' = conn
      BY <2>7 DEF Break
    <3>3. \A d \in Conn \ {c} : rep'[d] = rep[d]
      <4>1. CASE rep' = rep
        BY <3>1, <4>1
      <4>2. CASE rep' = [rep EXCEPT ![c] = <<>>]
        BY <3>1, <4>2
      <4>3. QED
        BY <3>1, <4>1, <4>2
    <3>4. \A d \in Conn \ {c} : /\ serverUp'[d] = serverUp[d] /\ req'[d] = req[d]
                                  /\ rep'[d] = rep[d] /\ hpc'[d] = hpc[d]
      BY <2>7, <3>3 DEF Break
    <3>5. QED
      BY <3>1, <3>2, <3>3, <3>4
  <2>8. ASSUME NEW m \in spawned, RunSpawned(m) PROVE LinksInv'
    BY <2>8 DEF RunSpawned, Ran
  <2>9. CASE UNCHANGED vars
    BY <2>9 DEF vars
  <2>10. QED
    BY <2>1, <2>2, <2>3, <2>4, <2>5, <2>6, <2>7, <2>8, <2>9 DEF Next
<1>3. QED
  BY <1>1, <1>2, TypedInvariant, PTL DEF Spec

(* Handlers and threads agree on which calls are oneway. *)
LEMMA WaitInvariant == Spec => []WaitInv
<1>1. Init => WaitInv
  BY DEF Init, WaitInv
<1>2. Typed /\ WaitInv /\ [Next]_vars => WaitInv'
  <2> SUFFICES ASSUME Typed, WaitInv, [Next]_vars PROVE WaitInv'
    OBVIOUS
  <2> USE DEF WaitInv, Typed, ClientTyped, FlagsTyped, MessagesTyped, proxyVars,
      threadVars, linkVars, serverVars, history
  <2>1. ASSUME NEW t \in Thread, NEW k \in Call, Begin(t, k) PROVE WaitInv'
    BY <2>1 DEF Begin
  <2>2. ASSUME NEW t \in Thread, Invoke(t) PROVE WaitInv'
    <3>1. CASE Acquire(t)
      BY <3>1 DEF Acquire
    <3>2. CASE Connect(t)
      BY <3>2 DEF Connect, Conn
    <3>3. CASE ConnectFails(t)
      BY <3>3 DEF ConnectFails, Retry, Finish
    <3>4. CASE Send(t)
      BY <3>4 DEF Send, Finish
    <3>5. CASE SendFails(t)
      BY <3>5 DEF SendFails, Release, Retry, Finish
    <3>6. CASE Receive(t)
      BY <3>6 DEF Receive, Finish
    <3>7. CASE ReceiveOutOfSync(t)
      BY <3>7 DEF ReceiveOutOfSync, Release, Finish
    <3>8. CASE ReceiveClosed(t)
      BY <3>8 DEF ReceiveClosed, Release, Retry, Finish
    <3>9. QED
      BY <2>2, <3>1, <3>2, <3>3, <3>4, <3>5, <3>6, <3>7, <3>8 DEF Invoke
  <2>3. ASSUME NEW t \in Thread, ReceiveTimeout(t) PROVE WaitInv'
    BY <2>3 DEF ReceiveTimeout, Release, Retry, Finish
  <2>4. ASSUME NEW t \in Thread, Interrupt(t) PROVE WaitInv'
    BY <2>4 DEF Interrupt, Release, Finish
  <2>5. ASSUME NEW c \in Conn, Server(c) PROVE WaitInv'
    <3>1. CASE Handle(c)
      BY <3>1 DEF Handle, Free
    <3>2. CASE Spawn(c)
      BY <3>2 DEF Spawn, ServerReady
    <3>3. CASE Execute(c)
      BY <3>3 DEF Execute, ServerReady, Ran
    <3>4. CASE ExecuteFatal(c)
      BY <3>4 DEF ExecuteFatal, Ran
    <3>5. CASE ExecuteCommError(c)
      <4>1. hpc' = [hpc EXCEPT ![c] = "recv"] /\ cur' = [cur EXCEPT ![c] = None]
        BY <3>5 DEF ExecuteCommError, ServerReady, ServerDrops
      <4>2. UNCHANGED <<pc, oneway, answer>>
        BY <3>5 DEF ExecuteCommError
      <4>3. QED
        BY <4>1, <4>2
    <3>6. CASE Reply(c)
      BY <3>6 DEF Reply, Deliver, ServerReady
    <3>7. CASE ReplyAndDrop(c)
      BY <3>7 DEF ReplyAndDrop, Deliver, ServerDrops, ServerReady
    <3>8. QED
      BY <2>5, <3>1, <3>2, <3>3, <3>4, <3>5, <3>6, <3>7 DEF Server
  <2>6. ASSUME NEW c \in Conn, Disconnect(c) PROVE WaitInv'
    BY <2>6 DEF Disconnect, ServerDrops, ServerReady
  <2>7. ASSUME NEW c \in Conn, Break(c) PROVE WaitInv'
    BY <2>7 DEF Break
  <2>8. ASSUME NEW m \in spawned, RunSpawned(m) PROVE WaitInv'
    BY <2>8 DEF RunSpawned, Ran
  <2>9. CASE UNCHANGED vars
    BY <2>9 DEF vars
  <2>10. QED
    BY <2>1, <2>2, <2>3, <2>4, <2>5, <2>6, <2>7, <2>8, <2>9 DEF Next
<1>3. QED
  BY <1>1, <1>2, TypedInvariant, PTL DEF Spec

-----------------------------------------------------------------------------
(* Sequences: what the provers need to know of a queue. *)
LEMMA QueueGrows ==
    ASSUME NEW S, NEW s \in Seq(S), NEW x \in S
    PROVE  /\ Len(s) \in Nat /\ Len(Append(s, x)) = Len(s) + 1
           /\ Append(s, x)[Len(s) + 1] = x
           /\ \A i \in 1 .. Len(s) : Append(s, x)[i] = s[i]
OBVIOUS

(* The first one in an empty queue. *)
LEMMA QueueStarts ==
    ASSUME NEW x
    PROVE  Len(Append(<<>>, x)) = 1 /\ Append(<<>>, x)[1] = x
OBVIOUS

(* A queue without messages. *)
LEMMA QueueEmpty ==
    ASSUME NEW S, NEW s \in Seq(S), Len(s) = 0
    PROVE  s = <<>>
OBVIOUS

(* A thread waits for a reply, and m has to do with its call and attempt. *)
Waiting == lock # None /\ pc[lock] = "recv"

Awaited(m) == Waiting /\ m.call = call[lock] /\ m.attempt = attempt[lock]

(* On connection c there is at most one message that is not oneway, be it  *)
(* a request on its way, the one being handled or a reply: the last one    *)
(* sent, that of the thread that waits.                                    *)
OnlyAwaited(c) ==
    /\ \A i \in 1 .. Len(req[c]) :
        ~req[c][i].oneway => i = Len(req[c]) /\ Awaited(req[c][i])
    /\ hpc[c] # "recv" /\ ~cur[c].oneway => req[c] = <<>> /\ Awaited(cur[c])
    /\ rep[c] # <<>> => /\ Len(rep[c]) = 1 /\ Awaited(rep[c][1])
                        /\ req[c] = <<>> /\ hpc[c] = "recv"

(* The connection that the proxy keeps has nothing else under way:         *)
(* whatever might come later goes with the connection (lines 479-487).     *)
AwaitInv == ~KeepOpen /\ conn # None => OnlyAwaited(conn)

NothingAwaited(c) ==
    /\ \A i \in 1 .. Len(req[c]) : req[c][i].oneway
    /\ hpc[c] # "recv" => cur[c].oneway
    /\ rep[c] = <<>>

(* When no thread waits, all that is under way is oneway. *)
LEMMA Idle ==
    ASSUME NEW c \in Conn, OnlyAwaited(c), ~Waiting
    PROVE  NothingAwaited(c)
BY DEF OnlyAwaited, Awaited, NothingAwaited

(* The converse, after a step. *)
LEMMA IdleAgain ==
    ASSUME NothingAwaited(conn)'
    PROVE  OnlyAwaited(conn)'
BY DEF NothingAwaited, OnlyAwaited

(* A step elsewhere. *)
LEMMA Undisturbed ==
    ASSUME OnlyAwaited(conn), conn' = conn, lock' = lock,
           req'[conn] = req[conn], rep'[conn] = rep[conn],
           hpc'[conn] = hpc[conn], cur'[conn] = cur[conn],
           lock # None => /\ pc'[lock] = pc[lock] /\ call'[lock] = call[lock]
                          /\ attempt'[lock] = attempt[lock]
    PROVE  OnlyAwaited(conn)'
BY DEF OnlyAwaited, Awaited, Waiting

(* Each action by itself: sending needs a connection with nothing under    *)
(* way, replying needs that nothing else was sent, and every way out of    *)
(* the call but the reply itself releases the connection.                  *)
LEMMA AwaitInvariant == Spec => []AwaitInv
<1>1. Init => AwaitInv
  BY DEF Init, AwaitInv
<1>2. Typed /\ LinksInv /\ WaitInv /\ AwaitInv /\ [Next]_vars => AwaitInv'
  <2> SUFFICES ASSUME Typed, LinksInv, WaitInv, AwaitInv, [Next]_vars,
                      ~KeepOpen, conn' # None
               PROVE  OnlyAwaited(conn)'
    BY ConfigKept DEF AwaitInv, KeepOpen
  <2>a. /\ MaxConn \in Nat /\ None \notin Nat /\ Conn = 1 .. MaxConn
        /\ made \in 0 .. MaxConn /\ None \notin Thread
    BY CallAssumption DEF Conn, Typed, ClientTyped
  <2>b. /\ req \in [Conn -> Seq(Message)] /\ rep \in [Conn -> Seq(Message)]
        /\ hpc = [c \in Conn |-> hpc[c]] /\ cur = [c \in Conn |-> cur[c]]
        /\ \A c \in Conn : hpc[c] # "recv" => cur[c] \in Message
    BY DEF Typed, MessagesTyped
  <2>c. /\ pc = [t \in Thread |-> pc[t]] /\ call = [t \in Thread |-> call[t]]
        /\ attempt = [t \in Thread |-> attempt[t]]
        /\ lock \in Thread \cup {None} /\ conn \in Conn \cup {None}
        /\ \A t \in Thread : /\ pc[t] \in {"invoke", "recv"} <=> lock = t
                             /\ pc[t] = "recv" => conn # None
    BY DEF Typed, ClientTyped
  <2>d. conn # None => OnlyAwaited(conn)
    BY DEF AwaitInv
  <2> USE DEF proxyVars, threadVars, linkVars, serverVars, history
  <2>1. ASSUME NEW t \in Thread, NEW k \in Call, Begin(t, k) PROVE OnlyAwaited(conn)'
    <3>1. conn' = conn /\ UNCHANGED <<lock, req, rep, hpc, cur>>
      BY <2>1, <2>a, <2>b, <2>c, <2>d DEF Begin
    <3>2. lock # t
      BY <2>1, <2>a, <2>b, <2>c, <2>d DEF Begin
    <3>3. lock # None =>
          /\ pc'[lock] = pc[lock] /\ call'[lock] = call[lock]
          /\ attempt'[lock] = attempt[lock]
      BY <2>1, <3>2, <2>a, <2>b, <2>c, <2>d DEF Begin
    <3>4. QED
      BY <2>d, <3>1, <3>3, Undisturbed
  <2>2. ASSUME NEW t \in Thread, Invoke(t) PROVE OnlyAwaited(conn)'
    <3>1. CASE Acquire(t)
      <4>1. conn' = conn /\ UNCHANGED <<req, rep, hpc, cur>> /\ lock = None
        BY <3>1, <2>a, <2>b, <2>c, <2>d DEF Acquire
      <4>2. NothingAwaited(conn)
        BY <4>1, Idle, <2>a, <2>b, <2>c, <2>d DEF Waiting
      <4>3. NothingAwaited(conn)'
        BY <4>1, <4>2, <2>a, <2>b, <2>c, <2>d DEF NothingAwaited
      <4>4. QED
        BY <4>3, IdleAgain
    <3>2. CASE Connect(t)
      <4>1. conn' \in Conn /\ conn' > made
        BY <3>2, <2>a, <2>b, <2>c, <2>d DEF Connect
      <4>2. /\ req'[conn'] = <<>> /\ rep'[conn'] = <<>> /\ hpc'[conn'] = "recv"
        BY <4>1, <3>2, <2>a, <2>b, <2>c, <2>d DEF Connect, LinksInv
      <4>3. QED
        BY <4>1, <4>2 DEF OnlyAwaited, Awaited
    <3>3. CASE ConnectFails(t)
      BY <3>3 DEF ConnectFails
    <3>4. CASE Send(t)
      <4>1. lock = t /\ pc[t] = "invoke" /\ conn' = conn /\ UNCHANGED <<rep, hpc, cur>>
        BY <2>c, <3>4 DEF Send
      <4>0. conn \in Conn /\ req[conn] \in Seq(Message)
        BY <2>a, <2>b, <2>c, <3>4 DEF Send
      <4>2. NothingAwaited(conn)
        BY <2>d, <4>0, <4>1, Idle DEF Waiting
      <4>3. CASE req'[conn] = req[conn]
        <5>1. NothingAwaited(conn)'
          BY <4>1, <4>2, <4>3 DEF NothingAwaited
        <5>2. QED
          BY <5>1, IdleAgain
      <4>4. CASE req'[conn] = Append(req[conn], Request(t, NextSeq))
        <5>1. /\ Request(t, NextSeq) \in Message
              /\ Request(t, NextSeq).call = call[t] /\ Request(t, NextSeq).attempt = attempt[t]
              /\ Request(t, NextSeq).oneway = oneway[t]
          BY <4>1, RequestSent DEF Typed
        <5>a. /\ Len(req[conn]) \in Nat /\ Len(req'[conn]) = Len(req[conn]) + 1
              /\ req'[conn][Len(req[conn]) + 1] = Request(t, NextSeq)
              /\ \A i \in 1 .. Len(req[conn]) : req'[conn][i] = req[conn][i]
          BY <4>0, <4>4, <5>1, QueueGrows
        <5>2. CASE oneway[t]
          <6>a. Request(t, NextSeq).oneway
            BY <5>1, <5>2
          <6>b. \A i \in 1 .. Len(req'[conn]) : req'[conn][i].oneway
            BY <4>2, <5>a, <6>a DEF NothingAwaited
          <6>1. NothingAwaited(conn)'
            BY <4>1, <4>2, <6>b DEF NothingAwaited
          <6>2. QED
            BY <6>1, IdleAgain
        <5>3. CASE ~oneway[t]
          <6>1. /\ lock' = t /\ pc'[t] = "recv" /\ call'[t] = call[t]
                /\ attempt'[t] = attempt[t]
            BY <2>c, <3>4, <4>1, <5>3 DEF Send
          <6>2. \A i \in 1 .. Len(req'[conn]) : ~req'[conn][i].oneway => i = Len(req'[conn])
            BY <4>2, <5>a DEF NothingAwaited
          <6>3. /\ req'[conn][Len(req'[conn])].call = call[t]
                /\ req'[conn][Len(req'[conn])].attempt = attempt[t]
            BY <5>1, <5>a
          <6>4. /\ hpc[conn] # "recv" => cur[conn].oneway
                /\ rep[conn] = <<>> /\ t # None
            BY <2>a, <4>2 DEF NothingAwaited
          <6>5. QED
            BY <4>1, <6>1, <6>2, <6>3, <6>4 DEF OnlyAwaited, Awaited, Waiting
        <5>4. QED
          BY <5>2, <5>3
      <4>5. QED
        BY <2>b, <3>4, <4>0, <4>1, <4>3, <4>4 DEF Send
    <3>5. CASE SendFails(t)
      BY <3>5 DEF SendFails, Release
    <3>6. CASE Receive(t)
      <4>1. conn' = conn /\ UNCHANGED <<req, hpc, cur>> /\ rep[conn] # <<>>
        BY <3>6, <2>a, <2>b, <2>c, <2>d DEF Receive
      <4>2. rep'[conn] = Tail(rep[conn])
        BY <3>6, <2>a, <2>b, <2>c, <2>d DEF Receive
      <4>3. Len(rep[conn]) = 1 /\ req[conn] = <<>> /\ hpc[conn] = "recv"
        BY <4>1, <2>a, <2>b, <2>c, <2>d DEF OnlyAwaited
      <4>4. Tail(rep[conn]) \in Seq(Message) /\ Len(Tail(rep[conn])) = 0
        BY <4>1, <4>3, <2>a, <2>b, <2>c, <2>d
      <4>5. rep'[conn] = <<>>
        BY <4>2, <4>4, QueueEmpty, <2>a, <2>b, <2>c, <2>d
      <4>6. NothingAwaited(conn)'
        BY <4>1, <4>3, <4>5 DEF NothingAwaited
      <4>7. QED
        BY <4>6, IdleAgain
    <3>7. CASE ReceiveOutOfSync(t)
      BY <3>7 DEF ReceiveOutOfSync, Release
    <3>8. CASE ReceiveClosed(t)
      BY <3>8 DEF ReceiveClosed, Release
    <3>9. QED
      BY <2>2, <3>1, <3>2, <3>3, <3>4, <3>5, <3>6, <3>7, <3>8 DEF Invoke
  <2>3. ASSUME NEW t \in Thread, ReceiveTimeout(t) PROVE OnlyAwaited(conn)'
    BY <2>3 DEF ReceiveTimeout, Release
  <2>4. ASSUME NEW t \in Thread, Interrupt(t) PROVE OnlyAwaited(conn)'
    BY <2>4 DEF Interrupt, Release
  <2>5. ASSUME NEW c \in Conn, Server(c) PROVE OnlyAwaited(conn)'
    <3>1. CASE Handle(c)
      <4>1. conn' = conn /\ UNCHANGED <<lock, pc, call, attempt>>
        BY <3>1 DEF Handle
      <4>2. CASE c # conn
        <5>1. /\ req'[conn] = req[conn] /\ rep'[conn] = rep[conn]
              /\ hpc'[conn] = hpc[conn] /\ cur'[conn] = cur[conn]
          BY <3>1, <4>1, <4>2, <2>a, <2>b, <2>c, <2>d DEF Handle, Free
        <5>2. QED
          BY <2>a, <2>c, <2>d, <4>1, <5>1, Undisturbed
      <4>3. CASE c = conn
        <5>1. /\ conn \in Conn /\ OnlyAwaited(conn)
              /\ req[conn] \in Seq(Message) /\ rep[conn] \in Seq(Message)
          BY <4>3, <2>a, <2>b, <2>d
        <5>2. /\ hpc[conn] = "recv" /\ req[conn] # <<>>
              /\ req'[conn] = Tail(req[conn]) /\ rep'[conn] = rep[conn]
              /\ cur'[conn] = Head(req[conn])
          BY <5>1, <2>b, <3>1, <4>1, <4>3 DEF Handle
        <5>3. rep'[conn] = <<>>
          BY <5>1, <5>2 DEF OnlyAwaited
        <5>4. /\ Head(req[conn]) = req[conn][1] /\ Len(req[conn]) \in Nat \ {0}
              /\ Len(Tail(req[conn])) = Len(req[conn]) - 1
              /\ \A i \in 1 .. Len(Tail(req[conn])) : Tail(req[conn])[i] = req[conn][i + 1]
          BY <5>1, <5>2
        <5>5. ~Head(req[conn]).oneway =>
              Tail(req[conn]) = <<>> /\ Awaited(Head(req[conn]))
          BY <5>1, <5>2, <5>4 DEF OnlyAwaited
        <5>6. QED
          BY <4>1, <5>1, <5>2, <5>3, <5>4, <5>5 DEF OnlyAwaited, Awaited,
             Waiting
      <4>4. QED
        BY <4>2, <4>3
    <3>2. CASE Spawn(c)
      <4>1. conn' = conn /\ UNCHANGED <<lock, pc, call, attempt>>
        BY <3>2 DEF Spawn
      <4>2. CASE c # conn
        <5>1. /\ req'[conn] = req[conn] /\ rep'[conn] = rep[conn]
              /\ hpc'[conn] = hpc[conn] /\ cur'[conn] = cur[conn]
          BY <3>2, <4>1, <4>2, <2>a, <2>b, <2>c, <2>d DEF Spawn,
             ServerReady
        <5>2. QED
          BY <2>a, <2>c, <2>d, <4>1, <5>1, Undisturbed
      <4>3. CASE c = conn
        <5>1. /\ conn \in Conn /\ OnlyAwaited(conn)
              /\ req[conn] \in Seq(Message) /\ rep[conn] \in Seq(Message)
          BY <4>3, <2>a, <2>b, <2>d
        <5>2. /\ hpc[conn] = "exec" /\ hpc'[conn] = "recv" /\ cur'[conn] = None
              /\ req'[conn] = req[conn] /\ rep'[conn] = rep[conn]
          BY <5>1, <2>b, <3>2, <4>1, <4>3 DEF Spawn, ServerReady
        <5>3. QED
          BY <4>1, <5>1, <5>2 DEF OnlyAwaited, Awaited, Waiting
      <4>4. QED
        BY <4>2, <4>3
    <3>3. CASE Execute(c)
      <4>1. conn' = conn /\ UNCHANGED <<lock, pc, call, attempt>>
        BY <3>3 DEF Execute
      <4>2. CASE c # conn
        <5>1. /\ req'[conn] = req[conn] /\ rep'[conn] = rep[conn]
              /\ hpc'[conn] = hpc[conn] /\ cur'[conn] = cur[conn]
          BY <3>3, <4>1, <4>2, <2>a, <2>b, <2>c, <2>d DEF Execute,
             ServerReady, Ran
        <5>2. QED
          BY <2>a, <2>c, <2>d, <4>1, <5>1, Undisturbed
      <4>3. CASE c = conn
        <5>1. /\ conn \in Conn /\ OnlyAwaited(conn)
              /\ req[conn] \in Seq(Message) /\ rep[conn] \in Seq(Message)
          BY <4>3, <2>a, <2>b, <2>d
        <5>2. /\ hpc[conn] = "exec" /\ req'[conn] = req[conn] /\ rep'[conn] = rep[conn]
              /\ IF cur[conn].oneway THEN hpc'[conn] = "recv" /\ cur'[conn] = None
                 ELSE hpc'[conn] = "reply" /\ cur'[conn] = cur[conn]
          BY <5>1, <2>b, <3>3, <4>1, <4>3 DEF Execute, ServerReady
        <5>3. QED
          BY <4>1, <5>1, <5>2 DEF OnlyAwaited, Awaited, Waiting
      <4>4. QED
        BY <4>2, <4>3
    <3>4. CASE ExecuteFatal(c)
      <4>1. conn' = conn /\ UNCHANGED <<lock, pc, call, attempt>>
        BY <3>4 DEF ExecuteFatal
      <4>2. CASE c # conn
        <5>1. /\ req'[conn] = req[conn] /\ rep'[conn] = rep[conn]
              /\ hpc'[conn] = hpc[conn] /\ cur'[conn] = cur[conn]
          BY <3>4, <4>1, <4>2, <2>a, <2>b, <2>c, <2>d DEF ExecuteFatal,
             Ran
        <5>2. QED
          BY <2>a, <2>c, <2>d, <4>1, <5>1, Undisturbed
      <4>3. CASE c = conn
        <5>1. /\ conn \in Conn /\ OnlyAwaited(conn)
              /\ req[conn] \in Seq(Message) /\ rep[conn] \in Seq(Message)
          BY <4>3, <2>a, <2>b, <2>d
        <5>2. /\ hpc[conn] = "exec" /\ hpc'[conn] = "last" /\ ~cur[conn].oneway
              /\ req'[conn] = req[conn] /\ rep'[conn] = rep[conn]
          BY <5>1, <2>b, <3>4, <4>1, <4>3 DEF ExecuteFatal
        <5>3. rep[conn] = <<>> /\ req[conn] = <<>> /\ Awaited(cur[conn])
          BY <5>1, <5>2 DEF OnlyAwaited
        <5>4. PICK s \in 0 .. SeqMod - 1 :
              cur' = [cur EXCEPT ![c] = [cur[c] EXCEPT !.seq = s]]
          BY <5>1, <2>b, <3>4, <4>1, <4>3 DEF ExecuteFatal
        <5>5. cur[c] \in Message /\ cur'[c] = [cur[c] EXCEPT !.seq = s]
          BY <5>1, <2>b, <5>2, <5>4, <3>4, <4>1, <4>3 DEF ExecuteFatal
        <5>6. /\ [cur[c] EXCEPT !.seq = s].call = cur[c].call
              /\ [cur[c] EXCEPT !.seq = s].attempt = cur[c].attempt
          BY <5>1, <5>5, Renumbered
        <5>7. cur'[conn].call = cur[conn].call /\ cur'[conn].attempt = cur[conn].attempt
          BY <5>1, <5>5, <5>6, <4>3
        <5>8. QED
          BY <4>1, <5>1, <5>2, <5>3, <5>4, <5>5, <5>6, <5>7 DEF
             OnlyAwaited, Awaited, Waiting
      <4>4. QED
        BY <4>2, <4>3
    <3>5. CASE ExecuteCommError(c)
      <4>1. conn' = conn /\ UNCHANGED <<lock, pc, call, attempt>>
        BY <3>5 DEF ExecuteCommError
      <4>2. CASE c # conn
        <5>1. /\ req'[conn] = req[conn] /\ rep'[conn] = rep[conn]
              /\ hpc'[conn] = hpc[conn] /\ cur'[conn] = cur[conn]
          BY <3>5, <4>1, <4>2, <2>a, <2>b, <2>c, <2>d DEF
             ExecuteCommError, ServerReady, ServerDrops, Ran
        <5>2. QED
          BY <2>a, <2>c, <2>d, <4>1, <5>1, Undisturbed
      <4>3. CASE c = conn
        <5>1. /\ conn \in Conn /\ OnlyAwaited(conn)
              /\ req[conn] \in Seq(Message) /\ rep[conn] \in Seq(Message)
          BY <4>3, <2>a, <2>b, <2>d
        <5>2. hpc[conn] = "exec" /\ rep'[conn] = rep[conn] /\ hpc'[conn] = "recv" /\ cur'[conn] = None
          BY <5>1, <2>b, <3>5, <4>1, <4>3 DEF ExecuteCommError,
             ServerReady, ServerDrops
        <5>3. req'[conn] \in {req[conn], <<>>}
          BY <5>1, <2>b, <3>5, <4>1, <4>3 DEF ExecuteCommError,
             ServerReady, ServerDrops
        <5>4. rep[conn] = <<>>
          BY <5>1, <5>2 DEF OnlyAwaited
        <5>5. QED
          BY <4>1, <5>1, <5>2, <5>3, <5>4 DEF OnlyAwaited, Awaited,
             Waiting
      <4>4. QED
        BY <4>2, <4>3
    <3>6. CASE Reply(c)
      <4>1. conn' = conn /\ UNCHANGED <<lock, pc, call, attempt>>
        BY <3>6 DEF Reply
      <4>2. CASE c # conn
        <5>1. /\ req'[conn] = req[conn] /\ rep'[conn] = rep[conn]
              /\ hpc'[conn] = hpc[conn] /\ cur'[conn] = cur[conn]
          BY <3>6, <4>1, <4>2, <2>a, <2>b, <2>c, <2>d DEF Reply, Deliver,
             ServerReady
        <5>2. QED
          BY <2>a, <2>c, <2>d, <4>1, <5>1, Undisturbed
      <4>3. CASE c = conn
        <5>1. /\ conn \in Conn /\ OnlyAwaited(conn)
              /\ req[conn] \in Seq(Message) /\ rep[conn] \in Seq(Message)
          BY <4>3, <2>a, <2>b, <2>d
        <5>2. /\ hpc[conn] = "reply" /\ hpc'[conn] = "recv" /\ cur'[conn] = None
              /\ req'[conn] \in {req[conn], <<>>}
          BY <5>1, <2>b, <3>6, <4>1, <4>3 DEF Reply, Deliver, ServerReady
        <5>3. ~cur[conn].oneway
          BY <5>1, <2>b, <5>2, <3>6, <4>1, <4>3 DEF Reply, Deliver,
             ServerReady, WaitInv
        <5>4. rep[conn] = <<>> /\ req[conn] = <<>> /\ Awaited(cur[conn])
          BY <5>1, <5>2, <5>3 DEF OnlyAwaited
        <5>5. rep'[conn] \in {rep[conn], Append(rep[conn], cur[conn])}
          BY <5>1, <2>b, <3>6, <4>1, <4>3 DEF Reply, Deliver, ServerReady
        <5>6. /\ cur[conn] \in Message /\ Append(rep[conn], cur[conn])[1] = cur[conn]
              /\ Len(Append(rep[conn], cur[conn])) = 1
          BY <5>1, <5>2, <5>4, <2>b, QueueStarts
        <5>7. QED
          BY <4>1, <5>1, <5>2, <5>3, <5>4, <5>5, <5>6 DEF OnlyAwaited,
             Awaited, Waiting
      <4>4. QED
        BY <4>2, <4>3
    <3>7. CASE ReplyAndDrop(c)
      <4>1. conn' = conn /\ UNCHANGED <<lock, pc, call, attempt>>
        BY <3>7 DEF ReplyAndDrop
      <4>2. CASE c # conn
        <5>1. /\ req'[conn] = req[conn] /\ rep'[conn] = rep[conn]
              /\ hpc'[conn] = hpc[conn] /\ cur'[conn] = cur[conn]
          BY <3>7, <4>1, <4>2, <2>a, <2>b, <2>c, <2>d DEF ReplyAndDrop,
             Deliver, ServerDrops, ServerReady
        <5>2. QED
          BY <2>a, <2>c, <2>d, <4>1, <5>1, Undisturbed
      <4>3. CASE c = conn
        <5>1. /\ conn \in Conn /\ OnlyAwaited(conn)
              /\ req[conn] \in Seq(Message) /\ rep[conn] \in Seq(Message)
          BY <4>3, <2>a, <2>b, <2>d
        <5>2. /\ hpc[conn] = "last" /\ hpc'[conn] = "recv" /\ cur'[conn] = None
              /\ req'[conn] \in {req[conn], <<>>}
          BY <5>1, <2>b, <3>7, <4>1, <4>3 DEF ReplyAndDrop, Deliver,
             ServerDrops, ServerReady
        <5>3. ~cur[conn].oneway
          BY <5>1, <2>b, <5>2, <3>7, <4>1, <4>3 DEF ReplyAndDrop, Deliver,
             ServerDrops, ServerReady, WaitInv
        <5>4. rep[conn] = <<>> /\ req[conn] = <<>> /\ Awaited(cur[conn])
          BY <5>1, <5>2, <5>3 DEF OnlyAwaited
        <5>5. rep'[conn] \in {rep[conn], Append(rep[conn], cur[conn])}
          BY <5>1, <2>b, <3>7, <4>1, <4>3 DEF ReplyAndDrop, Deliver,
             ServerDrops, ServerReady
        <5>6. /\ cur[conn] \in Message /\ Append(rep[conn], cur[conn])[1] = cur[conn]
              /\ Len(Append(rep[conn], cur[conn])) = 1
          BY <5>1, <5>2, <5>4, <2>b, QueueStarts
        <5>7. QED
          BY <4>1, <5>1, <5>2, <5>3, <5>4, <5>5, <5>6 DEF OnlyAwaited,
             Awaited, Waiting
      <4>4. QED
        BY <4>2, <4>3
    <3>8. QED
      BY <2>5, <3>1, <3>2, <3>3, <3>4, <3>5, <3>6, <3>7 DEF Server
  <2>6. ASSUME NEW c \in Conn, Disconnect(c) PROVE OnlyAwaited(conn)'
    <3>1. conn' = conn /\ UNCHANGED <<lock, pc, call, attempt>>
      BY <2>6 DEF Disconnect
    <3>2. CASE c # conn
      <4>1. /\ req'[conn] = req[conn] /\ rep'[conn] = rep[conn]
            /\ hpc'[conn] = hpc[conn] /\ cur'[conn] = cur[conn]
        BY <2>6, <3>1, <3>2, <2>a, <2>b, <2>c, <2>d DEF Disconnect,
           ServerDrops, ServerReady
      <4>2. QED
        BY <2>a, <2>c, <2>d, <3>1, <4>1, Undisturbed
    <3>3. CASE c = conn
      <4>1. /\ conn \in Conn /\ OnlyAwaited(conn)
            /\ req[conn] \in Seq(Message) /\ rep[conn] \in Seq(Message)
        BY <3>3, <2>a, <2>b, <2>d
      <4>2. /\ hpc[conn] = "recv" /\ req'[conn] = <<>> /\ rep'[conn] = rep[conn]
            /\ hpc'[conn] = "recv" /\ cur'[conn] = None
        BY <4>1, <2>b, <2>6, <3>1, <3>3 DEF Disconnect, ServerReady,
           ServerDrops
      <4>3. QED
        BY <3>1, <4>1, <4>2 DEF OnlyAwaited, Awaited, Waiting
    <3>4. QED
      BY <3>2, <3>3
  <2>7. ASSUME NEW c \in Conn, Break(c) PROVE OnlyAwaited(conn)'
    <3>1. conn' = conn /\ UNCHANGED <<lock, pc, call, attempt>>
      BY <2>7 DEF Break
    <3>2. CASE c # conn
      <4>1. rep'[conn] = rep[conn]
        <5>1. CASE rep' = rep
          BY <3>1, <3>2, <2>a, <2>b, <2>c, <5>1
        <5>2. CASE rep' = [rep EXCEPT ![c] = <<>>]
          BY <3>1, <3>2, <2>a, <2>b, <2>c, <5>2
        <5>3. QED
          BY <2>7, <3>1, <3>2, <2>a, <2>b, <2>c, <5>1, <5>2 DEF Break
      <4>2. /\ req'[conn] = req[conn]
            /\ hpc'[conn] = hpc[conn] /\ cur'[conn] = cur[conn]
        BY <2>7, <3>1, <3>2, <2>a, <2>b, <2>c, <2>d DEF Break
      <4>3. QED
        BY <2>a, <2>c, <2>d, <3>1, <4>1, <4>2, Undisturbed
    <3>3. CASE c = conn
      <4>1. /\ conn \in Conn /\ OnlyAwaited(conn)
            /\ req[conn] \in Seq(Message) /\ rep[conn] \in Seq(Message)
        BY <3>3, <2>a, <2>b, <2>d
      <4>2. /\ req'[conn] = <<>> /\ rep'[conn] \in {rep[conn], <<>>}
            /\ hpc'[conn] = hpc[conn] /\ cur'[conn] = cur[conn]
        BY <4>1, <2>b, <2>7, <3>1, <3>3 DEF Break
      <4>3. QED
        BY <3>1, <4>1, <4>2 DEF OnlyAwaited, Awaited, Waiting
    <3>4. QED
      BY <3>2, <3>3
  <2>8. ASSUME NEW m \in spawned, RunSpawned(m) PROVE OnlyAwaited(conn)'
    BY <2>8, <2>d, Undisturbed DEF RunSpawned
  <2>9. CASE UNCHANGED vars
    BY <2>9, <2>d, Undisturbed DEF vars
  <2>10. QED
    BY <2>1, <2>2, <2>3, <2>4, <2>5, <2>6, <2>7, <2>8, <2>9 DEF Next
<1>3. QED
  BY <1>1, <1>2, TypedInvariant, LinksInvariant, WaitInvariant, PTL DEF Spec

(* A thread that leaves _pyroInvoke without an answer disturbs no other's. *)
LEMMA Ended ==
    ASSUME Typed, WaitInv, OwnAnswer, NEW t \in Thread, pc[t] \in {"invoke", "recv"},
           Retry(t) \/ \E o \in {"raised", "sent"} : Finish(t, o), answer' = answer
    PROVE  OwnAnswer'
<1>1. call' = call
  BY DEF Retry, Finish
<1>2. \A u \in Thread \ {t} : attempt'[u] = attempt[u]
  <2>1. attempt' = attempt \/ attempt' = [attempt EXCEPT ![t] = attempt[t] + 1]
    BY DEF Retry, Finish
  <2>2. attempt = [u \in Thread |-> attempt[u]]
    BY DEF Typed, ClientTyped
  <2>3. CASE attempt' = [attempt EXCEPT ![t] = attempt[t] + 1]
    BY <2>2, <2>3
  <2>4. QED
    BY <2>1, <2>3
<1>3. answer[t] = None
  BY DEF WaitInv
<1>4. QED
  BY <1>1, <1>2, <1>3 DEF OwnAnswer

(* No call ends with a reply that is not its own, or that belongs to an    *)
(* earlier attempt, on a connection that the proxy made: whatever the      *)
(* number of threads, calls and retries, and even if all sequence numbers  *)
(* are the same.                                                           *)
THEOREM AnswersAreOwn == Spec => [](~KeepOpen => OwnAnswer)
<1>1. Init => OwnAnswer
  BY DEF Init, OwnAnswer
<1>2. Typed /\ WaitInv /\ AwaitInv /\ (~KeepOpen => OwnAnswer) /\ [Next]_vars
        => (~KeepOpen => OwnAnswer)'
  <2> SUFFICES ASSUME Typed, WaitInv, AwaitInv, OwnAnswer, [Next]_vars, ~KeepOpen
               PROVE  OwnAnswer'
    BY ConfigKept DEF KeepOpen
  <2>b. /\ answer = [u \in Thread |-> answer[u]] /\ call = [u \in Thread |-> call[u]]
        /\ attempt = [u \in Thread |-> attempt[u]] /\ rep \in [Conn -> Seq(Message)]
        /\ conn \in Conn \cup {None} /\ \A t \in Thread : /\ pc[t] = "recv" => conn # None
                                                          /\ pc[t] = "recv" => lock = t
    BY DEF Typed, ClientTyped, MessagesTyped
  <2> USE DEF OwnAnswer, proxyVars, threadVars, linkVars, serverVars, history
  <2>1. ASSUME NEW t \in Thread, NEW k \in Call, Begin(t, k) PROVE OwnAnswer'
    <3>1. /\ answer' = [answer EXCEPT ![t] = None] /\ call' = [call EXCEPT ![t] = k]
          /\ attempt' = [attempt EXCEPT ![t] = 0]
      BY <2>1 DEF Begin
    <3>2. \A u \in Thread \ {t} : /\ answer'[u] = answer[u] /\ call'[u] = call[u]
                                    /\ attempt'[u] = attempt[u]
      BY <3>1, <2>b
    <3>3. answer'[t] = None
      BY <3>1, <2>b
    <3>4. QED
      BY <3>1, <3>2, <3>3
  <2>2. ASSUME NEW t \in Thread, Invoke(t) PROVE OwnAnswer'
    <3>1. CASE Acquire(t)
      BY <3>1 DEF Acquire
    <3>2. CASE Connect(t)
      BY <3>2 DEF Connect
    <3>3. CASE ConnectFails(t)
      BY <3>3, Ended DEF ConnectFails
    <3>4. CASE Send(t)
      <4>1. CASE oneway[t]
        BY <3>4, <4>1, Ended DEF Send
      <4>2. CASE ~oneway[t]
        <5>1. UNCHANGED <<call, attempt, answer>>
          BY <3>4, <4>2 DEF Send
        <5>2. QED
          BY <5>1
      <4>3. QED
        BY <4>1, <4>2
    <3>5. CASE SendFails(t)
      BY <3>5, Ended DEF SendFails
    <3>6. CASE Receive(t)
      <4>1. /\ lock = t /\ pc[t] = "recv" /\ conn \in Conn /\ rep[conn] # <<>>
            /\ UNCHANGED <<call, attempt>>
        BY <3>6, <2>b DEF Receive, Finish
      <4>2. rep[conn] \in Seq(Message) /\ Head(rep[conn]) = rep[conn][1]
        BY <4>1, <2>b
      <4>3. Awaited(Head(rep[conn]))
        BY <4>1, <4>2, <2>b DEF AwaitInv, OnlyAwaited
      <4>4. Head(rep[conn]).call = call[t] /\ Head(rep[conn]).attempt = attempt[t]
        BY <4>1, <4>3 DEF Awaited
      <4>5. answer' = [answer EXCEPT ![t] = Head(rep[conn])]
        BY <3>6 DEF Receive
      <4>6. \A u \in Thread \ {t} : answer'[u] = answer[u]
        BY <4>5, <2>b
      <4>7. answer'[t] = Head(rep[conn])
        BY <4>5, <2>b
      <4>8. QED
        BY <4>1, <4>4, <4>6, <4>7
    <3>7. CASE ReceiveOutOfSync(t)
      BY <3>7, Ended DEF ReceiveOutOfSync
    <3>8. CASE ReceiveClosed(t)
      BY <3>8, Ended DEF ReceiveClosed
    <3>9. QED
      BY <2>2, <3>1, <3>2, <3>3, <3>4, <3>5, <3>6, <3>7, <3>8 DEF Invoke
  <2>3. ASSUME NEW t \in Thread, ReceiveTimeout(t) PROVE OwnAnswer'
    BY <2>3, Ended DEF ReceiveTimeout
  <2>4. ASSUME NEW t \in Thread, Interrupt(t) PROVE OwnAnswer'
    BY <2>4, Ended DEF Interrupt
  <2>5. ASSUME NEW c \in Conn, Server(c) PROVE OwnAnswer'
    <3>1. CASE Handle(c)
      BY <3>1 DEF Handle
    <3>2. CASE Spawn(c)
      BY <3>2 DEF Spawn
    <3>3. CASE Execute(c)
      BY <3>3 DEF Execute
    <3>4. CASE ExecuteFatal(c)
      BY <3>4 DEF ExecuteFatal
    <3>5. CASE ExecuteCommError(c)
      BY <3>5 DEF ExecuteCommError
    <3>6. CASE Reply(c)
      BY <3>6 DEF Reply
    <3>7. CASE ReplyAndDrop(c)
      BY <3>7 DEF ReplyAndDrop
    <3>8. QED
      BY <2>5, <3>1, <3>2, <3>3, <3>4, <3>5, <3>6, <3>7 DEF Server
  <2>6. ASSUME NEW c \in Conn, Disconnect(c) PROVE OwnAnswer'
    BY <2>6 DEF Disconnect
  <2>7. ASSUME NEW c \in Conn, Break(c) PROVE OwnAnswer'
    BY <2>7 DEF Break
  <2>8. ASSUME NEW m \in spawned, RunSpawned(m) PROVE OwnAnswer'
    BY <2>8 DEF RunSpawned
  <2>9. CASE UNCHANGED vars
    BY <2>9 DEF vars
  <2>10. QED
    BY <2>1, <2>2, <2>3, <2>4, <2>5, <2>6, <2>7, <2>8, <2>9 DEF Next
<1>3. QED
  BY <1>1, <1>2, TypedInvariant, WaitInvariant, AwaitInvariant, PTL DEF Spec

(* Whenever nobody uses the proxy, nothing that could be taken for the     *)
(* reply to the next call is under way on the connection it keeps.         *)
THEOREM StaysInSync == Spec => []InSync
<1>1. Typed /\ AwaitInv => InSync
  <2> SUFFICES ASSUME Typed, AwaitInv, lock = None, conn # None, ~KeepOpen
               PROVE  /\ rep[conn] = <<>>
                      /\ \A i \in 1 .. Len(req[conn]) : req[conn][i].oneway
                      /\ cur[conn] # None => cur[conn].oneway
    BY DEF InSync
  <2>1. conn \in Conn /\ (hpc[conn] = "recv" => cur[conn] = None)
    BY DEF Typed, ClientTyped, MessagesTyped
  <2>2. NothingAwaited(conn)
    BY <2>1, Idle DEF AwaitInv, Waiting
  <2>3. QED
    BY <2>1, <2>2 DEF NothingAwaited
<1>2. QED
  BY <1>1, TypedInvariant, AwaitInvariant, PTL

(* What run calls checks, for the connections that the proxy makes itself. *)
THEOREM CallsCorrect == Spec => [](~KeepOpen => CallInv)
<1>1. TypeOK /\ InSync /\ (~KeepOpen => OwnAnswer) => (~KeepOpen => CallInv)
  BY DEF CallInv
<1>2. QED
  BY <1>1, TypeCorrect, StaysInSync, AnswersAreOwn, PTL

-----------------------------------------------------------------------------
(* A thread in a call has a call of its own, which is under way. *)
ThreadsInv ==
    /\ \A t \in Thread : pc[t] # "idle" => outcome[call[t]] = "pending"
    /\ \A t, u \in Thread : pc[t] # "idle" /\ pc[u] # "idle" /\ call[t] = call[u] => t = u

(* A call that ends, or is tried again, leaves the others alone. *)
LEMMA ThreadEnds ==
    ASSUME Typed, ThreadsInv, NEW t \in Thread, pc[t] # "idle",
           Retry(t) \/ \E o \in {"returned", "raised", "sent"} : Finish(t, o)
    PROVE  ThreadsInv'
<1>1. /\ pc = [u \in Thread |-> pc[u]] /\ outcome = [k \in Call |-> outcome[k]]
      /\ \A u \in Thread : pc[u] # "idle" => call[u] \in Call
  BY DEF Typed, ClientTyped
<1>2. CASE \E o \in {"returned", "raised", "sent"} : Finish(t, o)
  <2>1. PICK o \in {"returned", "raised", "sent"} :
            /\ outcome' = [outcome EXCEPT ![call[t]] = o] /\ call' = call
            /\ pc' = [pc EXCEPT ![t] = "idle"]
    BY <1>2 DEF Finish
  <2>2. \A u \in Thread \ {t} : pc'[u] = pc[u]
    BY <1>1, <2>1
  <2>3. pc'[t] = "idle"
    BY <1>1, <2>1
  <2>4. \A k \in Call : k # call[t] => outcome'[k] = outcome[k]
    BY <1>1, <2>1
  <2>5. \A u \in Thread \ {t} : pc[u] # "idle" => call[u] # call[t]
    BY DEF ThreadsInv
  <2>6. QED
    BY <1>1, <2>1, <2>2, <2>3, <2>4, <2>5 DEF ThreadsInv
<1>3. CASE Retry(t) /\ attempt[t] < MAX_RETRIES
  <2>1. pc' = [pc EXCEPT ![t] = "lock"] /\ UNCHANGED <<call, outcome>>
    BY <1>3 DEF Retry
  <2>2. \A u \in Thread : pc'[u] # "idle" => pc[u] # "idle"
    BY <1>1, <2>1
  <2>3. QED
    BY <2>1, <2>2 DEF ThreadsInv
<1>4. QED
  BY <1>2, <1>3 DEF Retry

(* Begin takes a call that nobody has made yet, and no thread has two. *)
LEMMA ThreadsInvariant == Spec => []ThreadsInv
<1>1. Init => ThreadsInv
  BY DEF Init, ThreadsInv
<1>2. Typed /\ ThreadsInv /\ [Next]_vars => ThreadsInv'
  <2> SUFFICES ASSUME Typed, ThreadsInv, [Next]_vars PROVE ThreadsInv'
    OBVIOUS
  <2>b. /\ pc = [u \in Thread |-> pc[u]] /\ outcome = [k \in Call |-> outcome[k]]
        /\ call = [u \in Thread |-> call[u]]
        /\ \A u \in Thread : pc[u] # "idle" => call[u] \in Call
    BY DEF Typed, ClientTyped
  <2> USE DEF proxyVars, threadVars, linkVars, serverVars, history
  <2>1. ASSUME NEW t \in Thread, NEW k \in Call, Begin(t, k) PROVE ThreadsInv'
    <3>1. /\ pc' = [pc EXCEPT ![t] = "lock"] /\ call' = [call EXCEPT ![t] = k]
          /\ outcome' = [outcome EXCEPT ![k] = "pending"]
      BY <2>1 DEF Begin
    <3>2. pc[t] = "idle" /\ outcome[k] = "none"
      BY <2>1 DEF Begin
    <3>3. \A u \in Thread : pc[u] # "idle" => call[u] \in Call /\ call[u] # k
      BY <3>2, <2>b DEF ThreadsInv
    <3>4. \A u \in Thread \ {t} : pc'[u] = pc[u] /\ call'[u] = call[u]
      BY <3>1, <2>b
    <3>5. call'[t] = k /\ outcome'[k] = "pending"
      BY <3>1, <2>b
    <3>6. \A j \in Call \ {k} : outcome'[j] = outcome[j]
      BY <3>1, <2>b
    <3>7. \A u \in Thread : pc'[u] # "idle" => outcome'[call'[u]] = "pending"
      BY <3>3, <3>4, <3>5, <3>6 DEF ThreadsInv
    <3>8. \A u, v \in Thread : pc'[u] # "idle" /\ pc'[v] # "idle" /\ call'[u] = call'[v] => u = v
      BY <3>3, <3>4, <3>5 DEF ThreadsInv
    <3>9. QED
      BY <3>7, <3>8 DEF ThreadsInv
  <2>2. ASSUME NEW t \in Thread, Invoke(t) PROVE ThreadsInv'
    <3>1. CASE Acquire(t)
      <4>1. pc' = [pc EXCEPT ![t] = "invoke"] /\ UNCHANGED <<call, outcome>> /\ pc[t] # "idle"
        BY <3>1 DEF Acquire
      <4>2. QED
        BY <4>1, <2>b DEF ThreadsInv
    <3>2. CASE Connect(t)
      <4>1. UNCHANGED <<pc, call, outcome>>
        BY <3>2 DEF Connect
      <4>2. QED
        BY <4>1 DEF ThreadsInv
    <3>3. CASE ConnectFails(t)
      BY <3>3, ThreadEnds DEF ConnectFails
    <3>4. CASE Send(t)
      <4>1. CASE oneway[t]
        BY <3>4, <4>1, ThreadEnds DEF Send
      <4>2. CASE ~oneway[t]
        <5>1. pc' = [pc EXCEPT ![t] = "recv"] /\ UNCHANGED <<call, outcome>>
          BY <3>4, <4>2 DEF Send
        <5>2. pc[t] # "idle"
          BY <3>4 DEF Send
        <5>3. QED
          BY <5>1, <5>2, <2>b DEF ThreadsInv
      <4>3. QED
        BY <4>1, <4>2
    <3>5. CASE SendFails(t)
      BY <3>5, ThreadEnds DEF SendFails
    <3>6. CASE Receive(t)
      BY <3>6, ThreadEnds DEF Receive
    <3>7. CASE ReceiveOutOfSync(t)
      BY <3>7, ThreadEnds DEF ReceiveOutOfSync
    <3>8. CASE ReceiveClosed(t)
      BY <3>8, ThreadEnds DEF ReceiveClosed
    <3>9. QED
      BY <2>2, <3>1, <3>2, <3>3, <3>4, <3>5, <3>6, <3>7, <3>8 DEF Invoke
  <2>3. ASSUME NEW t \in Thread, ReceiveTimeout(t) PROVE ThreadsInv'
    BY <2>3, ThreadEnds DEF ReceiveTimeout
  <2>4. ASSUME NEW t \in Thread, Interrupt(t) PROVE ThreadsInv'
    BY <2>4, ThreadEnds DEF Interrupt
  <2>5. ASSUME NEW c \in Conn, Server(c) PROVE ThreadsInv'
    <3>1. CASE Handle(c)
      <4>1. UNCHANGED <<pc, call, outcome>>
        BY <3>1 DEF Handle
      <4>2. QED
        BY <4>1 DEF ThreadsInv
    <3>2. CASE Spawn(c)
      <4>1. UNCHANGED <<pc, call, outcome>>
        BY <3>2 DEF Spawn
      <4>2. QED
        BY <4>1 DEF ThreadsInv
    <3>3. CASE Execute(c)
      <4>1. UNCHANGED <<pc, call, outcome>>
        BY <3>3 DEF Execute
      <4>2. QED
        BY <4>1 DEF ThreadsInv
    <3>4. CASE ExecuteFatal(c)
      <4>1. UNCHANGED <<pc, call, outcome>>
        BY <3>4 DEF ExecuteFatal
      <4>2. QED
        BY <4>1 DEF ThreadsInv
    <3>5. CASE ExecuteCommError(c)
      <4>1. UNCHANGED <<pc, call, outcome>>
        BY <3>5 DEF ExecuteCommError
      <4>2. QED
        BY <4>1 DEF ThreadsInv
    <3>6. CASE Reply(c)
      <4>1. UNCHANGED <<pc, call, outcome>>
        BY <3>6 DEF Reply
      <4>2. QED
        BY <4>1 DEF ThreadsInv
    <3>7. CASE ReplyAndDrop(c)
      <4>1. UNCHANGED <<pc, call, outcome>>
        BY <3>7 DEF ReplyAndDrop
      <4>2. QED
        BY <4>1 DEF ThreadsInv
    <3>8. QED
      BY <2>5, <3>1, <3>2, <3>3, <3>4, <3>5, <3>6, <3>7 DEF Server
  <2>6. ASSUME NEW c \in Conn, Disconnect(c) PROVE ThreadsInv'
    <3>1. UNCHANGED <<pc, call, outcome>>
      BY <2>6 DEF Disconnect
    <3>2. QED
      BY <3>1 DEF ThreadsInv
  <2>7. ASSUME NEW c \in Conn, Break(c) PROVE ThreadsInv'
    <3>1. UNCHANGED <<pc, call, outcome>>
      BY <2>7 DEF Break
    <3>2. QED
      BY <3>1 DEF ThreadsInv
  <2>8. ASSUME NEW m \in spawned, RunSpawned(m) PROVE ThreadsInv'
    <3>1. UNCHANGED <<pc, call, outcome>>
      BY <2>8 DEF RunSpawned
    <3>2. QED
      BY <3>1 DEF ThreadsInv
  <2>9. CASE UNCHANGED vars
    <3>1. UNCHANGED <<pc, call, outcome>>
      BY <2>9 DEF vars
    <3>2. QED
      BY <3>1 DEF ThreadsInv
  <2>10. QED
    BY <2>1, <2>2, <2>3, <2>4, <2>5, <2>6, <2>7, <2>8, <2>9 DEF Next
<1>3. QED
  BY <1>1, <1>2, TypedInvariant, PTL DEF Spec

-----------------------------------------------------------------------------
(* Requests that the server has not executed: place 0 is the one that      *)
(* handleRequest is about to execute, the places from 1 are the queue.     *)
Present(c, i) == i \in 1 .. Len(req[c]) \/ (i = 0 /\ hpc[c] = "exec")

At(c, i) == IF i = 0 THEN cur[c] ELSE req[c][i]

Same(m, n) == m.call = n.call /\ m.attempt = n.attempt

(* Attempt a of call k has not been sent. *)
Unsent(k, a) ==
    \/ outcome[k] = "none"
    \/ \E t \in Thread : /\ pc[t] # "idle" /\ call[t] = k
                         /\ a > attempt[t] \/ (a = attempt[t] /\ pc[t] # "recv")

(* What has been sent was sent once, and is in one place. *)
OnceInv ==
    /\ \A c, d \in Conn : \A i, j \in Nat :
        Present(c, i) /\ Present(d, j) /\ Same(At(c, i), At(d, j)) => c = d /\ i = j
    /\ \A m \in spawned, c \in Conn : \A i \in Nat : Present(c, i) => ~Same(m, At(c, i))
    /\ \A m, n \in spawned : Same(m, n) => m = n
    /\ \A m \in spawned : ~Unsent(m.call, m.attempt)
    /\ \A c \in Conn : \A i \in Nat : Present(c, i) => ~Unsent(At(c, i).call, At(c, i).attempt)

(* Each is a message. *)
LEMMA PresentTyped ==
    ASSUME Typed, NEW c \in Conn, NEW i \in Nat, Present(c, i)
    PROVE  /\ At(c, i) \in Message
           /\ At(c, i).call \in Call /\ At(c, i).attempt \in Nat
<1>1. req[c] \in Seq(Message) /\ (hpc[c] = "exec" => cur[c] \in Message)
  BY DEF Typed, MessagesTyped
<1>2. At(c, i) \in Message
  BY <1>1 DEF Present, At
<1>3. QED
  BY <1>2, MessageFields

(* Every request is where it was, or has moved up by one, or is gone. *)
LEMMA OnceMoves ==
    ASSUME OnceInv, NEW c \in Conn, NEW s \in {0, 1}, spawned' \subseteq spawned,
           \A d \in Conn \ {c} : \A i \in Nat :
               Present(d, i)' => Present(d, i) /\ At(d, i)' = At(d, i),
           \A i \in Nat : Present(c, i)' => Present(c, i + s) /\ At(c, i)' = At(c, i + s),
           \A k \in Call, a \in Nat : Unsent(k, a)' => Unsent(k, a),
           Typed
    PROVE  OnceInv'
<1> DEFINE from(d, i) == IF d = c THEN i + s ELSE i
<1>1. \A d \in Conn : \A i \in Nat :
          Present(d, i)' => /\ from(d, i) \in Nat /\ Present(d, from(d, i))
                            /\ At(d, i)' = At(d, from(d, i))
  OBVIOUS
<1>2. \A d \in Conn : \A i, j \in Nat : from(d, i) = from(d, j) => i = j
  OBVIOUS
<1> HIDE DEF from
<1>3. ASSUME NEW d \in Conn, NEW e \in Conn, NEW i \in Nat, NEW j \in Nat,
             Present(d, i)', Present(e, j)', Same(At(d, i), At(e, j))'
      PROVE  d = e /\ i = j
  <2>1. Same(At(d, from(d, i)), At(e, from(e, j)))
    BY <1>1, <1>3 DEF Same
  <2>2. d = e /\ from(d, i) = from(e, j)
    BY <1>1, <1>3, <2>1 DEF OnceInv
  <2>3. QED
    BY <1>2, <2>2
<1>4. ASSUME NEW m \in spawned', NEW d \in Conn, NEW i \in Nat, Present(d, i)'
      PROVE  ~Same(m, At(d, i))'
  <2>1. m \in spawned /\ ~Same(m, At(d, from(d, i)))
    BY <1>1, <1>4 DEF OnceInv
  <2>2. QED
    BY <1>1, <1>4, <2>1 DEF Same
<1>5. \A m, n \in spawned' : Same(m, n)' => m = n
  BY DEF OnceInv, Same
<1>6. ASSUME NEW m \in spawned' PROVE ~Unsent(m.call, m.attempt)'
  <2>1. m \in spawned /\ m.call \in Call /\ m.attempt \in Nat
    BY MessageFields, CallAssumption DEF Typed, MessagesTyped
  <2>2. QED
    BY <2>1 DEF OnceInv
<1>7. ASSUME NEW d \in Conn, NEW i \in Nat, Present(d, i)'
      PROVE  ~Unsent(At(d, i).call, At(d, i).attempt)'
  <2>1. from(d, i) \in Nat /\ Present(d, from(d, i)) /\ At(d, i)' = At(d, from(d, i))
    BY <1>1, <1>7
  <2>2. At(d, i)'.call \in Call /\ At(d, i)'.attempt \in Nat
    BY <2>1, PresentTyped
  <2>3. ~Unsent(At(d, i)'.call, At(d, i)'.attempt)
    BY <2>1 DEF OnceInv
  <2>4. QED
    BY <2>2, <2>3
<1>8. QED
  BY <1>3, <1>4, <1>5, <1>6, <1>7 DEF OnceInv

(* What has been sent stays sent. *)
LEMMA UnsentEnds ==
    ASSUME Typed, NEW t \in Thread, pc[t] # "idle",
           Retry(t) \/ \E o \in {"returned", "raised", "sent"} : Finish(t, o)
    PROVE  \A j \in Call, a \in Nat : Unsent(j, a)' => Unsent(j, a)
<1>1. /\ pc = [u \in Thread |-> pc[u]] /\ outcome = [k \in Call |-> outcome[k]]
      /\ attempt \in [Thread -> 0 .. MAX_RETRIES] /\ call[t] \in Call /\ MAX_RETRIES \in Nat
  BY CallAssumption DEF Typed, ClientTyped
<1>2. CASE \E o \in {"returned", "raised", "sent"} : Finish(t, o)
  <2>1. PICK o \in {"returned", "raised", "sent"} :
            /\ outcome' = [outcome EXCEPT ![call[t]] = o] /\ UNCHANGED <<call, attempt>>
            /\ pc' = [pc EXCEPT ![t] = "idle"]
    BY <1>2 DEF Finish
  <2>2. \A u \in Thread : pc'[u] # "idle" => pc'[u] = pc[u]
    BY <1>1, <2>1
  <2>3. \A k \in Call : outcome'[k] = "none" => outcome[k] = "none"
    BY <1>1, <2>1
  <2>4. QED
    BY <2>1, <2>2, <2>3 DEF Unsent
<1>3. CASE Retry(t) /\ attempt[t] < MAX_RETRIES
  <2>1. /\ pc' = [pc EXCEPT ![t] = "lock"] /\ UNCHANGED <<call, outcome>>
        /\ attempt' = [attempt EXCEPT ![t] = attempt[t] + 1]
    BY <1>3 DEF Retry
  <2>2. \A u \in Thread \ {t} : pc'[u] = pc[u] /\ attempt'[u] = attempt[u]
    BY <1>1, <2>1
  <2>3. attempt'[t] = attempt[t] + 1 /\ attempt[t] \in Nat
    BY <1>1, <2>1
  <2>4. ASSUME NEW j \in Call, NEW a \in Nat, NEW u \in Thread,
               pc'[u] # "idle", call'[u] = j,
               a > attempt'[u] \/ (a = attempt'[u] /\ pc'[u] # "recv")
        PROVE  Unsent(j, a)
    <3>1. CASE u = t
      BY <2>1, <2>3, <2>4, <3>1 DEF Unsent
    <3>2. CASE u # t
      BY <2>1, <2>2, <2>4, <3>2 DEF Unsent
    <3>3. QED
      BY <3>1, <3>2
  <2>5. QED
    BY <2>1, <2>4 DEF Unsent
<1>4. QED
  BY <1>2, <1>3 DEF Retry

(* No step takes back what has been sent. *)
LEMMA UnsentShrinks ==
    ASSUME Typed, [Next]_vars
    PROVE  \A j \in Call, a \in Nat : Unsent(j, a)' => Unsent(j, a)
<1> DEFINE Goal == \A j \in Call, a \in Nat : Unsent(j, a)' => Unsent(j, a)
<1>1. Goal
  <2>b. /\ pc = [u \in Thread |-> pc[u]] /\ outcome = [k \in Call |-> outcome[k]]
        /\ call = [u \in Thread |-> call[u]] /\ attempt \in [Thread -> 0 .. MAX_RETRIES]
    BY DEF Typed, ClientTyped
  <2> USE DEF proxyVars, threadVars, linkVars, serverVars, history
  <2>1. ASSUME NEW t \in Thread, NEW k \in Call, Begin(t, k) PROVE Goal
    <3>1. /\ pc' = [pc EXCEPT ![t] = "lock"] /\ call' = [call EXCEPT ![t] = k]
          /\ attempt' = [attempt EXCEPT ![t] = 0] /\ outcome' = [outcome EXCEPT ![k] = "pending"]
      BY <2>1 DEF Begin
    <3>2. pc[t] = "idle" /\ outcome[k] = "none"
      BY <2>1 DEF Begin
    <3>3. \A u \in Thread \ {t} : /\ pc'[u] = pc[u] /\ call'[u] = call[u]
                                    /\ attempt'[u] = attempt[u]
      BY <3>1, <2>b
    <3>4. call'[t] = k
      BY <3>1, <2>b
    <3>5. \A j \in Call \ {k} : outcome'[j] = outcome[j]
      BY <3>1, <2>b
    <3>6. QED
      BY <3>2, <3>3, <3>4, <3>5 DEF Unsent
  <2>2. ASSUME NEW t \in Thread, Invoke(t) PROVE Goal
    <3>1. CASE Acquire(t)
      <4>1. pc' = [pc EXCEPT ![t] = "invoke"] /\ UNCHANGED <<call, attempt, outcome>>
        BY <3>1 DEF Acquire
      <4>2. pc[t] = "lock"
        BY <3>1 DEF Acquire
      <4>3. \A u \in Thread : /\ pc'[u] # "idle" => pc[u] # "idle"
                              /\ pc[u] = "recv" => pc'[u] = "recv"
        BY <4>1, <4>2, <2>b
      <4>4. QED
        BY <4>1, <4>3 DEF Unsent
    <3>2. CASE Connect(t)
      <4>1. UNCHANGED <<pc, call, attempt, outcome>>
        BY <3>2 DEF Connect
      <4>2. QED
        BY <4>1 DEF Unsent
    <3>3. CASE ConnectFails(t)
      BY <3>3, UnsentEnds DEF ConnectFails
    <3>4. CASE Send(t)
      <4>1. CASE oneway[t]
        BY <3>4, <4>1, UnsentEnds DEF Send
      <4>2. CASE ~oneway[t]
        <5>1. pc' = [pc EXCEPT ![t] = "recv"] /\ UNCHANGED <<call, attempt, outcome>>
          BY <3>4, <4>2 DEF Send
        <5>2. pc[t] = "invoke"
          BY <3>4 DEF Send
        <5>3. \A u \in Thread : /\ pc'[u] # "idle" => pc[u] # "idle"
                                /\ pc'[u] # "recv" => pc[u] # "recv"
          BY <5>1, <5>2, <2>b
        <5>4. QED
          BY <5>1, <5>3 DEF Unsent
      <4>3. QED
        BY <4>1, <4>2
    <3>5. CASE SendFails(t)
      BY <3>5, UnsentEnds DEF SendFails
    <3>6. CASE Receive(t)
      BY <3>6, UnsentEnds DEF Receive
    <3>7. CASE ReceiveOutOfSync(t)
      BY <3>7, UnsentEnds DEF ReceiveOutOfSync
    <3>8. CASE ReceiveClosed(t)
      BY <3>8, UnsentEnds DEF ReceiveClosed
    <3>9. QED
      BY <2>2, <3>1, <3>2, <3>3, <3>4, <3>5, <3>6, <3>7, <3>8 DEF Invoke
  <2>3. ASSUME NEW t \in Thread, ReceiveTimeout(t) PROVE Goal
    BY <2>3, UnsentEnds DEF ReceiveTimeout
  <2>4. ASSUME NEW t \in Thread, Interrupt(t) PROVE Goal
    BY <2>4, UnsentEnds DEF Interrupt
  <2>5. ASSUME NEW c \in Conn, Server(c) PROVE Goal
    <3>1. CASE Handle(c)
      <4>1. UNCHANGED <<pc, call, attempt, outcome>>
        BY <3>1 DEF Handle
      <4>2. QED
        BY <4>1 DEF Unsent
    <3>2. CASE Spawn(c)
      <4>1. UNCHANGED <<pc, call, attempt, outcome>>
        BY <3>2 DEF Spawn
      <4>2. QED
        BY <4>1 DEF Unsent
    <3>3. CASE Execute(c)
      <4>1. UNCHANGED <<pc, call, attempt, outcome>>
        BY <3>3 DEF Execute
      <4>2. QED
        BY <4>1 DEF Unsent
    <3>4. CASE ExecuteFatal(c)
      <4>1. UNCHANGED <<pc, call, attempt, outcome>>
        BY <3>4 DEF ExecuteFatal
      <4>2. QED
        BY <4>1 DEF Unsent
    <3>5. CASE ExecuteCommError(c)
      <4>1. UNCHANGED <<pc, call, attempt, outcome>>
        BY <3>5 DEF ExecuteCommError
      <4>2. QED
        BY <4>1 DEF Unsent
    <3>6. CASE Reply(c)
      <4>1. UNCHANGED <<pc, call, attempt, outcome>>
        BY <3>6 DEF Reply
      <4>2. QED
        BY <4>1 DEF Unsent
    <3>7. CASE ReplyAndDrop(c)
      <4>1. UNCHANGED <<pc, call, attempt, outcome>>
        BY <3>7 DEF ReplyAndDrop
      <4>2. QED
        BY <4>1 DEF Unsent
    <3>8. QED
      BY <2>5, <3>1, <3>2, <3>3, <3>4, <3>5, <3>6, <3>7 DEF Server
  <2>6. ASSUME NEW c \in Conn, Disconnect(c) PROVE Goal
    <3>1. UNCHANGED <<pc, call, attempt, outcome>>
      BY <2>6 DEF Disconnect
    <3>2. QED
      BY <3>1 DEF Unsent
  <2>7. ASSUME NEW c \in Conn, Break(c) PROVE Goal
    <3>1. UNCHANGED <<pc, call, attempt, outcome>>
      BY <2>7 DEF Break
    <3>2. QED
      BY <3>1 DEF Unsent
  <2>8. ASSUME NEW m \in spawned, RunSpawned(m) PROVE Goal
    <3>1. UNCHANGED <<pc, call, attempt, outcome>>
      BY <2>8 DEF RunSpawned
    <3>2. QED
      BY <3>1 DEF Unsent
  <2>9. CASE UNCHANGED vars
    <3>1. UNCHANGED <<pc, call, attempt, outcome>>
      BY <2>9 DEF vars
    <3>2. QED
      BY <3>1 DEF Unsent
  <2>10. QED
    BY <2>1, <2>2, <2>3, <2>4, <2>5, <2>6, <2>7, <2>8, <2>9 DEF Next
<1>2. QED
  BY <1>1

(* A step that leaves the server's side alone. *)
LEMMA OnceStays ==
    ASSUME OnceInv, Typed, UNCHANGED <<req, hpc, cur>>, spawned' \subseteq spawned,
           \A j \in Call, a \in Nat : Unsent(j, a)' => Unsent(j, a)
    PROVE  OnceInv'
<1>1. 1 \in Conn /\ \A i \in Nat : i + 0 = i
  BY CallAssumption DEF Conn
<1>2. \A d \in Conn, i \in Nat : Present(d, i)' => Present(d, i) /\ At(d, i)' = At(d, i)
  BY DEF Present, At
<1>3. QED
  BY <1>1, <1>2, OnceMoves

(* Requests of connection c are dropped. *)
LEMMA LineDrops ==
    ASSUME OnceInv, Typed, NEW c \in Conn,
           req'[c] \in {req[c], <<>>}, spawned' = spawned,
           hpc'[c] = "exec" => hpc[c] = "exec" /\ cur'[c] = cur[c],
           \A d \in Conn \ {c} :
               req'[d] = req[d] /\ hpc'[d] = hpc[d] /\ cur'[d] = cur[d],
           \A j \in Call, a \in Nat : Unsent(j, a)' => Unsent(j, a)
    PROVE  OnceInv'
<1>1. \A i \in Nat : i + 0 = i
  OBVIOUS
<1>2. \A i \in Nat : Present(c, i)' => Present(c, i) /\ At(c, i)' = At(c, i)
  BY DEF Present, At
<1>3. \A d \in Conn \ {c} : \A i \in Nat :
          Present(d, i)' => Present(d, i) /\ At(d, i)' = At(d, i)
  BY DEF Present, At
<1>4. QED
  BY <1>1, <1>2, <1>3, OnceMoves

(* The first one is taken from the queue. *)
LEMMA LineMovesUp ==
    ASSUME NEW c \in Conn, req[c] \in Seq(Message), req[c] # <<>>,
           req'[c] = Tail(req[c]), cur'[c] = Head(req[c])
    PROVE  \A i \in Nat : Present(c, i)' => Present(c, i + 1) /\ At(c, i)' = At(c, i + 1)
<1>1. /\ Len(req[c]) \in Nat \ {0} /\ Len(req'[c]) = Len(req[c]) - 1
      /\ cur'[c] = req[c][1]
      /\ \A i \in 1 .. Len(req'[c]) : req'[c][i] = req[c][i + 1]
  OBVIOUS
<1>2. QED
  BY <1>1 DEF Present, At

(* A oneway call moves from handleRequest to a thread of its own. *)
LEMMA OnceSpawned ==
    ASSUME OnceInv, Typed, NEW c \in Conn, hpc[c] = "exec",
           spawned' = spawned \cup {cur[c]}, req' = req, hpc'[c] = "recv",
           \A d \in Conn \ {c} : hpc'[d] = hpc[d] /\ cur'[d] = cur[d],
           \A j \in Call, a \in Nat : Unsent(j, a)' => Unsent(j, a)
    PROVE  OnceInv'
<1>1. Present(c, 0) /\ At(c, 0) = cur[c] /\ 0 \in Nat
  BY DEF Present, At
<1>2. \A d \in Conn, i \in Nat :
          Present(d, i)' => /\ Present(d, i) /\ At(d, i)' = At(d, i)
                            /\ ~(d = c /\ i = 0)
  BY DEF Present, At
<1>3. cur[c] \in Message /\ cur[c].call \in Call /\ cur[c].attempt \in Nat
  BY <1>1, PresentTyped
<1>4. \A m \in spawned : m.call \in Call /\ m.attempt \in Nat
  BY MessageFields, CallAssumption DEF Typed, MessagesTyped
<1>5. ASSUME NEW d \in Conn, NEW e \in Conn, NEW i \in Nat, NEW j \in Nat,
             Present(d, i)', Present(e, j)', Same(At(d, i), At(e, j))'
      PROVE  d = e /\ i = j
  BY <1>2, <1>5 DEF OnceInv, Same
<1>6. ASSUME NEW m \in spawned', NEW d \in Conn, NEW i \in Nat, Present(d, i)'
      PROVE  ~Same(m, At(d, i))'
  <2>1. Present(d, i) /\ At(d, i)' = At(d, i) /\ ~(d = c /\ i = 0)
    BY <1>2, <1>6
  <2>2. CASE m \in spawned
    BY <2>1, <2>2 DEF OnceInv, Same
  <2>3. CASE m = cur[c]
    <3>1. ~Same(At(c, 0), At(d, i))
      BY <1>1, <2>1 DEF OnceInv
    <3>2. QED
      BY <1>1, <2>1, <2>3, <3>1 DEF Same
  <2>4. QED
    BY <2>2, <2>3
<1>7. ASSUME NEW m \in spawned', NEW n \in spawned', Same(m, n)'
      PROVE  m = n
  <2>1. \A u \in spawned : ~Same(u, cur[c])
    BY <1>1 DEF OnceInv
  <2>2. QED
    BY <1>7, <2>1 DEF OnceInv, Same
<1>8. ASSUME NEW m \in spawned' PROVE ~Unsent(m.call, m.attempt)'
  BY <1>1, <1>3, <1>4 DEF OnceInv
<1>9. ASSUME NEW d \in Conn, NEW i \in Nat, Present(d, i)'
      PROVE  ~Unsent(At(d, i).call, At(d, i).attempt)'
  <2>1. Present(d, i) /\ At(d, i)' = At(d, i)
    BY <1>2, <1>9
  <2>2. /\ At(d, i)'.call \in Call /\ At(d, i)'.attempt \in Nat
        /\ ~Unsent(At(d, i)'.call, At(d, i)'.attempt)
    BY <2>1, PresentTyped DEF OnceInv
  <2>3. QED
    BY <2>2
<1>10. QED
  BY <1>5, <1>6, <1>7, <1>8, <1>9 DEF OnceInv

(* Sending an attempt is what makes it sent. *)
LEMMA SentNow ==
    ASSUME Typed, ThreadsInv, NEW t \in Thread, Send(t),
           NEW k \in Call, NEW a \in Nat, k = call[t], a = attempt[t]
    PROVE  Unsent(k, a) /\ ~Unsent(k, a)'
<1>1. pc[t] = "invoke" /\ outcome[k] = "pending" /\ UNCHANGED <<call, attempt>>
  BY DEF Send, Finish, ThreadsInv
<1>2. \A u \in Thread \ {t} : pc[u] # "idle" => call[u] # k
  BY <1>1 DEF ThreadsInv
<1>3. /\ pc = [u \in Thread |-> pc[u]] /\ outcome = [j \in Call |-> outcome[j]]
  BY DEF Typed, ClientTyped
<1>4. /\ pc'[t] \in {"idle", "recv"} /\ outcome'[k] # "none"
      /\ \A u \in Thread \ {t} : pc'[u] = pc[u]
  <2>1. CASE oneway[t]
    BY <1>1, <1>3, <2>1 DEF Send, Finish
  <2>2. CASE ~oneway[t]
    BY <1>1, <1>3, <2>2 DEF Send
  <2>3. QED
    BY <2>1, <2>2
<1>5. QED
  BY <1>1, <1>2, <1>4 DEF Unsent

(* The request that is sent is the only one of its call and attempt. *)
LEMMA OnceSent ==
    ASSUME OnceInv, Typed, NEW k \in Call, NEW a \in Nat, Unsent(k, a), ~Unsent(k, a)',
           NEW c \in Conn, NEW m \in Message, m.call = k, m.attempt = a,
           req' = req \/ req' = [req EXCEPT ![c] = Append(req[c], m)],
           UNCHANGED <<hpc, cur, spawned>>,
           \A j \in Call, b \in Nat : Unsent(j, b)' => Unsent(j, b)
    PROVE  OnceInv'
<1>1. CASE req' = req
  BY <1>1, OnceStays
<1>2. CASE req' = [req EXCEPT ![c] = Append(req[c], m)]
  <2>1. req[c] \in Seq(Message) /\ req = [d \in Conn |-> req[d]]
    BY DEF Typed, MessagesTyped
  <2>2. /\ Len(req[c]) \in Nat /\ Len(req'[c]) = Len(req[c]) + 1
        /\ req'[c][Len(req[c]) + 1] = m
        /\ \A i \in 1 .. Len(req[c]) : req'[c][i] = req[c][i]
    BY <1>2, <2>1, QueueGrows
  <2>3. \A d \in Conn \ {c} : req'[d] = req[d]
    BY <1>2, <2>1
  <2>4. ASSUME NEW d \in Conn, NEW i \in Nat, Present(d, i)'
        PROVE  \/ Present(d, i) /\ At(d, i)' = At(d, i)
               \/ d = c /\ i = Len(req[c]) + 1 /\ At(d, i)' = m
    <3>1. CASE d = c
      BY <2>2, <2>4, <3>1 DEF Present, At
    <3>2. CASE d # c
      BY <2>3, <2>4, <3>2 DEF Present, At
    <3>3. QED
      BY <3>1, <3>2
  <2>5. \A d \in Conn, i \in Nat : Present(d, i) => ~Same(At(d, i), m)
    BY PresentTyped DEF OnceInv, Same
  <2>6. \A n \in spawned : ~Same(n, m)
    BY DEF OnceInv, Same
  <2>7. ASSUME NEW d \in Conn, NEW e \in Conn, NEW i \in Nat, NEW j \in Nat,
               Present(d, i)', Present(e, j)', Same(At(d, i), At(e, j))'
        PROVE  d = e /\ i = j
    BY <2>4, <2>5, <2>7 DEF OnceInv, Same
  <2>8. ASSUME NEW n \in spawned', NEW d \in Conn, NEW i \in Nat, Present(d, i)'
        PROVE  ~Same(n, At(d, i))'
    BY <2>4, <2>6, <2>8 DEF OnceInv, Same
  <2>9. \A n, o \in spawned' : Same(n, o)' => n = o
    BY DEF OnceInv, Same
  <2>10. ASSUME NEW n \in spawned' PROVE ~Unsent(n.call, n.attempt)'
    <3>1. n \in spawned /\ n.call \in Call /\ n.attempt \in Nat
      BY MessageFields, CallAssumption DEF Typed, MessagesTyped
    <3>2. QED
      BY <3>1 DEF OnceInv
  <2>11. ASSUME NEW d \in Conn, NEW i \in Nat, Present(d, i)'
         PROVE  ~Unsent(At(d, i).call, At(d, i).attempt)'
    <3>1. CASE Present(d, i) /\ At(d, i)' = At(d, i)
      <4>1. /\ At(d, i)'.call \in Call /\ At(d, i)'.attempt \in Nat
            /\ ~Unsent(At(d, i)'.call, At(d, i)'.attempt)
        BY <3>1, PresentTyped DEF OnceInv
      <4>2. QED
        BY <4>1
    <3>2. CASE At(d, i)' = m
      BY <3>2
    <3>3. QED
      BY <2>4, <2>11, <3>1, <3>2
  <2>12. QED
    BY <2>7, <2>8, <2>9, <2>10, <2>11 DEF OnceInv
<1>3. QED
  BY <1>1, <1>2

(* Each attempt of a call is under way at most once. *)
LEMMA OnceInvariant == Spec => []OnceInv
<1>1. Init => OnceInv
  <2> SUFFICES ASSUME Init PROVE OnceInv
    OBVIOUS
  <2>1. \A c \in Conn, i \in Nat : ~Present(c, i)
    BY DEF Init, Present
  <2>2. spawned = {}
    BY DEF Init
  <2>3. QED
    BY <2>1, <2>2 DEF OnceInv
<1>2. Typed /\ ThreadsInv /\ OnceInv /\ [Next]_vars => OnceInv'
  <2> SUFFICES ASSUME Typed, ThreadsInv, OnceInv, [Next]_vars PROVE OnceInv'
    OBVIOUS
  <2>u. Typed /\ OnceInv /\ \A j \in Call, a \in Nat : Unsent(j, a)' => Unsent(j, a)
    BY UnsentShrinks
  <2>b. /\ req \in [Conn -> Seq(Message)] /\ hpc = [d \in Conn |-> hpc[d]]
        /\ cur = [d \in Conn |-> cur[d]] /\ conn \in Conn \cup {None}
        /\ \A u \in Thread : pc[u] # "idle" => call[u] \in Call /\ attempt[u] \in Nat
    BY CallAssumption DEF Typed, ClientTyped, MessagesTyped
  <2> USE DEF proxyVars, threadVars, linkVars, serverVars, history
  <2>1. ASSUME NEW t \in Thread, NEW k \in Call, Begin(t, k) PROVE OnceInv'
    BY <2>1, <2>u, OnceStays DEF Begin
  <2>2. ASSUME NEW t \in Thread, Invoke(t) PROVE OnceInv'
    <3>1. CASE Acquire(t)
      BY <3>1, <2>u, OnceStays DEF Acquire
    <3>2. CASE Connect(t)
      BY <3>2, <2>u, OnceStays DEF Connect
    <3>3. CASE ConnectFails(t)
      BY <3>3, <2>u, OnceStays DEF ConnectFails
    <3>4. CASE Send(t)
      <4>1. PICK d \in Conn, k \in Call, a \in Nat : d = conn /\ k = call[t] /\ a = attempt[t]
        BY <3>4, <2>b DEF Send
      <4>2. Unsent(k, a) /\ ~Unsent(k, a)'
        BY <3>4, <4>1, SentNow
      <4>3. PICK m \in Message : /\ m.call = k /\ m.attempt = a
                                 /\ req' = req \/ req' = [req EXCEPT ![d] = Append(req[d], m)]
        <5>1. pc[t] # "idle"
          BY <3>4 DEF Send
        <5>2. /\ Request(t, NextSeq) \in Message
              /\ Request(t, NextSeq).call = k /\ Request(t, NextSeq).attempt = a
          BY <4>1, <5>1, RequestSent DEF Typed
        <5>3. req' = req \/ req' = [req EXCEPT ![d] = Append(req[d], Request(t, NextSeq))]
          BY <3>4, <4>1 DEF Send
        <5>4. QED
          BY <5>2, <5>3
      <4>4. UNCHANGED <<hpc, cur, spawned>>
        BY <3>4 DEF Send
      <4>5. QED
        BY <2>u, <4>2, <4>3, <4>4, OnceSent
    <3>5. CASE SendFails(t)
      BY <3>5, <2>u, OnceStays DEF SendFails
    <3>6. CASE Receive(t)
      BY <3>6, <2>u, OnceStays DEF Receive
    <3>7. CASE ReceiveOutOfSync(t)
      BY <3>7, <2>u, OnceStays DEF ReceiveOutOfSync
    <3>8. CASE ReceiveClosed(t)
      BY <3>8, <2>u, OnceStays DEF ReceiveClosed
    <3>9. QED
      BY <2>2, <3>1, <3>2, <3>3, <3>4, <3>5, <3>6, <3>7, <3>8 DEF Invoke
  <2>3. ASSUME NEW t \in Thread, ReceiveTimeout(t) PROVE OnceInv'
    BY <2>3, <2>u, OnceStays DEF ReceiveTimeout
  <2>4. ASSUME NEW t \in Thread, Interrupt(t) PROVE OnceInv'
    BY <2>4, <2>u, OnceStays DEF Interrupt
  <2>5. ASSUME NEW c \in Conn, Server(c) PROVE OnceInv'
    <3>1. CASE Handle(c)
      <4>1. /\ hpc[c] = "recv" /\ req[c] # <<>> /\ req'[c] = Tail(req[c])
            /\ cur'[c] = Head(req[c]) /\ spawned' = spawned
        BY <3>1, <2>b DEF Handle
      <4>2. \A d \in Conn \ {c} :
            req'[d] = req[d] /\ hpc'[d] = hpc[d] /\ cur'[d] = cur[d]
        BY <3>1, <2>b DEF Handle
      <4>3. \A i \in Nat : Present(c, i)' => Present(c, i + 1) /\ At(c, i)' = At(c, i + 1)
        BY <4>1, <2>b, LineMovesUp
      <4>4. \A d \in Conn \ {c} : \A i \in Nat :
            Present(d, i)' => Present(d, i) /\ At(d, i)' = At(d, i)
        BY <4>2 DEF Present, At
      <4>5. QED
        BY <2>u, <4>1, <4>3, <4>4, OnceMoves
    <3>2. CASE Spawn(c)
      <4>1. /\ hpc[c] = "exec" /\ spawned' = spawned \cup {cur[c]}
            /\ req' = req /\ hpc'[c] = "recv"
        BY <3>2, <2>b DEF Spawn, ServerReady
      <4>2. \A d \in Conn \ {c} : hpc'[d] = hpc[d] /\ cur'[d] = cur[d]
        BY <3>2, <2>b DEF Spawn, ServerReady
      <4>3. QED
        BY <2>u, <4>1, <4>2, OnceSpawned
    <3>3. CASE Execute(c)
      <4>1. /\ req'[c] \in {req[c], <<>>} /\ spawned' = spawned
            /\ hpc'[c] = "exec" => hpc[c] = "exec" /\ cur'[c] = cur[c]
        BY <3>3, <2>b DEF Execute, ServerReady
      <4>2. \A d \in Conn \ {c} :
            req'[d] = req[d] /\ hpc'[d] = hpc[d] /\ cur'[d] = cur[d]
        BY <3>3, <2>b DEF Execute, ServerReady
      <4>3. QED
        BY <2>u, <4>1, <4>2, LineDrops
    <3>4. CASE ExecuteFatal(c)
      <4>1. /\ req'[c] \in {req[c], <<>>} /\ spawned' = spawned
            /\ hpc'[c] = "exec" => hpc[c] = "exec" /\ cur'[c] = cur[c]
        BY <3>4, <2>b DEF ExecuteFatal
      <4>2. \A d \in Conn \ {c} :
            req'[d] = req[d] /\ hpc'[d] = hpc[d] /\ cur'[d] = cur[d]
        BY <3>4, <2>b DEF ExecuteFatal
      <4>3. QED
        BY <2>u, <4>1, <4>2, LineDrops
    <3>5. CASE ExecuteCommError(c)
      <4>1. /\ req'[c] \in {req[c], <<>>} /\ spawned' = spawned
            /\ hpc'[c] = "exec" => hpc[c] = "exec" /\ cur'[c] = cur[c]
        BY <3>5, <2>b DEF ExecuteCommError, ServerReady, ServerDrops
      <4>2. \A d \in Conn \ {c} :
            req'[d] = req[d] /\ hpc'[d] = hpc[d] /\ cur'[d] = cur[d]
        BY <3>5, <2>b DEF ExecuteCommError, ServerReady, ServerDrops
      <4>3. QED
        BY <2>u, <4>1, <4>2, LineDrops
    <3>6. CASE Reply(c)
      <4>1. /\ req'[c] \in {req[c], <<>>} /\ spawned' = spawned
            /\ hpc'[c] = "exec" => hpc[c] = "exec" /\ cur'[c] = cur[c]
        BY <3>6, <2>b DEF Reply, ServerReady
      <4>2. \A d \in Conn \ {c} :
            req'[d] = req[d] /\ hpc'[d] = hpc[d] /\ cur'[d] = cur[d]
        BY <3>6, <2>b DEF Reply, ServerReady
      <4>3. QED
        BY <2>u, <4>1, <4>2, LineDrops
    <3>7. CASE ReplyAndDrop(c)
      <4>1. /\ req'[c] \in {req[c], <<>>} /\ spawned' = spawned
            /\ hpc'[c] = "exec" => hpc[c] = "exec" /\ cur'[c] = cur[c]
        BY <3>7, <2>b DEF ReplyAndDrop, ServerDrops, ServerReady
      <4>2. \A d \in Conn \ {c} :
            req'[d] = req[d] /\ hpc'[d] = hpc[d] /\ cur'[d] = cur[d]
        BY <3>7, <2>b DEF ReplyAndDrop, ServerDrops, ServerReady
      <4>3. QED
        BY <2>u, <4>1, <4>2, LineDrops
    <3>8. QED
      BY <2>5, <3>1, <3>2, <3>3, <3>4, <3>5, <3>6, <3>7 DEF Server
  <2>6. ASSUME NEW c \in Conn, Disconnect(c) PROVE OnceInv'
    <3>1. /\ req'[c] \in {req[c], <<>>} /\ spawned' = spawned
          /\ hpc'[c] = "exec" => hpc[c] = "exec" /\ cur'[c] = cur[c]
      BY <2>6, <2>b DEF Disconnect, ServerDrops, ServerReady
    <3>2. \A d \in Conn \ {c} :
          req'[d] = req[d] /\ hpc'[d] = hpc[d] /\ cur'[d] = cur[d]
      BY <2>6, <2>b DEF Disconnect, ServerDrops, ServerReady
    <3>3. QED
      BY <2>u, <3>1, <3>2, LineDrops
  <2>7. ASSUME NEW c \in Conn, Break(c) PROVE OnceInv'
    <3>1. /\ req'[c] \in {req[c], <<>>} /\ spawned' = spawned
          /\ hpc'[c] = "exec" => hpc[c] = "exec" /\ cur'[c] = cur[c]
      BY <2>7, <2>b DEF Break
    <3>2. \A d \in Conn \ {c} :
          req'[d] = req[d] /\ hpc'[d] = hpc[d] /\ cur'[d] = cur[d]
      BY <2>7, <2>b DEF Break
    <3>3. QED
      BY <2>u, <3>1, <3>2, LineDrops
  <2>8. ASSUME NEW m \in spawned, RunSpawned(m) PROVE OnceInv'
    BY <2>8, <2>u, OnceStays DEF RunSpawned
  <2>9. CASE UNCHANGED vars
    BY <2>9, <2>u, OnceStays DEF vars
  <2>10. QED
    BY <2>1, <2>2, <2>3, <2>4, <2>5, <2>6, <2>7, <2>8, <2>9 DEF Next
<1>3. QED
  BY <1>1, <1>2, TypedInvariant, ThreadsInvariant, PTL DEF Spec

(* Where the requests of the next state come from: none appears but the    *)
(* one that is sent.                                                       *)
Comes ==
    /\ \A d \in Conn : \A i \in Nat : Present(d, i)' =>
        \/ \E j \in Nat : Present(d, j) /\ At(d, i)' = At(d, j)
        \/ Unsent(At(d, i)'.call, At(d, i)'.attempt)
    /\ \A m \in spawned' :
        m \in spawned \/ \E d \in Conn : \E j \in Nat : Present(d, j) /\ At(d, j) = m

(* In a Send it is that request that appears. *)
LEMMA ComesSent ==
    ASSUME NEW k \in Call, NEW a \in Nat, Unsent(k, a),
           NEW c \in Conn, NEW m \in Message, m.call = k, m.attempt = a,
           req \in [Conn -> Seq(Message)],
           req' = req \/ req' = [req EXCEPT ![c] = Append(req[c], m)],
           UNCHANGED <<hpc, cur, spawned>>
    PROVE  Comes
<1>1. ASSUME NEW d \in Conn, NEW i \in Nat, Present(d, i)'
      PROVE  (Present(d, i) /\ At(d, i)' = At(d, i)) \/ At(d, i)' = m
  <2>1. CASE req' = req
    BY <1>1, <2>1 DEF Present, At
  <2>2. CASE req' = [req EXCEPT ![c] = Append(req[c], m)]
    <3>1. /\ Len(req[c]) \in Nat /\ Len(req'[c]) = Len(req[c]) + 1
          /\ req'[c][Len(req[c]) + 1] = m
          /\ \A j \in 1 .. Len(req[c]) : req'[c][j] = req[c][j]
      BY <2>2, QueueGrows
    <3>2. CASE d = c
      BY <1>1, <3>1, <3>2 DEF Present, At
    <3>3. CASE d # c
      <4>1. req'[d] = req[d]
        BY <2>2, <3>3
      <4>2. QED
        BY <1>1, <4>1 DEF Present, At
    <3>4. QED
      BY <3>2, <3>3
  <2>3. QED
    BY <2>1, <2>2
<1>2. QED
  BY <1>1 DEF Comes

(* Every step: requests come from requests. *)
LEMMA RequestsCome ==
    ASSUME Typed, ThreadsInv, [Next]_vars
    PROVE  Comes
<1> DEFINE Goal == Comes
<1>1. Goal
  <2>s. UNCHANGED <<req, hpc, cur>> /\ spawned' \subseteq spawned => Comes
    BY DEF Comes, Present, At
  <2>b. /\ req \in [Conn -> Seq(Message)] /\ hpc = [d \in Conn |-> hpc[d]]
        /\ cur = [d \in Conn |-> cur[d]] /\ conn \in Conn \cup {None}
        /\ \A u \in Thread : pc[u] # "idle" => call[u] \in Call /\ attempt[u] \in Nat
    BY CallAssumption DEF Typed, ClientTyped, MessagesTyped
  <2> USE DEF proxyVars, threadVars, linkVars, serverVars, history
  <2>1. ASSUME NEW t \in Thread, NEW k \in Call, Begin(t, k) PROVE Goal
    BY <2>1, <2>s DEF Begin
  <2>2. ASSUME NEW t \in Thread, Invoke(t) PROVE Goal
    <3>1. CASE Acquire(t)
      BY <3>1, <2>s DEF Acquire
    <3>2. CASE Connect(t)
      BY <3>2, <2>s DEF Connect
    <3>3. CASE ConnectFails(t)
      BY <3>3, <2>s DEF ConnectFails
    <3>4. CASE Send(t)
      <4>1. PICK d \in Conn, k \in Call, a \in Nat : d = conn /\ k = call[t] /\ a = attempt[t]
        BY <3>4, <2>b DEF Send
      <4>2. Unsent(k, a) /\ ~Unsent(k, a)'
        BY <3>4, <4>1, SentNow
      <4>3. PICK m \in Message : /\ m.call = k /\ m.attempt = a
                                 /\ req' = req \/ req' = [req EXCEPT ![d] = Append(req[d], m)]
        <5>1. pc[t] # "idle"
          BY <3>4 DEF Send
        <5>2. /\ Request(t, NextSeq) \in Message
              /\ Request(t, NextSeq).call = k /\ Request(t, NextSeq).attempt = a
          BY <4>1, <5>1, RequestSent DEF Typed
        <5>3. req' = req \/ req' = [req EXCEPT ![d] = Append(req[d], Request(t, NextSeq))]
          BY <3>4, <4>1 DEF Send
        <5>4. QED
          BY <5>2, <5>3
      <4>4. UNCHANGED <<hpc, cur, spawned>>
        BY <3>4 DEF Send
      <4>5. QED
        BY <2>b, <4>2, <4>3, <4>4, ComesSent
    <3>5. CASE SendFails(t)
      BY <3>5, <2>s DEF SendFails
    <3>6. CASE Receive(t)
      BY <3>6, <2>s DEF Receive
    <3>7. CASE ReceiveOutOfSync(t)
      BY <3>7, <2>s DEF ReceiveOutOfSync
    <3>8. CASE ReceiveClosed(t)
      BY <3>8, <2>s DEF ReceiveClosed
    <3>9. QED
      BY <2>2, <3>1, <3>2, <3>3, <3>4, <3>5, <3>6, <3>7, <3>8 DEF Invoke
  <2>3. ASSUME NEW t \in Thread, ReceiveTimeout(t) PROVE Goal
    BY <2>3, <2>s DEF ReceiveTimeout
  <2>4. ASSUME NEW t \in Thread, Interrupt(t) PROVE Goal
    BY <2>4, <2>s DEF Interrupt
  <2>5. ASSUME NEW c \in Conn, Server(c) PROVE Goal
    <3>1. CASE Handle(c)
      <4>1. /\ hpc[c] = "recv" /\ req[c] # <<>> /\ req'[c] = Tail(req[c])
            /\ cur'[c] = Head(req[c]) /\ spawned' = spawned
        BY <3>1, <2>b DEF Handle
      <4>2. \A d \in Conn \ {c} :
            req'[d] = req[d] /\ hpc'[d] = hpc[d] /\ cur'[d] = cur[d]
        BY <3>1, <2>b DEF Handle
      <4>3. \A i \in Nat : Present(c, i)' => Present(c, i + 1) /\ At(c, i)' = At(c, i + 1)
        BY <4>1, <2>b, LineMovesUp
      <4>4. \A d \in Conn \ {c} : \A i \in Nat :
            Present(d, i)' => Present(d, i) /\ At(d, i)' = At(d, i)
        BY <4>2 DEF Present, At
      <4>5. QED
        BY <4>1, <4>3, <4>4 DEF Comes
    <3>2. CASE Spawn(c)
      <4>1. /\ hpc[c] = "exec" /\ spawned' = spawned \cup {cur[c]}
            /\ req' = req /\ hpc'[c] = "recv"
        BY <3>2, <2>b DEF Spawn, ServerReady
      <4>2. \A d \in Conn \ {c} : hpc'[d] = hpc[d] /\ cur'[d] = cur[d]
        BY <3>2, <2>b DEF Spawn, ServerReady
      <4>3. \A d \in Conn, i \in Nat : Present(d, i)' => Present(d, i) /\ At(d, i)' = At(d, i)
        BY <4>1, <4>2 DEF Present, At
      <4>4. Present(c, 0) /\ At(c, 0) = cur[c]
        BY <4>1 DEF Present, At
      <4>5. QED
        BY <4>1, <4>3, <4>4 DEF Comes
    <3>3. CASE Execute(c)
      <4>1. /\ req'[c] \in {req[c], <<>>} /\ spawned' = spawned
            /\ hpc'[c] = "exec" => hpc[c] = "exec" /\ cur'[c] = cur[c]
        BY <3>3, <2>b DEF Execute, ServerReady
      <4>2. \A d \in Conn \ {c} :
            req'[d] = req[d] /\ hpc'[d] = hpc[d] /\ cur'[d] = cur[d]
        BY <3>3, <2>b DEF Execute, ServerReady
      <4>3. \A i \in Nat : Present(c, i)' => Present(c, i) /\ At(c, i)' = At(c, i)
        BY <4>1 DEF Present, At
      <4>4. \A d \in Conn \ {c} : \A i \in Nat :
            Present(d, i)' => Present(d, i) /\ At(d, i)' = At(d, i)
        BY <4>2 DEF Present, At
      <4>5. QED
        BY <4>1, <4>3, <4>4 DEF Comes
    <3>4. CASE ExecuteFatal(c)
      <4>1. /\ req'[c] \in {req[c], <<>>} /\ spawned' = spawned
            /\ hpc'[c] = "exec" => hpc[c] = "exec" /\ cur'[c] = cur[c]
        BY <3>4, <2>b DEF ExecuteFatal
      <4>2. \A d \in Conn \ {c} :
            req'[d] = req[d] /\ hpc'[d] = hpc[d] /\ cur'[d] = cur[d]
        BY <3>4, <2>b DEF ExecuteFatal
      <4>3. \A i \in Nat : Present(c, i)' => Present(c, i) /\ At(c, i)' = At(c, i)
        BY <4>1 DEF Present, At
      <4>4. \A d \in Conn \ {c} : \A i \in Nat :
            Present(d, i)' => Present(d, i) /\ At(d, i)' = At(d, i)
        BY <4>2 DEF Present, At
      <4>5. QED
        BY <4>1, <4>3, <4>4 DEF Comes
    <3>5. CASE ExecuteCommError(c)
      <4>1. /\ req'[c] \in {req[c], <<>>} /\ spawned' = spawned
            /\ hpc'[c] = "exec" => hpc[c] = "exec" /\ cur'[c] = cur[c]
        BY <3>5, <2>b DEF ExecuteCommError, ServerReady, ServerDrops
      <4>2. \A d \in Conn \ {c} :
            req'[d] = req[d] /\ hpc'[d] = hpc[d] /\ cur'[d] = cur[d]
        BY <3>5, <2>b DEF ExecuteCommError, ServerReady, ServerDrops
      <4>3. \A i \in Nat : Present(c, i)' => Present(c, i) /\ At(c, i)' = At(c, i)
        BY <4>1 DEF Present, At
      <4>4. \A d \in Conn \ {c} : \A i \in Nat :
            Present(d, i)' => Present(d, i) /\ At(d, i)' = At(d, i)
        BY <4>2 DEF Present, At
      <4>5. QED
        BY <4>1, <4>3, <4>4 DEF Comes
    <3>6. CASE Reply(c)
      <4>1. /\ req'[c] \in {req[c], <<>>} /\ spawned' = spawned
            /\ hpc'[c] = "exec" => hpc[c] = "exec" /\ cur'[c] = cur[c]
        BY <3>6, <2>b DEF Reply, ServerReady
      <4>2. \A d \in Conn \ {c} :
            req'[d] = req[d] /\ hpc'[d] = hpc[d] /\ cur'[d] = cur[d]
        BY <3>6, <2>b DEF Reply, ServerReady
      <4>3. \A i \in Nat : Present(c, i)' => Present(c, i) /\ At(c, i)' = At(c, i)
        BY <4>1 DEF Present, At
      <4>4. \A d \in Conn \ {c} : \A i \in Nat :
            Present(d, i)' => Present(d, i) /\ At(d, i)' = At(d, i)
        BY <4>2 DEF Present, At
      <4>5. QED
        BY <4>1, <4>3, <4>4 DEF Comes
    <3>7. CASE ReplyAndDrop(c)
      <4>1. /\ req'[c] \in {req[c], <<>>} /\ spawned' = spawned
            /\ hpc'[c] = "exec" => hpc[c] = "exec" /\ cur'[c] = cur[c]
        BY <3>7, <2>b DEF ReplyAndDrop, ServerDrops, ServerReady
      <4>2. \A d \in Conn \ {c} :
            req'[d] = req[d] /\ hpc'[d] = hpc[d] /\ cur'[d] = cur[d]
        BY <3>7, <2>b DEF ReplyAndDrop, ServerDrops, ServerReady
      <4>3. \A i \in Nat : Present(c, i)' => Present(c, i) /\ At(c, i)' = At(c, i)
        BY <4>1 DEF Present, At
      <4>4. \A d \in Conn \ {c} : \A i \in Nat :
            Present(d, i)' => Present(d, i) /\ At(d, i)' = At(d, i)
        BY <4>2 DEF Present, At
      <4>5. QED
        BY <4>1, <4>3, <4>4 DEF Comes
    <3>8. QED
      BY <2>5, <3>1, <3>2, <3>3, <3>4, <3>5, <3>6, <3>7 DEF Server
  <2>6. ASSUME NEW c \in Conn, Disconnect(c) PROVE Goal
    <3>1. /\ req'[c] \in {req[c], <<>>} /\ spawned' = spawned
          /\ hpc'[c] = "exec" => hpc[c] = "exec" /\ cur'[c] = cur[c]
      BY <2>6, <2>b DEF Disconnect, ServerDrops, ServerReady
    <3>2. \A d \in Conn \ {c} :
          req'[d] = req[d] /\ hpc'[d] = hpc[d] /\ cur'[d] = cur[d]
      BY <2>6, <2>b DEF Disconnect, ServerDrops, ServerReady
    <3>3. \A i \in Nat : Present(c, i)' => Present(c, i) /\ At(c, i)' = At(c, i)
      BY <3>1 DEF Present, At
    <3>4. \A d \in Conn \ {c} : \A i \in Nat :
          Present(d, i)' => Present(d, i) /\ At(d, i)' = At(d, i)
      BY <3>2 DEF Present, At
    <3>5. QED
      BY <3>1, <3>3, <3>4 DEF Comes
  <2>7. ASSUME NEW c \in Conn, Break(c) PROVE Goal
    <3>1. /\ req'[c] \in {req[c], <<>>} /\ spawned' = spawned
          /\ hpc'[c] = "exec" => hpc[c] = "exec" /\ cur'[c] = cur[c]
      BY <2>7, <2>b DEF Break
    <3>2. \A d \in Conn \ {c} :
          req'[d] = req[d] /\ hpc'[d] = hpc[d] /\ cur'[d] = cur[d]
      BY <2>7, <2>b DEF Break
    <3>3. \A i \in Nat : Present(c, i)' => Present(c, i) /\ At(c, i)' = At(c, i)
      BY <3>1 DEF Present, At
    <3>4. \A d \in Conn \ {c} : \A i \in Nat :
          Present(d, i)' => Present(d, i) /\ At(d, i)' = At(d, i)
      BY <3>2 DEF Present, At
    <3>5. QED
      BY <3>1, <3>3, <3>4 DEF Comes
  <2>8. ASSUME NEW m \in spawned, RunSpawned(m) PROVE Goal
    BY <2>8, <2>s DEF RunSpawned
  <2>9. CASE UNCHANGED vars
    BY <2>9, <2>s DEF vars
  <2>10. QED
    BY <2>1, <2>2, <2>3, <2>4, <2>5, <2>6, <2>7, <2>8, <2>9 DEF Next
<1>2. QED
  BY <1>1

-----------------------------------------------------------------------------
(* The attempts of call k that have been sent and are no longer under way. *)
UnderWay(k, a) ==
    \/ \E c \in Conn : \E i \in Nat :
        Present(c, i) /\ At(c, i).call = k /\ At(c, i).attempt = a
    \/ \E m \in spawned : m.call = k /\ m.attempt = a

Done(k) == {a \in 0 .. MAX_RETRIES : ~Unsent(k, a) /\ ~UnderWay(k, a)}

(* A method has been run at most once for each of them. *)
CountInv == \A k \in Call : executed[k] <= Cardinality(Done(k))

(* An attempt that is done with stays so. *)
LEMMA DoneGrows ==
    ASSUME Typed, ThreadsInv, [Next]_vars
    PROVE  \A k \in Call : Done(k) \subseteq Done(k)'
<1> SUFFICES ASSUME NEW k \in Call, NEW a \in 0 .. MAX_RETRIES,
                    ~Unsent(k, a), ~UnderWay(k, a)
             PROVE  ~Unsent(k, a)' /\ ~UnderWay(k, a)'
  BY DEF Done
<1>1. a \in Nat /\ ~Unsent(k, a)'
  BY UnsentShrinks, CallAssumption
<1>2. ASSUME NEW c \in Conn, NEW i \in Nat, Present(c, i)',
             At(c, i)'.call = k, At(c, i)'.attempt = a
      PROVE  FALSE
  BY <1>2, RequestsCome DEF Comes, UnderWay
<1>3. ASSUME NEW m \in spawned', m.call = k, m.attempt = a
      PROVE  FALSE
  BY <1>3, RequestsCome DEF Comes, UnderWay
<1>4. QED
  BY <1>1, <1>2, <1>3 DEF UnderWay

(* There are MAX_RETRIES + 1 attempts. *)
LEMMA Attempts ==
    /\ MAX_RETRIES \in Nat /\ IsFiniteSet(0 .. MAX_RETRIES)
    /\ Cardinality(0 .. MAX_RETRIES) = MAX_RETRIES + 1
<1>1. MAX_RETRIES \in Nat
  BY CallAssumption
<1>2. QED
  BY <1>1, FS_Interval

(* Sets of attempts are finite, and the larger has no fewer. *)
LEMMA SomeAttempts ==
    ASSUME NEW D, NEW E, D \subseteq E, E \subseteq 0 .. MAX_RETRIES
    PROVE  /\ IsFiniteSet(D) /\ Cardinality(D) \in Nat /\ Cardinality(E) \in Nat
           /\ Cardinality(D) <= Cardinality(E)
           /\ Cardinality(E) <= MAX_RETRIES + 1
<1>1. IsFiniteSet(E) /\ Cardinality(E) <= MAX_RETRIES + 1
  BY Attempts, FS_Subset
<1>2. IsFiniteSet(D) /\ Cardinality(D) <= Cardinality(E)
  BY <1>1, FS_Subset
<1>3. QED
  BY <1>1, <1>2, FS_CardinalityType

(* One attempt more counts one more. *)
LEMMA OneMoreAttempt ==
    ASSUME NEW D, NEW E, D \subseteq E, E \subseteq 0 .. MAX_RETRIES,
           NEW a \in E, a \notin D
    PROVE  Cardinality(D) + 1 <= Cardinality(E)
<1>1. D \cup {a} \subseteq E
  OBVIOUS
<1>2. IsFiniteSet(D) /\ Cardinality(D) \in Nat
  BY SomeAttempts
<1>3. Cardinality(D \cup {a}) = Cardinality(D) + 1
  BY <1>2, FS_AddElement
<1>4. QED
  BY <1>1, <1>3, SomeAttempts

(* A step that runs no method. *)
LEMMA CountStays ==
    ASSUME Typed, CountInv, \A k \in Call : Done(k) \subseteq Done(k)', executed' = executed
    PROVE  CountInv'
<1> SUFFICES ASSUME NEW k \in Call PROVE executed[k] <= Cardinality(Done(k)')
  BY DEF CountInv
<1>1. Done(k)' \subseteq 0 .. MAX_RETRIES /\ Done(k) \subseteq Done(k)'
  BY DEF Done
<1>2. executed[k] \in Nat /\ executed[k] <= Cardinality(Done(k))
  BY DEF CountInv, Typed, MessagesTyped
<1>3. /\ Cardinality(Done(k)) <= Cardinality(Done(k)')
      /\ Cardinality(Done(k)) \in Nat /\ Cardinality(Done(k)') \in Nat
  BY <1>1, SomeAttempts
<1>4. QED
  BY <1>2, <1>3

(* A step that runs the method for attempt a of call k. *)
LEMMA CountRan ==
    ASSUME Typed, CountInv, \A j \in Call : Done(j) \subseteq Done(j)',
           NEW k \in Call, NEW a \in Done(k)', a \notin Done(k),
           executed' = [executed EXCEPT ![k] = executed[k] + 1]
    PROVE  CountInv' /\ executed[k] <= MAX_RETRIES
<1>1. \A j \in Call : /\ Done(j)' \subseteq 0 .. MAX_RETRIES /\ Done(j) \subseteq Done(j)'
                      /\ executed[j] \in Nat /\ executed[j] <= Cardinality(Done(j))
  BY DEF Done, CountInv, Typed, MessagesTyped
<1>2. /\ executed = [j \in Call |-> executed[j]]
      /\ MAX_RETRIES \in Nat
  BY Attempts DEF Typed, MessagesTyped
<1>3. /\ Cardinality(Done(k)) + 1 <= Cardinality(Done(k)')
      /\ Cardinality(Done(k)) \in Nat /\ Cardinality(Done(k)') \in Nat
      /\ Cardinality(Done(k)') <= MAX_RETRIES + 1
  BY <1>1, OneMoreAttempt, SomeAttempts
<1>4. executed[k] <= MAX_RETRIES /\ executed[k] + 1 <= Cardinality(Done(k)')
  BY <1>1, <1>2, <1>3
<1>5. ASSUME NEW j \in Call PROVE executed'[j] <= Cardinality(Done(j)')
  <2>1. CASE j = k
    BY <1>2, <1>4, <2>1
  <2>2. CASE j # k
    <3>1. executed'[j] = executed[j]
      BY <1>2, <2>2
    <3>2. /\ Cardinality(Done(j)) <= Cardinality(Done(j)')
          /\ Cardinality(Done(j)) \in Nat /\ Cardinality(Done(j)') \in Nat
      BY <1>1, SomeAttempts
    <3>3. QED
      BY <1>1, <3>1, <3>2
  <2>3. QED
    BY <2>1, <2>2
<1>6. QED
  BY <1>4, <1>5 DEF CountInv

(* handleRequest runs the method of the request it has (line 1436). *)
LEMMA CountExecutes ==
    ASSUME Typed, OnceInv, CountInv, \A j \in Call : Done(j) \subseteq Done(j)',
           \A j \in Call, b \in Nat : Unsent(j, b)' => Unsent(j, b),
           NEW c \in Conn, hpc[c] = "exec", hpc'[c] # "exec",
           spawned' = spawned, req'[c] \in {req[c], <<>>},
           executed' = [executed EXCEPT ![cur[c].call] = executed[cur[c].call] + 1],
           \A d \in Conn \ {c} :
               req'[d] = req[d] /\ hpc'[d] = hpc[d] /\ cur'[d] = cur[d]
    PROVE  /\ CountInv' /\ cur[c].call \in Call /\ outcome[cur[c].call] # "none"
           /\ executed[cur[c].call] <= MAX_RETRIES
<1>1. Present(c, 0) /\ At(c, 0) = cur[c] /\ 0 \in Nat
  BY DEF Present, At
<1>2. cur[c].call \in Call /\ cur[c].attempt \in 0 .. MAX_RETRIES
  BY <1>1, PresentTyped, MessageFields
<1>3. PICK k \in Call, a \in 0 .. MAX_RETRIES : k = cur[c].call /\ a = cur[c].attempt
  BY <1>2
<1>4. UnderWay(k, a)
  BY <1>1, <1>3 DEF UnderWay
<1>5. ~Unsent(k, a)
  BY <1>1, <1>3 DEF OnceInv
<1>6. \A d \in Conn, i \in Nat :
          Present(d, i)' => /\ Present(d, i) /\ At(d, i)' = At(d, i)
                            /\ ~(d = c /\ i = 0)
  BY DEF Present, At
<1>7. ~UnderWay(k, a)'
  <2>1. ASSUME NEW d \in Conn, NEW i \in Nat, Present(d, i)',
               At(d, i)'.call = k, At(d, i)'.attempt = a
        PROVE  FALSE
    <3>1. Present(d, i) /\ Same(At(d, i), At(c, 0)) /\ ~(d = c /\ i = 0)
      BY <1>1, <1>3, <1>6, <2>1 DEF Same
    <3>2. QED
      BY <1>1, <3>1 DEF OnceInv
  <2>2. ASSUME NEW m \in spawned', m.call = k, m.attempt = a
        PROVE  FALSE
    <3>1. Same(m, At(c, 0))
      BY <1>1, <1>3, <2>2 DEF Same
    <3>2. QED
      BY <1>1, <2>2, <3>1 DEF OnceInv
  <2>3. QED
    BY <2>1, <2>2 DEF UnderWay
<1>8. a \in Nat /\ ~Unsent(k, a)'
  BY <1>5, CallAssumption
<1>9. a \in Done(k)' /\ a \notin Done(k)
  BY <1>4, <1>7, <1>8 DEF Done
<1>10. outcome[k] # "none"
  BY <1>5 DEF Unsent
<1>11. executed' = [executed EXCEPT ![k] = executed[k] + 1]
  BY <1>3
<1>12. CountInv' /\ executed[k] <= MAX_RETRIES
  BY <1>9, <1>11, CountRan
<1>13. QED
  BY <1>3, <1>10, <1>12

(* The thread of a oneway call does (line 1430). *)
LEMMA CountRuns ==
    ASSUME Typed, OnceInv, CountInv, \A j \in Call : Done(j) \subseteq Done(j)',
           \A j \in Call, b \in Nat : Unsent(j, b)' => Unsent(j, b),
           NEW m \in spawned, spawned' = spawned \ {m}, UNCHANGED <<req, hpc, cur>>,
           executed' = [executed EXCEPT ![m.call] = executed[m.call] + 1]
    PROVE  /\ CountInv' /\ m.call \in Call /\ outcome[m.call] # "none"
           /\ executed[m.call] <= MAX_RETRIES
<1>1. m.call \in Call /\ m.attempt \in 0 .. MAX_RETRIES
  BY MessageFields DEF Typed, MessagesTyped
<1>2. PICK k \in Call, a \in 0 .. MAX_RETRIES : k = m.call /\ a = m.attempt
  BY <1>1
<1>3. UnderWay(k, a) /\ ~Unsent(k, a)
  BY <1>2 DEF UnderWay, OnceInv
<1>4. \A d \in Conn, i \in Nat : Present(d, i)' => Present(d, i) /\ At(d, i)' = At(d, i)
  BY DEF Present, At
<1>5. ~UnderWay(k, a)'
  <2>1. ASSUME NEW d \in Conn, NEW i \in Nat, Present(d, i)',
               At(d, i)'.call = k, At(d, i)'.attempt = a
        PROVE  FALSE
    BY <1>2, <1>4, <2>1 DEF OnceInv, Same
  <2>2. ASSUME NEW n \in spawned', n.call = k, n.attempt = a
        PROVE  FALSE
    BY <1>2, <2>2 DEF OnceInv, Same
  <2>3. QED
    BY <2>1, <2>2 DEF UnderWay
<1>6. a \in Nat /\ ~Unsent(k, a)'
  BY <1>3, CallAssumption
<1>7. a \in Done(k)' /\ a \notin Done(k)
  BY <1>3, <1>5, <1>6 DEF Done
<1>8. outcome[k] # "none"
  BY <1>3 DEF Unsent
<1>9. executed' = [executed EXCEPT ![k] = executed[k] + 1]
  BY <1>2
<1>10. CountInv' /\ executed[k] <= MAX_RETRIES
  BY <1>7, <1>9, CountRan
<1>11. QED
  BY <1>2, <1>8, <1>10

(* The runs of a method are counted by the attempts that are done with. *)
LEMMA CountInvariant == Spec => []CountInv
<1>1. Init => CountInv
  <2> SUFFICES ASSUME Init, NEW k \in Call PROVE executed[k] <= Cardinality(Done(k))
    BY DEF CountInv
  <2>1. executed[k] = 0 /\ Done(k) \subseteq 0 .. MAX_RETRIES
    BY DEF Init, Done
  <2>2. Cardinality(Done(k)) \in Nat
    BY <2>1, SomeAttempts
  <2>3. QED
    BY <2>1, <2>2
<1>2. Typed /\ ThreadsInv /\ OnceInv /\ CountInv /\ [Next]_vars => CountInv'
  <2> SUFFICES ASSUME Typed, ThreadsInv, OnceInv, CountInv, [Next]_vars PROVE CountInv'
    OBVIOUS
  <2>g. /\ Typed /\ OnceInv /\ CountInv /\ \A j \in Call : Done(j) \subseteq Done(j)'
        /\ \A j \in Call, b \in Nat : Unsent(j, b)' => Unsent(j, b)
    BY DoneGrows, UnsentShrinks
  <2>b. /\ req \in [Conn -> Seq(Message)] /\ hpc = [d \in Conn |-> hpc[d]]
        /\ cur = [d \in Conn |-> cur[d]]
    BY DEF Typed, MessagesTyped
  <2> USE DEF proxyVars, threadVars, linkVars, serverVars, history
  <2>1. ASSUME NEW t \in Thread, NEW k \in Call, Begin(t, k) PROVE CountInv'
    BY <2>1, <2>g, CountStays DEF Begin
  <2>2. ASSUME NEW t \in Thread, Invoke(t) PROVE CountInv'
    <3>1. CASE Acquire(t)
      BY <3>1, <2>g, CountStays DEF Acquire
    <3>2. CASE Connect(t)
      BY <3>2, <2>g, CountStays DEF Connect
    <3>3. CASE ConnectFails(t)
      BY <3>3, <2>g, CountStays DEF ConnectFails
    <3>4. CASE Send(t)
      BY <3>4, <2>g, CountStays DEF Send
    <3>5. CASE SendFails(t)
      BY <3>5, <2>g, CountStays DEF SendFails
    <3>6. CASE Receive(t)
      BY <3>6, <2>g, CountStays DEF Receive
    <3>7. CASE ReceiveOutOfSync(t)
      BY <3>7, <2>g, CountStays DEF ReceiveOutOfSync
    <3>8. CASE ReceiveClosed(t)
      BY <3>8, <2>g, CountStays DEF ReceiveClosed
    <3>9. QED
      BY <2>2, <3>1, <3>2, <3>3, <3>4, <3>5, <3>6, <3>7, <3>8 DEF Invoke
  <2>3. ASSUME NEW t \in Thread, ReceiveTimeout(t) PROVE CountInv'
    BY <2>3, <2>g, CountStays DEF ReceiveTimeout
  <2>4. ASSUME NEW t \in Thread, Interrupt(t) PROVE CountInv'
    BY <2>4, <2>g, CountStays DEF Interrupt
  <2>5. ASSUME NEW c \in Conn, Server(c) PROVE CountInv'
    <3>1. CASE Handle(c)
      BY <3>1, <2>g, CountStays DEF Handle
    <3>2. CASE Spawn(c)
      BY <3>2, <2>g, CountStays DEF Spawn
    <3>3. CASE Execute(c)
      <4>1. /\ hpc[c] = "exec" /\ hpc'[c] # "exec" /\ spawned' = spawned
            /\ req'[c] \in {req[c], <<>>}
            /\ executed' = [executed EXCEPT ![cur[c].call] = executed[cur[c].call] + 1]
        BY <3>3, <2>b DEF Execute, Ran, ServerReady
      <4>2. \A d \in Conn \ {c} :
            req'[d] = req[d] /\ hpc'[d] = hpc[d] /\ cur'[d] = cur[d]
        BY <3>3, <2>b DEF Execute, ServerReady
      <4>3. QED
        BY <2>g, <4>1, <4>2, CountExecutes
    <3>4. CASE ExecuteFatal(c)
      <4>1. /\ hpc[c] = "exec" /\ hpc'[c] # "exec" /\ spawned' = spawned
            /\ req'[c] \in {req[c], <<>>}
            /\ executed' = [executed EXCEPT ![cur[c].call] = executed[cur[c].call] + 1]
        BY <3>4, <2>b DEF ExecuteFatal, Ran
      <4>2. \A d \in Conn \ {c} :
            req'[d] = req[d] /\ hpc'[d] = hpc[d] /\ cur'[d] = cur[d]
        BY <3>4, <2>b DEF ExecuteFatal
      <4>3. QED
        BY <2>g, <4>1, <4>2, CountExecutes
    <3>5. CASE ExecuteCommError(c)
      <4>1. /\ hpc[c] = "exec" /\ hpc'[c] # "exec" /\ spawned' = spawned
            /\ req'[c] \in {req[c], <<>>}
            /\ executed' = [executed EXCEPT ![cur[c].call] = executed[cur[c].call] + 1]
        BY <3>5, <2>b DEF ExecuteCommError, Ran, ServerReady, ServerDrops
      <4>2. \A d \in Conn \ {c} :
            req'[d] = req[d] /\ hpc'[d] = hpc[d] /\ cur'[d] = cur[d]
        BY <3>5, <2>b DEF ExecuteCommError, ServerReady, ServerDrops
      <4>3. QED
        BY <2>g, <4>1, <4>2, CountExecutes
    <3>6. CASE Reply(c)
      BY <3>6, <2>g, CountStays DEF Reply
    <3>7. CASE ReplyAndDrop(c)
      BY <3>7, <2>g, CountStays DEF ReplyAndDrop
    <3>8. QED
      BY <2>5, <3>1, <3>2, <3>3, <3>4, <3>5, <3>6, <3>7 DEF Server
  <2>6. ASSUME NEW c \in Conn, Disconnect(c) PROVE CountInv'
    BY <2>6, <2>g, CountStays DEF Disconnect
  <2>7. ASSUME NEW c \in Conn, Break(c) PROVE CountInv'
    BY <2>7, <2>g, CountStays DEF Break
  <2>8. ASSUME NEW m \in spawned, RunSpawned(m) PROVE CountInv'
    <3>1. /\ m \in spawned /\ spawned' = spawned \ {m} /\ UNCHANGED <<req, hpc, cur>>
          /\ executed' = [executed EXCEPT ![m.call] = executed[m.call] + 1]
      BY <2>8 DEF RunSpawned, Ran
    <3>2. QED
      BY <2>g, <3>1, CountRuns
  <2>9. CASE UNCHANGED vars
    BY <2>9, <2>g, CountStays DEF vars
  <2>10. QED
    BY <2>1, <2>2, <2>3, <2>4, <2>5, <2>6, <2>7, <2>8, <2>9 DEF Next
<1>3. QED
  BY <1>1, <1>2, TypedInvariant, ThreadsInvariant, OnceInvariant, PTL DEF Spec

(* A method is never run more often than the call has attempts. *)
AtMostOncePerAttempt == \A k \in Call : executed[k] <= MAX_RETRIES + 1

(* Whatever is retried, duplicated by a retry or late, and on existing     *)
(* sockets too: a call with its MAX_RETRIES is run at most MAX_RETRIES + 1 *)
(* times (_RemoteMethod lines 174-193).                                    *)
THEOREM RunsAreBounded == Spec => []AtMostOncePerAttempt
<1>1. Typed /\ CountInv => AtMostOncePerAttempt
  <2> SUFFICES ASSUME Typed, CountInv, NEW k \in Call
               PROVE  executed[k] <= MAX_RETRIES + 1
    BY DEF AtMostOncePerAttempt
  <2>1. Done(k) \subseteq 0 .. MAX_RETRIES
    BY DEF Done
  <2>2. Cardinality(Done(k)) \in Nat /\ Cardinality(Done(k)) <= MAX_RETRIES + 1
    BY <2>1, SomeAttempts
  <2>3. executed[k] \in Nat /\ executed[k] <= Cardinality(Done(k)) /\ MAX_RETRIES \in Nat
    BY Attempts DEF CountInv, Typed, MessagesTyped
  <2>4. QED
    BY <2>2, <2>3
<1>2. QED
  BY <1>1, TypedInvariant, CountInvariant, PTL

-----------------------------------------------------------------------------
(* A reply is only made for a method that has been run. *)
RepliesInv ==
    \A c \in Conn : /\ hpc[c] \in {"reply", "last"} => executed[cur[c].call] > 0
                    /\ \A i \in 1 .. Len(rep[c]) : executed[rep[c][i].call] > 0

(* Runs are never undone. *)
LEMMA ExecutedGrows ==
    ASSUME Typed, [Next]_vars
    PROVE  \A k \in Call : executed'[k] \in Nat /\ executed'[k] >= executed[k]
<1> DEFINE Goal == \A k \in Call : executed'[k] \in Nat /\ executed'[k] >= executed[k]
<1>1. Goal
  <2>b. /\ executed \in [Call -> Nat] /\ spawned \subseteq Message
        /\ \A c \in Conn : hpc[c] = "exec" => cur[c] \in Message
    BY DEF Typed, MessagesTyped
  <2>s. executed' = executed => Goal
    BY <2>b
  <2> USE DEF proxyVars, threadVars, linkVars, serverVars, history
  <2>1. ASSUME NEW t \in Thread, NEW k \in Call, Begin(t, k) PROVE Goal
    BY <2>1, <2>s DEF Begin
  <2>2. ASSUME NEW t \in Thread, Invoke(t) PROVE Goal
    <3>1. CASE Acquire(t)
      BY <3>1, <2>s DEF Acquire
    <3>2. CASE Connect(t)
      BY <3>2, <2>s DEF Connect
    <3>3. CASE ConnectFails(t)
      BY <3>3, <2>s DEF ConnectFails
    <3>4. CASE Send(t)
      BY <3>4, <2>s DEF Send
    <3>5. CASE SendFails(t)
      BY <3>5, <2>s DEF SendFails
    <3>6. CASE Receive(t)
      BY <3>6, <2>s DEF Receive
    <3>7. CASE ReceiveOutOfSync(t)
      BY <3>7, <2>s DEF ReceiveOutOfSync
    <3>8. CASE ReceiveClosed(t)
      BY <3>8, <2>s DEF ReceiveClosed
    <3>9. QED
      BY <2>2, <3>1, <3>2, <3>3, <3>4, <3>5, <3>6, <3>7, <3>8 DEF Invoke
  <2>3. ASSUME NEW t \in Thread, ReceiveTimeout(t) PROVE Goal
    BY <2>3, <2>s DEF ReceiveTimeout
  <2>4. ASSUME NEW t \in Thread, Interrupt(t) PROVE Goal
    BY <2>4, <2>s DEF Interrupt
  <2>5. ASSUME NEW c \in Conn, Server(c) PROVE Goal
    <3>1. CASE Handle(c)
      BY <3>1, <2>s DEF Handle
    <3>2. CASE Spawn(c)
      BY <3>2, <2>s DEF Spawn
    <3>3. CASE Execute(c)
      <4>1. cur[c] \in Message /\ cur[c].call \in Call
        BY <3>3, <2>b, MessageFields DEF Execute
      <4>2. executed' = [executed EXCEPT ![cur[c].call] = executed[cur[c].call] + 1]
        BY <3>3 DEF Execute, Ran
      <4>3. QED
        BY <2>b, <4>1, <4>2
    <3>4. CASE ExecuteFatal(c)
      <4>1. cur[c] \in Message /\ cur[c].call \in Call
        BY <3>4, <2>b, MessageFields DEF ExecuteFatal
      <4>2. executed' = [executed EXCEPT ![cur[c].call] = executed[cur[c].call] + 1]
        BY <3>4 DEF ExecuteFatal, Ran
      <4>3. QED
        BY <2>b, <4>1, <4>2
    <3>5. CASE ExecuteCommError(c)
      <4>1. cur[c] \in Message /\ cur[c].call \in Call
        BY <3>5, <2>b, MessageFields DEF ExecuteCommError
      <4>2. executed' = [executed EXCEPT ![cur[c].call] = executed[cur[c].call] + 1]
        BY <3>5 DEF ExecuteCommError, Ran
      <4>3. QED
        BY <2>b, <4>1, <4>2
    <3>6. CASE Reply(c)
      BY <3>6, <2>s DEF Reply
    <3>7. CASE ReplyAndDrop(c)
      BY <3>7, <2>s DEF ReplyAndDrop
    <3>8. QED
      BY <2>5, <3>1, <3>2, <3>3, <3>4, <3>5, <3>6, <3>7 DEF Server
  <2>6. ASSUME NEW c \in Conn, Disconnect(c) PROVE Goal
    BY <2>6, <2>s DEF Disconnect
  <2>7. ASSUME NEW c \in Conn, Break(c) PROVE Goal
    BY <2>7, <2>s DEF Break
  <2>8. ASSUME NEW m \in spawned, RunSpawned(m) PROVE Goal
    <3>1. m \in Message /\ m.call \in Call
      BY <2>8, <2>b, MessageFields
    <3>2. executed' = [executed EXCEPT ![m.call] = executed[m.call] + 1]
      BY <2>8 DEF RunSpawned, Ran
    <3>3. QED
      BY <2>b, <3>1, <3>2
  <2>9. CASE UNCHANGED vars
    BY <2>9, <2>s DEF vars
  <2>10. QED
    BY <2>1, <2>2, <2>3, <2>4, <2>5, <2>6, <2>7, <2>8, <2>9 DEF Next
<1>2. QED
  BY <1>1

(* Replies that are added are those of handlers that have run the method. *)
LEMMA RepliesKept ==
    ASSUME Typed, RepliesInv,
           \A k \in Call : executed'[k] \in Nat /\ executed'[k] >= executed[k],
           \A c \in Conn : hpc'[c] \in {"reply", "last"} =>
               \/ hpc[c] \in {"reply", "last"} /\ cur'[c] = cur[c]
               \/ executed'[cur'[c].call] > 0,
           \A c \in Conn :
               \/ rep'[c] \in {rep[c], <<>>}
               \/ rep[c] # <<>> /\ rep'[c] = Tail(rep[c])
               \/ hpc[c] \in {"reply", "last"} /\ rep'[c] = Append(rep[c], cur[c])
    PROVE  RepliesInv'
<1> SUFFICES ASSUME NEW c \in Conn
             PROVE  /\ hpc'[c] \in {"reply", "last"} => executed'[cur'[c].call] > 0
                    /\ \A i \in 1 .. Len(rep'[c]) : executed'[rep'[c][i].call] > 0
  BY DEF RepliesInv
<1>1. /\ rep[c] \in Seq(Message) /\ executed \in [Call -> Nat]
      /\ hpc[c] \in {"reply", "last"} => cur[c] \in Message
  BY DEF Typed, MessagesTyped
<1>2. \A k \in Call : executed[k] > 0 => executed'[k] > 0
  BY <1>1
<1>3. hpc[c] \in {"reply", "last"} => executed'[cur[c].call] > 0
  BY <1>1, <1>2, MessageFields DEF RepliesInv
<1>4. \A i \in 1 .. Len(rep[c]) : executed'[rep[c][i].call] > 0
  <2>1. \A i \in 1 .. Len(rep[c]) : rep[c][i] \in Message
    BY <1>1
  <2>2. QED
    BY <1>2, <2>1, MessageFields DEF RepliesInv
<1>5. CASE rep'[c] = rep[c] \/ rep'[c] = <<>>
  BY <1>3, <1>4, <1>5
<1>6. CASE rep'[c] = Tail(rep[c]) /\ rep[c] # <<>>
  <2>1. /\ Len(rep[c]) \in Nat \ {0} /\ Len(Tail(rep[c])) = Len(rep[c]) - 1
        /\ \A i \in 1 .. Len(Tail(rep[c])) : Tail(rep[c])[i] = rep[c][i + 1]
    BY <1>1, <1>6
  <2>2. ASSUME NEW i \in 1 .. Len(Tail(rep[c])) PROVE i + 1 \in 1 .. Len(rep[c])
    BY <2>1
  <2>3. QED
    BY <1>3, <1>4, <1>6, <2>1, <2>2
<1>7. CASE hpc[c] \in {"reply", "last"} /\ rep'[c] = Append(rep[c], cur[c])
  <2>1. /\ Len(rep[c]) \in Nat /\ Len(rep'[c]) = Len(rep[c]) + 1
        /\ rep'[c][Len(rep[c]) + 1] = cur[c]
        /\ \A i \in 1 .. Len(rep[c]) : rep'[c][i] = rep[c][i]
    BY <1>1, <1>7, QueueGrows
  <2>2. QED
    BY <1>3, <1>4, <1>7, <2>1
<1>8. QED
  BY <1>5, <1>6, <1>7

(* Execute comes before Reply (handleRequest lines 1436-1503). *)
LEMMA RepliesInvariant == Spec => []RepliesInv
<1>1. Init => RepliesInv
  <2> SUFFICES ASSUME Init, NEW c \in Conn PROVE hpc[c] = "recv" /\ rep[c] = <<>>
    BY DEF RepliesInv
  <2>1. QED
    BY DEF Init
<1>2. Typed /\ RepliesInv /\ [Next]_vars => RepliesInv'
  <2> SUFFICES ASSUME Typed, RepliesInv, [Next]_vars PROVE RepliesInv'
    OBVIOUS
  <2>g. /\ Typed /\ RepliesInv
        /\ \A k \in Call : executed'[k] \in Nat /\ executed'[k] >= executed[k]
    BY ExecutedGrows
  <2>b. /\ rep \in [Conn -> Seq(Message)] /\ hpc = [d \in Conn |-> hpc[d]]
        /\ cur = [d \in Conn |-> cur[d]] /\ conn \in Conn \cup {None}
        /\ executed \in [Call -> Nat]
        /\ \A c \in Conn : hpc[c] = "exec" => cur[c] \in Message
        /\ \A t \in Thread : pc[t] = "recv" => conn # None
    BY DEF Typed, ClientTyped, MessagesTyped
  <2>s. UNCHANGED <<rep, hpc, cur>> => RepliesInv'
    BY <2>g, RepliesKept
  <2> USE DEF proxyVars, threadVars, linkVars, serverVars, history
  <2>1. ASSUME NEW t \in Thread, NEW k \in Call, Begin(t, k) PROVE RepliesInv'
    BY <2>1, <2>s DEF Begin
  <2>2. ASSUME NEW t \in Thread, Invoke(t) PROVE RepliesInv'
    <3>1. CASE Acquire(t)
      BY <3>1, <2>s DEF Acquire
    <3>2. CASE Connect(t)
      BY <3>2, <2>s DEF Connect
    <3>3. CASE ConnectFails(t)
      BY <3>3, <2>s DEF ConnectFails
    <3>4. CASE Send(t)
      BY <3>4, <2>s DEF Send
    <3>5. CASE SendFails(t)
      <4>1. conn \in Conn /\ UNCHANGED <<hpc, cur>>
        BY <3>5, <2>b DEF SendFails
      <4>2. rep' = rep \/ rep' = [rep EXCEPT ![conn] = <<>>]
        BY <3>5 DEF SendFails, Release
      <4>3. \A d \in Conn : rep'[d] \in {rep[d], <<>>}
        <5>1. CASE rep' = rep
          BY <4>1, <5>1, <2>b
        <5>2. CASE rep' = [rep EXCEPT ![conn] = <<>>]
          BY <4>1, <5>2, <2>b
        <5>3. QED
          BY <4>2, <5>1, <5>2
      <4>4. QED
        BY <2>g, <4>1, <4>3, RepliesKept
    <3>6. CASE Receive(t)
      <4>1. conn \in Conn /\ UNCHANGED <<hpc, cur>> /\ rep[conn] # <<>>
        BY <3>6, <2>b DEF Receive
      <4>2. rep' = [rep EXCEPT ![conn] = Tail(rep[conn])]
        BY <3>6 DEF Receive
      <4>3. \A d \in Conn : 
              rep'[d] \in {rep[d], <<>>} \/ (rep[d] # <<>> /\ rep'[d] = Tail(rep[d]))
        <5>1. CASE rep' = [rep EXCEPT ![conn] = Tail(rep[conn])]
          BY <4>1, <5>1, <2>b
        <5>2. QED
          BY <4>2, <5>1
      <4>4. QED
        BY <2>g, <4>1, <4>3, RepliesKept
    <3>7. CASE ReceiveOutOfSync(t)
      <4>1. conn \in Conn /\ UNCHANGED <<hpc, cur>> /\ rep[conn] # <<>>
        BY <3>7, <2>b DEF ReceiveOutOfSync
      <4>2. rep' = [rep EXCEPT ![conn] = Tail(rep[conn])] \/ rep' = [rep EXCEPT ![conn] = <<>>]
        BY <3>7 DEF ReceiveOutOfSync, Release
      <4>3. \A d \in Conn : 
              rep'[d] \in {rep[d], <<>>} \/ (rep[d] # <<>> /\ rep'[d] = Tail(rep[d]))
        <5>1. CASE rep' = [rep EXCEPT ![conn] = Tail(rep[conn])]
          BY <4>1, <5>1, <2>b
        <5>2. CASE rep' = [rep EXCEPT ![conn] = <<>>]
          BY <4>1, <5>2, <2>b
        <5>3. QED
          BY <4>2, <5>1, <5>2
      <4>4. QED
        BY <2>g, <4>1, <4>3, RepliesKept
    <3>8. CASE ReceiveClosed(t)
      <4>1. conn \in Conn /\ UNCHANGED <<hpc, cur>>
        BY <3>8, <2>b DEF ReceiveClosed
      <4>2. rep' = rep \/ rep' = [rep EXCEPT ![conn] = <<>>]
        BY <3>8 DEF ReceiveClosed, Release
      <4>3. \A d \in Conn : rep'[d] \in {rep[d], <<>>}
        <5>1. CASE rep' = rep
          BY <4>1, <5>1, <2>b
        <5>2. CASE rep' = [rep EXCEPT ![conn] = <<>>]
          BY <4>1, <5>2, <2>b
        <5>3. QED
          BY <4>2, <5>1, <5>2
      <4>4. QED
        BY <2>g, <4>1, <4>3, RepliesKept
    <3>9. QED
      BY <2>2, <3>1, <3>2, <3>3, <3>4, <3>5, <3>6, <3>7, <3>8 DEF Invoke
  <2>3. ASSUME NEW t \in Thread, ReceiveTimeout(t) PROVE RepliesInv'
    <3>1. conn \in Conn /\ UNCHANGED <<hpc, cur>>
      BY <2>3, <2>b DEF ReceiveTimeout
    <3>2. rep' = rep \/ rep' = [rep EXCEPT ![conn] = <<>>]
      BY <2>3 DEF ReceiveTimeout, Release
    <3>3. \A d \in Conn : rep'[d] \in {rep[d], <<>>}
      <4>1. CASE rep' = rep
        BY <3>1, <4>1, <2>b
      <4>2. CASE rep' = [rep EXCEPT ![conn] = <<>>]
        BY <3>1, <4>2, <2>b
      <4>3. QED
        BY <3>2, <4>1, <4>2
    <3>4. QED
      BY <2>g, <3>1, <3>3, RepliesKept
  <2>4. ASSUME NEW t \in Thread, Interrupt(t) PROVE RepliesInv'
    <3>1. conn \in Conn /\ UNCHANGED <<hpc, cur>>
      BY <2>4, <2>b DEF Interrupt
    <3>2. rep' = rep \/ rep' = [rep EXCEPT ![conn] = <<>>]
      BY <2>4 DEF Interrupt, Release
    <3>3. \A d \in Conn : rep'[d] \in {rep[d], <<>>}
      <4>1. CASE rep' = rep
        BY <3>1, <4>1, <2>b
      <4>2. CASE rep' = [rep EXCEPT ![conn] = <<>>]
        BY <3>1, <4>2, <2>b
      <4>3. QED
        BY <3>2, <4>1, <4>2
    <3>4. QED
      BY <2>g, <3>1, <3>3, RepliesKept
  <2>5. ASSUME NEW c \in Conn, Server(c) PROVE RepliesInv'
    <3>1. CASE Handle(c)
      <4>1. \A d \in Conn \ {c} : hpc'[d] = hpc[d] /\ cur'[d] = cur[d]
        BY <3>1, <2>b DEF Handle
      <4>2. rep' = rep /\ hpc'[c] \notin {"reply", "last"}
        BY <3>1, <2>b DEF Handle
      <4>3. QED
        BY <2>g, <4>1, <4>2, RepliesKept
    <3>2. CASE Spawn(c)
      <4>1. \A d \in Conn \ {c} : hpc'[d] = hpc[d] /\ cur'[d] = cur[d]
        BY <3>2, <2>b DEF Spawn, ServerReady
      <4>2. rep' = rep /\ hpc'[c] \notin {"reply", "last"}
        BY <3>2, <2>b DEF Spawn, ServerReady
      <4>3. QED
        BY <2>g, <4>1, <4>2, RepliesKept
    <3>3. CASE Execute(c)
      <4>1. \A d \in Conn \ {c} : hpc'[d] = hpc[d] /\ cur'[d] = cur[d]
        BY <3>3, <2>b DEF Execute, ServerReady
      <4>2. rep' = rep /\ executed' = [executed EXCEPT ![cur[c].call] = executed[cur[c].call] + 1]
        BY <3>3 DEF Execute, Ran
      <4>3. cur[c] \in Message /\ cur[c].call \in Call
        BY <3>3, <2>b, MessageFields DEF Execute
      <4>4. hpc'[c] = "recv" \/ cur'[c].call = cur[c].call
        BY <3>3, <2>b DEF Execute, ServerReady
      <4>5. executed'[cur[c].call] > 0
        BY <4>2, <4>3, <2>b
      <4>6. QED
        BY <2>g, <4>1, <4>2, <4>3, <4>4, <4>5, RepliesKept
    <3>4. CASE ExecuteFatal(c)
      <4>1. \A d \in Conn \ {c} : hpc'[d] = hpc[d] /\ cur'[d] = cur[d]
        BY <3>4, <2>b DEF ExecuteFatal
      <4>2. rep' = rep /\ executed' = [executed EXCEPT ![cur[c].call] = executed[cur[c].call] + 1]
        BY <3>4 DEF ExecuteFatal, Ran
      <4>3. cur[c] \in Message /\ cur[c].call \in Call
        BY <3>4, <2>b, MessageFields DEF ExecuteFatal
      <4>4. PICK s \in 0 .. SeqMod - 1 :
            cur' = [cur EXCEPT ![c] = [cur[c] EXCEPT !.seq = s]]
        BY <3>4 DEF ExecuteFatal
      <4>5. [cur[c] EXCEPT !.seq = s].call = cur[c].call
        BY <4>3, Renumbered
      <4>6. cur'[c].call = cur[c].call
        BY <4>4, <4>5, <2>b
      <4>7. executed'[cur[c].call] > 0
        BY <4>2, <4>3, <2>b
      <4>8. QED
        BY <2>g, <4>1, <4>2, <4>3, <4>6, <4>7, RepliesKept
    <3>5. CASE ExecuteCommError(c)
      <4>1. \A d \in Conn \ {c} : hpc'[d] = hpc[d] /\ cur'[d] = cur[d]
        BY <3>5, <2>b DEF ExecuteCommError, ServerReady, ServerDrops
      <4>2. rep' = rep /\ hpc'[c] \notin {"reply", "last"}
        BY <3>5, <2>b DEF ExecuteCommError, ServerReady, ServerDrops
      <4>3. QED
        BY <2>g, <4>1, <4>2, RepliesKept
    <3>6. CASE Reply(c)
      <4>1. \A d \in Conn \ {c} : hpc'[d] = hpc[d] /\ cur'[d] = cur[d] /\ rep'[d] = rep[d]
        BY <3>6, <2>b DEF Reply, Deliver, ServerReady
      <4>2. hpc'[c] = "recv" /\ hpc[c] = "reply" /\ rep'[c] \in {rep[c], Append(rep[c], cur[c])}
        BY <3>6, <2>b DEF Reply, Deliver, ServerReady
      <4>3. QED
        BY <2>g, <4>1, <4>2, RepliesKept
    <3>7. CASE ReplyAndDrop(c)
      <4>1. \A d \in Conn \ {c} : hpc'[d] = hpc[d] /\ cur'[d] = cur[d] /\ rep'[d] = rep[d]
        BY <3>7, <2>b DEF ReplyAndDrop, Deliver, ServerDrops, ServerReady
      <4>2. hpc'[c] = "recv" /\ hpc[c] = "last" /\ rep'[c] \in {rep[c], Append(rep[c], cur[c])}
        BY <3>7, <2>b DEF ReplyAndDrop, Deliver, ServerDrops, ServerReady
      <4>3. QED
        BY <2>g, <4>1, <4>2, RepliesKept
    <3>8. QED
      BY <2>5, <3>1, <3>2, <3>3, <3>4, <3>5, <3>6, <3>7 DEF Server
  <2>6. ASSUME NEW c \in Conn, Disconnect(c) PROVE RepliesInv'
    <3>1. \A d \in Conn \ {c} : hpc'[d] = hpc[d] /\ cur'[d] = cur[d]
      BY <2>6, <2>b DEF Disconnect, ServerDrops, ServerReady
    <3>2. rep' = rep /\ hpc'[c] \notin {"reply", "last"}
      BY <2>6, <2>b DEF Disconnect, ServerDrops, ServerReady
    <3>3. QED
      BY <2>g, <3>1, <3>2, RepliesKept
  <2>7. ASSUME NEW c \in Conn, Break(c) PROVE RepliesInv'
    <3>1. UNCHANGED <<hpc, cur>>
      BY <2>7, <2>b DEF Break
    <3>2. rep' = rep \/ rep' = [rep EXCEPT ![c] = <<>>]
      BY <2>7 DEF Break
    <3>3. \A d \in Conn : rep'[d] \in {rep[d], <<>>}
      <4>1. CASE rep' = rep
        BY <3>1, <4>1, <2>b
      <4>2. CASE rep' = [rep EXCEPT ![c] = <<>>]
        BY <3>1, <4>2, <2>b
      <4>3. QED
        BY <3>2, <4>1, <4>2
    <3>4. QED
      BY <2>g, <3>1, <3>3, RepliesKept
  <2>8. ASSUME NEW m \in spawned, RunSpawned(m) PROVE RepliesInv'
    <3>1. UNCHANGED <<rep, hpc, cur>>
      BY <2>8 DEF RunSpawned
    <3>2. QED
      BY <2>g, <3>1, RepliesKept
  <2>9. CASE UNCHANGED vars
    BY <2>9, <2>s DEF vars
  <2>10. QED
    BY <2>1, <2>2, <2>3, <2>4, <2>5, <2>6, <2>7, <2>8, <2>9 DEF Next
<1>3. QED
  BY <1>1, <1>2, TypedInvariant, PTL DEF Spec

(* A call that ends without a reply, or is tried again, as RemoteCall has  *)
(* it.                                                                     *)
LEMMA GivesUp ==
    ASSUME Typed, ThreadsInv, NEW t \in Thread, pc[t] # "idle", executed' = executed,
           Retry(t) \/ \E o \in {"raised", "sent"} : Finish(t, o)
    PROVE  [Abstract!Next]_(Abstract!callVars)
<1>1. call[t] \in Call /\ outcome[call[t]] = "pending"
  BY DEF Typed, ClientTyped, ThreadsInv
<1>2. CASE \E o \in {"raised", "sent"} : Finish(t, o)
  BY <1>1, <1>2 DEF Finish, Abstract!Next, Abstract!GiveUp
<1>3. CASE Retry(t) /\ attempt[t] < MAX_RETRIES
  BY <1>3 DEF Retry, Abstract!callVars
<1>4. QED
  BY <1>2, <1>3 DEF Retry

(* On the connections that the proxy makes, every step is one that         *)
(* RemoteCall allows, or changes nothing of what RemoteCall sees: no call  *)
(* returns without having been run, none is run before it is made or more  *)
(* often than it is attempted, and its outcome is decided once.            *)
THEOREM PromiseKept ==
    Spec /\ ~KeepOpen => Abstract!Init /\ [][Abstract!Next]_(Abstract!callVars)
<1>1. Init => Abstract!Init
  BY DEF Init, Abstract!Init
<1>2. Typed /\ ThreadsInv /\ AwaitInv /\ OnceInv /\ CountInv /\ RepliesInv /\ ~KeepOpen
        /\ [Next]_vars => [Abstract!Next]_(Abstract!callVars)
  <2> SUFFICES ASSUME Typed, ThreadsInv, AwaitInv, OnceInv, CountInv, RepliesInv,
                      ~KeepOpen, [Next]_vars
               PROVE  [Abstract!Next]_(Abstract!callVars)
    OBVIOUS
  <2>g. /\ Typed /\ ThreadsInv /\ OnceInv /\ CountInv
        /\ \A j \in Call : Done(j) \subseteq Done(j)'
        /\ \A j \in Call, b \in Nat : Unsent(j, b)' => Unsent(j, b)
    BY DoneGrows, UnsentShrinks
  <2>b. /\ req \in [Conn -> Seq(Message)] /\ hpc = [d \in Conn |-> hpc[d]]
        /\ cur = [d \in Conn |-> cur[d]] /\ conn \in Conn \cup {None}
        /\ \A t \in Thread : /\ pc[t] = "recv" => conn # None /\ lock = t
                             /\ pc[t] # "idle" => call[t] \in Call
    BY DEF Typed, ClientTyped, MessagesTyped
  <2> USE DEF proxyVars, threadVars, linkVars, serverVars, history
  <2>1. ASSUME NEW t \in Thread, NEW k \in Call, Begin(t, k) PROVE [Abstract!Next]_(Abstract!callVars)
    BY <2>1 DEF Begin, Abstract!Next, Abstract!Begin
  <2>2. ASSUME NEW t \in Thread, Invoke(t) PROVE [Abstract!Next]_(Abstract!callVars)
    <3>1. CASE Acquire(t)
      BY <3>1 DEF Acquire, Abstract!callVars
    <3>2. CASE Connect(t)
      BY <3>2 DEF Connect, Abstract!callVars
    <3>3. CASE ConnectFails(t)
      BY <3>3, <2>g, GivesUp DEF ConnectFails
    <3>4. CASE Send(t)
      <4>1. CASE oneway[t]
        BY <3>4, <4>1, <2>g, GivesUp DEF Send
      <4>2. CASE ~oneway[t]
        BY <3>4, <4>2 DEF Send, Abstract!callVars
      <4>3. QED
        BY <4>1, <4>2
    <3>5. CASE SendFails(t)
      BY <3>5, <2>g, GivesUp DEF SendFails
    <3>6. CASE Receive(t)
      <4>1. /\ lock = t /\ pc[t] = "recv" /\ conn \in Conn /\ rep[conn] # <<>>
            /\ executed' = executed /\ outcome' = [outcome EXCEPT ![call[t]] = "returned"]
        BY <3>6, <2>b DEF Receive, Finish
      <4>2. OnlyAwaited(conn)
        BY <4>1, <2>b DEF AwaitInv
      <4>3. Len(rep[conn]) = 1 /\ rep[conn][1].call = call[t]
        BY <4>1, <4>2 DEF OnlyAwaited, Awaited
      <4>4. executed[rep[conn][1].call] > 0
        BY <4>1, <4>3 DEF RepliesInv
      <4>5. call[t] \in Call /\ outcome[call[t]] = "pending"
        BY <4>1, <2>b DEF ThreadsInv
      <4>6. QED
        BY <4>1, <4>3, <4>4, <4>5 DEF Abstract!Next, Abstract!Return
    <3>7. CASE ReceiveOutOfSync(t)
      BY <3>7, <2>g, GivesUp DEF ReceiveOutOfSync
    <3>8. CASE ReceiveClosed(t)
      BY <3>8, <2>g, GivesUp DEF ReceiveClosed
    <3>9. QED
      BY <2>2, <3>1, <3>2, <3>3, <3>4, <3>5, <3>6, <3>7, <3>8 DEF Invoke
  <2>3. ASSUME NEW t \in Thread, ReceiveTimeout(t) PROVE [Abstract!Next]_(Abstract!callVars)
    BY <2>3, <2>g, GivesUp DEF ReceiveTimeout
  <2>4. ASSUME NEW t \in Thread, Interrupt(t) PROVE [Abstract!Next]_(Abstract!callVars)
    BY <2>4, <2>g, GivesUp DEF Interrupt
  <2>5. ASSUME NEW c \in Conn, Server(c) PROVE [Abstract!Next]_(Abstract!callVars)
    <3>1. CASE Handle(c)
      BY <3>1 DEF Handle, Abstract!callVars
    <3>2. CASE Spawn(c)
      BY <3>2 DEF Spawn, Abstract!callVars
    <3>3. CASE Execute(c)
      <4>1. /\ hpc[c] = "exec" /\ hpc'[c] # "exec" /\ spawned' = spawned
            /\ req'[c] \in {req[c], <<>>}
            /\ executed' = [executed EXCEPT ![cur[c].call] = executed[cur[c].call] + 1]
        BY <3>3, <2>b DEF Execute, Ran, ServerReady
      <4>2. \A d \in Conn \ {c} :
            req'[d] = req[d] /\ hpc'[d] = hpc[d] /\ cur'[d] = cur[d]
        BY <3>3, <2>b DEF Execute, ServerReady
      <4>3. /\ cur[c].call \in Call /\ outcome[cur[c].call] # "none"
            /\ executed[cur[c].call] <= MAX_RETRIES
        BY <2>g, <4>1, <4>2, CountExecutes
      <4>4. outcome' = outcome
        BY <3>3 DEF Execute
      <4>5. QED
        BY <4>1, <4>3, <4>4 DEF Abstract!Next, Abstract!Execute
    <3>4. CASE ExecuteFatal(c)
      <4>1. /\ hpc[c] = "exec" /\ hpc'[c] # "exec" /\ spawned' = spawned
            /\ req'[c] \in {req[c], <<>>}
            /\ executed' = [executed EXCEPT ![cur[c].call] = executed[cur[c].call] + 1]
        BY <3>4, <2>b DEF ExecuteFatal, Ran
      <4>2. \A d \in Conn \ {c} :
            req'[d] = req[d] /\ hpc'[d] = hpc[d] /\ cur'[d] = cur[d]
        BY <3>4, <2>b DEF ExecuteFatal
      <4>3. /\ cur[c].call \in Call /\ outcome[cur[c].call] # "none"
            /\ executed[cur[c].call] <= MAX_RETRIES
        BY <2>g, <4>1, <4>2, CountExecutes
      <4>4. outcome' = outcome
        BY <3>4 DEF ExecuteFatal
      <4>5. QED
        BY <4>1, <4>3, <4>4 DEF Abstract!Next, Abstract!Execute
    <3>5. CASE ExecuteCommError(c)
      <4>1. /\ hpc[c] = "exec" /\ hpc'[c] # "exec" /\ spawned' = spawned
            /\ req'[c] \in {req[c], <<>>}
            /\ executed' = [executed EXCEPT ![cur[c].call] = executed[cur[c].call] + 1]
        BY <3>5, <2>b DEF ExecuteCommError, Ran, ServerReady, ServerDrops
      <4>2. \A d \in Conn \ {c} :
            req'[d] = req[d] /\ hpc'[d] = hpc[d] /\ cur'[d] = cur[d]
        BY <3>5, <2>b DEF ExecuteCommError, ServerReady, ServerDrops
      <4>3. /\ cur[c].call \in Call /\ outcome[cur[c].call] # "none"
            /\ executed[cur[c].call] <= MAX_RETRIES
        BY <2>g, <4>1, <4>2, CountExecutes
      <4>4. outcome' = outcome
        BY <3>5 DEF ExecuteCommError
      <4>5. QED
        BY <4>1, <4>3, <4>4 DEF Abstract!Next, Abstract!Execute
    <3>6. CASE Reply(c)
      BY <3>6 DEF Reply, Abstract!callVars
    <3>7. CASE ReplyAndDrop(c)
      BY <3>7 DEF ReplyAndDrop, Abstract!callVars
    <3>8. QED
      BY <2>5, <3>1, <3>2, <3>3, <3>4, <3>5, <3>6, <3>7 DEF Server
  <2>6. ASSUME NEW c \in Conn, Disconnect(c) PROVE [Abstract!Next]_(Abstract!callVars)
    BY <2>6 DEF Disconnect, Abstract!callVars
  <2>7. ASSUME NEW c \in Conn, Break(c) PROVE [Abstract!Next]_(Abstract!callVars)
    BY <2>7 DEF Break, Abstract!callVars
  <2>8. ASSUME NEW m \in spawned, RunSpawned(m) PROVE [Abstract!Next]_(Abstract!callVars)
    <3>1. /\ m \in spawned /\ spawned' = spawned \ {m} /\ UNCHANGED <<req, hpc, cur>>
          /\ executed' = [executed EXCEPT ![m.call] = executed[m.call] + 1]
      BY <2>8 DEF RunSpawned, Ran
    <3>2. /\ m.call \in Call /\ outcome[m.call] # "none"
          /\ executed[m.call] <= MAX_RETRIES
      BY <2>g, <3>1, CountRuns
    <3>3. outcome' = outcome
      BY <2>8 DEF RunSpawned
    <3>4. QED
      BY <3>1, <3>2, <3>3 DEF Abstract!Next, Abstract!Execute
  <2>9. CASE UNCHANGED vars
    BY <2>9 DEF vars, Abstract!callVars
  <2>10. QED
    BY <2>1, <2>2, <2>3, <2>4, <2>5, <2>6, <2>7, <2>8, <2>9 DEF Next
<1>3. ~KeepOpen /\ [Next]_vars => ~KeepOpen'
  BY ConfigKept DEF KeepOpen
<1>4. QED
  BY <1>1, <1>2, <1>3, TypedInvariant, ThreadsInvariant, AwaitInvariant, OnceInvariant,
     CountInvariant, RepliesInvariant, PTL DEF Spec
=============================================================================
