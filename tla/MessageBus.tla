----------------------------- MODULE MessageBus ------------------------------
(***************************************************************************)
(* The publish and subscribe bus of examples/messagebus: clients send and  *)
(* subscribe, one thread of the bus forwards the pending messages, and     *)
(* each subscriber puts them into a queue of limited size.  The storage is *)
(* in memory or an SQLite database, which outlives the bus.                *)
(***************************************************************************)
EXTENDS Values, Naturals, Sequences, FiniteSets

CONSTANTS
    Topic, Subscriber,
    BatchLimit,     \* messages that fit in one request (MAX_MESSAGE_SIZE)
    QueueLimit,     \* max_queue_size of a subscriber
    SendRetries,    \* MAX_RETRIES of the bus
    MaxSent, MaxInvokes, MaxRounds   \* bounds: messages, requests to subscribers, rounds

ASSUME BusAssumption ==
    /\ BatchLimit \in Nat
    /\ None \notin [to : Subscriber, parts : Seq(Seq(Nat)), tries : Nat, no : Nat]

VARIABLES
    storage,        \* "memory" or "sqlite", None before the bus was ever started
    bus,            \* what is stored: [topics, messages, subscribers]
    checked,        \* the topic that a remove_topic has found to be empty, or None
    subscribing,    \* [topic, who] of a subscribe that has made its topic, or None
    sender,         \* the bus's thread: [phase, batch, todo, failing, counted]
    call,           \* its call: [to, parts, tries, no], no = 0 before it is sent, or None
    incoming,       \* requests in the subscribers: [no, to, rest]
    backlog,        \* messages in each subscriber's queue
    delivered,      \* history: what was put into it so far
    due,            \* history: [topic, msg, to] sent while "to" was subscribed, and no delivery failed
    lost,           \* history: those of a failed delivery whose subscription remains
    counts          \* messages, requests and rounds so far

busVars == <<storage, bus, checked, subscribing, sender, call, incoming, backlog, delivered, due,
             lost, counts>>
subscriberVars == <<incoming, backlog, delivered>>
threadVars == <<sender, call>>

Nothing == [t \in Topic |-> <<>>]
EmptyBus == [topics |-> {}, messages |-> Nothing, subscribers |-> [t \in Topic |-> {}]]
Thread(phase) == [phase |-> phase, batch |-> Nothing, todo |-> {}, failing |-> {}, counted |-> 0]

BusInit ==
    /\ storage = None /\ bus = EmptyBus /\ checked = None /\ subscribing = None
    /\ sender = Thread("stopped") /\ call = None
    /\ incoming = {} /\ backlog = [s \in Subscriber |-> 0] /\ delivered = [s \in Subscriber |-> <<>>]
    /\ due = {} /\ lost = {} /\ counts = [sent |-> 0, invokes |-> 0, rounds |-> 0]

Running == sender.phase # "stopped"
Elements(s) == {s[i] : i \in DOMAIN s}

-----------------------------------------------------------------------------
(* The storage: operations of SqliteStorage, and of MemoryStorage where    *)
(* that one differs *)

CreateTopic(b, t) == [b EXCEPT !.topics = @ \cup {t}]

DeleteTopic(b, t) ==
    [topics |-> b.topics \ {t}, messages |-> [b.messages EXCEPT ![t] = <<>>],
     subscribers |-> [b.subscribers EXCEPT ![t] = {}]]

HasPending(b, t) == b.messages[t] # <<>>
HasSubscribers(b, t) == b.subscribers[t] # {}

(* The database does not keep what nobody would receive. *)
AddToMemory(b, t, m) == [b EXCEPT !.messages[t] = Append(@, m)]
AddMessage(b, t, m) == IF HasSubscribers(b, t) THEN AddToMemory(b, t, m) ELSE b

(* A subscription to a topic that is gone fails. *)
AddSubscriber(b, t, s) == IF t \in b.topics THEN [b EXCEPT !.subscribers[t] = @ \cup {s}] ELSE b
RemoveSubscriber(b, t, who) == [b EXCEPT !.subscribers[t] = @ \ who]

AllPending(b) == b.messages
AllSubscribers(b) == {ts \in Topic \X Subscriber : ts[2] \in b.subscribers[ts[1]]}

(* What a DELETE of the messages in gone leaves of s, in its order. *)
Remaining(s, gone) ==
    LET keep[i \in 0 .. Len(s)] ==
            IF i = 0 THEN <<>> ELSE IF s[i] \in gone THEN keep[i - 1] ELSE Append(keep[i - 1], s[i])
    IN  keep[Len(s)]

DeleteMessages(b, batch) ==
    [b EXCEPT !.messages = [t \in Topic |-> Remaining(b.messages[t], Elements(batch[t]))]]

Without(history, topics, who) == {o \in history : o.topic \notin topics \/ o.to \notin who}

-----------------------------------------------------------------------------
(* The process *)

(* make_messagebus: the database is there again after a crash. *)
StartBus(k) ==
    /\ ~Running /\ storage \in {None, k} /\ storage' = k /\ sender' = Thread("wait")
    /\ UNCHANGED <<bus, checked, subscribing, call, subscriberVars, due, lost, counts>>

CrashBus ==
    /\ Running /\ sender' = Thread("stopped") /\ call' = None
    /\ checked' = None /\ subscribing' = None
    /\ IF storage = "memory" THEN bus' = EmptyBus /\ due' = {} /\ lost' = {}
                             ELSE UNCHANGED <<bus, due, lost>>
    /\ incoming' = {c \in incoming : c.rest # <<>>}
    /\ UNCHANGED <<storage, backlog, delivered, counts>>

-----------------------------------------------------------------------------
(* Calls of clients, each in its own thread; msg_lock makes them atomic    *)
(* where the code holds it.                                                *)

AddTopic(t) ==
    /\ Running /\ t \notin bus.topics /\ bus' = CreateTopic(bus, t)
    /\ UNCHANGED <<storage, checked, subscribing, threadVars, subscriberVars, due, lost, counts>>

(* remove_topic looks at the topic without the lock. *)
CheckTopic(t) ==
    /\ Running /\ checked = None /\ ~HasPending(bus, t) /\ ~HasSubscribers(bus, t)
    /\ checked' = t
    /\ UNCHANGED <<storage, bus, subscribing, threadVars, subscriberVars, due, lost, counts>>

RemoveTopic ==
    /\ checked # None /\ checked' = None
    /\ bus' = DeleteTopic(bus, checked)
    /\ due' = Without(due, {checked}, Subscriber)
    /\ lost' = Without(lost, {checked}, Subscriber)
    /\ UNCHANGED <<storage, subscribing, threadVars, subscriberVars, counts>>

SendMessage(t) ==
    /\ Running /\ t \in bus.topics /\ counts.sent < MaxSent
    /\ counts' = [counts EXCEPT !.sent = @ + 1]
    /\ bus' = IF storage = "sqlite" THEN AddMessage(bus, t, counts'.sent)
              ELSE AddToMemory(bus, t, counts'.sent)
    /\ due' = due \cup [topic : {t}, msg : {counts'.sent}, to : bus.subscribers[t]]
    /\ UNCHANGED <<storage, checked, subscribing, threadVars, subscriberVars, lost>>

(* subscribe takes the lock twice: it makes sure that the topic exists... *)
BeginSubscribe(t, s) ==
    /\ Running /\ subscribing = None /\ s \notin bus.subscribers[t]
    /\ bus' = CreateTopic(bus, t) /\ subscribing' = [topic |-> t, who |-> s]
    /\ UNCHANGED <<storage, checked, threadVars, subscriberVars, due, lost, counts>>

(* ... and fails if it has been removed since. *)
Subscribe ==
    /\ subscribing # None /\ subscribing' = None
    /\ bus' = AddSubscriber(bus, subscribing.topic, subscribing.who)
    /\ UNCHANGED <<storage, checked, threadVars, subscriberVars, due, lost, counts>>

(* In memory the bus's proxy is released first, which waits for the end of *)
(* one attempt; in the database the subscription goes before that.         *)
Attempting(s) == call # None /\ call.to = s /\ call.no # 0

Unsubscribe(t, s) ==
    /\ Running /\ s \in bus.subscribers[t] /\ (storage = "memory" => ~Attempting(s))
    /\ bus' = RemoveSubscriber(bus, t, {s})
    /\ due' = Without(due, {t}, {s}) /\ lost' = Without(lost, {t}, {s})
    /\ UNCHANGED <<storage, checked, subscribing, threadVars, subscriberVars, counts>>

-----------------------------------------------------------------------------
(* The sender *)

callerVars == <<checked, subscribing>>

(* The statistics are read without the lock: the dict of topics must not   *)
(* change its size meanwhile.                                              *)
ReadStats ==
    /\ sender.phase = "wait"
    /\ sender' = [sender EXCEPT !.phase = "stats", !.counted = Cardinality(bus.topics)]
    /\ UNCHANGED <<storage, bus, callerVars, call, subscriberVars, due, lost, counts>>

PrintStats ==
    /\ sender.phase = "stats"
    /\ sender' = Thread(IF storage = "memory" /\ Cardinality(bus.topics) # sender.counted
                        THEN "dead" ELSE "collect")
    /\ UNCHANGED <<storage, bus, callerVars, call, subscriberVars, due, lost, counts>>

Collect ==
    /\ sender.phase \in {"wait", "collect"} /\ counts.rounds < MaxRounds
    /\ counts' = [counts EXCEPT !.rounds = @ + 1]
    /\ sender' = [Thread("deliver") EXCEPT
           !.batch = AllPending(bus),
           !.todo = {ts \in AllSubscribers(bus) : HasPending(bus, ts[1])}]
    /\ UNCHANGED <<storage, bus, callerVars, call, subscriberVars, due, lost>>

(* One request, or one for each message if they are too large for it. *)
Requests(b) == IF Len(b) <= BatchLimit THEN <<b>> ELSE [i \in DOMAIN b |-> <<b[i]>>]

Deliver(t, s) ==
    /\ sender.phase = "deliver" /\ call = None /\ <<t, s>> \in sender.todo
    /\ sender' = [sender EXCEPT !.todo = @ \ {<<t, s>>}]
    /\ call' = [to |-> s, parts |-> Requests(sender.batch[t]), tries |-> 0, no |-> 0]
    /\ UNCHANGED <<storage, bus, callerVars, subscriberVars, due, lost, counts>>

InvokeSubscriber(arrives) ==
    /\ call # None /\ call.no = 0 /\ counts.invokes < MaxInvokes
    /\ counts' = [counts EXCEPT !.invokes = @ + 1]
    /\ call' = [call EXCEPT !.no = counts'.invokes]
    /\ incoming' = IF arrives
                   THEN incoming \cup {[no |-> call'.no, to |-> call.to, rest |-> Head(call.parts)]}
                   ELSE incoming
    /\ UNCHANGED <<storage, bus, callerVars, sender, backlog, delivered, due, lost>>

Awaited(c) == call # None /\ call.no = c.no

Acknowledged(c) ==
    /\ Awaited(c) /\ c.rest = <<>> /\ incoming' = incoming \ {c}
    /\ call' = IF Len(call.parts) = 1 THEN None
               ELSE [call EXCEPT !.parts = Tail(@), !.tries = 0, !.no = 0]
    /\ UNCHANGED <<storage, bus, callerVars, sender, backlog, delivered, due, lost, counts>>

Calling == call # None /\ call.no # 0

(* Mutant: the next message is sent although this one was not answered. *)
RetrySkipping ==
    /\ Calling /\ call.tries < SendRetries /\ Len(call.parts) > 1
    /\ call' = [call EXCEPT !.parts = Tail(@), !.no = 0]
    /\ UNCHANGED <<storage, bus, callerVars, sender, subscriberVars, due, lost, counts>>

(* A lost connection or a timeout; the request may go on in the subscriber. *)
Retry ==
    /\ Calling /\ call.tries < SendRetries
    /\ call' = [call EXCEPT !.tries = @ + 1, !.no = 0]
    /\ incoming' = {c \in incoming : c.rest # <<>>}
    /\ UNCHANGED <<storage, bus, callerVars, sender, backlog, delivered, due, lost, counts>>

(* Any other error, or the last retry: nothing more goes to this subscriber. *)
Fail ==
    /\ Calling /\ call' = None
    /\ sender' = [sender EXCEPT !.failing = @ \cup {call.to},
                                !.todo = {ts \in @ : ts[2] # call.to}]
    /\ LET given == {o \in due : o.to = call.to /\ o.msg \in Elements(sender.batch[o.topic])}
       IN due' = due \ given
          /\ lost' = lost \cup {o \in given : o.msg \notin Elements(delivered[o.to])}
    /\ incoming' = {c \in incoming : c.rest # <<>>}
    /\ UNCHANGED <<storage, bus, callerVars, backlog, delivered, counts>>

Finished == sender.phase = "deliver" /\ call = None /\ sender.todo = {}
AfterRemoval == IF sender.failing = {} THEN Thread("wait") ELSE [sender EXCEPT !.phase = "drop"]

(* Mutant: all that is pending is removed, and not what was collected. *)
RemoveAllMessages ==
    /\ Finished /\ sender' = AfterRemoval /\ bus' = [bus EXCEPT !.messages = Nothing]
    /\ UNCHANGED <<storage, callerVars, call, subscriberVars, due, lost, counts>>

RemoveMessages ==
    /\ Finished /\ sender' = AfterRemoval
    /\ bus' = DeleteMessages(bus, sender.batch)
    /\ UNCHANGED <<storage, callerVars, call, subscriberVars, due, lost, counts>>

UnsubscribeMany ==
    /\ sender.phase = "drop" /\ sender' = Thread("wait")
    /\ bus' = [bus EXCEPT !.subscribers = [t \in Topic |-> @[t] \ sender.failing]]
    /\ due' = Without(due, Topic, sender.failing) /\ lost' = Without(lost, Topic, sender.failing)
    /\ UNCHANGED <<storage, callerVars, call, subscriberVars, counts>>

-----------------------------------------------------------------------------
(* A subscriber *)

(* incoming_message waits for room in the queue. *)
PutMessage(c) ==
    /\ c.rest # <<>> /\ backlog[c.to] < QueueLimit
    /\ backlog' = [backlog EXCEPT ![c.to] = @ + 1]
    /\ delivered' = [delivered EXCEPT ![c.to] = Append(@, Head(c.rest))]
    /\ incoming' = (incoming \ {c}) \cup
            (IF Len(c.rest) > 1 \/ Awaited(c) THEN {[c EXCEPT !.rest = Tail(@)]} ELSE {})
    /\ UNCHANGED <<storage, bus, callerVars, threadVars, due, lost, counts>>

ConsumeMessage(s) ==
    /\ backlog[s] > 0 /\ backlog' = [backlog EXCEPT ![s] = @ - 1]
    /\ UNCHANGED <<storage, bus, callerVars, threadVars, incoming, delivered, due, lost, counts>>

Sending ==
    \/ ReadStats \/ PrintStats \/ Collect \/ RemoveMessages \/ UnsubscribeMany
    \/ \E t \in Topic, s \in Subscriber : Deliver(t, s)
    \/ \E arrives \in BOOLEAN : InvokeSubscriber(arrives)
    \/ \E c \in incoming : Acknowledged(c)
    \/ Retry \/ Fail

BusNext ==
    \/ \E k \in {"memory", "sqlite"} : StartBus(k)
    \/ CrashBus \/ RemoveTopic \/ Subscribe \/ Sending
    \/ \E t \in Topic : AddTopic(t) \/ CheckTopic(t) \/ SendMessage(t)
    \/ \E t \in Topic, s \in Subscriber : BeginSubscribe(t, s) \/ Unsubscribe(t, s)
    \/ \E c \in incoming : PutMessage(c)
    \/ \E s \in Subscriber : ConsumeMessage(s)

BusSpec == BusInit /\ [][BusNext]_busVars

-----------------------------------------------------------------------------
(* Properties *)

(* A message stays pending until everyone who was subscribed when it was   *)
(* sent has it in his queue, unless he, his topic or, after an error, the  *)
(* sender has given the subscription up: what is removed is what was       *)
(* collected, and those it was collected for have been served (lines       *)
(* 471-508).                                                               *)
KeptUntilDelivered ==
    \A o \in due : o.msg \in Elements(delivered[o.to]) \cup Elements(bus.messages[o.topic])

(* A subscriber gets the messages of a topic in the order in which they    *)
(* were sent, whatever is sent again: retries may only repeat messages,    *)
(* which his queue has had before (lines 81-87, 486-502).                  *)
SentOrder ==
    \A o, p \in due : o.topic = p.topic /\ o.to = p.to /\ o.msg < p.msg
                        /\ p.msg \in Elements(delivered[p.to]) => o.msg \in Elements(delivered[o.to])

(* Messages stay until they are delivered or given up, and reach a         *)
(* subscriber's queue in the order in which they were sent.                *)
BusInv == KeptUntilDelivered /\ SentOrder

(* "No messages will get lost, and it also remembers the subscribers"      *)
(* (examples/messagebus/Readme.txt, of the SQLite storage): outside of a   *)
(* round nobody is subscribed whose message was given up.                  *)
NoneLost == sender.phase = "wait" /\ storage = "sqlite" => lost = {}
=============================================================================
