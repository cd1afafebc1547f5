----------------------------- MODULE CallContext -----------------------------
(***************************************************************************)
(* core.current_context: what a thread of the daemon knows of the call     *)
(* that it executes, the annotations of its next reply, and the resources  *)
(* that calls track on their connection.  One thread serves all the        *)
(* connections in turn, as the multiplex server does and as a worker of    *)
(* the pool does with one connection after another; oneway calls run in    *)
(* threads of their own.                                                   *)
(***************************************************************************)
EXTENDS Values, Naturals, Sequences, FiniteSets

CONSTANTS
    Peer, Resource,
    MaxRequests, MaxActs    \* bounds: requests, and steps of the program's code

ASSUME ContextAssumption == None \notin Peer

VARIABLES
    context,    \* of the server thread and of each oneway thread, by its request:
                \* [client, corr, given, made, notes]: given holds the request
                \* whose annotations the context has, if any; notes holds the
                \* requests that put one in response_annotations, a dict that
                \* was made in request made
    running,    \* what the server thread executes: [conn, oneway], or None
    requests,   \* number of requests; each is the correlation id of its own
    leaving,    \* history: requests that were oneway or raised an exception
    lastSent,   \* history: what the last step sent, a reply or a nested call's
                \* request, as [kind, request, corr, notes]; or None
    connection, \* "new", "open", "closing", "closed" or "gone"
    tracked,    \* tracked_resources
    unseen,     \* of a connection being closed: resources that its loop has not seen
    released,   \* resources that were closed
    owed,       \* history: resources that calls have tracked and not untracked
    acts

contextVars ==
    <<context, running, requests, leaving, lastSent, connection, tracked, unseen, released,
      owed, acts>>
callVars == <<context, running, requests, leaving, acts>>
trackVars == <<tracked, unseen, released, owed, acts>>
releaseVars == <<unseen, released>>

Server == 0
Closing == {c \in Peer : connection[c] = "closing"}
SendsNothing == lastSent' = None
Idle == running = None /\ Closing = {}
Oneways == DOMAIN context \ {Server}

(* The threads that execute the program's code. *)
Executing == Oneways \cup {t \in {Server} : running # None}

(* The request that a thread executes. *)
RequestOf(t) == IF t = Server THEN requests ELSE t

(* The thread gets a dict of its own for response_annotations.  Contexts   *)
(* whose dict was made in one request share it.                            *)
NewDict(t, notes) ==
    context' = [context EXCEPT ![t].made = RequestOf(t), ![t].notes = notes]

ContextInit ==
    /\ context = [t \in {Server} |-> [client |-> None, corr |-> 0, given |-> {}, made |-> 0,
                                      notes |-> {}]]
    /\ running = None /\ requests = 0 /\ leaving = {} /\ lastSent = None
    /\ connection = [c \in Peer |-> "new"] /\ tracked = [c \in Peer |-> {}]
    /\ unseen = {} /\ released = {} /\ owed = [c \in Peer |-> {}] /\ acts = 0

-----------------------------------------------------------------------------
(* Requests that the server thread receives and their replies.  *)

(* _handshake and handleRequest first take or make a correlation id. *)
Arrive(c, oneway) ==
    /\ Idle /\ requests < MaxRequests /\ requests' = requests + 1
    /\ leaving' = IF oneway THEN leaving \cup {requests'} ELSE leaving

Reply(kind, corr) ==
    lastSent' = [kind |-> kind, request |-> requests', corr |-> corr,
                  notes |-> context[Server].notes]

(* The answers to a handshake and to a ping carry the annotations and      *)
(* leave them.                                                             *)
Handshake(c) ==
    /\ connection[c] = "new" /\ Arrive(c, FALSE)
    /\ context' = [context EXCEPT ![Server].corr = requests']
    /\ Reply("handshake", requests')
    /\ connection' = [connection EXCEPT ![c] = "open"]
    /\ UNCHANGED <<running, trackVars>>

(* One that is denied before its correlation id is read, and closed.      *)
Deny(c) ==
    /\ connection[c] = "new" /\ Arrive(c, FALSE)
    /\ Reply("denied", context[Server].corr)
    /\ connection' = [connection EXCEPT ![c] = "closing"]
    /\ UNCHANGED <<context, running, trackVars>>

Ping(c) ==
    /\ connection[c] = "open" /\ Arrive(c, FALSE)
    /\ context' = [context EXCEPT ![Server].corr = requests']
    /\ Reply("ping", requests')
    /\ UNCHANGED <<running, connection, trackVars>>

CalledBy(c) == [context[Server] EXCEPT !.client = c, !.corr = requests', !.given = {requests'}]

InvokeMethod(c, oneway) ==
    /\ connection[c] = "open" /\ Arrive(c, oneway)
    /\ context' = [context EXCEPT ![Server] = CalledBy(c)]
    /\ running' = [conn |-> c, oneway |-> oneway] /\ SendsNothing
    /\ UNCHANGED <<connection, trackVars>>

(* Mutant: the thread does not take over the context. *)
InvokeThreadedBare(c) ==
    /\ connection[c] = "open" /\ Arrive(c, TRUE)
    /\ context' = [t \in DOMAIN context \cup {requests'} |->
                    CASE t = Server -> CalledBy(c)
                      [] t = requests' -> [CalledBy(c) EXCEPT !.corr = 0, !.given = {}]
                      [] OTHER -> context[t]]
    /\ SendsNothing /\ UNCHANGED <<running, connection, trackVars>>

(* With ONEWAY_THREADED the call's own thread begins with a copy of the    *)
(* server thread's context: the two share the dict.                        *)
InvokeThreaded(c) ==
    /\ connection[c] = "open" /\ Arrive(c, TRUE)
    /\ context' = [t \in DOMAIN context \cup {requests'} |->
                    IF t \in {Server, requests'} THEN CalledBy(c) ELSE context[t]]
    /\ SendsNothing /\ UNCHANGED <<running, connection, trackVars>>

EndOneway(t) ==
    /\ context' = [u \in DOMAIN context \ {t} |-> context[u]]
    /\ SendsNothing /\ UNCHANGED <<running, requests, leaving, connection, trackVars>>

Ended == running' = None /\ UNCHANGED <<requests, connection, trackVars>>

(* Mutant: the annotations of a reply are not reset. *)
RepliedKeeping ==
    /\ running # None /\ ~running.oneway /\ Ended
    /\ Reply("result", context[Server].corr)
    /\ UNCHANGED <<context, leaving>>

Replied ==
    /\ running # None /\ ~running.oneway /\ Ended
    /\ Reply("result", context[Server].corr)
    /\ NewDict(Server, {}) /\ UNCHANGED leaving

(* An exception reply has no annotations of the context, and a oneway call *)
(* has no reply.                                                           *)
Unanswered ==
    /\ running # None
    /\ Ended /\ leaving' = leaving \cup {requests}
    /\ SendsNothing /\ UNCHANGED context

-----------------------------------------------------------------------------
(* What the program's code does with the context of thread t. *)

ByProgram(t) ==
    /\ acts < MaxActs /\ acts' = acts + 1
    /\ UNCHANGED <<running, requests, leaving, connection, releaseVars>>

Uses(t) == ByProgram(t) /\ SendsNothing

(* response_annotations[...] = ... *)
Annotate(t) ==
    /\ Uses(t)
    /\ context' = [u \in DOMAIN context |->
                    IF context[u].made = context[t].made
                    THEN [context[u] EXCEPT !.notes = @ \cup {RequestOf(t)}] ELSE context[u]]
    /\ UNCHANGED <<tracked, owed>>

(* response_annotations = {...} *)
SetNotes(t) ==
    /\ Uses(t)
    /\ \E notes \in {{}, {RequestOf(t)}} : NewDict(t, notes)
    /\ UNCHANGED <<tracked, owed>>

(* A call of a proxy: its request takes the annotations that were given    *)
(* with the request being executed, and its reply sets those of the reply. *)
NestedCall(t) ==
    /\ ByProgram(t)
    /\ lastSent' = [kind |-> "nested", request |-> RequestOf(t), corr |-> context[t].corr,
                    notes |-> context[t].given]
    /\ \E notes \in {{}, {RequestOf(t)}} :
        context' = [context EXCEPT ![t].given = {}, ![t].made = RequestOf(t), ![t].notes = notes]
    /\ UNCHANGED <<tracked, owed>>

(* owed leaves out what is tracked while the connection is being closed.   *)
TrackResource(t, r) ==
    LET c == context[t].client
    IN  /\ Uses(t) /\ r \notin released
        /\ tracked' = [tracked EXCEPT ![c] = @ \cup {r}]
        /\ owed' = IF c \in Closing THEN owed ELSE [owed EXCEPT ![c] = @ \cup {r}]
        /\ UNCHANGED context

UntrackResource(t, r) ==
    LET c == context[t].client
    IN  /\ Uses(t)
        /\ tracked' = [tracked EXCEPT ![c] = @ \ {r}]
        /\ owed' = [owed EXCEPT ![c] = @ \ {r}]
        /\ UNCHANGED context

-----------------------------------------------------------------------------
(* SocketConnection.close: a loop over the tracked resources, in which     *)
(* other threads track and untrack.                                        *)

BeginClose(c) ==
    /\ Idle /\ connection[c] = "open"
    /\ connection' = [connection EXCEPT ![c] = "closing"] /\ unseen' = tracked[c]
    /\ SendsNothing /\ UNCHANGED <<callVars, tracked, released, owed>>

(* unseen holds what the loop began with: the set has changed size. *)
Resized(c) == Cardinality(tracked[c]) # Cardinality(unseen \cup (released \cap tracked[c]))

CloseResource(c, r) ==
    /\ c \in Closing /\ r \in unseen \cap tracked[c] /\ ~Resized(c)
    /\ released' = released \cup {r} /\ unseen' = unseen \ {r}
    /\ SendsNothing /\ UNCHANGED <<callVars, connection, tracked, owed>>

(* Mutant: the set is cleared when the loop fails, too. *)
CloseFailedCleared(c) ==
    /\ c \in Closing /\ Resized(c)
    /\ connection' = [connection EXCEPT ![c] = "closed"] /\ unseen' = {}
    /\ tracked' = [tracked EXCEPT ![c] = {}]
    /\ SendsNothing /\ UNCHANGED <<callVars, released, owed>>

(* The loop raises when the set has changed its size. *)
CloseFailed(c) ==
    /\ c \in Closing /\ Resized(c)
    /\ connection' = [connection EXCEPT ![c] = "closed"] /\ unseen' = {}
    /\ SendsNothing /\ UNCHANGED <<callVars, tracked, released, owed>>

Closed(c) ==
    /\ c \in Closing /\ unseen = {}
    /\ connection' = [connection EXCEPT ![c] = "closed"]
    /\ tracked' = [tracked EXCEPT ![c] = {}]
    /\ SendsNothing /\ UNCHANGED <<callVars, unseen, released, owed>>

(* __del__, once no context refers to the connection, closes it again. *)
Finalise(c) ==
    /\ connection[c] = "closed" /\ \A t \in DOMAIN context : context[t].client # c
    /\ connection' = [connection EXCEPT ![c] = "gone"]
    /\ released' = released \cup tracked[c] /\ tracked' = [tracked EXCEPT ![c] = {}]
    /\ SendsNothing /\ UNCHANGED <<callVars, unseen, owed>>

ContextNext ==
    \/ \E c \in Peer :
        \/ Handshake(c) \/ Deny(c) \/ Ping(c) \/ InvokeThreaded(c)
        \/ \E oneway \in BOOLEAN : InvokeMethod(c, oneway)
        \/ BeginClose(c) \/ CloseFailed(c) \/ Closed(c) \/ Finalise(c)
        \/ \E r \in Resource : CloseResource(c, r)
    \/ Replied \/ Unanswered
    \/ \E t \in Oneways : EndOneway(t)
    \/ \E t \in Executing :
        \/ Annotate(t) \/ SetNotes(t) \/ NestedCall(t)
        \/ \E r \in Resource : TrackResource(t, r) \/ UntrackResource(t, r)

ContextSpec == ContextInit /\ [][ContextNext]_contextVars

-----------------------------------------------------------------------------
(* Properties *)

(* The reply of a call carries the correlation id of its request, and the  *)
(* annotations in it are of this call, or of an earlier oneway call or one *)
(* that raised an exception, which leave theirs in the thread's context    *)
(* (core lines 1336-1469, 1562-1590 and 1724-1731).                        *)
ReplyOwn ==
    LET r == lastSent
    IN  r # None /\ r.kind = "result" =>
            /\ r.corr = r.request
            /\ \A n \in r.notes : n = r.request \/ n \in leaving

(* A call that a method makes, also in the thread of a oneway call, can be *)
(* told from its correlation id to belong to the method's own request, and *)
(* takes along no annotations of another (core lines 713-722, 1376-1385    *)
(* and 1885-1893; docs, tipstricks.rst lines 691-698).                     *)
NestedOwn ==
    LET r == lastSent
    IN  r # None /\ r.kind = "nested" => r.corr = r.request /\ r.notes \subseteq {r.request}

(* When a connection is gone, every resource that calls have tracked on it *)
(* and not untracked is closed, also when other threads made the loop of   *)
(* close fail (socketutil lines 450-482, core lines 1870-1893): docs,      *)
(* tipstricks.rst line 733.  A resource that is tracked during that loop   *)
(* is not among them.                                                      *)
TrackedClosed == \A c \in Peer : connection[c] = "gone" => owed[c] \subseteq released

(* Replies and nested calls carry what belongs to them, and connections    *)
(* close what was tracked on them, while oneway calls run in threads of    *)
(* their own.                                                              *)
ContextInv == ReplyOwn /\ NestedOwn /\ TrackedClosed
=============================================================================
