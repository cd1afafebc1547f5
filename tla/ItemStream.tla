----------------------------- MODULE ItemStream -----------------------------
(***************************************************************************)
(* Remote iterators: a method that returns a generator leaves it in the    *)
(* daemon's table streaming_responses, and the client's                    *)
(* _StreamResultIterator asks for one item at a time.  A connection that   *)
(* ends leaves its streams lingering, so that the client can reconnect and *)
(* go on; the housekeeper removes them later.                              *)
(*                                                                         *)
(* The table is a dict that the connections' workers, the housekeeper and  *)
(* the threads of oneway calls all change without a lock.  In the thread   *)
(* server a step is one dictionary operation.  In the multiplex server a   *)
(* request, a disconnect, a round of housekeeping and a oneway call that   *)
(* has no thread of its own finish before the next one begins.             *)
(*                                                                         *)
(* One client with one proxy; it waits for every reply, so a connection    *)
(* holds at most one request.  Time is only compared with the two limits:  *)
(* a time stamp is "new" until it is past its limit, and then "old".       *)
(***************************************************************************)
EXTENDS Naturals

CONSTANTS
    Stream,     \* the stream ids
    MaxConn,    \* bound: connections the client makes, one after the other
    N,          \* the number of items of every generator
    Configs,    \* the configurations to consider
    None

(* server: the kind of server; linger, lifetime: whether the settings      *)
(* ITER_STREAM_LINGER and ITER_STREAM_LIFETIME are positive; threaded: the *)
(* setting ONEWAY_THREADED.                                                *)
Config ==
    [server : {"thread", "multiplex"},
     linger : BOOLEAN, lifetime : BOOLEAN, threaded : BOOLEAN]

Conn == 1 .. MaxConn

(* An entry of the table: the connection that uses the stream (or None),   *)
(* the time it was created, the time its connection ended (or "none").     *)
(* It has the second time exactly when it has no connection.               *)
Entry ==
    {e \in [client : Conn \cup {None}, born : {"new", "old"}, since : {"none", "new", "old"}] :
        (e.client = None) = (e.since # "none")}

Request == [op : {"start", "next"}, stream : Stream]

Reply == [kind : {"started", "item", "stop", "error"}, item : 0 .. N]

ASSUME StreamAssumption ==
    /\ MaxConn \in Nat \ {0} /\ N \in Nat
    /\ Configs \subseteq Config /\ Configs # {}
    /\ None \notin Stream /\ None \notin Nat
    /\ None \notin Entry \cup Request \cup Reply

VARIABLES
    config,                   \* the configuration, fixed
    conn, used, wanted, iter, \* the client: connection, connections made, the request it
                              \* waits for, the state of its iterators
    up, req, rep,             \* the connections: client end, request, reply
    hpc, subject, seen, todo, \* the server's workers: step, stream, entry read, keys listed
    table, pos, running,      \* streaming_responses; the generators: items made, caller
    closer,                   \* the close_stream calls: step, by stream
    hk, hkTodo, victim,       \* the housekeeper: phase, keys listed, key to delete
    got, broken               \* history, by stream: last item received; the client lost
                              \* a connection since the start

client == <<conn, used, wanted, iter>>
link   == <<up, req, rep>>
worker == <<hpc, subject, seen, todo>>
keeper == <<hk, hkTodo, victim>>
history == <<got, broken>>
vars == <<config, client, link, worker, table, pos, running, closer, keeper, history>>

TypeOK ==
    /\ config \in Configs
    /\ conn \in Conn \cup {None} /\ used \in 0 .. MaxConn
    /\ wanted \in Stream \cup {None}
    /\ iter \in [Stream -> {"none", "asked", "open", "stopped", "failed", "closed"}]
    /\ up \in [Conn -> BOOLEAN] /\ rep \in [Conn -> Reply \cup {None}]
    /\ req \in [Conn -> Request \cup {None}]
    /\ hpc \in [Conn -> {"idle", "start", "check", "fetch", "assoc", "next", "run", "stop",
                         "error", "list", "disc", "write", "gone"}]
    /\ subject \in [Conn -> Stream \cup {None}]
    /\ seen \in [Conn -> Entry \cup {None}] /\ todo \in [Conn -> SUBSET Stream]
    /\ table \in [Stream -> Entry \cup {None}]
    /\ pos \in [Stream -> 0 .. N] /\ running \in [Stream -> Conn \cup {None}]
    /\ closer \in [Stream -> {"none", "check", "delete"}]
    /\ hk \in {"idle", "life", "linger", "dead"} /\ hkTodo \subseteq Stream
    /\ victim \in Stream \cup {None}
    /\ got \in [Stream -> 0 .. N] /\ broken \in [Stream -> BOOLEAN]

Init ==
    /\ config \in Configs
    /\ conn = None /\ used = 0 /\ wanted = None /\ iter = [s \in Stream |-> "none"]
    /\ up = [c \in Conn |-> FALSE] /\ req = [c \in Conn |-> None]
    /\ rep = [c \in Conn |-> None]
    /\ hpc = [c \in Conn |-> "idle"] /\ subject = [c \in Conn |-> None]
    /\ seen = [c \in Conn |-> None] /\ todo = [c \in Conn |-> {}]
    /\ table = [s \in Stream |-> None] /\ pos = [s \in Stream |-> 0]
    /\ running = [s \in Stream |-> None] /\ closer = [s \in Stream |-> "none"]
    /\ hk = "idle" /\ hkTodo = {} /\ victim = None
    /\ got = [s \in Stream |-> 0] /\ broken = [s \in Stream |-> FALSE]

Keys == {s \in Stream : table[s] # None}

-----------------------------------------------------------------------------
(* The client. *)

Connect ==
    /\ conn = None /\ used < MaxConn
    /\ used' = used + 1 /\ conn' = used' /\ up' = [up EXCEPT ![used'] = TRUE]
    /\ UNCHANGED <<config, wanted, iter, req, rep, worker, table, pos, running, closer,
                   keeper, history>>

Ask(op, s) ==
    /\ conn # None /\ wanted = None
    /\ req' = [req EXCEPT ![conn] = [op |-> op, stream |-> s]] /\ wanted' = s
    /\ UNCHANGED <<config, conn, used, up, rep, worker, table, pos, running, closer, keeper,
                   history>>

(* A call whose result turns out to be an iterator. *)
AskStart(s) ==
    /\ iter[s] = "none" /\ Ask("start", s)
    /\ iter' = [iter EXCEPT ![s] = "asked"]

(* _StreamResultIterator.__next__ *)
AskNext(s) == iter[s] \in {"open", "failed"} /\ Ask("next", s) /\ UNCHANGED iter

(* What becomes of the iterator when the reply is read. *)
Outcome(k) == CASE k = "stop" -> "stopped" [] k = "error" -> "failed" [] OTHER -> "open"

Receive ==
    /\ wanted # None /\ rep[conn] # None
    /\ rep' = [rep EXCEPT ![conn] = None] /\ wanted' = None
    /\ iter' = [iter EXCEPT ![wanted] = Outcome(rep[conn].kind)]
    /\ got' = IF rep[conn].kind = "item" THEN [got EXCEPT ![wanted] = rep[conn].item] ELSE got
    /\ UNCHANGED <<config, conn, used, up, req, worker, table, pos, running, closer, keeper,
                   broken>>

(* The proxy is released, or the call that waits fails: timeout, lost      *)
(* connection.  A reply that is under way is lost with the connection, and *)
(* so may be a request that the server has not read.                       *)
Disconnect ==
    /\ conn # None
    /\ req' \in {req, [req EXCEPT ![conn] = None]}
    /\ conn' = None /\ wanted' = None
    /\ up' = [up EXCEPT ![conn] = FALSE] /\ rep' = [rep EXCEPT ![conn] = None]
    /\ broken' = [s \in Stream |-> broken[s] \/ iter[s] \in {"asked", "open", "failed"}]
    /\ UNCHANGED <<config, used, iter, worker, table, pos, running, closer, keeper, got>>

(* _StreamResultIterator.close: a oneway call, on this proxy or on a copy. *)
AskClose(s) ==
    /\ conn # None /\ wanted = None /\ iter[s] \in {"open", "failed"}
    /\ iter' = [iter EXCEPT ![s] = "closed"]
    /\ closer' = [closer EXCEPT ![s] = "check"]
    /\ UNCHANGED <<config, conn, used, wanted, link, worker, table, pos, running, keeper,
                   history>>

Client ==
    Connect \/ Receive \/ Disconnect \/ \E s \in Stream : AskStart(s) \/ AskNext(s) \/ AskClose(s)

-----------------------------------------------------------------------------
(* The server. *)

(* Mutant: close_stream does not hold up the loop. *)
LoopIsFreeOfCloses ==
    config.server = "multiplex" =>
        /\ \A c \in Conn : hpc[c] \in {"idle", "gone"}
        /\ hk \in {"idle", "dead"}

(* Only the multiplex server makes its parts wait for one another. *)
LoopIsFree ==
    config.server = "multiplex" =>
        /\ \A c \in Conn : hpc[c] \in {"idle", "gone"}
        /\ config.threaded \/ \A s \in Stream : closer[s] # "delete"
        /\ hk \in {"idle", "dead"}

(* In handleRequest: the next request of connection c. *)
Handle(c) ==
    /\ hpc[c] = "idle" /\ req[c] # None /\ LoopIsFree
    /\ hpc' = [hpc EXCEPT ![c] = IF req[c].op = "start" THEN "start" ELSE "check"]
    /\ subject' = [subject EXCEPT ![c] = req[c].stream]
    /\ req' = [req EXCEPT ![c] = None]
    /\ UNCHANGED <<config, client, up, rep, seen, todo, table, pos, running, closer, keeper,
                   history>>

(* The request is done; its reply is lost if the client has gone. *)
Answer(c, kind, item) ==
    /\ hpc' = [hpc EXCEPT ![c] = "idle"] /\ subject' = [subject EXCEPT ![c] = None]
    /\ seen' = [seen EXCEPT ![c] = None]
    /\ rep' = IF up[c] THEN [rep EXCEPT ![c] = [kind |-> kind, item |-> item]] ELSE rep

(* _streamResponse: the generator goes into the table. *)
StreamResponse(c) ==
    /\ hpc[c] = "start"
    /\ table' = [table EXCEPT ![subject[c]] = [client |-> c, born |-> "new", since |-> "none"]]
    /\ Answer(c, "started", 0)
    /\ UNCHANGED <<config, client, up, req, todo, pos, running, closer, keeper, history>>

(* DaemonObject.get_next_stream_item, step by step *)
CheckStream(c) ==
    /\ hpc[c] = "check"
    /\ IF table[subject[c]] # None
       THEN hpc' = [hpc EXCEPT ![c] = "fetch"] /\ UNCHANGED <<subject, seen, rep>>
       ELSE Answer(c, "error", 0)
    /\ UNCHANGED <<config, client, up, req, todo, table, pos, running, closer, keeper, history>>

(* Deleted since the check: KeyError. *)
FetchStream(c) ==
    /\ hpc[c] = "fetch"
    /\ IF table[subject[c]] = None
       THEN Answer(c, "error", 0)
       ELSE /\ seen' = [seen EXCEPT ![c] = table[subject[c]]]
            /\ hpc' = [hpc EXCEPT ![c] = IF table[subject[c]].client = None THEN "assoc"
                                                                            ELSE "next"]
            /\ UNCHANGED <<subject, rep>>
    /\ UNCHANGED <<config, client, up, req, todo, table, pos, running, closer, keeper, history>>

(* Mutant: the time the stream was left is kept. *)
AssociateUnstamped(c) ==
    /\ hpc[c] = "assoc"
    /\ table' = [table EXCEPT ![subject[c]] = [seen[c] EXCEPT !.client = c]]
    /\ hpc' = [hpc EXCEPT ![c] = "next"]
    /\ UNCHANGED <<config, client, link, subject, seen, todo, pos, running, closer, keeper,
                   history>>

(* Mutant: the iteration starts again. *)
AssociateRestarts(c) ==
    /\ hpc[c] = "assoc"
    /\ table' = [table EXCEPT ![subject[c]] =
                    [client |-> c, born |-> seen[c].born, since |-> "none"]]
    /\ pos' = [pos EXCEPT ![subject[c]] = 0]
    /\ hpc' = [hpc EXCEPT ![c] = "next"]
    /\ UNCHANGED <<config, client, link, subject, seen, todo, running, closer, keeper, history>>

(* A lingering stream is taken over by this connection. *)
Associate(c) ==
    /\ hpc[c] = "assoc"
    /\ table' = [table EXCEPT ![subject[c]] =
                    [client |-> c, born |-> seen[c].born, since |-> "none"]]
    /\ hpc' = [hpc EXCEPT ![c] = "next"]
    /\ UNCHANGED <<config, client, link, subject, seen, todo, pos, running, closer, keeper,
                   history>>

(* next(stream): a generator that is already running raises ValueError. *)
CallNext(c) ==
    /\ hpc[c] = "next"
    /\ IF running[subject[c]] = None
       THEN hpc' = [hpc EXCEPT ![c] = "run"] /\ running' = [running EXCEPT ![subject[c]] = c]
       ELSE hpc' = [hpc EXCEPT ![c] = "error"] /\ UNCHANGED running
    /\ UNCHANGED <<config, client, link, subject, seen, todo, table, pos, closer, keeper,
                   history>>

GeneratorYields(c) ==
    /\ hpc[c] = "run" /\ pos[subject[c]] < N
    /\ pos' = [pos EXCEPT ![subject[c]] = @ + 1]
    /\ running' = [running EXCEPT ![subject[c]] = None]
    /\ Answer(c, "item", pos'[subject[c]])
    /\ UNCHANGED <<config, client, up, req, todo, table, closer, keeper, history>>

GeneratorStops(c) ==
    /\ hpc[c] = "run" /\ pos[subject[c]] = N
    /\ running' = [running EXCEPT ![subject[c]] = None]
    /\ hpc' = [hpc EXCEPT ![c] = "stop"]
    /\ UNCHANGED <<config, client, link, subject, seen, todo, table, pos, closer, keeper,
                   history>>

(* On any exception the stream is deleted; if it is gone already, KeyError *)
(* takes the place of the exception.                                       *)
DropStream(c) ==
    /\ hpc[c] \in {"stop", "error"}
    /\ table' = [table EXCEPT ![subject[c]] = None]
    /\ Answer(c, IF table[subject[c]] = None THEN "error" ELSE hpc[c], 0)
    /\ UNCHANGED <<config, client, up, req, todo, pos, running, closer, keeper, history>>

(* DaemonObject.close_stream: in a thread of its own if oneway calls have  *)
(* one.                                                                    *)
CloseCheck(s) ==
    /\ closer[s] = "check" /\ (config.threaded \/ LoopIsFree)
    /\ closer' = [closer EXCEPT ![s] = IF table[s] # None THEN "delete" ELSE "none"]
    /\ UNCHANGED <<config, client, link, worker, table, pos, running, keeper, history>>

CloseDelete(s) ==
    /\ closer[s] = "delete"
    /\ closer' = [closer EXCEPT ![s] = "none"] /\ table' = [table EXCEPT ![s] = None]
    /\ UNCHANGED <<config, client, link, worker, pos, running, keeper, history>>

(* Mutant: the daemon is not told. *)
DisconnectListSkipped(c) ==
    /\ hpc[c] = "idle" /\ c <= used /\ ~up[c] /\ req[c] = None /\ LoopIsFree
    /\ \A d \in Conn : hpc[d] \notin {"disc", "write"}
    /\ hpc' = [hpc EXCEPT ![c] = "gone"]
    /\ UNCHANGED <<config, client, link, subject, seen, todo, table, pos, running, closer,
                   keeper, history>>

(* Daemon._clientDisconnect, when everything sent on c has been handled;   *)
(* the thread server takes a lock around it.                               *)
DisconnectList(c) ==
    /\ hpc[c] = "idle" /\ c <= used /\ ~up[c] /\ req[c] = None /\ LoopIsFree
    /\ \A d \in Conn : hpc[d] \notin {"disc", "write"}
    /\ hpc' = [hpc EXCEPT ![c] = "disc"] /\ todo' = [todo EXCEPT ![c] = Keys]
    /\ UNCHANGED <<config, client, link, subject, seen, table, pos, running, closer, keeper,
                   history>>

(* Mutant: any connection's streams are left. *)
DisconnectGetAny(c) ==
    /\ hpc[c] = "disc"
    /\ \E s \in todo[c] :
        /\ todo' = [todo EXCEPT ![c] = @ \ {s}]
        /\ IF table[s] # None /\ table[s].client # None
           THEN /\ hpc' = [hpc EXCEPT ![c] = "write"]
                /\ subject' = [subject EXCEPT ![c] = s] /\ seen' = [seen EXCEPT ![c] = table[s]]
           ELSE UNCHANGED <<hpc, subject, seen>>
    /\ UNCHANGED <<config, client, link, table, pos, running, closer, keeper, history>>

DisconnectGet(c) ==
    /\ hpc[c] = "disc"
    /\ \E s \in todo[c] :
        /\ todo' = [todo EXCEPT ![c] = @ \ {s}]
        /\ IF table[s] # None /\ table[s].client = c
           THEN /\ hpc' = [hpc EXCEPT ![c] = "write"]
                /\ subject' = [subject EXCEPT ![c] = s] /\ seen' = [seen EXCEPT ![c] = table[s]]
           ELSE UNCHANGED <<hpc, subject, seen>>
    /\ UNCHANGED <<config, client, link, table, pos, running, closer, keeper, history>>

(* With lingering the entry is written back without its connection. *)
DisconnectLinger(c) ==
    /\ hpc[c] = "write" /\ config.linger
    /\ table' = [table EXCEPT ![subject[c]] =
                    [client |-> None, born |-> seen[c].born, since |-> "new"]]
    /\ hpc' = [hpc EXCEPT ![c] = "disc"]
    /\ subject' = [subject EXCEPT ![c] = None] /\ seen' = [seen EXCEPT ![c] = None]
    /\ UNCHANGED <<config, client, link, todo, pos, running, closer, keeper, history>>

(* Without, it is deleted.  If someone else has deleted it since, KeyError *)
(* ends the loop over the streams; the caller logs it.                     *)
DisconnectDelete(c) ==
    /\ hpc[c] = "write" /\ ~config.linger
    /\ hpc' = [hpc EXCEPT ![c] = IF table[subject[c]] = None THEN "gone" ELSE "disc"]
    /\ table' = [table EXCEPT ![subject[c]] = None]
    /\ subject' = [subject EXCEPT ![c] = None] /\ seen' = [seen EXCEPT ![c] = None]
    /\ UNCHANGED <<config, client, link, todo, pos, running, closer, keeper, history>>

DisconnectDone(c) ==
    /\ hpc[c] = "disc" /\ todo[c] = {}
    /\ hpc' = [hpc EXCEPT ![c] = "gone"]
    /\ UNCHANGED <<config, client, link, subject, seen, todo, table, pos, running, closer,
                   keeper, history>>

Worker(c) ==
    \/ Handle(c) \/ StreamResponse(c) \/ CheckStream(c) \/ FetchStream(c) \/ Associate(c)
    \/ CallNext(c) \/ GeneratorYields(c) \/ GeneratorStops(c) \/ DropStream(c)
    \/ DisconnectList(c) \/ DisconnectGet(c) \/ DisconnectLinger(c) \/ DisconnectDelete(c)
    \/ DisconnectDone(c)

Closer(s) == CloseCheck(s) \/ CloseDelete(s)

-----------------------------------------------------------------------------
(* Daemon._housekeeping *)

HousekeepingStarts ==
    /\ hk = "idle" /\ LoopIsFree /\ Keys # {}
    /\ hk' = (IF config.lifetime THEN "life" ELSE "linger") /\ hkTodo' = Keys
    /\ UNCHANGED <<config, client, link, worker, table, pos, running, closer, victim, history>>

(* Mutant: the wrong time stamp. *)
ExpiredByAge(e) == e.born = "old"

Expired(e) == IF hk = "life" THEN e.born = "old" ELSE e.since = "old"

HousekeepingLooks ==
    /\ hk \in {"life", "linger"} /\ victim = None
    /\ \E s \in hkTodo :
        /\ hkTodo' = hkTodo \ {s}
        /\ victim' = IF table[s] # None /\ Expired(table[s]) THEN s ELSE None
    /\ UNCHANGED <<config, client, link, worker, table, pos, running, closer, hk, history>>

(* If someone else has deleted the stream since, KeyError ends the         *)
(* housekeeper's thread (the request loop, in the multiplex server).       *)
HousekeepingDeletes ==
    /\ victim # None
    /\ hk' = IF table[victim] = None THEN "dead" ELSE hk
    /\ table' = [table EXCEPT ![victim] = None] /\ victim' = None
    /\ UNCHANGED <<config, client, link, worker, pos, running, closer, hkTodo, history>>

HousekeepingNext ==
    /\ hk \in {"life", "linger"} /\ victim = None /\ hkTodo = {}
    /\ IF hk = "life" /\ config.linger THEN hk' = "linger" /\ hkTodo' = Keys
                                ELSE hk' = "idle" /\ UNCHANGED hkTodo
    /\ UNCHANGED <<config, client, link, worker, table, pos, running, closer, victim, history>>

Housekeeper ==
    \/ HousekeepingStarts \/ HousekeepingLooks \/ HousekeepingDeletes \/ HousekeepingNext

(* Time passes a limit. *)
LingerPasses(s) ==
    /\ table[s] # None /\ table[s].since = "new"
    /\ table' = [table EXCEPT ![s].since = "old"]
    /\ UNCHANGED <<config, client, link, worker, pos, running, closer, keeper, history>>

LifetimePasses(s) ==
    /\ config.lifetime /\ table[s] # None /\ table[s].born = "new"
    /\ table' = [table EXCEPT ![s].born = "old"]
    /\ UNCHANGED <<config, client, link, worker, pos, running, closer, keeper, history>>

Next ==
    \/ Client \/ Housekeeper
    \/ \E c \in Conn : Worker(c)
    \/ \E s \in Stream : Closer(s) \/ LingerPasses(s) \/ LifetimePasses(s)

Fairness ==
    /\ \A c \in Conn : WF_vars(Worker(c))
    /\ \A s \in Stream : WF_vars(Closer(s)) /\ WF_vars(LingerPasses(s))
    /\ SF_vars(HousekeepingStarts) /\ WF_vars(Housekeeper)

Spec == Init /\ [][Next]_vars /\ Fairness

-----------------------------------------------------------------------------
(* Properties *)

(* A client that has kept its connection gets every item, in order, and    *)
(* the end of the iteration only after the last one: neither the           *)
(* housekeeper nor a disconnect of another connection disturbs it          *)
(* (get_next_stream_item, core.py:1085-1097).                              *)
ItemsComplete ==
    \A s \in Stream : ~broken[s] =>
        /\ iter[s] = "stopped" => got[s] = N
        /\ wanted = None => got[s] = pos[s]
        /\ iter[s] = "failed" => config.lifetime

(* A reconnecting client may miss items whose replies were lost, but never *)
(* gets an item twice or out of order, although a call that it gave up may *)
(* still be running in the server.                                         *)
NeverRepeats == [][\A s \in Stream : got'[s] # got[s] => got'[s] > got[s]]_got

(* No stream stays with a connection that is gone, where only its lifetime *)
(* would ever remove it: docs/source/clientcode.rst:450, "Lingering can be       *)
(* disabled completely by setting the value to 0, then all remote          *)
(* generators from a proxy will immediately be discarded in the server if  *)
(* the proxy gets disconnected or closed."                                 *)
NoOrphan ==
    \A s \in Stream : table[s] # None /\ table[s].client # None =>
        hpc[table[s].client] # "gone"

(* What the code keeps of that: a stream stays with a connection that is   *)
(* gone only if a KeyError has ended the loop over the connection's        *)
(* streams before it came to this one.  That takes another stream of the   *)
(* connection, deleted between the test and the del (core.py:1482-1484),   *)
(* and happens neither with lingering nor where a disconnect is never      *)
(* interrupted.                                                            *)
OrphansAreCut ==
    \A s \in Stream :
        table[s] # None /\ table[s].client # None /\ hpc[table[s].client] = "gone" =>
            /\ s \in todo[table[s].client] /\ ~config.linger
            /\ config.server = "multiplex" => config.threaded

(* A lingering stream is removed in the end or taken over by a connection. *)
(* In the thread server the housekeeper may have died of a KeyError.       *)
LingeringEnds ==
    \A s \in Stream :
        (table[s] # None /\ table[s].client = None)
            ~> (hk = "dead" \/ table[s] = None \/ table[s].client # None)

(* The multiplex server's housekeeping never meets a stream that is gone,  *)
(* if oneway calls have no threads: a KeyError would end the request loop  *)
(* (core lines 1494-1510; multiplexserver lines 208-230).                  *)
LoopSurvives == config.server = "multiplex" /\ ~config.threaded => hk # "dead"

(* What the table of streams and its clients keep while requests,          *)
(* disconnects, the housekeeper and oneway threads change it without a     *)
(* lock.                                                                   *)
StreamInv == TypeOK /\ ItemsComplete /\ OrphansAreCut /\ LoopSurvives
=============================================================================
