-------------------------- MODULE ItemStreamProofs --------------------------
(***************************************************************************)
(* Proofs about item streams, for any streams and connections, generators  *)
(* of any length, and any set of configurations.                           *)
(***************************************************************************)
EXTENDS ItemStream, TLAPS

(* The steps of a worker in a request, and when its connection has ended. *)
Serving == {"start", "check", "fetch", "assoc", "next", "run", "stop", "error"}
Leaving == {"disc", "write", "gone"}

-----------------------------------------------------------------------------
(* Types, with what is known at the steps that need it. *)
ClientTyped ==
    /\ config \in Configs
    /\ conn \in Conn \cup {None} /\ used \in 0 .. MaxConn
    /\ wanted \in Stream \cup {None}
    /\ iter \in [Stream -> {"none", "asked", "open", "stopped", "failed", "closed"}]
    /\ up \in [Conn -> BOOLEAN] /\ broken \in [Stream -> BOOLEAN]
    /\ wanted # None => conn # None

MessagesTyped ==
    /\ rep \in [Conn -> Reply \cup {None}]
    /\ req \in [Conn -> Request \cup {None}]
    /\ got \in [Stream -> 0 .. N]

WorkersTyped ==
    /\ hpc \in [Conn -> {"idle"} \cup Serving \cup Leaving]
    /\ subject \in [Conn -> Stream \cup {None}]
    /\ seen \in [Conn -> Entry \cup {None}] /\ todo \in [Conn -> SUBSET Stream]
    /\ \A c \in Conn : hpc[c] \in Serving \cup {"write"} => subject[c] \in Stream
    /\ \A c \in Conn : hpc[c] \in {"assoc", "write"} => seen[c] \in Entry

TableTyped == table \in [Stream -> Entry \cup {None}]

StreamsTyped ==
    /\ pos \in [Stream -> 0 .. N] /\ running \in [Stream -> Conn \cup {None}]
    /\ closer \in [Stream -> {"none", "check", "delete"}]

KeeperTyped ==
    /\ hk \in {"idle", "life", "linger", "dead"} /\ hkTodo \subseteq Stream
    /\ victim \in Stream \cup {None}
    /\ victim # None => hk \in {"life", "linger"}

Typed ==
    ClientTyped /\ MessagesTyped /\ WorkersTyped /\ TableTyped /\ StreamsTyped /\ KeeperTyped

(* Types are what TypeOK says. *)
LEMMA TypedMeansTypeOK ==
    ASSUME Typed PROVE TypeOK
BY DEF Typed, ClientTyped, MessagesTyped, WorkersTyped, TableTyped, StreamsTyped, KeeperTyped,
       TypeOK, Serving, Leaving

(* Connections are numbers, and None is nothing else. *)
LEMMA Values ==
    /\ MaxConn \in Nat \ {0} /\ N \in Nat
    /\ \A c \in Conn : c \in Nat /\ c # None
    /\ None \notin Stream /\ None \notin Entry /\ None \notin Request /\ None \notin Reply
BY StreamAssumption DEF Conn

(* Entries of the table: a new one and one that lingers, made of another   *)
(* one's time.                                                             *)
LEMMA EntriesMade ==
    ASSUME NEW b \in {"new", "old"}
    PROVE  /\ \A c \in Conn : [client |-> c, born |-> b, since |-> "none"] \in Entry
           /\ [client |-> None, born |-> b, since |-> "new"] \in Entry
BY Values DEF Entry

(* The fields of an entry, and what passing time makes of it. *)
LEMMA EntryAges ==
    ASSUME NEW e \in Entry
    PROVE  /\ e.client \in Conn \cup {None} /\ e.born \in {"new", "old"}
           /\ e.client = None <=> e.since # "none"
           /\ [e EXCEPT !.born = "old"] \in Entry
           /\ [e EXCEPT !.born = "old"].client = e.client
           /\ e.since = "new" => [e EXCEPT !.since = "old"] \in Entry
           /\ [e EXCEPT !.since = "old"].client = e.client
<1>1. PICK c \in Conn \cup {None}, b \in {"new", "old"}, t \in {"none", "new", "old"} :
        e = [client |-> c, born |-> b, since |-> t] /\ ((c = None) = (t # "none"))
  BY DEF Entry
<1>2. /\ [e EXCEPT !.born = "old"] = [client |-> c, born |-> "old", since |-> t]
      /\ [e EXCEPT !.since = "old"] = [client |-> c, born |-> b, since |-> "old"]
  BY <1>1
<1>3. QED
  BY <1>1, <1>2 DEF Entry

(* What is made in steps: replies and requests. *)
LEMMA MessagesMade ==
    /\ \A k \in {"started", "item", "stop", "error"}, i \in 0 .. N :
            [kind |-> k, item |-> i] \in Reply
    /\ \A s \in Stream, o \in {"start", "next"} : [op |-> o, stream |-> s] \in Request
    /\ \A r \in Reply : r.kind \in {"started", "item", "stop", "error"} /\ r.item \in 0 .. N
    /\ \A r \in Request : r.op \in {"start", "next"} /\ r.stream \in Stream
    /\ \A k : Outcome(k) \in {"open", "stopped", "failed"}
BY DEF Reply, Request, Outcome

(* A reply, or none if the client has gone. *)
LEMMA AnswerTyped ==
    ASSUME MessagesTyped, NEW c \in Conn, NEW k \in {"started", "item", "stop", "error"},
           NEW i \in 0 .. N, Answer(c, k, i), UNCHANGED <<req, got>>
    PROVE  MessagesTyped'
<1>1. [kind |-> k, item |-> i] \in Reply
  BY MessagesMade
<1>2. QED
  BY <1>1 DEF MessagesTyped, Answer

(* Every step keeps the types of the client's variables. *)
LEMMA ClientTypedKept ==
    ASSUME Typed, [Next]_vars
    PROVE  ClientTyped'
<1>a. /\ ClientTyped /\ MaxConn \in Nat /\ \A c \in Conn : c \in Nat /\ c # None
      /\ Conn = 1 .. MaxConn /\ None \notin Stream /\ None \notin Conn
  BY Values DEF Typed, Conn
<1>1. CASE Connect
  BY <1>1, <1>a DEF Connect, ClientTyped, client, link, worker, keeper, history
<1>2. CASE Receive
  BY <1>2, <1>a, MessagesMade
     DEF Receive, ClientTyped, client, link, worker, keeper, history
<1>3. CASE Disconnect
  BY <1>3, <1>a DEF Disconnect, ClientTyped, client, link, worker, keeper, history
<1>4. ASSUME NEW s \in Stream, AskStart(s) PROVE ClientTyped'
  BY <1>4, <1>a DEF AskStart, Ask, ClientTyped, client, link, worker, keeper, history
<1>5. ASSUME NEW s \in Stream, AskNext(s) PROVE ClientTyped'
  BY <1>5, <1>a DEF AskNext, Ask, ClientTyped, client, link, worker, keeper, history
<1>6. ASSUME NEW s \in Stream, AskClose(s) PROVE ClientTyped'
  BY <1>6, <1>a DEF AskClose, ClientTyped, client, link, worker, keeper, history
<1>7. CASE HousekeepingStarts \/ HousekeepingLooks \/ HousekeepingDeletes \/
   HousekeepingNext
  BY <1>7, <1>a
     DEF HousekeepingStarts, HousekeepingLooks, HousekeepingDeletes,
        HousekeepingNext, Expired, ClientTyped, client, link, worker, keeper, history
<1>8. ASSUME NEW c \in Conn,
             Handle(c) \/ StreamResponse(c) \/ CheckStream(c) \/ FetchStream(c) \/
             Associate(c) \/ CallNext(c) \/ GeneratorYields(c) \/ GeneratorStops(c) \/
             DropStream(c) \/ DisconnectList(c) \/ DisconnectGet(c) \/
             DisconnectLinger(c) \/ DisconnectDelete(c) \/ DisconnectDone(c)
      PROVE  ClientTyped'
  BY <1>8, <1>a
     DEF Handle, StreamResponse, CheckStream, FetchStream, Associate, CallNext,
        GeneratorYields, GeneratorStops, DropStream, DisconnectList, DisconnectGet,
        DisconnectLinger, DisconnectDelete, DisconnectDone, Answer, ClientTyped, client,
        link, worker, keeper, history
<1>9. ASSUME NEW s \in Stream,
             CloseCheck(s) \/ CloseDelete(s) \/ LingerPasses(s) \/ LifetimePasses(s)
      PROVE  ClientTyped'
  BY <1>9, <1>a
     DEF CloseCheck, CloseDelete, LingerPasses, LifetimePasses, ClientTyped, client,
        link, worker, keeper, history
<1>10. CASE UNCHANGED vars
  BY <1>10, <1>a DEF ClientTyped, client, link, worker, keeper, history, vars
<1>11. QED
  BY <1>1, <1>2, <1>3, <1>4, <1>5, <1>6, <1>7, <1>8, <1>9, <1>10
     DEF Next, Client, Housekeeper, Worker, Closer

(* Every step keeps the types of requests and replies, and of what the     *)
(* client got: a reply carries the number of an item that the generator    *)
(* has made.                                                               *)
LEMMA MessagesTypedKept ==
    ASSUME Typed, [Next]_vars
    PROVE  MessagesTyped'
<1>a. /\ MessagesTyped /\ conn \in Conn \cup {None} /\ wanted \in Stream \cup {None}
      /\ (wanted # None => conn # None) /\ pos \in [Stream -> 0 .. N] /\ N \in Nat
      /\ None \notin Conn /\ None \notin Reply /\ None \notin Request /\ 0 \in 0 .. N
      /\ \A c \in Conn : hpc[c] = "run" => subject[c] \in Stream
  BY Values DEF Typed, ClientTyped, StreamsTyped, WorkersTyped, Serving
<1>1. CASE Connect
  BY <1>1, <1>a DEF Connect, MessagesTyped, client, link, worker, keeper, history
<1>2. CASE Receive
  <2>1. conn \in Conn /\ rep[conn] \in Reply /\ rep[conn].item \in 0 .. N
    BY <1>2, <1>a, MessagesMade DEF Receive, MessagesTyped
  <2>2. QED
    BY <1>2, <1>a, <2>1 DEF Receive, MessagesTyped, client, link, worker, keeper, history
<1>3. CASE Disconnect
  BY <1>3, <1>a DEF Disconnect, MessagesTyped, client, link, worker, keeper, history
<1>4. ASSUME NEW s \in Stream, AskStart(s) PROVE MessagesTyped'
  BY <1>4, <1>a, MessagesMade
     DEF AskStart, Ask, MessagesTyped, client, link, worker, keeper, history
<1>5. ASSUME NEW s \in Stream, AskNext(s) PROVE MessagesTyped'
  BY <1>5, <1>a, MessagesMade
     DEF AskNext, Ask, MessagesTyped, client, link, worker, keeper, history
<1>6. ASSUME NEW s \in Stream, AskClose(s) PROVE MessagesTyped'
  BY <1>6, <1>a DEF AskClose, MessagesTyped, client, link, worker, keeper, history
<1>7. CASE HousekeepingStarts \/ HousekeepingLooks \/ HousekeepingDeletes \/
   HousekeepingNext
  BY <1>7, <1>a
     DEF HousekeepingStarts, HousekeepingLooks, HousekeepingDeletes,
        HousekeepingNext, Expired, MessagesTyped, client, link, worker, keeper, history
<1>8. ASSUME NEW c \in Conn, Handle(c) PROVE MessagesTyped'
  BY <1>8, <1>a DEF Handle, MessagesTyped, client, link, worker, keeper, history
<1>9. ASSUME NEW c \in Conn, StreamResponse(c) PROVE MessagesTyped'
  <2>1. Answer(c, "started", 0) /\ UNCHANGED <<req, got>>
    BY <1>9 DEF StreamResponse, client, link, history
  <2>2. QED
    BY <1>a, <2>1, AnswerTyped
<1>10. ASSUME NEW c \in Conn, CheckStream(c) \/ FetchStream(c) PROVE MessagesTyped'
  <2>1. (UNCHANGED rep \/ Answer(c, "error", 0)) /\ UNCHANGED <<req, got>>
    BY <1>10 DEF CheckStream, FetchStream, client, link, history
  <2>2. QED
    BY <1>a, <2>1, AnswerTyped DEF MessagesTyped
<1>11. ASSUME NEW c \in Conn,
              Associate(c) \/ CallNext(c) \/ GeneratorStops(c) \/ DisconnectList(c) \/
              DisconnectGet(c) \/ DisconnectLinger(c) \/ DisconnectDelete(c) \/
              DisconnectDone(c)
       PROVE  MessagesTyped'
  BY <1>11, <1>a
     DEF Associate, CallNext, GeneratorStops, DisconnectList, DisconnectGet,
        DisconnectLinger, DisconnectDelete, DisconnectDone, MessagesTyped, client, link,
        worker, keeper, history
<1>12. ASSUME NEW c \in Conn, GeneratorYields(c) PROVE MessagesTyped'
  <2>1. /\ Answer(c, "item", pos'[subject[c]]) /\ UNCHANGED <<req, got>>
        /\ pos'[subject[c]] \in 0 .. N
    BY <1>12, <1>a DEF GeneratorYields, client, link, history
  <2>2. QED
    BY <1>a, <2>1, AnswerTyped
<1>13. ASSUME NEW c \in Conn, DropStream(c) PROVE MessagesTyped'
  <2>1. \E k \in {"stop", "error"} : Answer(c, k, 0) /\ UNCHANGED <<req, got>>
    BY <1>13 DEF DropStream, client, link, history
  <2>2. QED
    BY <1>a, <2>1, AnswerTyped
<1>14. ASSUME NEW s \in Stream,
              CloseCheck(s) \/ CloseDelete(s) \/ LingerPasses(s) \/ LifetimePasses(s)
       PROVE  MessagesTyped'
  BY <1>14, <1>a
     DEF CloseCheck, CloseDelete, LingerPasses, LifetimePasses, MessagesTyped,
        client, link, worker, keeper, history
<1>15. CASE UNCHANGED vars
  BY <1>15, <1>a DEF MessagesTyped, client, link, worker, keeper, history, vars
<1>16. QED
  BY <1>1, <1>2, <1>3, <1>4, <1>5, <1>6, <1>7, <1>8, <1>9, <1>10, <1>11, <1>12,
     <1>13, <1>14, <1>15
     DEF Next, Client, Housekeeper, Worker, Closer

(* Every step keeps the types of the workers' variables: who serves or     *)
(* writes has a subject, who writes back an entry has read one.            *)
LEMMA WorkersTypedKept ==
    ASSUME Typed, [Next]_vars
    PROVE  WorkersTyped'
<1>a. /\ WorkersTyped /\ table \in [Stream -> Entry \cup {None}] /\ None \notin Stream
      /\ \A c \in Conn : req[c] # None => req[c].stream \in Stream
  BY Values DEF Typed, TableTyped, MessagesTyped, Request
<1>1. CASE Connect \/ Receive \/ Disconnect
  BY <1>1, <1>a
     DEF Connect, Receive, Disconnect, WorkersTyped, Serving, Leaving, Keys, client,
        link, worker, keeper, history
<1>2. ASSUME NEW s \in Stream,
             AskStart(s) \/ AskNext(s) \/ AskClose(s)
      PROVE  WorkersTyped'
  BY <1>2, <1>a
     DEF AskStart, AskNext, AskClose, Ask, WorkersTyped, Serving, Leaving, Keys,
        client, link, worker, keeper, history
<1>3. CASE HousekeepingStarts \/ HousekeepingLooks \/ HousekeepingDeletes \/
   HousekeepingNext
  BY <1>3, <1>a
     DEF HousekeepingStarts, HousekeepingLooks, HousekeepingDeletes,
        HousekeepingNext, Expired, WorkersTyped, Serving, Leaving, Keys, client, link,
        worker, keeper, history
<1>4. ASSUME NEW c \in Conn, Handle(c) PROVE WorkersTyped'
  BY <1>4, <1>a
     DEF Handle, WorkersTyped, Serving, Leaving, Keys, client, link, worker, keeper,
        history
<1>5. ASSUME NEW c \in Conn, StreamResponse(c) PROVE WorkersTyped'
  BY <1>5, <1>a
     DEF StreamResponse, Answer, WorkersTyped, Serving, Leaving, Keys, client, link,
        worker, keeper, history
<1>6. ASSUME NEW c \in Conn, CheckStream(c) PROVE WorkersTyped'
  BY <1>6, <1>a
     DEF CheckStream, Answer, WorkersTyped, Serving, Leaving, Keys, client, link,
        worker, keeper, history
<1>7. ASSUME NEW c \in Conn, FetchStream(c) PROVE WorkersTyped'
  BY <1>7, <1>a
     DEF FetchStream, Answer, WorkersTyped, Serving, Leaving, Keys, client, link,
        worker, keeper, history
<1>8. ASSUME NEW c \in Conn, Associate(c) PROVE WorkersTyped'
  BY <1>8, <1>a
     DEF Associate, WorkersTyped, Serving, Leaving, Keys, client, link, worker,
        keeper, history
<1>9. ASSUME NEW c \in Conn, CallNext(c) PROVE WorkersTyped'
  BY <1>9, <1>a
     DEF CallNext, WorkersTyped, Serving, Leaving, Keys, client, link, worker,
        keeper, history
<1>10. ASSUME NEW c \in Conn, GeneratorYields(c) PROVE WorkersTyped'
  BY <1>10, <1>a
     DEF GeneratorYields, Answer, WorkersTyped, Serving, Leaving, Keys, client, link,
        worker, keeper, history
<1>11. ASSUME NEW c \in Conn, GeneratorStops(c) PROVE WorkersTyped'
  BY <1>11, <1>a
     DEF GeneratorStops, WorkersTyped, Serving, Leaving, Keys, client, link, worker,
        keeper, history
<1>12. ASSUME NEW c \in Conn, DropStream(c) PROVE WorkersTyped'
  BY <1>12, <1>a
     DEF DropStream, Answer, WorkersTyped, Serving, Leaving, Keys, client, link,
        worker, keeper, history
<1>13. ASSUME NEW c \in Conn, DisconnectList(c) PROVE WorkersTyped'
  BY <1>13, <1>a
     DEF DisconnectList, WorkersTyped, Serving, Leaving, Keys, client, link, worker,
        keeper, history
<1>14. ASSUME NEW c \in Conn, DisconnectGet(c) PROVE WorkersTyped'
  BY <1>14, <1>a
     DEF DisconnectGet, WorkersTyped, Serving, Leaving, Keys, client, link, worker,
        keeper, history
<1>15. ASSUME NEW c \in Conn, DisconnectLinger(c) PROVE WorkersTyped'
  BY <1>15, <1>a
     DEF DisconnectLinger, WorkersTyped, Serving, Leaving, Keys, client, link,
        worker, keeper, history
<1>16. ASSUME NEW c \in Conn, DisconnectDelete(c) PROVE WorkersTyped'
  BY <1>16, <1>a
     DEF DisconnectDelete, WorkersTyped, Serving, Leaving, Keys, client, link,
        worker, keeper, history
<1>17. ASSUME NEW c \in Conn, DisconnectDone(c) PROVE WorkersTyped'
  BY <1>17, <1>a
     DEF DisconnectDone, WorkersTyped, Serving, Leaving, Keys, client, link, worker,
        keeper, history
<1>18. ASSUME NEW s \in Stream,
              CloseCheck(s) \/ CloseDelete(s) \/ LingerPasses(s) \/ LifetimePasses(s)
       PROVE  WorkersTyped'
  BY <1>18, <1>a
     DEF CloseCheck, CloseDelete, LingerPasses, LifetimePasses, WorkersTyped,
        Serving, Leaving, Keys, client, link, worker, keeper, history
<1>19. CASE UNCHANGED vars
  BY <1>19, <1>a
     DEF WorkersTyped, Serving, Leaving, Keys, client, link, worker, keeper, history,
        vars
<1>20. QED
  BY <1>1, <1>2, <1>3, <1>4, <1>5, <1>6, <1>7, <1>8, <1>9, <1>10, <1>11, <1>12,
     <1>13, <1>14, <1>15, <1>16, <1>17, <1>18, <1>19
     DEF Next, Client, Housekeeper, Worker, Closer

(* Every step keeps the types of the table's entries: an entry has the     *)
(* time its connection ended exactly when it has no connection.            *)
LEMMA TableTypedKept ==
    ASSUME Typed, [Next]_vars
    PROVE  TableTyped'
<1>a. /\ TableTyped
      /\ \A c \in Conn : hpc[c] \in {"assoc", "write"} => seen[c] \in Entry
      /\ \A c \in Conn : hpc[c] \in Serving \cup {"write"} => subject[c] \in Stream
  BY DEF Typed, WorkersTyped
<1>1. CASE Connect \/ Receive \/ Disconnect
  BY <1>1, <1>a
     DEF Connect, Receive, Disconnect, TableTyped, client, link, worker, keeper,
        history
<1>2. ASSUME NEW s \in Stream,
             AskStart(s) \/ AskNext(s) \/ AskClose(s)
      PROVE  TableTyped'
  BY <1>2, <1>a
     DEF AskStart, AskNext, AskClose, Ask, TableTyped, client, link, worker, keeper,
        history
<1>3. CASE HousekeepingStarts \/ HousekeepingLooks \/ HousekeepingNext
  BY <1>3, <1>a
     DEF HousekeepingStarts, HousekeepingLooks, HousekeepingNext, Expired,
        TableTyped, client, link, worker, keeper, history
<1>4. CASE HousekeepingDeletes
  BY <1>4, <1>a
     DEF HousekeepingDeletes, TableTyped, client, link, worker, keeper, history
<1>5. ASSUME NEW c \in Conn,
             Handle(c) \/ CheckStream(c) \/ FetchStream(c) \/ CallNext(c) \/
             GeneratorYields(c) \/ GeneratorStops(c) \/ DisconnectList(c) \/
             DisconnectGet(c) \/ DisconnectDone(c)
      PROVE  TableTyped'
  BY <1>5, <1>a
     DEF Handle, CheckStream, FetchStream, CallNext, GeneratorYields, GeneratorStops,
        DisconnectList, DisconnectGet, DisconnectDone, Answer, TableTyped, client, link,
        worker, keeper, history
<1>6. ASSUME NEW c \in Conn, StreamResponse(c) PROVE TableTyped'
  <2>1. [client |-> c, born |-> "new", since |-> "none"] \in Entry
    BY EntriesMade
  <2>2. QED
    BY <1>6, <1>a, <2>1 DEF StreamResponse, TableTyped
<1>7. ASSUME NEW c \in Conn, Associate(c) PROVE TableTyped'
  <2>1. [client |-> c, born |-> seen[c].born, since |-> "none"] \in Entry
    BY <1>7, <1>a, EntryAges, EntriesMade DEF Associate
  <2>2. QED
    BY <1>7, <1>a, <2>1 DEF Associate, TableTyped
<1>8. ASSUME NEW c \in Conn, DropStream(c) PROVE TableTyped'
  BY <1>8, <1>a
     DEF DropStream, Answer, TableTyped, client, link, worker, keeper, history
<1>9. ASSUME NEW c \in Conn, DisconnectLinger(c) PROVE TableTyped'
  <2>1. [client |-> None, born |-> seen[c].born, since |-> "new"] \in Entry
    BY <1>9, <1>a, EntryAges, EntriesMade DEF DisconnectLinger
  <2>2. QED
    BY <1>9, <1>a, <2>1 DEF DisconnectLinger, TableTyped
<1>10. ASSUME NEW c \in Conn, DisconnectDelete(c) PROVE TableTyped'
  BY <1>10, <1>a DEF DisconnectDelete, TableTyped, client, link, worker, keeper, history
<1>11. ASSUME NEW s \in Stream, CloseCheck(s) PROVE TableTyped'
  BY <1>11, <1>a DEF CloseCheck, TableTyped, client, link, worker, keeper, history
<1>12. ASSUME NEW s \in Stream, CloseDelete(s) PROVE TableTyped'
  BY <1>12, <1>a DEF CloseDelete, TableTyped, client, link, worker, keeper, history
<1>13. ASSUME NEW s \in Stream, LingerPasses(s) PROVE TableTyped'
  <2>1. [table[s] EXCEPT !.since = "old"] \in Entry
    BY <1>13, <1>a, EntryAges DEF LingerPasses, TableTyped
  <2>2. table' = [table EXCEPT ![s] = [table[s] EXCEPT !.since = "old"]]
    BY <1>13, <1>a DEF LingerPasses, TableTyped
  <2>3. QED
    BY <1>a, <2>1, <2>2 DEF TableTyped
<1>14. ASSUME NEW s \in Stream, LifetimePasses(s) PROVE TableTyped'
  <2>1. [table[s] EXCEPT !.born = "old"] \in Entry
    BY <1>14, <1>a, EntryAges DEF LifetimePasses, TableTyped
  <2>2. table' = [table EXCEPT ![s] = [table[s] EXCEPT !.born = "old"]]
    BY <1>14, <1>a DEF LifetimePasses, TableTyped
  <2>3. QED
    BY <1>a, <2>1, <2>2 DEF TableTyped
<1>15. CASE UNCHANGED vars
  BY <1>15, <1>a DEF TableTyped, client, link, worker, keeper, history, vars
<1>16. QED
  BY <1>1, <1>2, <1>3, <1>4, <1>5, <1>6, <1>7, <1>8, <1>9, <1>10, <1>11, <1>12,
     <1>13, <1>14, <1>15
     DEF Next, Client, Housekeeper, Worker, Closer

(* Every step keeps the types of the generators and of the close_stream    *)
(* calls.                                                                  *)
LEMMA StreamsTypedKept ==
    ASSUME Typed, [Next]_vars
    PROVE  StreamsTyped'
<1>a. /\ StreamsTyped /\ N \in Nat /\ \A c \in Conn : hpc[c] = "run" => subject[c] \in Stream
  BY Values DEF Typed, WorkersTyped, Serving
<1>1. CASE Connect \/ Receive \/ Disconnect
  BY <1>1, <1>a
     DEF Connect, Receive, Disconnect, StreamsTyped, client, link, worker, keeper,
        history
<1>2. ASSUME NEW s \in Stream,
             AskStart(s) \/ AskNext(s) \/ AskClose(s)
      PROVE  StreamsTyped'
  BY <1>2, <1>a
     DEF AskStart, AskNext, AskClose, Ask, StreamsTyped, client, link, worker,
        keeper, history
<1>3. CASE HousekeepingStarts \/ HousekeepingLooks \/ HousekeepingDeletes \/
   HousekeepingNext
  BY <1>3, <1>a
     DEF HousekeepingStarts, HousekeepingLooks, HousekeepingDeletes,
        HousekeepingNext, Expired, StreamsTyped, client, link, worker, keeper, history
<1>4. ASSUME NEW c \in Conn,
             Handle(c) \/ StreamResponse(c) \/ CheckStream(c) \/ FetchStream(c) \/
             Associate(c) \/ DropStream(c) \/ DisconnectList(c) \/ DisconnectGet(c) \/
             DisconnectLinger(c) \/ DisconnectDelete(c) \/ DisconnectDone(c)
      PROVE  StreamsTyped'
  BY <1>4, <1>a
     DEF Handle, StreamResponse, CheckStream, FetchStream, Associate, DropStream,
        DisconnectList, DisconnectGet, DisconnectLinger, DisconnectDelete,
        DisconnectDone, Answer, StreamsTyped, client, link, worker, keeper, history
<1>5. ASSUME NEW c \in Conn, CallNext(c) PROVE StreamsTyped'
  BY <1>5, <1>a DEF CallNext, StreamsTyped, client, link, worker, keeper, history
<1>6. ASSUME NEW c \in Conn, GeneratorYields(c) PROVE StreamsTyped'
  BY <1>6, <1>a
     DEF GeneratorYields, Answer, StreamsTyped, client, link, worker, keeper, history
<1>7. ASSUME NEW c \in Conn, GeneratorStops(c) PROVE StreamsTyped'
  BY <1>7, <1>a DEF GeneratorStops, StreamsTyped, client, link, worker, keeper, history
<1>8. ASSUME NEW s \in Stream, CloseCheck(s) PROVE StreamsTyped'
  BY <1>8, <1>a DEF CloseCheck, StreamsTyped, client, link, worker, keeper, history
<1>9. ASSUME NEW s \in Stream, CloseDelete(s) PROVE StreamsTyped'
  BY <1>9, <1>a DEF CloseDelete, StreamsTyped, client, link, worker, keeper, history
<1>10. ASSUME NEW s \in Stream, LingerPasses(s) PROVE StreamsTyped'
  BY <1>10, <1>a DEF LingerPasses, StreamsTyped, client, link, worker, keeper, history
<1>11. ASSUME NEW s \in Stream, LifetimePasses(s) PROVE StreamsTyped'
  BY <1>11, <1>a DEF LifetimePasses, StreamsTyped, client, link, worker, keeper, history
<1>12. CASE UNCHANGED vars
  BY <1>12, <1>a DEF StreamsTyped, client, link, worker, keeper, history, vars
<1>13. QED
  BY <1>1, <1>2, <1>3, <1>4, <1>5, <1>6, <1>7, <1>8, <1>9, <1>10, <1>11, <1>12
     DEF Next, Client, Housekeeper, Worker, Closer

(* Every step keeps the types of the housekeeper's variables: it has a key *)
(* to delete only during a round.                                          *)
LEMMA KeeperTypedKept ==
    ASSUME Typed, [Next]_vars
    PROVE  KeeperTyped'
<1>a. KeeperTyped /\ config \in Configs
  BY DEF Typed, ClientTyped
<1>1. CASE Connect \/ Receive \/ Disconnect
  BY <1>1, <1>a
     DEF Connect, Receive, Disconnect, KeeperTyped, Keys, client, link, worker,
        keeper, history
<1>2. ASSUME NEW s \in Stream,
             AskStart(s) \/ AskNext(s) \/ AskClose(s)
      PROVE  KeeperTyped'
  BY <1>2, <1>a
     DEF AskStart, AskNext, AskClose, Ask, KeeperTyped, Keys, client, link, worker,
        keeper, history
<1>3. CASE HousekeepingStarts
  BY <1>3, <1>a
     DEF HousekeepingStarts, KeeperTyped, Keys, client, link, worker, keeper, history
<1>4. CASE HousekeepingLooks
  BY <1>4, <1>a
     DEF HousekeepingLooks, Expired, KeeperTyped, Keys, client, link, worker, keeper,
        history
<1>5. CASE HousekeepingDeletes
  BY <1>5, <1>a
     DEF HousekeepingDeletes, KeeperTyped, Keys, client, link, worker, keeper,
        history
<1>6. CASE HousekeepingNext
  BY <1>6, <1>a
     DEF HousekeepingNext, KeeperTyped, Keys, client, link, worker, keeper, history
<1>7. ASSUME NEW c \in Conn,
             Handle(c) \/ StreamResponse(c) \/ CheckStream(c) \/ FetchStream(c) \/
             Associate(c) \/ CallNext(c) \/ GeneratorYields(c) \/ GeneratorStops(c) \/
             DropStream(c) \/ DisconnectList(c) \/ DisconnectGet(c) \/
             DisconnectLinger(c) \/ DisconnectDelete(c) \/ DisconnectDone(c)
      PROVE  KeeperTyped'
  BY <1>7, <1>a
     DEF Handle, StreamResponse, CheckStream, FetchStream, Associate, CallNext,
        GeneratorYields, GeneratorStops, DropStream, DisconnectList, DisconnectGet,
        DisconnectLinger, DisconnectDelete, DisconnectDone, Answer, KeeperTyped, Keys,
        client, link, worker, keeper, history
<1>8. ASSUME NEW s \in Stream,
             CloseCheck(s) \/ CloseDelete(s) \/ LingerPasses(s) \/ LifetimePasses(s)
      PROVE  KeeperTyped'
  BY <1>8, <1>a
     DEF CloseCheck, CloseDelete, LingerPasses, LifetimePasses, KeeperTyped, Keys,
        client, link, worker, keeper, history
<1>9. CASE UNCHANGED vars
  BY <1>9, <1>a DEF KeeperTyped, Keys, client, link, worker, keeper, history, vars
<1>10. QED
  BY <1>1, <1>2, <1>3, <1>4, <1>5, <1>6, <1>7, <1>8, <1>9
     DEF Next, Client, Housekeeper, Worker, Closer

(* The types hold at the start. *)
LEMMA TypedFirst ==
    ASSUME Init PROVE Typed
BY Values DEF Init, Typed, ClientTyped, MessagesTyped, WorkersTyped, TableTyped, StreamsTyped,
   KeeperTyped, Serving, Leaving

(* Every step keeps all the types. *)
LEMMA TypedKept ==
    ASSUME Typed, [Next]_vars PROVE Typed'
BY ClientTypedKept, MessagesTypedKept, WorkersTypedKept, TableTypedKept, StreamsTypedKept,
   KeeperTypedKept DEF Typed

(* Every variable keeps its type, whatever the order in which requests,    *)
(* disconnects, the housekeeper and the oneway closes change the table     *)
(* (Daemon._streamResponse, get_next_stream_item, _clientDisconnect and    *)
(* _housekeeping in core.py).                                              *)
THEOREM TypeCorrect == Spec => []TypeOK
BY TypedFirst, TypedKept, TypedMeansTypeOK, PTL DEF Spec

-----------------------------------------------------------------------------
(* A request that a worker has begun goes on, or is answered; or the       *)
(* worker leaves, because its client has gone.                             *)
Proceeds(c) ==
    /\ hpc[c] \in Serving \ {"start"}
    /\ \E h \in Serving \ {"start"} : hpc' = [hpc EXCEPT ![c] = h]
    /\ UNCHANGED <<config, client, link, subject, history>>

Replies(c, kind, item) ==
    /\ hpc[c] \in Serving /\ Answer(c, kind, item)
    /\ UNCHANGED <<config, client, up, req, history>>

Leaves(c) ==
    /\ hpc[c] \in {"idle"} \cup Leaving
    /\ hpc[c] = "idle" => c <= used /\ ~up[c] /\ req[c] = None
    /\ \E h \in Leaving, s \in Stream \cup {None} :
        hpc' = [hpc EXCEPT ![c] = h] /\ subject' = [subject EXCEPT ![c] = s]
    /\ UNCHANGED <<config, client, link, history>>

(* Every step of a worker is one of these. *)
LEMMA WorkerSteps ==
    ASSUME Typed, NEW c \in Conn, Worker(c)
    PROVE  \/ Handle(c) \/ Proceeds(c) \/ Leaves(c)
           \/ \E k \in {"started", "item", "stop", "error"}, i \in 0 .. N : Replies(c, k, i)
<1>a. /\ 0 \in 0 .. N /\ pos \in [Stream -> 0 .. N] /\ N \in Nat /\ WorkersTyped
      /\ subject = [subject EXCEPT ![c] = subject[c]] /\ subject[c] \in Stream \cup {None}
      /\ hpc = [hpc EXCEPT ![c] = hpc[c]]
      /\ (hpc[c] \in Serving => subject[c] \in Stream)
  BY Values DEF Typed, StreamsTyped, WorkersTyped
<1>1. CASE StreamResponse(c)
  <2>1. Replies(c, "started", 0)
    BY <1>1 DEF StreamResponse, Replies, Serving, client, history
  <2>2. QED
    BY <1>a, <2>1
<1>2. CASE CheckStream(c) \/ FetchStream(c)
  <2>1. Proceeds(c) \/ Replies(c, "error", 0)
    BY <1>2 DEF CheckStream, FetchStream, Proceeds, Replies, Serving, client, link, history
  <2>2. QED
    BY <1>a, <2>1
<1>3. CASE Associate(c) \/ CallNext(c) \/ GeneratorStops(c)
  BY <1>3 DEF Associate, CallNext, GeneratorStops, Proceeds, Serving, client, link, history
<1>4. CASE GeneratorYields(c)
  <2>1. Replies(c, "item", pos'[subject[c]]) /\ pos'[subject[c]] \in 0 .. N
    BY <1>4, <1>a DEF GeneratorYields, Replies, Serving, client, history
  <2>2. QED
    BY <2>1
<1>5. CASE DropStream(c)
  <2>1. \E k \in {"stop", "error"} : Replies(c, k, 0)
    BY <1>5 DEF DropStream, Replies, Serving, client, history
  <2>2. QED
    BY <1>a, <2>1
<1>6. CASE DisconnectList(c)
  BY <1>6, <1>a DEF DisconnectList, Leaves, Leaving, client, link, history
<1>7. CASE DisconnectGet(c)
  <2>1. PICK s \in todo[c] :
            IF table[s] # None /\ table[s].client = c
            THEN hpc' = [hpc EXCEPT ![c] = "write"] /\ subject' = [subject EXCEPT ![c] = s]
            ELSE UNCHANGED <<hpc, subject>>
    BY <1>7 DEF DisconnectGet
  <2>2. s \in Stream
    BY <1>a DEF WorkersTyped
  <2>3. QED
    BY <1>7, <1>a, <2>1, <2>2 DEF DisconnectGet, Leaves, Leaving, client, link, history
<1>8. CASE DisconnectLinger(c) \/ DisconnectDelete(c) \/ DisconnectDone(c)
  BY <1>8, <1>a
     DEF DisconnectLinger, DisconnectDelete, DisconnectDone, Leaves, Leaving, client, link, history
<1>9. QED
  BY <1>1, <1>2, <1>3, <1>4, <1>5, <1>6, <1>7, <1>8 DEF Worker

(* The configuration is fixed. *)
LEMMA ConfigKept ==
    ASSUME [Next]_vars
    PROVE  config' = config
BY DEF Next, Client, Connect, Receive, Disconnect, AskStart, AskNext, AskClose, Ask,
       Housekeeper, HousekeepingStarts, HousekeepingLooks, HousekeepingDeletes,
       HousekeepingNext, Worker, Handle, StreamResponse, CheckStream, FetchStream, Associate,
       CallNext, GeneratorYields, GeneratorStops, DropStream, DisconnectList, DisconnectGet,
       DisconnectLinger, DisconnectDelete, DisconnectDone, Closer, CloseCheck, CloseDelete,
       LingerPasses, LifetimePasses, vars

(* What the housekeeper, closes and time do not touch. *)
Others ==
    \/ Housekeeper \/ UNCHANGED vars
    \/ \E s \in Stream : Closer(s) \/ LingerPasses(s) \/ LifetimePasses(s)

(* They touch only the table, the close_stream calls and the housekeeper. *)
LEMMA OthersKeep ==
    ASSUME Others
    PROVE  UNCHANGED <<config, client, link, worker, pos, running, history>>
BY DEF Others, Housekeeper, HousekeepingStarts, HousekeepingLooks, HousekeepingDeletes,
       HousekeepingNext, Closer, CloseCheck, CloseDelete, LingerPasses, LifetimePasses, vars

(* A step is one of the client, of a worker, or of the others. *)
LEMMA StreamSteps ==
    ASSUME Typed, [Next]_vars
    PROVE  \/ Connect \/ Receive \/ Disconnect
           \/ \E s \in Stream : AskStart(s) \/ AskNext(s) \/ AskClose(s)
           \/ \E c \in Conn :
                \/ Handle(c) \/ Proceeds(c) \/ Leaves(c)
                \/ \E k \in {"started", "item", "stop", "error"}, i \in 0 .. N : Replies(c, k, i)
           \/ Others
<1>1. ASSUME NEW c \in Conn, Worker(c)
      PROVE  \/ Handle(c) \/ Proceeds(c) \/ Leaves(c)
             \/ \E k \in {"started", "item", "stop", "error"}, i \in 0 .. N : Replies(c, k, i)
  BY <1>1, WorkerSteps
<1>2. QED
  BY <1>1 DEF Next, Client, Others

-----------------------------------------------------------------------------
(* The client's connection is the one that is up, and the last one made;   *)
(* replies are on it, and nothing is on those to come.                     *)
ConnInv ==
    /\ conn # None => conn <= used
    /\ \A c \in Conn : up[c] <=> c = conn
    /\ \A c \in Conn : rep[c] # None => c = conn
    /\ \A c \in Conn : c > used => hpc[c] = "idle" /\ req[c] = None
    /\ wanted # None => iter[wanted] \in {"asked", "open", "failed"}

(* What the client waits for: its request, at rest, served or answered. *)
AtRest == req[conn] = None /\ hpc[conn] = "idle" /\ rep[conn] = None

Requested ==
    /\ req[conn] # None /\ hpc[conn] = "idle" /\ rep[conn] = None
    /\ req[conn].stream = wanted
    /\ req[conn].op = "start" <=> iter[wanted] = "asked"

Served ==
    /\ req[conn] = None /\ hpc[conn] \in Serving /\ rep[conn] = None
    /\ subject[conn] = wanted
    /\ hpc[conn] = "start" <=> iter[wanted] = "asked"

Answered == req[conn] = None /\ hpc[conn] = "idle" /\ rep[conn] # None

WaitInv ==
    conn # None =>
        /\ wanted = None => AtRest
        /\ wanted # None => Requested \/ Served \/ Answered

(* Requests of a connection that the client has lost are about streams     *)
(* that it knows to be interrupted.                                        *)
LeftInv ==
    \A c \in Conn : c # conn =>
        /\ req[c] # None => broken[req[c].stream]
        /\ hpc[c] \in Serving => broken[subject[c]]

LinkInv == ConnInv /\ WaitInv /\ LeftInv

(* Every step keeps ConnInv. *)
LEMMA ConnInvKept ==
    ASSUME Typed, LinkInv, [Next]_vars
    PROVE  ConnInv'
<1>a. /\ ClientTyped /\ MessagesTyped /\ WorkersTyped /\ MaxConn \in Nat
      /\ Conn = 1 .. MaxConn /\ None \notin Stream /\ None \notin Conn
      /\ None \notin Request /\ None \notin Reply
      /\ ConnInv /\ WaitInv /\ LeftInv
  BY Values DEF Typed, LinkInv, Conn
<1>b. conn # None => conn \in Conn /\ conn \in Nat
  BY <1>a, Values DEF ClientTyped
<1>1. CASE Connect
  BY <1>1, <1>a, <1>b
     DEF Connect, ConnInv, WaitInv, AtRest, Requested, Served, Answered, Serving,
        Leaving, ClientTyped, MessagesTyped, WorkersTyped, client, link, worker, history
<1>2. CASE Receive
  BY <1>2, <1>a, <1>b
     DEF Receive, Outcome, ConnInv, WaitInv, AtRest, Requested, Served, Answered,
        Serving, Leaving, ClientTyped, MessagesTyped, WorkersTyped, client, link,
        worker, history
<1>3. CASE Disconnect
  BY <1>3, <1>a, <1>b
     DEF Disconnect, ConnInv, WaitInv, AtRest, Requested, Served, Answered, Serving,
        Leaving, ClientTyped, MessagesTyped, WorkersTyped, client, link, worker, history
<1>4. ASSUME NEW s \in Stream, AskStart(s) PROVE ConnInv'
  BY <1>4, <1>a, <1>b
     DEF AskStart, Ask, ConnInv, WaitInv, AtRest, Requested, Served, Answered,
        Serving, Leaving, ClientTyped, MessagesTyped, WorkersTyped, client, link,
        worker, history
<1>5. ASSUME NEW s \in Stream, AskNext(s) PROVE ConnInv'
  BY <1>5, <1>a, <1>b
     DEF AskNext, Ask, ConnInv, WaitInv, AtRest, Requested, Served, Answered,
        Serving, Leaving, ClientTyped, MessagesTyped, WorkersTyped, client, link,
        worker, history
<1>6. ASSUME NEW s \in Stream, AskClose(s) PROVE ConnInv'
  BY <1>6, <1>a, <1>b
     DEF AskClose, ConnInv, WaitInv, AtRest, Requested, Served, Answered, Serving,
        Leaving, ClientTyped, MessagesTyped, WorkersTyped, client, link, worker, history
<1>7. ASSUME NEW c \in Conn, Handle(c) PROVE ConnInv'
  BY <1>7, <1>a, <1>b
     DEF Handle, ConnInv, WaitInv, AtRest, Requested, Served, Answered, Serving,
        Leaving, ClientTyped, MessagesTyped, WorkersTyped, client, link, worker, history
<1>8. ASSUME NEW c \in Conn, Proceeds(c) PROVE ConnInv'
  BY <1>8, <1>a, <1>b
     DEF Proceeds, ConnInv, WaitInv, AtRest, Requested, Served, Answered, Serving,
        Leaving, ClientTyped, MessagesTyped, WorkersTyped, client, link, worker, history
<1>9. ASSUME NEW c \in Conn, NEW k \in {"started", "item", "stop", "error"},
              NEW i \in 0 .. N, Replies(c, k, i)
       PROVE  ConnInv'
  BY <1>9, <1>a, <1>b
     DEF Replies, Answer, ConnInv, WaitInv, AtRest, Requested, Served, Answered,
        Serving, Leaving, ClientTyped, MessagesTyped, WorkersTyped, client, link,
        worker, history
<1>10. ASSUME NEW c \in Conn, Leaves(c) PROVE ConnInv'
  BY <1>10, <1>a, <1>b
     DEF Leaves, ConnInv, WaitInv, AtRest, Requested, Served, Answered, Serving,
        Leaving, ClientTyped, MessagesTyped, WorkersTyped, client, link, worker, history
<1>11. CASE Others
  BY <1>11, <1>a, <1>b, OthersKeep
     DEF ConnInv, WaitInv, AtRest, Requested, Served, Answered, Serving, Leaving,
        ClientTyped, MessagesTyped, WorkersTyped, client, link, worker, history
<1>12. QED
  BY <1>1, <1>2, <1>3, <1>4, <1>5, <1>6, <1>7, <1>8, <1>9, <1>10, <1>11, StreamSteps

(* Every step keeps WaitInv: a call that waits is in its request, in a     *)
(* worker or in a reply, one after the other.                              *)
LEMMA WaitInvKept ==
    ASSUME Typed, LinkInv, [Next]_vars
    PROVE  WaitInv'
<1>a. /\ ClientTyped /\ MessagesTyped /\ WorkersTyped /\ MaxConn \in Nat
      /\ Conn = 1 .. MaxConn /\ None \notin Stream /\ None \notin Conn
      /\ None \notin Request /\ None \notin Reply
      /\ ConnInv /\ WaitInv /\ LeftInv
  BY Values DEF Typed, LinkInv, Conn
<1>b. conn # None => conn \in Conn /\ conn \in Nat
  BY <1>a, Values DEF ClientTyped
<1>1. CASE Connect
  BY <1>1, <1>a, <1>b
     DEF Connect, ConnInv, WaitInv, AtRest, Requested, Served, Answered, Serving,
        Leaving, ClientTyped, MessagesTyped, WorkersTyped, client, link, worker, history
<1>2. CASE Receive
  BY <1>2, <1>a, <1>b
     DEF Receive, Outcome, ConnInv, WaitInv, AtRest, Requested, Served, Answered,
        Serving, Leaving, ClientTyped, MessagesTyped, WorkersTyped, client, link,
        worker, history
<1>3. CASE Disconnect
  BY <1>3, <1>a, <1>b
     DEF Disconnect, ConnInv, WaitInv, AtRest, Requested, Served, Answered, Serving,
        Leaving, ClientTyped, MessagesTyped, WorkersTyped, client, link, worker, history
<1>4. ASSUME NEW s \in Stream, AskStart(s) PROVE WaitInv'
  <2>1. [op |-> "start", stream |-> s] \in Request
    BY MessagesMade
  <2>2. /\ conn # None /\ wanted = None /\ conn' = conn /\ wanted' = s /\ iter'[s] = "asked"
        /\ req'[conn] = [op |-> "start", stream |-> s] /\ rep' = rep /\ hpc' = hpc
    BY <1>4, <1>a, <1>b DEF AskStart, Ask, ClientTyped, MessagesTyped, link, worker
  <2>3. req'[conn] # None /\ req'[conn].stream = s /\ req'[conn].op = "start"
    BY <2>1, <2>2, <1>a
  <2>4. QED
    BY <2>2, <2>3, <1>a DEF WaitInv, AtRest, Requested
<1>5. ASSUME NEW s \in Stream, AskNext(s) PROVE WaitInv'
  <2>1. [op |-> "next", stream |-> s] \in Request
    BY MessagesMade
  <2>2. /\ conn # None /\ wanted = None /\ conn' = conn /\ wanted' = s /\ iter'[s] # "asked"
        /\ req'[conn] = [op |-> "next", stream |-> s] /\ rep' = rep /\ hpc' = hpc
    BY <1>5, <1>a, <1>b DEF AskNext, Ask, ClientTyped, MessagesTyped, link, worker
  <2>3. req'[conn] # None /\ req'[conn].stream = s /\ req'[conn].op = "next"
    BY <2>1, <2>2, <1>a
  <2>4. QED
    BY <2>2, <2>3, <1>a DEF WaitInv, AtRest, Requested
<1>6. ASSUME NEW s \in Stream, AskClose(s) PROVE WaitInv'
  BY <1>6, <1>a, <1>b
     DEF AskClose, ConnInv, WaitInv, AtRest, Requested, Served, Answered, Serving,
        Leaving, ClientTyped, MessagesTyped, WorkersTyped, client, link, worker, history
<1>7. ASSUME NEW c \in Conn, Handle(c) PROVE WaitInv'
  BY <1>7, <1>a, <1>b
     DEF Handle, ConnInv, WaitInv, AtRest, Requested, Served, Answered, Serving,
        Leaving, ClientTyped, MessagesTyped, WorkersTyped, client, link, worker, history
<1>8. ASSUME NEW c \in Conn, Proceeds(c) PROVE WaitInv'
  BY <1>8, <1>a, <1>b
     DEF Proceeds, ConnInv, WaitInv, AtRest, Requested, Served, Answered, Serving,
        Leaving, ClientTyped, MessagesTyped, WorkersTyped, client, link, worker, history
<1>9. ASSUME NEW c \in Conn, NEW k \in {"started", "item", "stop", "error"},
              NEW i \in 0 .. N, Replies(c, k, i)
       PROVE  WaitInv'
  BY <1>9, <1>a, <1>b, MessagesMade
     DEF Replies, Answer, ConnInv, WaitInv, AtRest, Requested, Served, Answered,
        Serving, Leaving, ClientTyped, MessagesTyped, WorkersTyped, client, link,
        worker, history
<1>10. ASSUME NEW c \in Conn, Leaves(c) PROVE WaitInv'
  BY <1>10, <1>a, <1>b
     DEF Leaves, ConnInv, WaitInv, AtRest, Requested, Served, Answered, Serving,
        Leaving, ClientTyped, MessagesTyped, WorkersTyped, client, link, worker, history
<1>11. CASE Others
  BY <1>11, <1>a, <1>b, OthersKeep
     DEF ConnInv, WaitInv, AtRest, Requested, Served, Answered, Serving, Leaving,
        ClientTyped, MessagesTyped, WorkersTyped, client, link, worker, history
<1>12. QED
  BY <1>1, <1>2, <1>3, <1>4, <1>5, <1>6, <1>7, <1>8, <1>9, <1>10, <1>11, StreamSteps

(* Every step keeps LeftInv: a connection that is lost takes its requests  *)
(* with it.                                                                *)
LEMMA LeftInvKept ==
    ASSUME Typed, LinkInv, [Next]_vars
    PROVE  LeftInv'
<1>a. /\ ClientTyped /\ MessagesTyped /\ WorkersTyped /\ MaxConn \in Nat
      /\ Conn = 1 .. MaxConn /\ None \notin Stream /\ None \notin Conn
      /\ None \notin Request /\ None \notin Reply
      /\ ConnInv /\ WaitInv /\ LeftInv
  BY Values DEF Typed, LinkInv, Conn
<1>b. conn # None => conn \in Conn /\ conn \in Nat
  BY <1>a, Values DEF ClientTyped
<1>1. CASE Connect
  BY <1>1, <1>a, <1>b
     DEF Connect, ConnInv, WaitInv, AtRest, Requested, Served, Answered, LeftInv,
        Serving, Leaving, ClientTyped, MessagesTyped, WorkersTyped, client, link,
        worker, history
<1>2. CASE Receive
  BY <1>2, <1>a, <1>b
     DEF Receive, Outcome, ConnInv, WaitInv, AtRest, Requested, Served, Answered,
        LeftInv, Serving, Leaving, ClientTyped, MessagesTyped, WorkersTyped, client,
        link, worker, history
<1>3. CASE Disconnect
  <2>1. /\ req[conn] # None => broken'[req[conn].stream]
        /\ hpc[conn] \in Serving => broken'[subject[conn]]
    BY <1>3, <1>a, <1>b
       DEF Disconnect, ConnInv, WaitInv, AtRest, Requested, Served, Answered, ClientTyped, Serving
  <2>2. \A c \in Conn : req'[c] # None => req'[c] = req[c]
    BY <1>3, <1>a DEF Disconnect, MessagesTyped
  <2>3. \A c \in Conn : /\ req[c] # None => req[c].stream \in Stream
                        /\ hpc[c] \in Serving => subject[c] \in Stream
    BY <1>a, MessagesMade DEF MessagesTyped, WorkersTyped
  <2>4. \A s \in Stream : broken[s] => broken'[s]
    BY <1>3, <1>a DEF Disconnect, ClientTyped
  <2>5. hpc' = hpc /\ subject' = subject /\ conn # None
    BY <1>3 DEF Disconnect, worker
  <2>6. ASSUME NEW c \in Conn
        PROVE  /\ req[c] # None => broken'[req[c].stream]
               /\ hpc[c] \in Serving => broken'[subject[c]]
    <3>1. CASE c = conn
      BY <2>1, <3>1
    <3>2. CASE c # conn
      <4>1. /\ req[c] # None => broken[req[c].stream]
            /\ hpc[c] \in Serving => broken[subject[c]]
        BY <3>2, <1>a DEF LeftInv
      <4>2. /\ req[c] # None => req[c].stream \in Stream
            /\ hpc[c] \in Serving => subject[c] \in Stream
        BY <2>3
      <4>3. QED
        BY <4>1, <4>2, <2>4, Zenon
    <3>3. QED
      BY <3>1, <3>2
  <2>7. QED
    BY <2>2, <2>5, <2>6 DEF LeftInv
<1>4. ASSUME NEW s \in Stream, AskStart(s) PROVE LeftInv'
  BY <1>4, <1>a, <1>b
     DEF AskStart, Ask, ConnInv, WaitInv, AtRest, Requested, Served, Answered,
        LeftInv, Serving, Leaving, ClientTyped, MessagesTyped, WorkersTyped, client,
        link, worker, history
<1>5. ASSUME NEW s \in Stream, AskNext(s) PROVE LeftInv'
  BY <1>5, <1>a, <1>b
     DEF AskNext, Ask, ConnInv, WaitInv, AtRest, Requested, Served, Answered,
        LeftInv, Serving, Leaving, ClientTyped, MessagesTyped, WorkersTyped, client,
        link, worker, history
<1>6. ASSUME NEW s \in Stream, AskClose(s) PROVE LeftInv'
  BY <1>6, <1>a, <1>b
     DEF AskClose, ConnInv, WaitInv, AtRest, Requested, Served, Answered, LeftInv,
        Serving, Leaving, ClientTyped, MessagesTyped, WorkersTyped, client, link,
        worker, history
<1>7. ASSUME NEW c \in Conn, Handle(c) PROVE LeftInv'
  BY <1>7, <1>a, <1>b
     DEF Handle, ConnInv, WaitInv, AtRest, Requested, Served, Answered, LeftInv,
        Serving, Leaving, ClientTyped, MessagesTyped, WorkersTyped, client, link,
        worker, history
<1>8. ASSUME NEW c \in Conn, Proceeds(c) PROVE LeftInv'
  BY <1>8, <1>a, <1>b
     DEF Proceeds, ConnInv, WaitInv, AtRest, Requested, Served, Answered, LeftInv,
        Serving, Leaving, ClientTyped, MessagesTyped, WorkersTyped, client, link,
        worker, history
<1>9. ASSUME NEW c \in Conn, NEW k \in {"started", "item", "stop", "error"},
              NEW i \in 0 .. N, Replies(c, k, i)
       PROVE  LeftInv'
  BY <1>9, <1>a, <1>b
     DEF Replies, Answer, ConnInv, WaitInv, AtRest, Requested, Served, Answered,
        LeftInv, Serving, Leaving, ClientTyped, MessagesTyped, WorkersTyped, client,
        link, worker, history
<1>10. ASSUME NEW c \in Conn, Leaves(c) PROVE LeftInv'
  BY <1>10, <1>a, <1>b
     DEF Leaves, ConnInv, WaitInv, AtRest, Requested, Served, Answered, LeftInv,
        Serving, Leaving, ClientTyped, MessagesTyped, WorkersTyped, client, link,
        worker, history
<1>11. CASE Others
  BY <1>11, <1>a, <1>b, OthersKeep
     DEF ConnInv, WaitInv, AtRest, Requested, Served, Answered, LeftInv, Serving,
        Leaving, ClientTyped, MessagesTyped, WorkersTyped, client, link, worker, history
<1>12. QED
  BY <1>1, <1>2, <1>3, <1>4, <1>5, <1>6, <1>7, <1>8, <1>9, <1>10, <1>11, StreamSteps

(* The types and what is known of the connections hold always. *)
LEMMA LinkAlways == Spec => [](Typed /\ LinkInv)
<1>1. Init => LinkInv
  BY Values DEF Init, LinkInv, ConnInv, WaitInv, LeftInv, Serving
<1>2. Typed /\ LinkInv /\ [Next]_vars => (Typed /\ LinkInv)'
  BY TypedKept, ConnInvKept, WaitInvKept, LeftInvKept DEF LinkInv
<1>3. QED
  BY <1>1, <1>2, TypedFirst, PTL DEF Spec

-----------------------------------------------------------------------------
(* A generator is running exactly while a worker is in it. *)
RunInv ==
    \A s \in Stream, c \in Conn : running[s] = c <=> (hpc[c] = "run" /\ subject[c] = s)

(* What the client got is behind the generator, and an item that is under  *)
(* way is ahead of what the client got.                                    *)
PosInv ==
    /\ \A s \in Stream : got[s] <= pos[s]
    /\ (wanted # None /\ rep[conn] # None /\ rep[conn].kind = "item") =>
            got[wanted] < rep[conn].item /\ rep[conn].item <= pos[wanted]

(* Every step keeps RunInv: next() takes a generator that nobody runs, and *)
(* every way out of it gives it back.                                      *)
LEMMA RunInvKept ==
    ASSUME Typed, RunInv, [Next]_vars
    PROVE  RunInv'
<1>a. /\ WorkersTyped /\ StreamsTyped /\ RunInv /\ None \notin Conn /\ None \notin Stream
      /\ \A c \in Conn : hpc[c] = "run" => subject[c] \in Stream
  BY Values DEF Typed, WorkersTyped, Serving
<1>1. CASE Connect \/ Receive \/ Disconnect
  BY <1>1, <1>a
     DEF Connect, Receive, Disconnect, RunInv, WorkersTyped, StreamsTyped, Serving,
        client, link, worker, keeper, history
<1>2. ASSUME NEW s \in Stream, AskStart(s) \/ AskNext(s) \/ AskClose(s) PROVE RunInv'
  BY <1>2, <1>a
     DEF AskStart, AskNext, AskClose, Ask, RunInv, WorkersTyped, StreamsTyped,
        Serving, client, link, worker, keeper, history
<1>3. ASSUME NEW c \in Conn, Handle(c) PROVE RunInv'
  BY <1>3, <1>a
     DEF Handle, RunInv, WorkersTyped, StreamsTyped, Serving, client, link, worker,
        keeper, history
<1>4. ASSUME NEW c \in Conn, StreamResponse(c) PROVE RunInv'
  BY <1>4, <1>a
     DEF StreamResponse, Answer, RunInv, WorkersTyped, StreamsTyped, Serving, client,
        link, worker, keeper, history
<1>5. ASSUME NEW c \in Conn, CheckStream(c) PROVE RunInv'
  BY <1>5, <1>a
     DEF CheckStream, Answer, RunInv, WorkersTyped, StreamsTyped, Serving, client,
        link, worker, keeper, history
<1>6. ASSUME NEW c \in Conn, FetchStream(c) PROVE RunInv'
  BY <1>6, <1>a
     DEF FetchStream, Answer, RunInv, WorkersTyped, StreamsTyped, Serving, client,
        link, worker, keeper, history
<1>7. ASSUME NEW c \in Conn, Associate(c) PROVE RunInv'
  BY <1>7, <1>a
     DEF Associate, RunInv, WorkersTyped, StreamsTyped, Serving, client, link,
        worker, keeper, history
<1>8. ASSUME NEW c \in Conn, CallNext(c) PROVE RunInv'
  BY <1>8, <1>a
     DEF CallNext, RunInv, WorkersTyped, StreamsTyped, Serving, client, link, worker,
        keeper, history
<1>9. ASSUME NEW c \in Conn, GeneratorYields(c) PROVE RunInv'
  BY <1>9, <1>a
     DEF GeneratorYields, Answer, RunInv, WorkersTyped, StreamsTyped, Serving,
        client, link, worker, keeper, history
<1>10. ASSUME NEW c \in Conn, GeneratorStops(c) PROVE RunInv'
  BY <1>10, <1>a
     DEF GeneratorStops, RunInv, WorkersTyped, StreamsTyped, Serving, client, link,
        worker, keeper, history
<1>11. ASSUME NEW c \in Conn, DropStream(c) PROVE RunInv'
  BY <1>11, <1>a
     DEF DropStream, Answer, RunInv, WorkersTyped, StreamsTyped, Serving, client,
        link, worker, keeper, history
<1>12. ASSUME NEW c \in Conn, DisconnectList(c) PROVE RunInv'
  BY <1>12, <1>a
     DEF DisconnectList, RunInv, WorkersTyped, StreamsTyped, Serving, client, link,
        worker, keeper, history
<1>13. ASSUME NEW c \in Conn, DisconnectGet(c) PROVE RunInv'
  BY <1>13, <1>a
     DEF DisconnectGet, RunInv, WorkersTyped, StreamsTyped, Serving, client, link,
        worker, keeper, history
<1>14. ASSUME NEW c \in Conn, DisconnectLinger(c) PROVE RunInv'
  BY <1>14, <1>a
     DEF DisconnectLinger, RunInv, WorkersTyped, StreamsTyped, Serving, client, link,
        worker, keeper, history
<1>15. ASSUME NEW c \in Conn, DisconnectDelete(c) PROVE RunInv'
  BY <1>15, <1>a
     DEF DisconnectDelete, RunInv, WorkersTyped, StreamsTyped, Serving, client, link,
        worker, keeper, history
<1>16. ASSUME NEW c \in Conn, DisconnectDone(c) PROVE RunInv'
  BY <1>16, <1>a
     DEF DisconnectDone, RunInv, WorkersTyped, StreamsTyped, Serving, client, link,
        worker, keeper, history
<1>17. CASE Others
  BY <1>17, <1>a, OthersKeep
     DEF RunInv, WorkersTyped, StreamsTyped, Serving, client, link, worker, history
<1>18. QED
  BY <1>1, <1>2, <1>3, <1>4, <1>5, <1>6, <1>7, <1>8, <1>9, <1>10, <1>11, <1>12,
     <1>13, <1>14, <1>15, <1>16, <1>17
     DEF Next, Client, Worker, Others

(* Every step keeps PosInv: the generator only moves on, and its item is   *)
(* sent with its number.                                                   *)
LEMMA PosInvKept ==
    ASSUME Typed, LinkInv, PosInv, [Next]_vars
    PROVE  PosInv'
<1>a. /\ ClientTyped /\ MessagesTyped /\ StreamsTyped /\ PosInv /\ N \in Nat
      /\ (wanted # None => conn \in Conn /\ wanted \in Stream)
      /\ None \notin Conn /\ None \notin Stream /\ None \notin Reply
      /\ \A r \in Reply : r.kind \in {"started", "item", "stop", "error"} /\ r.item \in 0 .. N
  BY Values, MessagesMade DEF Typed, ClientTyped
<1>b. /\ conn # None /\ wanted = None => rep[conn] = None /\ hpc[conn] = "idle"
      /\ \A c \in Conn : up[c] /\ hpc[c] \in Serving =>
            c = conn /\ wanted # None /\ subject[c] = wanted /\ rep[c] = None
      /\ \A c \in Conn : hpc[c] \in Serving => subject[c] \in Stream
  BY <1>a DEF LinkInv, ConnInv, WaitInv, AtRest, Requested, Served, Answered, Typed,
              WorkersTyped, Serving
<1>1. CASE Connect
  BY <1>1, <1>a, <1>b
     DEF Connect, PosInv, ClientTyped, MessagesTyped, StreamsTyped, client, link,
        worker, keeper, history
<1>2. CASE Receive
  BY <1>2, <1>a, <1>b
     DEF Receive, PosInv, ClientTyped, MessagesTyped, StreamsTyped, client, link,
        worker, keeper, history
<1>3. CASE Disconnect
  BY <1>3, <1>a, <1>b
     DEF Disconnect, PosInv, ClientTyped, MessagesTyped, StreamsTyped, client, link,
        worker, keeper, history
<1>4. ASSUME NEW s \in Stream, AskStart(s) PROVE PosInv'
  BY <1>4, <1>a, <1>b
     DEF AskStart, Ask, PosInv, ClientTyped, MessagesTyped, StreamsTyped, client,
        link, worker, keeper, history
<1>5. ASSUME NEW s \in Stream, AskNext(s) PROVE PosInv'
  BY <1>5, <1>a, <1>b
     DEF AskNext, Ask, PosInv, ClientTyped, MessagesTyped, StreamsTyped, client,
        link, worker, keeper, history
<1>6. ASSUME NEW s \in Stream, AskClose(s) PROVE PosInv'
  BY <1>6, <1>a, <1>b
     DEF AskClose, PosInv, ClientTyped, MessagesTyped, StreamsTyped, client, link,
        worker, keeper, history
<1>7. ASSUME NEW c \in Conn, Handle(c) PROVE PosInv'
  BY <1>7, <1>a, <1>b
     DEF Handle, PosInv, ClientTyped, MessagesTyped, StreamsTyped, client, link,
        worker, keeper, history
<1>8. ASSUME NEW c \in Conn, StreamResponse(c) PROVE PosInv'
  BY <1>8, <1>a, <1>b
     DEF StreamResponse, Answer, PosInv, ClientTyped, MessagesTyped, StreamsTyped,
        client, link, worker, keeper, history
<1>9. ASSUME NEW c \in Conn, CheckStream(c) PROVE PosInv'
  BY <1>9, <1>a, <1>b
     DEF CheckStream, Answer, PosInv, ClientTyped, MessagesTyped, StreamsTyped,
        client, link, worker, keeper, history
<1>10. ASSUME NEW c \in Conn, FetchStream(c) PROVE PosInv'
  BY <1>10, <1>a, <1>b
     DEF FetchStream, Answer, PosInv, ClientTyped, MessagesTyped, StreamsTyped,
        client, link, worker, keeper, history
<1>11. ASSUME NEW c \in Conn, Associate(c) PROVE PosInv'
  BY <1>11, <1>a, <1>b
     DEF Associate, PosInv, ClientTyped, MessagesTyped, StreamsTyped, client, link,
        worker, keeper, history
<1>12. ASSUME NEW c \in Conn, CallNext(c) PROVE PosInv'
  BY <1>12, <1>a, <1>b
     DEF CallNext, PosInv, ClientTyped, MessagesTyped, StreamsTyped, client, link,
        worker, keeper, history
<1>13. ASSUME NEW c \in Conn, GeneratorYields(c) PROVE PosInv'
  <2>1. /\ subject[c] \in Stream /\ pos'[subject[c]] = pos[subject[c]] + 1
        /\ \A s \in Stream : got[s] \in Nat /\ pos[s] \in Nat /\ pos'[s] \in Nat /\
           pos[s] <= pos'[s]
        /\ got' = got /\ wanted' = wanted /\ conn' = conn
    BY <1>13, <1>a, <1>b
       DEF GeneratorYields, MessagesTyped, StreamsTyped, Serving, client, history
  <2>2. CASE up[c]
    <3>1. c = conn /\ subject[c] = wanted /\ rep'[conn] = [kind |-> "item", item |-> pos'[wanted]]
      BY <1>13, <2>2, <1>a, <1>b DEF GeneratorYields, Answer, Serving, MessagesTyped
    <3>2. QED
      BY <2>1, <3>1, <1>a DEF PosInv
  <2>3. CASE ~up[c]
    <3>1. rep' = rep
      BY <1>13, <2>3 DEF GeneratorYields, Answer
    <3>2. wanted # None /\ rep[conn] # None => rep[conn].item \in Nat
      BY <1>a DEF MessagesTyped
    <3>3. QED
      BY <2>1, <3>1, <3>2, <1>a DEF PosInv
  <2>4. QED
    BY <2>2, <2>3
<1>14. ASSUME NEW c \in Conn, GeneratorStops(c) PROVE PosInv'
  BY <1>14, <1>a, <1>b
     DEF GeneratorStops, PosInv, ClientTyped, MessagesTyped, StreamsTyped, client,
        link, worker, keeper, history
<1>15. ASSUME NEW c \in Conn, DropStream(c) PROVE PosInv'
  BY <1>15, <1>a, <1>b
     DEF DropStream, Answer, PosInv, ClientTyped, MessagesTyped, StreamsTyped,
        client, link, worker, keeper, history
<1>16. ASSUME NEW c \in Conn, DisconnectList(c) PROVE PosInv'
  BY <1>16, <1>a, <1>b
     DEF DisconnectList, PosInv, ClientTyped, MessagesTyped, StreamsTyped, client,
        link, worker, keeper, history
<1>17. ASSUME NEW c \in Conn, DisconnectGet(c) PROVE PosInv'
  BY <1>17, <1>a, <1>b
     DEF DisconnectGet, PosInv, ClientTyped, MessagesTyped, StreamsTyped, client,
        link, worker, keeper, history
<1>18. ASSUME NEW c \in Conn, DisconnectLinger(c) PROVE PosInv'
  BY <1>18, <1>a, <1>b
     DEF DisconnectLinger, PosInv, ClientTyped, MessagesTyped, StreamsTyped, client,
        link, worker, keeper, history
<1>19. ASSUME NEW c \in Conn, DisconnectDelete(c) PROVE PosInv'
  BY <1>19, <1>a, <1>b
     DEF DisconnectDelete, PosInv, ClientTyped, MessagesTyped, StreamsTyped, client,
        link, worker, keeper, history
<1>20. ASSUME NEW c \in Conn, DisconnectDone(c) PROVE PosInv'
  BY <1>20, <1>a, <1>b
     DEF DisconnectDone, PosInv, ClientTyped, MessagesTyped, StreamsTyped, client,
        link, worker, keeper, history
<1>21. CASE Others
  BY <1>21, <1>a, <1>b, OthersKeep
     DEF PosInv, ClientTyped, MessagesTyped, StreamsTyped, client, link, worker,
        history
<1>22. QED
  BY <1>1, <1>2, <1>3, <1>4, <1>5, <1>6, <1>7, <1>8, <1>9, <1>10, <1>11, <1>12,
     <1>13, <1>14, <1>15, <1>16, <1>17, <1>18, <1>19, <1>20, <1>21
     DEF Next, Client, Worker, Others

(* What is known of the generators holds always. *)
LEMMA RunsAlways == Spec => [](Typed /\ LinkInv /\ RunInv /\ PosInv)
<1>1. Init => RunInv /\ PosInv
  BY Values DEF Init, RunInv, PosInv
<1>2. Typed /\ LinkInv /\ RunInv /\ PosInv /\ [Next]_vars => (RunInv /\ PosInv)'
  BY RunInvKept, PosInvKept
<1>3. QED
  BY <1>1, <1>2, LinkAlways, PTL DEF Spec

(* A client never gets an item twice or out of order, although a call that *)
(* it gave up may still be running in the server while it asks again on a  *)
(* new connection (_StreamResultIterator.__next__ and                      *)
(* get_next_stream_item).                                                  *)
THEOREM ItemsNeverRepeat == Spec => NeverRepeats
<1>1. ASSUME Typed, PosInv, [Next]_vars, NEW s \in Stream, got'[s] # got[s]
      PROVE  got'[s] > got[s]
  <2>1. CASE Receive
    <3>1. wanted = s /\ rep[conn] # None /\ rep[conn].kind = "item" /\ got'[s] = rep[conn].item
      BY <1>1, <2>1 DEF Receive, Typed, MessagesTyped
    <3>2. wanted # None /\ got[s] \in Nat /\ got[s] < rep[conn].item
      BY <1>1, <2>1, <3>1 DEF Receive, PosInv, Typed, MessagesTyped
    <3>3. rep[conn].item \in Nat
      BY <1>1, <2>1, <3>1, MessagesMade, Values DEF Typed, MessagesTyped, ClientTyped
    <3>4. QED
      BY <3>1, <3>2, <3>3
  <2>2. CASE Connect \/ Disconnect \/ \E r \in Stream : AskStart(r) \/ AskNext(r) \/ AskClose(r)
    BY <1>1, <2>2 DEF Connect, Disconnect, AskStart, AskNext, Ask, AskClose, history
  <2>3. ASSUME NEW c \in Conn,
               \/ Handle(c) \/ Proceeds(c) \/ Leaves(c)
               \/ \E k \in {"started", "item", "stop", "error"}, i \in 0 .. N : Replies(c, k, i)
        PROVE  FALSE
    BY <1>1, <2>3 DEF Handle, Proceeds, Leaves, Replies, history
  <2>4. CASE Others
    BY <1>1, <2>4, OthersKeep DEF history
  <2>5. QED
    BY <1>1, <2>1, <2>2, <2>3, <2>4, StreamSteps
<1>2. Typed /\ PosInv /\ [Next]_vars => [\A s \in Stream : got'[s] # got[s] => got'[s] > got[s]]_got
  BY <1>1
<1>3. QED
  BY <1>2, RunsAlways, PTL DEF Spec, NeverRepeats

-----------------------------------------------------------------------------
(* A stream is the client's as long as it may ask for more, on the one     *)
(* connection that it has had it on. It is started once the reply to the   *)
(* call has come, and it is ending when the end is under way.              *)
Owned(s) == ~broken[s] /\ iter[s] \in {"none", "asked", "open", "failed"}

Started(s) == iter[s] \in {"open", "failed"} \/ (wanted = s /\ rep[conn] # None)

Ending(s) == wanted = s /\ rep[conn] # None /\ rep[conn].kind = "stop"

(* The client asks for one call at a time, and closes only its own. *)
AskedInv ==
    /\ \A s \in Stream : Owned(s) =>
        /\ iter[s] = "asked" => wanted = s
        /\ iter[s] # "none" => conn # None
    /\ \A s \in Stream : closer[s] # "none" => iter[s] = "closed"
    /\ hk = "life" => config.lifetime

(* A stream of the client's is in the table from its start to its end,     *)
(* under the client's connection, unless its lifetime may have passed.     *)
TableOf(s) ==
    /\ ~Started(s) => table[s] = None
    /\ table[s] # None => conn # None /\ table[s].client = conn
    /\ Started(s) /\ table[s] = None => config.lifetime \/ Ending(s)

(* Nobody else deletes it or writes it back. *)
SparedOf(s) ==
    /\ victim = s => config.lifetime
    /\ \A c \in Conn : hpc[c] = "write" => subject[c] # s

(* The client has got what the generator has made, but for the reply that  *)
(* is under way.                                                           *)
GotOf(s) ==
    /\ wanted # s => got[s] = pos[s]
    /\ iter[s] = "stopped" => got[s] = N
    /\ iter[s] = "failed" => config.lifetime
    /\ (wanted = s /\ rep[conn] = None) =>
        /\ got[s] = pos[s] /\ hpc[conn] \notin {"assoc", "error"}
        /\ hpc[conn] = "stop" => pos[s] = N
    /\ (wanted = s /\ rep[conn] # None) =>
        /\ rep[conn].kind = "item" => pos[s] = rep[conn].item
        /\ rep[conn].kind # "item" => got[s] = pos[s]
        /\ rep[conn].kind = "stop" => pos[s] = N
        /\ rep[conn].kind = "error" => config.lifetime

ItemsInv ==
    /\ AskedInv
    /\ \A s \in Stream : Owned(s) => TableOf(s) /\ SparedOf(s)
    /\ \A s \in Stream : ~broken[s] => GotOf(s)

(* A request that somebody still waits for is on the client's connection. *)
LEMMA ServedOwned ==
    ASSUME Typed, LinkInv, NEW c \in Conn, hpc[c] \in Serving
    PROVE  /\ subject[c] \in Stream
           /\ up[c] <=> c = conn
           /\ (c = conn \/ ~broken[subject[c]]) =>
                /\ c = conn /\ wanted = subject[c] /\ rep[c] = None /\ req[c] = None
                /\ hpc[c] = "start" <=> iter[wanted] = "asked"
                /\ iter[wanted] \in {"asked", "open", "failed"}
<1>1. subject[c] \in Stream /\ hpc[c] # "idle" /\ c # None
  BY Values DEF Typed, WorkersTyped, Serving
<1>2. ConnInv /\ WaitInv /\ LeftInv
  BY DEF LinkInv
<1>3. c = conn => Served /\ wanted # None
  BY <1>1, <1>2 DEF WaitInv, AtRest, Requested, Answered
<1>4. ~broken[subject[c]] => c = conn
  BY <1>1, <1>2 DEF LeftInv
<1>5. QED
  BY <1>1, <1>2, <1>3, <1>4 DEF Served, ConnInv

(* Every step keeps AskedInv: the client waits for the call that starts a  *)
(* stream, and closes a stream only when it is done with it.               *)
LEMMA AskedInvKept ==
    ASSUME Typed, LinkInv, ItemsInv, [Next]_vars
    PROVE  AskedInv'
<1>a. /\ ClientTyped /\ StreamsTyped /\ AskedInv /\ None \notin Stream
      /\ (wanted # None => iter[wanted] \in {"asked", "open", "failed"})
      /\ \A k : Outcome(k) \in {"open", "stopped", "failed"}
  BY Values, MessagesMade DEF Typed, LinkInv, ConnInv, ItemsInv
<1>1. CASE Connect
  BY <1>1, <1>a
     DEF Connect, AskedInv, ClientTyped, StreamsTyped, Owned, client, link, worker,
        keeper, history
<1>2. CASE Receive
  BY <1>2, <1>a
     DEF Receive, AskedInv, ClientTyped, StreamsTyped, Owned, client, link, worker,
        keeper, history
<1>3. CASE Disconnect
  BY <1>3, <1>a
     DEF Disconnect, AskedInv, ClientTyped, StreamsTyped, Owned, client, link,
        worker, keeper, history
<1>4. ASSUME NEW s \in Stream, AskStart(s) PROVE AskedInv'
  BY <1>4, <1>a
     DEF AskStart, Ask, AskedInv, ClientTyped, StreamsTyped, Owned, client, link,
        worker, keeper, history
<1>5. ASSUME NEW s \in Stream, AskNext(s) PROVE AskedInv'
  BY <1>5, <1>a
     DEF AskNext, Ask, AskedInv, ClientTyped, StreamsTyped, Owned, client, link,
        worker, keeper, history
<1>6. ASSUME NEW s \in Stream, AskClose(s) PROVE AskedInv'
  BY <1>6, <1>a
     DEF AskClose, AskedInv, ClientTyped, StreamsTyped, Owned, client, link, worker,
        keeper, history
<1>7. CASE HousekeepingStarts
  BY <1>7, <1>a
     DEF HousekeepingStarts, AskedInv, ClientTyped, StreamsTyped, Owned, client,
        link, worker, keeper, history
<1>8. CASE HousekeepingLooks \/ HousekeepingDeletes \/ HousekeepingNext
  BY <1>8, <1>a
     DEF HousekeepingLooks, HousekeepingDeletes, HousekeepingNext, Expired, AskedInv,
        ClientTyped, StreamsTyped, Owned, client, link, worker, keeper, history
<1>9. ASSUME NEW c \in Conn,
             Handle(c) \/ StreamResponse(c) \/ CheckStream(c) \/ FetchStream(c) \/
             Associate(c) \/ CallNext(c) \/ GeneratorYields(c) \/ GeneratorStops(c) \/
             DropStream(c) \/ DisconnectList(c) \/ DisconnectGet(c) \/
             DisconnectLinger(c) \/ DisconnectDelete(c) \/ DisconnectDone(c)
      PROVE  AskedInv'
  BY <1>9, <1>a
     DEF Handle, StreamResponse, CheckStream, FetchStream, Associate, CallNext,
        GeneratorYields, GeneratorStops, DropStream, DisconnectList, DisconnectGet,
        DisconnectLinger, DisconnectDelete, DisconnectDone, Answer, AskedInv,
        ClientTyped, StreamsTyped, Owned, client, link, worker, keeper, history
<1>10. ASSUME NEW s \in Stream, CloseCheck(s) PROVE AskedInv'
  BY <1>10, <1>a
     DEF CloseCheck, AskedInv, ClientTyped, StreamsTyped, Owned, client, link,
        worker, keeper, history
<1>11. ASSUME NEW s \in Stream, CloseDelete(s) PROVE AskedInv'
  BY <1>11, <1>a
     DEF CloseDelete, AskedInv, ClientTyped, StreamsTyped, Owned, client, link,
        worker, keeper, history
<1>12. ASSUME NEW s \in Stream, LingerPasses(s) PROVE AskedInv'
  BY <1>12, <1>a
     DEF LingerPasses, AskedInv, ClientTyped, StreamsTyped, Owned, client, link,
        worker, keeper, history
<1>13. ASSUME NEW s \in Stream, LifetimePasses(s) PROVE AskedInv'
  BY <1>13, <1>a
     DEF LifetimePasses, AskedInv, ClientTyped, StreamsTyped, Owned, client, link,
        worker, keeper, history
<1>14. CASE UNCHANGED vars
  BY <1>14, <1>a
     DEF AskedInv, ClientTyped, StreamsTyped, Owned, client, link, worker, keeper,
        history, vars
<1>15. QED
  BY <1>1, <1>2, <1>3, <1>4, <1>5, <1>6, <1>7, <1>8, <1>9, <1>10, <1>11, <1>12,
     <1>13, <1>14
     DEF Next, Client, Housekeeper, Worker, Closer

(* A stream that is the client's after a step was so before, and stays     *)
(* started.                                                                *)
LEMMA OwnedBefore ==
    ASSUME Typed, LinkInv, [Next]_vars, NEW r \in Stream, Owned(r)'
    PROVE  Owned(r) /\ (Started(r) => Started(r)')
<1>a. /\ ClientTyped /\ MessagesTyped /\ WorkersTyped /\ None \notin Stream /\ None \notin Conn
      /\ (wanted # None => conn # None /\ iter[wanted] \in {"asked", "open", "failed"})
      /\ (conn # None /\ wanted = None => rep[conn] = None)
      /\ \A k : Outcome(k) \in {"open", "stopped", "failed"}
  BY Values, MessagesMade DEF Typed, ClientTyped, LinkInv, ConnInv, WaitInv, AtRest
<1>b. \A c \in Conn : hpc[c] \in Serving =>
        /\ up[c] <=> c = conn
        /\ c = conn => /\ wanted = subject[c] /\ rep[c] = None
                       /\ hpc[c] = "start" <=> iter[wanted] = "asked"
                       /\ iter[wanted] \in {"asked", "open", "failed"}
  BY ServedOwned
<1>1. CASE Connect
  BY <1>1, <1>a, <1>b
     DEF Connect, Owned, Started, Serving, Leaving, ClientTyped, MessagesTyped,
        WorkersTyped, client, link, worker, history
<1>2. CASE Receive
  BY <1>2, <1>a, <1>b
     DEF Receive, Outcome, Owned, Started, Serving, Leaving, ClientTyped,
        MessagesTyped, WorkersTyped, client, link, worker, history
<1>3. CASE Disconnect
  BY <1>3, <1>a, <1>b
     DEF Disconnect, Owned, Started, Serving, Leaving, ClientTyped, MessagesTyped,
        WorkersTyped, client, link, worker, history
<1>4. ASSUME NEW s \in Stream, AskStart(s) PROVE Owned(r) /\ (Started(r) => Started(r)')
  BY <1>4, <1>a, <1>b
     DEF AskStart, Ask, Owned, Started, Serving, Leaving, ClientTyped, MessagesTyped,
        WorkersTyped, client, link, worker, history
<1>5. ASSUME NEW s \in Stream, AskNext(s) PROVE Owned(r) /\ (Started(r) => Started(r)')
  BY <1>5, <1>a, <1>b
     DEF AskNext, Ask, Owned, Started, Serving, Leaving, ClientTyped, MessagesTyped,
        WorkersTyped, client, link, worker, history
<1>6. ASSUME NEW s \in Stream, AskClose(s) PROVE Owned(r) /\ (Started(r) => Started(r)')
  BY <1>6, <1>a, <1>b
     DEF AskClose, Owned, Started, Serving, Leaving, ClientTyped, MessagesTyped,
        WorkersTyped, client, link, worker, history
<1>7. ASSUME NEW c \in Conn, Handle(c) PROVE Owned(r) /\ (Started(r) => Started(r)')
  BY <1>7, <1>a, <1>b
     DEF Handle, Owned, Started, Serving, Leaving, ClientTyped, MessagesTyped,
        WorkersTyped, client, link, worker, history
<1>8. ASSUME NEW c \in Conn, Proceeds(c) PROVE Owned(r) /\ (Started(r) => Started(r)')
  BY <1>8, <1>a, <1>b
     DEF Proceeds, Owned, Started, Serving, Leaving, ClientTyped, MessagesTyped,
        WorkersTyped, client, link, worker, history
<1>9. ASSUME NEW c \in Conn, NEW k \in {"started", "item", "stop", "error"},
              NEW i \in 0 .. N, Replies(c, k, i)
       PROVE  Owned(r) /\ (Started(r) => Started(r)')
  BY <1>9, <1>a, <1>b, MessagesMade
     DEF Replies, Answer, Owned, Started, Serving, Leaving, ClientTyped,
        MessagesTyped, WorkersTyped, client, link, worker, history
<1>10. ASSUME NEW c \in Conn, Leaves(c) PROVE Owned(r) /\ (Started(r) => Started(r)')
  BY <1>10, <1>a, <1>b
     DEF Leaves, Owned, Started, Serving, Leaving, ClientTyped, MessagesTyped,
        WorkersTyped, client, link, worker, history
<1>11. CASE Others
  BY <1>11, <1>a, <1>b, OthersKeep
     DEF Owned, Started, Serving, Leaving, ClientTyped, MessagesTyped, WorkersTyped,
        client, link, worker, history
<1>12. QED
  BY <1>1, <1>2, <1>3, <1>4, <1>5, <1>6, <1>7, <1>8, <1>9, <1>10, <1>11, StreamSteps

(* A stream is started by the reply to the call that returns the           *)
(* generator.                                                              *)
LEMMA StartedBefore ==
    ASSUME Typed, LinkInv, [Next]_vars, NEW r \in Stream, Owned(r)', Started(r)'
    PROVE  Started(r) \/ (conn \in Conn /\ hpc[conn] = "start" /\
           hpc'[conn] = "idle" /\ subject[conn] = r)
<1>a. /\ ClientTyped /\ MessagesTyped /\ WorkersTyped /\ None \notin Stream /\ None \notin Conn
      /\ (wanted # None => conn # None /\ iter[wanted] \in {"asked", "open", "failed"})
      /\ (conn # None /\ wanted = None => rep[conn] = None)
      /\ \A k : Outcome(k) \in {"open", "stopped", "failed"}
  BY Values, MessagesMade DEF Typed, ClientTyped, LinkInv, ConnInv, WaitInv, AtRest
<1>b. \A c \in Conn : hpc[c] \in Serving =>
        /\ up[c] <=> c = conn
        /\ c = conn => /\ wanted = subject[c] /\ rep[c] = None
                       /\ hpc[c] = "start" <=> iter[wanted] = "asked"
                       /\ iter[wanted] \in {"asked", "open", "failed"}
  BY ServedOwned
<1>1. CASE Connect
  BY <1>1, <1>a, <1>b
     DEF Connect, Owned, Started, Serving, Leaving, ClientTyped, MessagesTyped,
        WorkersTyped, client, link, worker, history
<1>2. CASE Receive
  BY <1>2, <1>a, <1>b
     DEF Receive, Outcome, Owned, Started, Serving, Leaving, ClientTyped,
        MessagesTyped, WorkersTyped, client, link, worker, history
<1>3. CASE Disconnect
  BY <1>3, <1>a, <1>b
     DEF Disconnect, Owned, Started, Serving, Leaving, ClientTyped, MessagesTyped,
        WorkersTyped, client, link, worker, history
<1>4. ASSUME NEW s \in Stream, AskStart(s)
      PROVE  Started(r) \/ (conn \in Conn /\ hpc[conn] = "start" /\
             hpc'[conn] = "idle" /\ subject[conn] = r)
  BY <1>4, <1>a, <1>b
     DEF AskStart, Ask, Owned, Started, Serving, Leaving, ClientTyped, MessagesTyped,
        WorkersTyped, client, link, worker, history
<1>5. ASSUME NEW s \in Stream, AskNext(s)
      PROVE  Started(r) \/ (conn \in Conn /\ hpc[conn] = "start" /\
             hpc'[conn] = "idle" /\ subject[conn] = r)
  BY <1>5, <1>a, <1>b
     DEF AskNext, Ask, Owned, Started, Serving, Leaving, ClientTyped, MessagesTyped,
        WorkersTyped, client, link, worker, history
<1>6. ASSUME NEW s \in Stream, AskClose(s)
      PROVE  Started(r) \/ (conn \in Conn /\ hpc[conn] = "start" /\
             hpc'[conn] = "idle" /\ subject[conn] = r)
  BY <1>6, <1>a, <1>b
     DEF AskClose, Owned, Started, Serving, Leaving, ClientTyped, MessagesTyped,
        WorkersTyped, client, link, worker, history
<1>7. ASSUME NEW c \in Conn, Handle(c)
      PROVE  Started(r) \/ (conn \in Conn /\ hpc[conn] = "start" /\
             hpc'[conn] = "idle" /\ subject[conn] = r)
  BY <1>7, <1>a, <1>b
     DEF Handle, Owned, Started, Serving, Leaving, ClientTyped, MessagesTyped,
        WorkersTyped, client, link, worker, history
<1>8. ASSUME NEW c \in Conn, Proceeds(c)
      PROVE  Started(r) \/ (conn \in Conn /\ hpc[conn] = "start" /\
             hpc'[conn] = "idle" /\ subject[conn] = r)
  BY <1>8, <1>a, <1>b
     DEF Proceeds, Owned, Started, Serving, Leaving, ClientTyped, MessagesTyped,
        WorkersTyped, client, link, worker, history
<1>9. ASSUME NEW c \in Conn, NEW k \in {"started", "item", "stop", "error"},
              NEW i \in 0 .. N, Replies(c, k, i)
       PROVE  Started(r) \/ (conn \in Conn /\ hpc[conn] = "start" /\
              hpc'[conn] = "idle" /\ subject[conn] = r)
  BY <1>9, <1>a, <1>b, MessagesMade
     DEF Replies, Answer, Owned, Started, Serving, Leaving, ClientTyped,
        MessagesTyped, WorkersTyped, client, link, worker, history
<1>10. ASSUME NEW c \in Conn, Leaves(c)
       PROVE  Started(r) \/ (conn \in Conn /\ hpc[conn] = "start" /\
              hpc'[conn] = "idle" /\ subject[conn] = r)
  BY <1>10, <1>a, <1>b
     DEF Leaves, Owned, Started, Serving, Leaving, ClientTyped, MessagesTyped,
        WorkersTyped, client, link, worker, history
<1>11. CASE Others
  BY <1>11, <1>a, <1>b, OthersKeep
     DEF Owned, Started, Serving, Leaving, ClientTyped, MessagesTyped, WorkersTyped,
        client, link, worker, history
<1>12. QED
  BY <1>1, <1>2, <1>3, <1>4, <1>5, <1>6, <1>7, <1>8, <1>9, <1>10, <1>11, StreamSteps

(* The end of an iteration stays under way while the stream is the         *)
(* client's: the client waits for it.                                      *)
LEMMA EndingKept ==
    ASSUME Typed, LinkInv, [Next]_vars, NEW r \in Stream, Owned(r)', Ending(r)
    PROVE  Ending(r)'
<1>a. /\ ClientTyped /\ MessagesTyped /\ WorkersTyped /\ None \notin Stream /\ None \notin Conn
      /\ (wanted # None => conn # None /\ iter[wanted] \in {"asked", "open", "failed"})
      /\ (conn # None /\ wanted = None => rep[conn] = None)
      /\ \A k : Outcome(k) \in {"open", "stopped", "failed"}
  BY Values, MessagesMade DEF Typed, ClientTyped, LinkInv, ConnInv, WaitInv, AtRest
<1>b. \A c \in Conn : hpc[c] \in Serving =>
        /\ up[c] <=> c = conn
        /\ c = conn => /\ wanted = subject[c] /\ rep[c] = None
                       /\ hpc[c] = "start" <=> iter[wanted] = "asked"
                       /\ iter[wanted] \in {"asked", "open", "failed"}
  BY ServedOwned
<1>1. CASE Connect
  BY <1>1, <1>a, <1>b
     DEF Connect, Owned, Ending, Serving, Leaving, ClientTyped, MessagesTyped,
        WorkersTyped, client, link, worker, history
<1>2. CASE Receive
  BY <1>2, <1>a, <1>b
     DEF Receive, Outcome, Owned, Ending, Serving, Leaving, ClientTyped,
        MessagesTyped, WorkersTyped, client, link, worker, history
<1>3. CASE Disconnect
  BY <1>3, <1>a, <1>b
     DEF Disconnect, Owned, Ending, Serving, Leaving, ClientTyped, MessagesTyped,
        WorkersTyped, client, link, worker, history
<1>4. ASSUME NEW s \in Stream, AskStart(s) PROVE Ending(r)'
  BY <1>4, <1>a, <1>b
     DEF AskStart, Ask, Owned, Ending, Serving, Leaving, ClientTyped, MessagesTyped,
        WorkersTyped, client, link, worker, history
<1>5. ASSUME NEW s \in Stream, AskNext(s) PROVE Ending(r)'
  BY <1>5, <1>a, <1>b
     DEF AskNext, Ask, Owned, Ending, Serving, Leaving, ClientTyped, MessagesTyped,
        WorkersTyped, client, link, worker, history
<1>6. ASSUME NEW s \in Stream, AskClose(s) PROVE Ending(r)'
  BY <1>6, <1>a, <1>b
     DEF AskClose, Owned, Ending, Serving, Leaving, ClientTyped, MessagesTyped,
        WorkersTyped, client, link, worker, history
<1>7. ASSUME NEW c \in Conn, Handle(c) PROVE Ending(r)'
  BY <1>7, <1>a, <1>b
     DEF Handle, Owned, Ending, Serving, Leaving, ClientTyped, MessagesTyped,
        WorkersTyped, client, link, worker, history
<1>8. ASSUME NEW c \in Conn, Proceeds(c) PROVE Ending(r)'
  BY <1>8, <1>a, <1>b
     DEF Proceeds, Owned, Ending, Serving, Leaving, ClientTyped, MessagesTyped,
        WorkersTyped, client, link, worker, history
<1>9. ASSUME NEW c \in Conn, NEW k \in {"started", "item", "stop", "error"},
              NEW i \in 0 .. N, Replies(c, k, i)
       PROVE  Ending(r)'
  BY <1>9, <1>a, <1>b
     DEF Replies, Answer, Owned, Ending, Serving, Leaving, ClientTyped,
        MessagesTyped, WorkersTyped, client, link, worker, history
<1>10. ASSUME NEW c \in Conn, Leaves(c) PROVE Ending(r)'
  BY <1>10, <1>a, <1>b
     DEF Leaves, Owned, Ending, Serving, Leaving, ClientTyped, MessagesTyped,
        WorkersTyped, client, link, worker, history
<1>11. CASE Others
  BY <1>11, <1>a, <1>b, OthersKeep
     DEF Owned, Ending, Serving, Leaving, ClientTyped, MessagesTyped, WorkersTyped,
        client, link, worker, history
<1>12. QED
  BY <1>1, <1>2, <1>3, <1>4, <1>5, <1>6, <1>7, <1>8, <1>9, <1>10, <1>11, StreamSteps

(* A worker leaves the start of a stream only by putting it into the       *)
(* table.                                                                  *)
LEMMA StartEnds ==
    ASSUME Typed, [Next]_vars, NEW d \in Conn, hpc[d] = "start", hpc'[d] # "start"
    PROVE  StreamResponse(d)
<1>a. hpc \in [Conn -> {"idle"} \cup Serving \cup Leaving]
  BY DEF Typed, WorkersTyped
<1>1. CASE Connect \/ Receive \/ Disconnect
  BY <1>1, <1>a DEF Connect, Receive, Disconnect, worker
<1>2. ASSUME NEW s \in Stream,
             AskStart(s) \/ AskNext(s) \/ AskClose(s)
      PROVE  StreamResponse(d)
  BY <1>2, <1>a DEF AskStart, AskNext, AskClose, Ask, worker
<1>3. ASSUME NEW c \in Conn,
             Handle(c) \/ CheckStream(c) \/ FetchStream(c) \/ Associate(c) \/
             CallNext(c) \/ GeneratorYields(c) \/ GeneratorStops(c) \/ DropStream(c) \/
             DisconnectList(c) \/ DisconnectGet(c) \/ DisconnectLinger(c) \/
             DisconnectDelete(c) \/ DisconnectDone(c)
      PROVE  StreamResponse(d)
  BY <1>3, <1>a
     DEF Handle, CheckStream, FetchStream, Associate, CallNext, GeneratorYields,
        GeneratorStops, DropStream, DisconnectList, DisconnectGet, DisconnectLinger,
        DisconnectDelete, DisconnectDone, Answer, worker
<1>4. ASSUME NEW c \in Conn, StreamResponse(c) PROVE StreamResponse(d)
  BY <1>4, <1>a DEF StreamResponse, Answer, worker
<1>5. CASE Others
  BY <1>5, <1>a, OthersKeep DEF worker
<1>6. QED
  BY <1>1, <1>2, <1>3, <1>4, <1>5 DEF Next, Client, Worker, Others

(* Who changes the entry of a stream. *)
TableChanges(s) ==
    \/ \E c \in Conn :
        /\ subject[c] = s
        /\ \/ StreamResponse(c) \/ Associate(c) \/ DropStream(c)
           \/ DisconnectLinger(c) \/ DisconnectDelete(c)
    \/ CloseDelete(s) \/ LingerPasses(s) \/ LifetimePasses(s)
    \/ HousekeepingDeletes /\ victim = s

(* Every change of a stream's entry in the table is one of these. *)
LEMMA TableChangesBy ==
    ASSUME Typed, [Next]_vars, NEW r \in Stream
    PROVE  table'[r] = table[r] \/ TableChanges(r)
<1>a. table \in [Stream -> Entry \cup {None}]
  BY DEF Typed, TableTyped
<1>1. CASE Connect \/ Receive \/ Disconnect
  BY <1>1, <1>a DEF Connect, Receive, Disconnect, TableChanges
<1>2. ASSUME NEW s \in Stream,
             AskStart(s) \/ AskNext(s) \/ AskClose(s)
      PROVE  table'[r] = table[r] \/ TableChanges(r)
  BY <1>2, <1>a DEF AskStart, AskNext, AskClose, Ask, TableChanges
<1>3. CASE HousekeepingStarts \/ HousekeepingLooks \/ HousekeepingNext
  BY <1>3, <1>a
     DEF HousekeepingStarts, HousekeepingLooks, HousekeepingNext, Expired,
        TableChanges
<1>4. CASE HousekeepingDeletes
  BY <1>4, <1>a DEF HousekeepingDeletes, TableChanges
<1>5. ASSUME NEW c \in Conn,
             Handle(c) \/ CheckStream(c) \/ FetchStream(c) \/ CallNext(c) \/
             GeneratorYields(c) \/ GeneratorStops(c) \/ DisconnectList(c) \/
             DisconnectGet(c) \/ DisconnectDone(c)
      PROVE  table'[r] = table[r] \/ TableChanges(r)
  BY <1>5, <1>a
     DEF Handle, CheckStream, FetchStream, CallNext, GeneratorYields, GeneratorStops,
        DisconnectList, DisconnectGet, DisconnectDone, Answer, TableChanges
<1>6. ASSUME NEW c \in Conn,
             StreamResponse(c)
      PROVE  table'[r] = table[r] \/ TableChanges(r)
  BY <1>6, <1>a DEF StreamResponse, Answer, TableChanges
<1>7. ASSUME NEW c \in Conn, Associate(c) PROVE table'[r] = table[r] \/ TableChanges(r)
  BY <1>7, <1>a DEF Associate, TableChanges
<1>8. ASSUME NEW c \in Conn, DropStream(c) PROVE table'[r] = table[r] \/ TableChanges(r)
  BY <1>8, <1>a DEF DropStream, Answer, TableChanges
<1>9. ASSUME NEW c \in Conn,
             DisconnectLinger(c)
      PROVE  table'[r] = table[r] \/ TableChanges(r)
  BY <1>9, <1>a DEF DisconnectLinger, TableChanges
<1>10. ASSUME NEW c \in Conn,
              DisconnectDelete(c)
       PROVE  table'[r] = table[r] \/ TableChanges(r)
  BY <1>10, <1>a DEF DisconnectDelete, TableChanges
<1>11. ASSUME NEW s \in Stream,
              CloseCheck(s)
       PROVE  table'[r] = table[r] \/ TableChanges(r)
  BY <1>11, <1>a DEF CloseCheck, TableChanges
<1>12. ASSUME NEW s \in Stream,
              CloseDelete(s)
       PROVE  table'[r] = table[r] \/ TableChanges(r)
  BY <1>12, <1>a DEF CloseDelete, TableChanges
<1>13. ASSUME NEW s \in Stream,
              LingerPasses(s)
       PROVE  table'[r] = table[r] \/ TableChanges(r)
  BY <1>13, <1>a DEF LingerPasses, TableChanges
<1>14. ASSUME NEW s \in Stream,
              LifetimePasses(s)
       PROVE  table'[r] = table[r] \/ TableChanges(r)
  BY <1>14, <1>a DEF LifetimePasses, TableChanges
<1>15. CASE UNCHANGED vars
  BY <1>15, <1>a DEF TableChanges, vars
<1>16. QED
  BY <1>1, <1>2, <1>3, <1>4, <1>5, <1>6, <1>7, <1>8, <1>9, <1>10, <1>11, <1>12,
     <1>13, <1>14, <1>15
     DEF Next, Client, Housekeeper, Worker, Closer

(* Only Connect and Disconnect change the client's connection. *)
LEMMA ConnChangesBy ==
    ASSUME Typed, [Next]_vars
    PROVE  conn' = conn \/ Connect \/ Disconnect
<1>1. ASSUME NEW c \in Conn,
             \/ Handle(c) \/ Proceeds(c) \/ Leaves(c)
             \/ \E k \in {"started", "item", "stop", "error"}, i \in 0 .. N : Replies(c, k, i)
      PROVE  conn' = conn
  BY <1>1 DEF Handle, Proceeds, Leaves, Replies, client
<1>2. CASE Others
  BY <1>2, OthersKeep DEF client
<1>3. ASSUME Receive \/ \E s \in Stream : AskStart(s) \/ AskNext(s) \/ AskClose(s)
      PROVE  conn' = conn
  BY <1>3 DEF Receive, AskStart, AskNext, AskClose, Ask
<1>4. QED
  BY <1>1, <1>2, <1>3, StreamSteps

(* What holds before a step of a stream that is the client's after it. *)
LEMMA OwnedFacts ==
    ASSUME Typed, LinkInv, ItemsInv, [Next]_vars, NEW r \in Stream, Owned(r)'
    PROVE  /\ Owned(r) /\ (Started(r) => Started(r)') /\ (Ending(r) => Ending(r)')
           /\ TableOf(r) /\ SparedOf(r) /\ GotOf(r) /\ ~broken[r] /\ config' = config
           /\ iter[r] = "asked" => wanted = r
           /\ iter[r] # "none" => conn # None
           /\ wanted # None => conn # None /\ iter[wanted] \in {"asked", "open", "failed"}
           /\ closer[r] = "none"
           /\ \A c \in Conn : (hpc[c] \in Serving /\ subject[c] = r) =>
                /\ c = conn /\ wanted = r /\ rep[c] = None /\ up[c]
                /\ hpc[c] = "start" <=> iter[r] = "asked"
<1>1. Owned(r) /\ (Started(r) => Started(r)') /\ config' = config
  BY OwnedBefore, ConfigKept
<1>2. TableOf(r) /\ SparedOf(r) /\ GotOf(r) /\ ~broken[r] /\ AskedInv
  BY <1>1 DEF ItemsInv, Owned
<1>3. iter[r] # "closed"
  BY <1>1 DEF Owned
<1>4. wanted # None => conn # None /\ iter[wanted] \in {"asked", "open", "failed"}
  BY DEF Typed, ClientTyped, LinkInv, ConnInv
<1>5. \A c \in Conn : (hpc[c] \in Serving /\ subject[c] = r) =>
        /\ c = conn /\ wanted = r /\ rep[c] = None /\ up[c]
        /\ hpc[c] = "start" <=> iter[r] = "asked"
  BY <1>2, ServedOwned
<1>6. QED
  BY <1>1, <1>2, <1>3, <1>4, <1>5, EndingKept DEF AskedInv

(* Every step leaves a stream of the client's in the table, under the      *)
(* client's connection: nobody else takes it over, lets it linger or       *)
(* deletes it, except the housekeeper once its lifetime is over and the    *)
(* worker that has met its end.                                            *)
LEMMA TableOfKept ==
    ASSUME Typed, LinkInv, ItemsInv, [Next]_vars, NEW r \in Stream, Owned(r)'
    PROVE  TableOf(r)'
<1>a. /\ Owned(r) /\ (Started(r) => Started(r)') /\ (Ending(r) => Ending(r)')
      /\ TableOf(r) /\ SparedOf(r) /\ GotOf(r) /\ ~broken[r] /\ config' = config
      /\ iter[r] = "asked" => wanted = r
      /\ iter[r] # "none" => conn # None
      /\ wanted # None => conn # None /\ iter[wanted] \in {"asked", "open", "failed"}
      /\ closer[r] = "none"
  BY OwnedFacts
<1>b. \A c \in Conn : (hpc[c] \in Serving /\ subject[c] = r) =>
        /\ c = conn /\ wanted = r /\ rep[c] = None /\ up[c]
        /\ hpc[c] = "start" <=> iter[r] = "asked"
  BY OwnedFacts
<1>c. /\ None \notin Stream /\ None \notin Conn /\ None \notin Entry /\ None \notin Reply
      /\ table \in [Stream -> Entry \cup {None}] /\ ClientTyped /\ MessagesTyped
  BY Values DEF Typed, TableTyped
<1>d. Started(r)' => \/ Started(r)
                     \/ \E c \in Conn : StreamResponse(c) /\ c = conn /\ subject[c] = r
  <2>1. SUFFICES ASSUME Started(r)', ~Started(r)
                 PROVE  \E c \in Conn : StreamResponse(c) /\ c = conn /\ subject[c] = r
    OBVIOUS
  <2>2. conn \in Conn /\ hpc[conn] = "start" /\ hpc'[conn] = "idle" /\ subject[conn] = r
    BY <2>1, StartedBefore
  <2>3. QED
    BY <2>2, StartEnds
<1>1. CASE Connect
  <2>1. conn = None /\ ~Started(r) /\ table[r] = None
    BY <1>1, <1>a, <1>c DEF Connect, Started, TableOf
  <2>2. table'[r] = None /\ ~Started(r)'
    BY <1>1, <2>1, <1>a, <1>c DEF Connect, Started
  <2>3. QED
    BY <2>2 DEF TableOf
<1>2. CASE Disconnect
  <2>1. iter[r] = "none" /\ iter' = iter /\ wanted' = None /\ table' = table
    BY <1>2, <1>c DEF Disconnect, Owned, ClientTyped
  <2>2. ~Started(r) /\ ~Started(r)'
    BY <2>1, <1>a, <1>c DEF Started
  <2>3. QED
    BY <2>1, <2>2, <1>a DEF TableOf
<1>3. CASE conn' = conn /\ table'[r] = table[r]
  <2>1. Started(r)' => Started(r)
    <3>1. SUFFICES ASSUME NEW c \in Conn, StreamResponse(c), c = conn, subject[c] = r
                   PROVE  Started(r)
      BY <1>d
    <3>2. table'[r] = [client |-> c, born |-> "new", since |-> "none"]
      BY <3>1, <1>c DEF StreamResponse
    <3>3. table'[r] # None
      BY <3>2, <1>c, EntriesMade
    <3>4. QED
      BY <1>3, <1>a, <3>3 DEF TableOf
  <2>2. QED
    BY <1>3, <1>a, <2>1 DEF TableOf
<1>4. ASSUME conn' = conn, NEW c \in Conn, subject[c] = r, StreamResponse(c) PROVE TableOf(r)'
  <2>1. /\ c = conn /\ wanted' = r
        /\ table'[r] = [client |-> c, born |-> "new", since |-> "none"]
        /\ rep'[c] = [kind |-> "started", item |-> 0]
    BY <1>4, <1>b, <1>c DEF StreamResponse, Answer, Serving, client, MessagesTyped
  <2>2. [kind |-> "started", item |-> 0] # None
    BY MessagesMade, Values
  <2>3. Started(r)' /\ table'[r].client = c /\ table'[r] # None /\ c # None
    BY <1>4, <2>1, <2>2, <1>c, EntriesMade DEF Started
  <2>4. QED
    BY <1>4, <2>1, <2>3 DEF TableOf
<1>5. ASSUME NEW c \in Conn, subject[c] = r, Associate(c) PROVE FALSE
  BY <1>5, <1>a, <1>b DEF Associate, Serving, GotOf
<1>6. ASSUME conn' = conn, NEW c \in Conn, subject[c] = r, DropStream(c) PROVE TableOf(r)'
  <2>0. hpc[c] \in {"stop", "error"}
    BY <1>6 DEF DropStream
  <2>a. c = conn /\ wanted = r /\ rep[c] = None /\ up[c] /\ iter[r] # "asked"
    BY <1>6, <1>b, <2>0 DEF Serving
  <2>1. /\ c = conn /\ wanted = r /\ rep[c] = None /\ up[c] /\ hpc[c] = "stop"
        /\ Started(r)
    <3>1. r # None /\ iter[r] \in {"open", "failed"}
      BY <1>a, <1>c, <2>a
    <3>2. hpc[c] # "error"
      BY <1>a, <2>a DEF GotOf
    <3>3. QED
      BY <2>0, <2>a, <3>1, <3>2 DEF Started
  <2>2. table'[r] = None /\ wanted' = wanted
    BY <1>6, <1>c DEF DropStream, client
  <2>3. CASE table[r] = None
    BY <1>a, <1>6, <2>1, <2>2, <2>3 DEF TableOf, Ending
  <2>4. CASE table[r] # None
    <3>1. rep'[c] = [kind |-> "stop", item |-> 0]
      BY <1>6, <2>1, <2>4, <1>c DEF DropStream, Answer, MessagesTyped
    <3>2. [kind |-> "stop", item |-> 0] # None
      BY MessagesMade, Values
    <3>3. Ending(r)'
      BY <1>6, <2>1, <2>2, <3>1, <3>2 DEF Ending
    <3>4. QED
      BY <1>a, <2>1, <2>2, <3>3 DEF TableOf
  <2>5. QED
    BY <2>3, <2>4
<1>7. ASSUME NEW c \in Conn, subject[c] = r, DisconnectLinger(c) \/ DisconnectDelete(c)
      PROVE  FALSE
  BY <1>7, <1>a DEF DisconnectLinger, DisconnectDelete, SparedOf
<1>8. CASE CloseDelete(r)
  BY <1>8, <1>a DEF CloseDelete
<1>9. CASE HousekeepingDeletes /\ victim = r
  <2>1. config.lifetime /\ table'[r] = None
    BY <1>9, <1>a, <1>c DEF HousekeepingDeletes, SparedOf
  <2>2. QED
    BY <2>1, <1>a DEF TableOf
<1>10. ASSUME conn' = conn, LingerPasses(r) \/ LifetimePasses(r) PROVE TableOf(r)'
  <2>1. table[r] # None /\ table[r] \in Entry
    BY <1>10, <1>c DEF LingerPasses, LifetimePasses
  <2>2. \/ table' = [table EXCEPT ![r] = [table[r] EXCEPT !.since = "old"]]
        \/ table' = [table EXCEPT ![r] = [table[r] EXCEPT !.born = "old"]]
    BY <1>10, <1>c DEF LingerPasses, LifetimePasses
  <2>3. table'[r].client = table[r].client
    BY <2>1, <2>2, <1>c, EntryAges
  <2>4. table'[r] # None
    <3>1. CASE LingerPasses(r)
      BY <3>1, <1>c, <2>1, EntryAges DEF LingerPasses
    <3>2. CASE LifetimePasses(r)
      BY <3>2, <1>c, <2>1, EntryAges DEF LifetimePasses
    <3>3. QED
      BY <1>10, <3>1, <3>2
  <2>5. Started(r)
    BY <2>1, <1>a DEF TableOf
  <2>6. QED
    BY <1>10, <1>a, <2>1, <2>3, <2>4, <2>5 DEF TableOf
<1>11. QED
  BY <1>1, <1>2, <1>3, <1>4, <1>5, <1>6, <1>7, <1>8, <1>9, <1>10, TableChangesBy, ConnChangesBy
     DEF TableChanges

(* The housekeeper does not choose a stream of the client's for having     *)
(* lingered, nor does the disconnect of another connection write it back.  *)
LEMMA SparedOfKept ==
    ASSUME Typed, LinkInv, ItemsInv, [Next]_vars, NEW r \in Stream, Owned(r)'
    PROVE  SparedOf(r)'
<1>a. /\ SparedOf(r) /\ TableOf(r) /\ AskedInv /\ WorkersTyped /\ None \notin Stream
      /\ None \notin Conn /\ table \in [Stream -> Entry \cup {None}] /\ config' = config
  BY Values, OwnedFacts DEF Typed, TableTyped, ItemsInv
<1>b. conn # None => hpc[conn] # "disc"
  BY DEF LinkInv, WaitInv, AtRest, Requested, Served, Answered, Serving
<1>1. CASE Connect \/ Receive \/ Disconnect
  BY <1>1, <1>a DEF Connect, Receive, Disconnect, SparedOf, WorkersTyped, worker, keeper
<1>2. ASSUME NEW s \in Stream,
             AskStart(s) \/ AskNext(s) \/ AskClose(s)
      PROVE  SparedOf(r)'
  BY <1>2, <1>a
     DEF AskStart, AskNext, AskClose, Ask, SparedOf, WorkersTyped, worker, keeper
<1>3. CASE HousekeepingStarts
  BY <1>3, <1>a DEF HousekeepingStarts, SparedOf, WorkersTyped, worker, keeper
<1>4. CASE HousekeepingLooks
  <2>1. PICK s \in hkTodo : victim' = IF table[s] # None /\ Expired(table[s]) THEN s ELSE None
    BY <1>4 DEF HousekeepingLooks
  <2>2. hk \in {"life", "linger"} /\ worker' = worker /\ config' = config
    BY <1>4 DEF HousekeepingLooks
  <2>3. ASSUME victim' = r, hk # "life" PROVE FALSE
    <3>1. s = r /\ table[r] # None /\ table[r].since = "old" /\ table[r] \in Entry
      BY <2>1, <2>3, <1>a DEF Expired
    <3>2. table[r].client = None
      BY <3>1, EntryAges
    <3>3. QED
      BY <3>1, <3>2, <1>a DEF TableOf
  <2>4. QED
    BY <2>2, <2>3, <1>a DEF SparedOf, AskedInv, worker
<1>5. CASE HousekeepingDeletes
  BY <1>5, <1>a DEF HousekeepingDeletes, SparedOf, WorkersTyped, worker, keeper
<1>6. CASE HousekeepingNext
  BY <1>6, <1>a DEF HousekeepingNext, SparedOf, WorkersTyped, worker, keeper
<1>7. ASSUME NEW c \in Conn,
             Handle(c) \/ StreamResponse(c) \/ CheckStream(c) \/ FetchStream(c) \/
             Associate(c) \/ CallNext(c) \/ GeneratorYields(c) \/ GeneratorStops(c) \/
             DropStream(c) \/ DisconnectList(c) \/ DisconnectLinger(c) \/
             DisconnectDelete(c) \/ DisconnectDone(c)
      PROVE  SparedOf(r)'
  BY <1>7, <1>a
     DEF Handle, StreamResponse, CheckStream, FetchStream, Associate, CallNext,
        GeneratorYields, GeneratorStops, DropStream, DisconnectList, DisconnectLinger,
        DisconnectDelete, DisconnectDone, Answer, SparedOf, WorkersTyped, worker, keeper
<1>8. ASSUME NEW c \in Conn, DisconnectGet(c) PROVE SparedOf(r)'
  <2>1. PICK s \in todo[c] :
            IF table[s] # None /\ table[s].client = c
            THEN hpc' = [hpc EXCEPT ![c] = "write"] /\ subject' = [subject EXCEPT ![c] = s]
            ELSE UNCHANGED <<hpc, subject>>
    BY <1>8 DEF DisconnectGet
  <2>2. hpc[c] = "disc" /\ victim' = victim /\ config' = config
    BY <1>8 DEF DisconnectGet, keeper
  <2>3. c # conn
    BY <2>2, <1>a, <1>b
  <2>4. table[r] # None => table[r].client # c
    BY <2>3, <1>a DEF TableOf
  <2>5. QED
    BY <2>1, <2>2, <2>4, <1>a DEF SparedOf, WorkersTyped
<1>9. ASSUME NEW s \in Stream,
             CloseCheck(s) \/ CloseDelete(s) \/ LingerPasses(s) \/ LifetimePasses(s)
      PROVE  SparedOf(r)'
  BY <1>9, <1>a
     DEF CloseCheck, CloseDelete, LingerPasses, LifetimePasses, SparedOf,
        WorkersTyped, worker, keeper
<1>10. CASE UNCHANGED vars
  BY <1>10, <1>a DEF SparedOf, WorkersTyped, worker, keeper, vars
<1>11. QED
  BY <1>1, <1>2, <1>3, <1>4, <1>5, <1>6, <1>7, <1>8, <1>9, <1>10
     DEF Next, Client, Housekeeper, Worker, Closer

(* Only a generator that yields moves on. *)
LEMMA PosChangesBy ==
    ASSUME Typed, [Next]_vars, NEW r \in Stream
    PROVE  pos'[r] = pos[r] \/ \E d \in Conn : GeneratorYields(d) /\ subject[d] = r
<1>a. pos \in [Stream -> 0 .. N]
  BY DEF Typed, StreamsTyped
<1>1. CASE Connect \/ Receive \/ Disconnect
  BY <1>1, <1>a DEF Connect, Receive, Disconnect
<1>2. ASSUME NEW s \in Stream,
             AskStart(s) \/ AskNext(s) \/ AskClose(s)
      PROVE  pos'[r] = pos[r] \/ \E d \in Conn : GeneratorYields(d) /\ subject[d] = r
  BY <1>2, <1>a DEF AskStart, AskNext, AskClose, Ask
<1>3. ASSUME NEW c \in Conn,
             Handle(c) \/ StreamResponse(c) \/ CheckStream(c) \/ FetchStream(c) \/
             Associate(c) \/ CallNext(c) \/ GeneratorStops(c) \/ DropStream(c) \/
             DisconnectList(c) \/ DisconnectGet(c) \/ DisconnectLinger(c) \/
             DisconnectDelete(c) \/ DisconnectDone(c)
      PROVE  pos'[r] = pos[r] \/ \E d \in Conn : GeneratorYields(d) /\ subject[d] = r
  BY <1>3, <1>a
     DEF Handle, StreamResponse, CheckStream, FetchStream, Associate, CallNext,
        GeneratorStops, DropStream, DisconnectList, DisconnectGet, DisconnectLinger,
        DisconnectDelete, DisconnectDone, Answer
<1>4. ASSUME NEW c \in Conn,
             GeneratorYields(c)
      PROVE  pos'[r] = pos[r] \/ \E d \in Conn : GeneratorYields(d) /\ subject[d] = r
  BY <1>4, <1>a DEF GeneratorYields, Answer
<1>5. CASE Others
  BY <1>5, <1>a, OthersKeep
<1>6. QED
  BY <1>1, <1>2, <1>3, <1>4, <1>5 DEF Next, Client, Worker, Others

(* Where nothing of a stream changes. *)
LEMMA GotStays ==
    ASSUME NEW r \in Stream, GotOf(r), got'[r] = got[r], pos'[r] = pos[r], iter'[r] = iter[r],
           wanted' = wanted, config' = config,
           wanted = r => conn' = conn /\ rep'[conn] = rep[conn] /\ hpc'[conn] = hpc[conn]
    PROVE  GotOf(r)'
BY DEF GotOf

(* The step of the worker that serves the request for a stream. *)
LEMMA GotOfServed ==
    ASSUME Typed, LinkInv, RunInv, ItemsInv, [Next]_vars, NEW r \in Stream, ~broken[r],
           conn # None, wanted = r, hpc[conn] \in Serving, Worker(conn)
    PROVE  GotOf(r)'
<1>a. /\ MessagesTyped /\ StreamsTyped /\ WorkersTyped /\ N \in Nat /\ RunInv
      /\ conn \in Conn /\ None \notin Stream /\ None \notin Conn /\ None \notin Reply
      /\ GotOf(r)
  BY Values DEF Typed, ClientTyped, ItemsInv
<1>s. \A c \in Conn : hpc[c] \in Serving /\ subject[c] = r => c = conn
  BY ServedOwned
<1>w. /\ wanted = r /\ subject[conn] = r /\ rep[conn] = None /\ up[conn]
      /\ hpc[conn] = "start" <=> iter[r] = "asked"
      /\ iter[r] \in {"asked", "open", "failed"} /\ TableOf(r)
      /\ wanted' = wanted /\ conn' = conn /\ iter' = iter /\ got' = got /\ config' = config
  <2>1. /\ subject[conn] = r /\ rep[conn] = None /\ up[conn]
        /\ hpc[conn] = "start" <=> iter[r] = "asked"
        /\ iter[r] \in {"asked", "open", "failed"}
    BY <1>a, ServedOwned
  <2>2. TableOf(r)
    BY <2>1 DEF ItemsInv, Owned
  <2>3. UNCHANGED <<client, got>>
    BY <1>a, WorkerSteps DEF Handle, Proceeds, Leaves, Replies, history
  <2>4. QED
    BY <2>1, <2>2, <2>3, ConfigKept DEF client
<1>1. CASE StreamResponse(conn)
  <2>1. rep'[conn] = [kind |-> "started", item |-> 0] /\ pos' = pos
    BY <1>1, <1>a, <1>w DEF StreamResponse, Answer, MessagesTyped
  <2>2. QED
    BY <1>a, <1>w, <2>1, MessagesMade DEF GotOf
<1>2. CASE CheckStream(conn)
  <2>1. /\ pos' = pos
        /\ \/ hpc'[conn] \in {"fetch", "next"} /\ rep'[conn] = None
           \/ table[r] # None /\ table[r].client = None
           \/ table[r] = None /\ rep'[conn] = [kind |-> "error", item |-> 0]
    BY <1>2, <1>a, <1>w DEF CheckStream, Answer, MessagesTyped, WorkersTyped
  <2>2. Started(r) /\ ~Ending(r)
    BY <1>2, <1>a, <1>w DEF CheckStream, Started, Ending
  <2>3. QED
    BY <1>a, <1>w, <2>1, <2>2, MessagesMade DEF GotOf, TableOf
<1>3. CASE FetchStream(conn)
  <2>1. /\ pos' = pos
        /\ \/ hpc'[conn] \in {"fetch", "next"} /\ rep'[conn] = None
           \/ table[r] # None /\ table[r].client = None
           \/ table[r] = None /\ rep'[conn] = [kind |-> "error", item |-> 0]
    BY <1>3, <1>a, <1>w DEF FetchStream, Answer, MessagesTyped, WorkersTyped
  <2>2. Started(r) /\ ~Ending(r)
    BY <1>3, <1>a, <1>w DEF FetchStream, Started, Ending
  <2>3. QED
    BY <1>a, <1>w, <2>1, <2>2, MessagesMade DEF GotOf, TableOf
<1>4. CASE Associate(conn)
  BY <1>4, <1>a, <1>w DEF Associate, GotOf
<1>5. CASE CallNext(conn)
  <2>1. running[r] = None
    <3>1. SUFFICES ASSUME running[r] # None PROVE FALSE
      OBVIOUS
    <3>2. PICK d \in Conn : running[r] = d
      BY <1>a, <3>1 DEF StreamsTyped
    <3>3. hpc[d] = "run" /\ subject[d] = r
      BY <1>a, <3>2 DEF RunInv
    <3>4. d = conn
      BY <1>s, <3>3 DEF Serving
    <3>5. QED
      BY <1>5, <3>3, <3>4, <1>w DEF CallNext
  <2>2. hpc'[conn] = "run" /\ rep' = rep /\ pos' = pos
    BY <1>5, <1>a, <1>w, <2>1 DEF CallNext, WorkersTyped, link
  <2>3. QED
    BY <1>a, <1>w, <2>2 DEF GotOf
<1>6. CASE GeneratorYields(conn)
  <2>1. /\ rep'[conn] = [kind |-> "item", item |-> pos'[r]] /\ hpc'[conn] = "idle"
    BY <1>6, <1>a, <1>w DEF GeneratorYields, Answer, MessagesTyped, WorkersTyped
  <2>2. pos'[r] \in 0 .. N
    BY StreamsTypedKept DEF StreamsTyped
  <2>3. QED
    BY <1>a, <1>w, <2>1, <2>2, MessagesMade DEF GotOf
<1>7. CASE GeneratorStops(conn)
  <2>1. hpc'[conn] = "stop" /\ rep' = rep /\ pos' = pos /\ pos[r] = N
    BY <1>7, <1>a, <1>w DEF GeneratorStops, WorkersTyped, link
  <2>2. QED
    BY <1>a, <1>w, <2>1 DEF GotOf
<1>8. CASE DropStream(conn)
  <2>1. hpc[conn] = "stop"
    BY <1>8, <1>a, <1>w DEF DropStream, GotOf
  <2>2. /\ pos' = pos
        /\ rep'[conn] = [kind |-> IF table[r] = None THEN "error" ELSE "stop", item |-> 0]
    BY <1>8, <1>a, <1>w, <2>1 DEF DropStream, Answer, MessagesTyped
  <2>3. Started(r) /\ ~Ending(r)
    BY <2>1, <1>a, <1>w DEF Started, Ending
  <2>4. CASE table[r] = None
    BY <1>a, <1>w, <2>1, <2>2, <2>3, <2>4, MessagesMade DEF GotOf, TableOf
  <2>5. CASE table[r] # None
    BY <1>a, <1>w, <2>1, <2>2, <2>5, MessagesMade DEF GotOf
  <2>6. QED
    BY <2>4, <2>5
<1>9. CASE \/ Handle(conn) \/ DisconnectList(conn) \/ DisconnectGet(conn)
         \/ DisconnectLinger(conn) \/ DisconnectDelete(conn) \/ DisconnectDone(conn)
  BY <1>9 DEF Handle, DisconnectList, DisconnectGet, DisconnectLinger, DisconnectDelete,
             DisconnectDone, Serving
<1>10. QED
  BY <1>1, <1>2, <1>3, <1>4, <1>5, <1>6, <1>7, <1>8, <1>9 DEF Worker

(* Every step keeps the count of the items that the client got equal to    *)
(* the count of those made, but for the one under way.                     *)
LEMMA GotOfKept ==
    ASSUME Typed, LinkInv, RunInv, ItemsInv, [Next]_vars, NEW r \in Stream, ~broken'[r]
    PROVE  GotOf(r)'
<1>a. /\ ClientTyped /\ MessagesTyped /\ WorkersTyped /\ None \notin Stream /\ None \notin Conn
      /\ (wanted # None => conn # None /\ iter[wanted] \in {"asked", "open", "failed"})
      /\ ConnInv /\ config' = config
  BY Values, ConfigKept DEF Typed, ClientTyped, LinkInv, ConnInv
<1>b. broken[r] => broken'[r]
  BY <1>a, StreamSteps, OthersKeep
     DEF ClientTyped, Connect, Receive, Disconnect, AskStart, AskNext, Ask, AskClose, Handle,
         Proceeds, Leaves, Replies, history
<1>c. ~broken[r] /\ GotOf(r)
  BY <1>b DEF ItemsInv
<1>d. pos'[r] = pos[r] \/ \E d \in Conn : GeneratorYields(d) /\ subject[d] = r
  BY PosChangesBy
<1>1. CASE Connect
  BY <1>1, <1>a, <1>c, <1>d DEF Connect, GotOf, GeneratorYields, history
<1>2. CASE Disconnect
  <2>1. iter[r] \notin {"asked", "open", "failed"} /\ wanted # r
    BY <1>2, <1>a DEF Disconnect, ClientTyped
  <2>2. pos' = pos /\ got' = got /\ iter' = iter /\ wanted' = None
    BY <1>2 DEF Disconnect
  <2>3. QED
    BY <1>a, <1>c, <2>1, <2>2 DEF GotOf
<1>3. CASE Receive
  <2>1. pos' = pos /\ wanted' = None
    BY <1>3 DEF Receive
  <2>2. CASE wanted = r
    <3>1. rep[conn].kind \in {"started", "item", "stop", "error"}
      BY <1>3, <1>a, MessagesMade DEF Receive, MessagesTyped, ClientTyped
    <3>2. iter'[r] = Outcome(rep[conn].kind)
      BY <1>3, <1>a, <2>2 DEF Receive, ClientTyped
    <3>3. got'[r] = IF rep[conn].kind = "item" THEN rep[conn].item ELSE got[r]
      BY <1>3, <1>a, <2>2 DEF Receive, MessagesTyped
    <3>4. QED
      BY <1>3, <1>a, <1>c, <2>1, <2>2, <3>1, <3>2, <3>3 DEF Receive, GotOf, Outcome
  <2>3. CASE wanted # r
    BY <1>3, <1>a, <1>c, <2>1, <2>3 DEF Receive, GotOf, ClientTyped, MessagesTyped
  <2>4. QED
    BY <2>2, <2>3
<1>4. ASSUME NEW s \in Stream, AskStart(s) \/ AskNext(s) PROVE GotOf(r)'
  <2>1. /\ wanted = None /\ conn # None /\ wanted' = s /\ conn' = conn
        /\ UNCHANGED <<rep, hpc, pos, got>>
        /\ iter'[r] = iter[r] \/ iter'[r] = "asked"
    BY <1>4, <1>a DEF AskStart, AskNext, Ask, ClientTyped, worker, history
  <2>2. rep[conn] = None /\ hpc[conn] = "idle"
    BY <2>1 DEF LinkInv, WaitInv, AtRest
  <2>3. QED
    BY <1>a, <1>c, <2>1, <2>2 DEF GotOf
<1>5. ASSUME NEW s \in Stream, AskClose(s) PROVE GotOf(r)'
  <2>1. /\ wanted = None /\ UNCHANGED <<wanted, pos, got>>
        /\ iter'[r] = iter[r] \/ iter'[r] = "closed"
    BY <1>5, <1>a DEF AskClose, ClientTyped, history
  <2>2. QED
    BY <1>a, <1>c, <2>1 DEF GotOf
<1>6. ASSUME NEW c \in Conn, Worker(c), c = conn, wanted = r, hpc[c] \in Serving
      PROVE  GotOf(r)'
  BY <1>6, <1>a, <1>c, GotOfServed
<1>7. ASSUME NEW c \in Conn, Worker(c), c # conn \/ wanted # r PROVE GotOf(r)'
  <2>1. UNCHANGED <<client, got>>
    BY <1>7, WorkerSteps DEF Handle, Proceeds, Leaves, Replies, history
  <2>2. (c # conn /\ conn # None) => rep'[conn] = rep[conn] /\ hpc'[conn] = hpc[conn]
    <3>1. SUFFICES ASSUME c # conn, conn # None
                   PROVE  rep'[conn] = rep[conn] /\ hpc'[conn] = hpc[conn]
      OBVIOUS
    <3>2. conn \in Conn /\ ~up[c]
      BY <1>a, <3>1 DEF ConnInv, ClientTyped
    <3>3. CASE Handle(c) \/ Proceeds(c) \/ Leaves(c)
      BY <3>1, <3>2, <3>3, <1>a DEF Handle, Proceeds, Leaves, link, WorkersTyped
    <3>4. ASSUME NEW k \in {"started", "item", "stop", "error"}, NEW i \in 0 .. N, Replies(c, k, i)
          PROVE  rep'[conn] = rep[conn] /\ hpc'[conn] = hpc[conn]
      BY <3>1, <3>2, <3>4, <1>a DEF Replies, Answer, WorkersTyped
    <3>5. QED
      BY <1>7, <3>3, <3>4, WorkerSteps
  <2>3. pos'[r] = pos[r]
    <3>1. SUFFICES ASSUME NEW d \in Conn, GeneratorYields(d), subject[d] = r PROVE FALSE
      BY <1>d
    <3>2. hpc[d] = "run" /\ hpc'[d] = "idle"
      BY <3>1, <1>a DEF GeneratorYields, Answer, WorkersTyped
    <3>3. d = conn /\ wanted = r
      BY <3>1, <3>2, <1>c, ServedOwned DEF Serving
    <3>4. QED
      BY <1>7, <1>a, <2>2, <3>2, <3>3
  <2>4. CASE c = conn
    BY <1>7, <1>a, <1>c, <2>1, <2>3, <2>4 DEF GotOf, client
  <2>5. CASE c # conn
    BY <1>a, <1>c, <2>1, <2>2, <2>3, <2>5, GotStays DEF client
  <2>6. QED
    BY <2>4, <2>5
<1>8. ASSUME NEW c \in Conn, Worker(c), c = conn, wanted = r, hpc[c] \notin Serving
      PROVE  GotOf(r)'
  <2>1. /\ UNCHANGED <<client, got, rep, pos>>
        /\ hpc'[c] \in {"start", "check"} \cup Leaving
    BY <1>8, <1>a DEF Worker, Handle, StreamResponse, CheckStream, FetchStream, Associate,
      CallNext, GeneratorYields, GeneratorStops, DropStream, DisconnectList, DisconnectGet,
      DisconnectLinger, DisconnectDelete, DisconnectDone, Serving, Leaving, WorkersTyped,
      link, history
  <2>2. QED
    BY <1>8, <1>a, <1>c, <2>1 DEF GotOf, client, Leaving
<1>9. CASE Others
  BY <1>9, <1>a, <1>c, OthersKeep, GotStays DEF client, link, worker, history
<1>10. QED
  BY <1>1, <1>2, <1>3, <1>4, <1>5, <1>6, <1>7, <1>8, <1>9 DEF Next, Client, Others

(* Every step keeps ItemsInv. *)
LEMMA ItemsKept ==
    ASSUME Typed, LinkInv, RunInv, ItemsInv, [Next]_vars
    PROVE  ItemsInv'
<1>1. AskedInv'
  BY AskedInvKept
<1>2. ASSUME NEW r \in Stream, Owned(r)' PROVE TableOf(r)' /\ SparedOf(r)'
  BY <1>2, TableOfKept, SparedOfKept
<1>3. ASSUME NEW r \in Stream, ~broken'[r] PROVE GotOf(r)'
  BY <1>3, GotOfKept
<1>4. QED
  BY <1>1, <1>2, <1>3 DEF ItemsInv

(* What is known of the client's streams holds always. *)
LEMMA ItemsAlways == Spec => [](Typed /\ LinkInv /\ RunInv /\ ItemsInv)
<1>1. Init => ItemsInv
  BY Values DEF Init, ItemsInv, AskedInv, Owned, TableOf, Started, SparedOf, GotOf
<1>2. Typed /\ LinkInv /\ RunInv /\ ItemsInv /\ [Next]_vars => ItemsInv'
  BY ItemsKept
<1>3. QED
  BY <1>1, <1>2, RunsAlways, PTL DEF Spec

(* A client that has kept its connection gets every item in order, and the *)
(* end only after the last one; its iteration fails only where a lifetime  *)
(* is set (get_next_stream_item, core.py:1085-1097).                       *)
THEOREM ItemsAreComplete == Spec => []ItemsComplete
<1>1. Typed /\ ItemsInv => ItemsComplete
  BY Values DEF Typed, ClientTyped, ItemsInv, GotOf, ItemsComplete
<1>2. QED
  BY <1>1, ItemsAlways, PTL

-----------------------------------------------------------------------------
(* The multiplex server, when oneway calls have no threads: one request,   *)
(* disconnect, close or round of housekeeping at a time.                   *)
Alone == config.server = "multiplex" /\ ~config.threaded

Busy(c) == hpc[c] \notin {"idle", "gone"}

TurnsInv ==
    Alone =>
        /\ \A c, d \in Conn : Busy(c) /\ Busy(d) => c = d
        /\ \A c \in Conn, s \in Stream : ~(Busy(c) /\ closer[s] = "delete")
        /\ hk \in {"life", "linger"} =>
            (\A c \in Conn : ~Busy(c)) /\ (\A s \in Stream : closer[s] # "delete")

(* What is about to be deleted is still there. *)
PresentInv ==
    Alone =>
        /\ hk # "dead"
        /\ \A c \in Conn : hpc[c] = "write" => table[subject[c]] # None
        /\ victim # None => table[victim] # None

(* A worker begins when the loop is free, and changes nobody else's turn. *)
LEMMA WorkerTurn ==
    ASSUME Typed, NEW c \in Conn, Worker(c)
    PROVE  /\ Busy(c) \/ LoopIsFree
           /\ \E h : hpc' = [hpc EXCEPT ![c] = h]
           /\ UNCHANGED <<closer, keeper>>
<1>1. UNCHANGED <<closer, keeper>>
  BY DEF Worker, Handle, StreamResponse, CheckStream, FetchStream, Associate, CallNext,
         GeneratorYields, GeneratorStops, DropStream, DisconnectList, DisconnectGet,
         DisconnectLinger, DisconnectDelete, DisconnectDone
<1>2. \E h : hpc' = [hpc EXCEPT ![c] = h]
  BY WorkerSteps DEF Handle, Proceeds, Leaves, Replies, Answer
<1>3. Busy(c) \/ LoopIsFree
  BY DEF Worker, Handle, StreamResponse, CheckStream, FetchStream, Associate, CallNext,
         GeneratorYields, GeneratorStops, DropStream, DisconnectList, DisconnectGet,
         DisconnectLinger, DisconnectDelete, DisconnectDone, Busy
<1>4. QED
  BY <1>1, <1>2, <1>3

(* In the multiplex server without oneway threads, nobody begins while     *)
(* another one is at work.                                                 *)
LEMMA TurnsInvKept ==
    ASSUME Typed, TurnsInv, [Next]_vars
    PROVE  TurnsInv'
<1>a. /\ KeeperTyped /\ StreamsTyped /\ config' = config
      /\ hpc \in [Conn -> {"idle"} \cup Serving \cup Leaving]
  BY ConfigKept DEF Typed, WorkersTyped
<1>1. CASE Connect \/ Receive \/ Disconnect \/ \E s \in Stream : AskStart(s) \/ AskNext(s)
  <2>1. UNCHANGED <<hpc, closer, hk>>
    BY <1>1 DEF Connect, Receive, Disconnect, AskStart, AskNext, Ask, worker, keeper
  <2>2. QED
    BY <1>a, <2>1 DEF TurnsInv, Alone, Busy
<1>2. ASSUME NEW s \in Stream, AskClose(s) PROVE TurnsInv'
  <2>1. hpc' = hpc /\ hk' = hk /\ closer' = [closer EXCEPT ![s] = "check"]
    BY <1>2 DEF AskClose, worker, keeper
  <2>2. \A r \in Stream : closer'[r] = "delete" => closer[r] = "delete"
    BY <1>a, <2>1 DEF StreamsTyped
  <2>3. QED
    BY <1>a, <2>1, <2>2 DEF TurnsInv, Alone, Busy
<1>3. CASE Housekeeper
  <2>1. UNCHANGED <<hpc, closer>>
    BY <1>3 DEF Housekeeper, HousekeepingStarts, HousekeepingLooks, HousekeepingDeletes,
                HousekeepingNext, worker
  <2>2. hk' \in {"life", "linger"} => hk \in {"life", "linger"} \/ LoopIsFree
    BY <1>3, <1>a DEF Housekeeper, HousekeepingStarts, HousekeepingLooks,
       HousekeepingDeletes, HousekeepingNext, KeeperTyped
  <2>3. QED
    BY <1>a, <2>1, <2>2 DEF TurnsInv, Alone, Busy, LoopIsFree
<1>4. ASSUME NEW c \in Conn, Worker(c) PROVE TurnsInv'
  <2>1. PICK h : hpc' = [hpc EXCEPT ![c] = h]
    BY <1>4, WorkerTurn
  <2>2. (Busy(c) \/ LoopIsFree) /\ closer' = closer /\ hk' = hk
    BY <1>4, WorkerTurn DEF keeper
  <2>3. \A d \in Conn : Busy(d)' => d = c \/ Busy(d)
    BY <1>a, <2>1 DEF Busy
  <2>4. QED
    BY <1>a, <2>2, <2>3 DEF TurnsInv, Alone, Busy, LoopIsFree
<1>5. ASSUME NEW s \in Stream, CloseCheck(s) \/ CloseDelete(s) PROVE TurnsInv'
  <2>1. hpc' = hpc /\ hk' = hk /\ (config.threaded \/ LoopIsFree \/ closer[s] = "delete")
    BY <1>5 DEF CloseCheck, CloseDelete, worker, keeper
  <2>2. \A r \in Stream : closer'[r] = "delete" => closer[r] = "delete" \/ closer[s] # "delete"
    BY <1>5, <1>a DEF CloseCheck, CloseDelete, StreamsTyped
  <2>3. QED
    BY <1>a, <2>1, <2>2 DEF TurnsInv, Alone, Busy, LoopIsFree
<1>6. CASE UNCHANGED vars \/ \E s \in Stream : LingerPasses(s) \/ LifetimePasses(s)
  <2>1. UNCHANGED <<hpc, closer, hk>>
    BY <1>6 DEF LingerPasses, LifetimePasses, worker, keeper, vars
  <2>2. QED
    BY <1>a, <2>1 DEF TurnsInv, Alone, Busy
<1>7. QED
  BY <1>1, <1>2, <1>3, <1>4, <1>5, <1>6 DEF Next, Client, Closer

(* The entry that a worker is about to write is one that it has just       *)
(* found, or has found before.                                             *)
WritesOf(d) ==
    \/ hpc[d] = "write" /\ subject'[d] = subject[d]
    \/ table' = table /\ table[subject'[d]] # None

(* See WritesOf. *)
LEMMA WritesBegin ==
    ASSUME Typed, [Next]_vars, NEW d \in Conn, hpc'[d] = "write"
    PROVE  WritesOf(d)
<1>a. WorkersTyped /\ hpc'[d] = "write" /\ hpc \in [Conn -> {"idle"} \cup Serving \cup Leaving]
      /\ subject \in [Conn -> Stream \cup {None}]
  BY DEF Typed, WorkersTyped
<1>1. CASE Connect \/ Receive \/ Disconnect
  BY <1>1, <1>a DEF Connect, Receive, Disconnect, WritesOf, worker
<1>2. ASSUME NEW s \in Stream,
             AskStart(s) \/ AskNext(s) \/ AskClose(s)
      PROVE  WritesOf(d)
  BY <1>2, <1>a DEF AskStart, AskNext, AskClose, Ask, WritesOf, worker
<1>3. ASSUME NEW c \in Conn,
             Handle(c) \/ StreamResponse(c) \/ CheckStream(c) \/ FetchStream(c) \/
             Associate(c) \/ CallNext(c) \/ GeneratorYields(c) \/ GeneratorStops(c) \/
             DropStream(c) \/ DisconnectList(c) \/ DisconnectLinger(c) \/
             DisconnectDelete(c) \/ DisconnectDone(c)
      PROVE  WritesOf(d)
  BY <1>3, <1>a
     DEF Handle, StreamResponse, CheckStream, FetchStream, Associate, CallNext,
        GeneratorYields, GeneratorStops, DropStream, DisconnectList, DisconnectLinger,
        DisconnectDelete, DisconnectDone, Answer, WritesOf, worker
<1>4. ASSUME NEW c \in Conn, DisconnectGet(c) PROVE WritesOf(d)
  <2>1. PICK s \in todo[c] :
            IF table[s] # None /\ table[s].client = c
            THEN hpc' = [hpc EXCEPT ![c] = "write"] /\ subject' = [subject EXCEPT ![c] = s]
            ELSE UNCHANGED <<hpc, subject>>
    BY <1>4 DEF DisconnectGet
  <2>2. table' = table
    BY <1>4 DEF DisconnectGet
  <2>3. QED
    BY <1>a, <2>1, <2>2 DEF WritesOf
<1>5. CASE Others
  BY <1>5, <1>a, OthersKeep DEF WritesOf, worker
<1>6. QED
  BY <1>1, <1>2, <1>3, <1>4, <1>5 DEF Next, Client, Worker, Others

(* The housekeeper chooses a key that is in the table, and dies only when  *)
(* the one it is to delete is gone.                                        *)
LEMMA VictimBegins ==
    ASSUME Typed, [Next]_vars
    PROVE  /\ victim' # None => victim' = victim \/ (table' = table /\ table[victim'] # None)
           /\ hk' = "dead" => hk = "dead" \/ (victim # None /\ table[victim] = None)
<1>1. CASE Client \/ \E c \in Conn : Worker(c)
  <2>1. keeper' = keeper
    BY <1>1, WorkerTurn DEF Client, Connect, Receive, Disconnect, AskStart, AskNext, Ask, AskClose
  <2>2. QED
    BY <2>1 DEF keeper
<1>2. CASE HousekeepingLooks
  BY <1>2 DEF HousekeepingLooks
<1>3. CASE HousekeepingStarts \/ HousekeepingDeletes \/ HousekeepingNext
  BY <1>3 DEF HousekeepingStarts, HousekeepingDeletes, HousekeepingNext
<1>4. CASE UNCHANGED vars \/ \E s \in Stream : Closer(s) \/ LingerPasses(s) \/ LifetimePasses(s)
  BY <1>4 DEF Closer, CloseCheck, CloseDelete, LingerPasses, LifetimePasses, vars, keeper
<1>5. QED
  BY <1>1, <1>2, <1>3, <1>4 DEF Next, Housekeeper

(* What is about to be deleted is not deleted by anyone else, when         *)
(* everything is done one after the other.                                 *)
LEMMA PresentStays ==
    ASSUME Typed, TurnsInv, Alone, [Next]_vars, NEW s \in Stream, table[s] # None,
           \/ \E d \in Conn : hpc[d] = "write" /\ subject[d] = s /\ hpc'[d] = "write"
           \/ victim = s /\ victim' = s
    PROVE  table'[s] # None
<1>a. /\ hpc \in [Conn -> {"idle"} \cup Serving \cup Leaving] /\ None \notin Stream
      /\ None \notin Entry /\ table \in [Stream -> Entry \cup {None}]
      /\ (victim = s => hk \in {"life", "linger"})
  BY Values DEF Typed, WorkersTyped, KeeperTyped, TableTyped
<1>b. /\ \A c, d \in Conn : Busy(c) /\ Busy(d) => c = d
      /\ \A c \in Conn : ~(Busy(c) /\ closer[s] = "delete")
      /\ hk \in {"life", "linger"} => (\A c \in Conn : ~Busy(c)) /\ closer[s] # "delete"
  BY DEF TurnsInv
<1>1. ASSUME NEW c \in Conn, subject[c] = s,
             \/ StreamResponse(c) \/ Associate(c) \/ DropStream(c)
             \/ DisconnectLinger(c) \/ DisconnectDelete(c)
      PROVE  FALSE
  <2>1. Busy(c) /\ hpc'[c] # "write"
    BY <1>1, <1>a DEF StreamResponse, Associate, DropStream, Answer, DisconnectLinger,
                      DisconnectDelete, Busy
  <2>2. \A d \in Conn : hpc[d] = "write" => Busy(d)
    BY DEF Busy
  <2>3. QED
    BY <2>1, <2>2, <1>a, <1>b
<1>2. CASE CloseDelete(s)
  BY <1>2, <1>a, <1>b DEF CloseDelete, Busy
<1>3. CASE HousekeepingDeletes /\ victim = s
  BY <1>3, <1>a, <1>b DEF HousekeepingDeletes, Busy
<1>4. CASE LingerPasses(s) \/ LifetimePasses(s)
  <2>1. table[s] \in Entry
    BY <1>a
  <2>2. CASE LingerPasses(s)
    BY <2>2, <1>a, <2>1, EntryAges DEF LingerPasses
  <2>3. CASE LifetimePasses(s)
    BY <2>3, <1>a, <2>1, EntryAges DEF LifetimePasses
  <2>4. QED
    BY <1>4, <2>2, <2>3
<1>5. QED
  BY <1>1, <1>2, <1>3, <1>4, TableChangesBy DEF TableChanges

(* Every step keeps PresentInv. *)
LEMMA PresentInvKept ==
    ASSUME Typed, TurnsInv, PresentInv, [Next]_vars
    PROVE  PresentInv'
<1>1. SUFFICES ASSUME Alone
               PROVE  /\ hk' # "dead"
                      /\ \A d \in Conn : hpc'[d] = "write" => table'[subject'[d]] # None
                      /\ victim' # None => table'[victim'] # None
  BY ConfigKept DEF PresentInv, Alone
<1>2. /\ hk # "dead" /\ (victim # None => table[victim] # None)
      /\ \A d \in Conn : hpc[d] = "write" => table[subject[d]] # None
  BY <1>1 DEF PresentInv
<1>3. hk' # "dead"
  BY <1>2, VictimBegins
<1>4. ASSUME NEW d \in Conn, hpc'[d] = "write" PROVE table'[subject'[d]] # None
  <2>1. CASE hpc[d] = "write" /\ subject'[d] = subject[d]
    <3>1. subject[d] \in Stream /\ table[subject[d]] # None
      BY <1>2, <2>1 DEF Typed, WorkersTyped
    <3>2. QED
      BY <1>1, <1>4, <2>1, <3>1, PresentStays
  <2>2. QED
    BY <1>4, <2>1, WritesBegin DEF WritesOf
<1>5. ASSUME victim' # None PROVE table'[victim'] # None
  <2>1. CASE victim' = victim
    <3>1. victim \in Stream /\ table[victim] # None
      BY <1>2, <1>5, <2>1 DEF Typed, KeeperTyped
    <3>2. QED
      BY <1>1, <2>1, <3>1, PresentStays
  <2>2. QED
    BY <1>5, <2>1, VictimBegins
<1>6. QED
  BY <1>3, <1>4, <1>5

(* The turns of the multiplex server and what they protect hold always. *)
LEMMA AloneAlways == Spec => [](Typed /\ LinkInv /\ TurnsInv /\ PresentInv)
<1>1. Init => TurnsInv /\ PresentInv
  BY Values DEF Init, TurnsInv, PresentInv, Busy
<1>2. Typed /\ TurnsInv /\ PresentInv /\ [Next]_vars => (TurnsInv /\ PresentInv)'
  BY TurnsInvKept, PresentInvKept
<1>3. QED
  BY <1>1, <1>2, LinkAlways, PTL DEF Spec

(* The request loop of the multiplex server, which does the housekeeping,  *)
(* never ends with a KeyError, if oneway calls have no threads             *)
(* (core.py:1494-1510, multiplexserver.py:208-230).                        *)
THEOREM LoopGoesOn == Spec => []LoopSurvives
<1>1. PresentInv => LoopSurvives
  BY DEF PresentInv, Alone, LoopSurvives
<1>2. QED
  BY <1>1, AloneAlways, PTL

-----------------------------------------------------------------------------
(* A connection that is ending still has its streams before it; one that   *)
(* is gone had those left before it that a KeyError has kept it from.      *)
OrphanOf(s) ==
    \A c \in Conn : table[s] # None /\ table[s].client = c =>
        /\ hpc[c] = "gone" => s \in todo[c] /\ ~config.linger /\ ~Alone
        /\ hpc[c] = "disc" => s \in todo[c]
        /\ hpc[c] = "write" => s \in todo[c] \cup {subject[c]}

OrphanInv == \A s \in Stream : OrphanOf(s)

(* Passing time changes no entry's connection. *)
LEMMA AgesKeepClient ==
    ASSUME Typed, NEW s \in Stream, LingerPasses(s) \/ LifetimePasses(s), NEW r \in Stream
    PROVE  (table[r] # None /\ table'[r].client = table[r].client) \/ table'[r] = table[r]
<1>a. table \in [Stream -> Entry \cup {None}] /\ None \notin Entry
  BY Values DEF Typed, TableTyped
<1>1. table[s] # None /\ table[s] \in Entry
  BY <1>a DEF LingerPasses, LifetimePasses
<1>2. CASE LingerPasses(s)
  <2>1. table' = [table EXCEPT ![s] = [table[s] EXCEPT !.since = "old"]]
    BY <1>2, <1>a DEF LingerPasses
  <2>2. QED
    BY <1>a, <1>1, <2>1, EntryAges
<1>3. CASE LifetimePasses(s)
  <2>1. table' = [table EXCEPT ![s] = [table[s] EXCEPT !.born = "old"]]
    BY <1>3, <1>a DEF LifetimePasses
  <2>2. QED
    BY <1>a, <1>1, <2>1, EntryAges
<1>4. QED
  BY <1>2, <1>3

(* Every step keeps before an ending connection the streams it still has. *)
LEMMA OrphanOfKept ==
    ASSUME Typed, PresentInv, NEW r \in Stream, OrphanOf(r), [Next]_vars
    PROVE  OrphanOf(r)'
<1>a. /\ OrphanOf(r) /\ WorkersTyped /\ TableTyped /\ None \notin Entry /\ None \notin Conn
      /\ (victim # None => victim \in Stream) /\ config' = config
  BY Values, ConfigKept DEF Typed, KeeperTyped
<1>1. CASE Connect \/ Receive \/ Disconnect
  BY <1>1, <1>a
     DEF Connect, Receive, Disconnect, OrphanOf, Alone, WorkersTyped, TableTyped, Serving,
        Keys, worker
<1>2. ASSUME NEW s \in Stream,
             AskStart(s) \/ AskNext(s) \/ AskClose(s)
      PROVE  OrphanOf(r)'
  BY <1>2, <1>a
     DEF AskStart, AskNext, AskClose, Ask, OrphanOf, Alone, WorkersTyped, TableTyped,
        Serving, Keys, worker
<1>3. CASE HousekeepingStarts
  BY <1>3, <1>a
     DEF HousekeepingStarts, OrphanOf, Alone, WorkersTyped, TableTyped, Serving, Keys,
        worker
<1>4. CASE HousekeepingLooks
  BY <1>4, <1>a
     DEF HousekeepingLooks, Expired, OrphanOf, Alone, WorkersTyped, TableTyped, Serving,
        Keys, worker
<1>5. CASE HousekeepingDeletes
  BY <1>5, <1>a
     DEF HousekeepingDeletes, OrphanOf, Alone, WorkersTyped, TableTyped, Serving, Keys,
        worker
<1>6. CASE HousekeepingNext
  BY <1>6, <1>a
     DEF HousekeepingNext, OrphanOf, Alone, WorkersTyped, TableTyped, Serving, Keys, worker
<1>7. ASSUME NEW c \in Conn, Handle(c) PROVE OrphanOf(r)'
  BY <1>7, <1>a DEF Handle, OrphanOf, Alone, WorkersTyped, TableTyped, Serving, Keys, worker
<1>8. ASSUME NEW c \in Conn, StreamResponse(c) PROVE OrphanOf(r)'
  BY <1>8, <1>a
     DEF StreamResponse, Answer, OrphanOf, Alone, WorkersTyped, TableTyped, Serving, Keys,
        worker
<1>9. ASSUME NEW c \in Conn, CheckStream(c) PROVE OrphanOf(r)'
  BY <1>9, <1>a
     DEF CheckStream, Answer, OrphanOf, Alone, WorkersTyped, TableTyped, Serving, Keys,
        worker
<1>10. ASSUME NEW c \in Conn, FetchStream(c) PROVE OrphanOf(r)'
  BY <1>10, <1>a
     DEF FetchStream, Answer, OrphanOf, Alone, WorkersTyped, TableTyped, Serving, Keys,
        worker
<1>11. ASSUME NEW c \in Conn, Associate(c) PROVE OrphanOf(r)'
  BY <1>11, <1>a
     DEF Associate, OrphanOf, Alone, WorkersTyped, TableTyped, Serving, Keys, worker
<1>12. ASSUME NEW c \in Conn, CallNext(c) PROVE OrphanOf(r)'
  BY <1>12, <1>a DEF CallNext, OrphanOf, Alone, WorkersTyped, TableTyped, Serving, Keys, worker
<1>13. ASSUME NEW c \in Conn, GeneratorYields(c) PROVE OrphanOf(r)'
  BY <1>13, <1>a
     DEF GeneratorYields, Answer, OrphanOf, Alone, WorkersTyped, TableTyped, Serving, Keys,
        worker
<1>14. ASSUME NEW c \in Conn, GeneratorStops(c) PROVE OrphanOf(r)'
  BY <1>14, <1>a
     DEF GeneratorStops, OrphanOf, Alone, WorkersTyped, TableTyped, Serving, Keys, worker
<1>15. ASSUME NEW c \in Conn, DropStream(c) PROVE OrphanOf(r)'
  BY <1>15, <1>a
     DEF DropStream, Answer, OrphanOf, Alone, WorkersTyped, TableTyped, Serving, Keys,
        worker
<1>16. ASSUME NEW c \in Conn, DisconnectList(c) PROVE OrphanOf(r)'
  BY <1>16, <1>a
     DEF DisconnectList, OrphanOf, Alone, WorkersTyped, TableTyped, Serving, Keys, worker
<1>17. ASSUME NEW c \in Conn, DisconnectGet(c) PROVE OrphanOf(r)'
  <2>1. PICK s \in todo[c] :
            /\ todo' = [todo EXCEPT ![c] = todo[c] \ {s}]
            /\ IF table[s] # None /\ table[s].client = c
               THEN hpc' = [hpc EXCEPT ![c] = "write"] /\ subject' = [subject EXCEPT ![c] = s]
               ELSE UNCHANGED <<hpc, subject>>
    BY <1>17 DEF DisconnectGet
  <2>2. hpc[c] = "disc" /\ table' = table
    BY <1>17 DEF DisconnectGet
  <2>3. CASE table[s] # None /\ table[s].client = c
    BY <2>1, <2>2, <2>3, <1>a DEF OrphanOf, Alone, WorkersTyped
  <2>4. CASE ~(table[s] # None /\ table[s].client = c)
    BY <2>1, <2>2, <2>4, <1>a DEF OrphanOf, Alone, WorkersTyped
  <2>5. QED
    BY <2>3, <2>4
<1>18. ASSUME NEW c \in Conn, DisconnectLinger(c) PROVE OrphanOf(r)'
  BY <1>18, <1>a
     DEF DisconnectLinger, OrphanOf, Alone, WorkersTyped, TableTyped, Serving, Keys, worker
<1>19. ASSUME NEW c \in Conn, DisconnectDelete(c) PROVE OrphanOf(r)'
  <2>1. /\ subject[c] \in Stream /\ hpc[c] = "write"
        /\ table' = [table EXCEPT ![subject[c]] = None] /\ todo' = todo
        /\ hpc' = [hpc EXCEPT ![c] = IF table[subject[c]] = None THEN "gone" ELSE "disc"]
        /\ subject' = [subject EXCEPT ![c] = None]
    BY <1>19, <1>a DEF DisconnectDelete, WorkersTyped
  <2>2. CASE r = subject[c]
    BY <2>1, <2>2, <1>a DEF OrphanOf, Alone, TableTyped
  <2>3. CASE r # subject[c]
    <3>1. ~config.linger /\ (table[subject[c]] = None => ~Alone)
      BY <1>19, <2>1 DEF DisconnectDelete, PresentInv
    <3>2. QED
      BY <2>1, <2>3, <3>1, <1>a DEF OrphanOf, Alone, WorkersTyped, TableTyped
  <2>4. QED
    BY <2>2, <2>3
<1>20. ASSUME NEW c \in Conn, DisconnectDone(c) PROVE OrphanOf(r)'
  BY <1>20, <1>a
     DEF DisconnectDone, OrphanOf, Alone, WorkersTyped, TableTyped, Serving, Keys, worker
<1>21. ASSUME NEW s \in Stream, CloseCheck(s) PROVE OrphanOf(r)'
  BY <1>21, <1>a
     DEF CloseCheck, OrphanOf, Alone, WorkersTyped, TableTyped, Serving, Keys, worker
<1>22. ASSUME NEW s \in Stream, CloseDelete(s) PROVE OrphanOf(r)'
  BY <1>22, <1>a
     DEF CloseDelete, OrphanOf, Alone, WorkersTyped, TableTyped, Serving, Keys, worker
<1>23. ASSUME NEW s \in Stream, LingerPasses(s) \/ LifetimePasses(s) PROVE OrphanOf(r)'
  <2>1. (table[r] # None /\ table'[r].client = table[r].client) \/ table'[r] = table[r]
    BY <1>23, AgesKeepClient
  <2>2. worker' = worker
    BY <1>23 DEF LingerPasses, LifetimePasses
  <2>3. QED
    BY <2>1, <2>2, <1>a DEF OrphanOf, Alone, worker
<1>24. CASE UNCHANGED vars
  BY <1>24, <1>a DEF OrphanOf, Alone, WorkersTyped, TableTyped, Serving, Keys, worker, vars
<1>25. QED
  BY <1>1, <1>2, <1>3, <1>4, <1>5, <1>6, <1>7, <1>8, <1>9, <1>10, <1>11, <1>12,
     <1>13, <1>14, <1>15, <1>16, <1>17, <1>18, <1>19, <1>20, <1>21, <1>22, <1>23, <1>24
     DEF Next, Client, Housekeeper, Worker, Closer

(* A connection that has not been kept from it deals with all its streams. *)
LEMMA OrphanAlways ==
    Spec => [](Typed /\ PresentInv /\ OrphanInv)
<1>1. Init => OrphanInv
  BY Values DEF Init, OrphanInv, OrphanOf
<1>2. Typed /\ PresentInv /\ OrphanInv /\ [Next]_vars => OrphanInv'
  BY OrphanOfKept DEF OrphanInv
<1>3. QED
  BY <1>1, <1>2, AloneAlways, PTL DEF Spec

(* A stream that stays with a connection that is gone was still before the *)
(* loop of _clientDisconnect when a KeyError ended it (core.py:1482-1484). *)
THEOREM OrphansWereCut == Spec => []OrphansAreCut
<1>1. Typed /\ OrphanInv => OrphansAreCut
  <2>1. SUFFICES ASSUME Typed, OrphanInv, NEW s \in Stream, table[s] # None,
                        table[s].client # None, hpc[table[s].client] = "gone"
                 PROVE  /\ s \in todo[table[s].client] /\ ~config.linger
                        /\ config.server = "multiplex" => config.threaded
    BY DEF OrphansAreCut
  <2>2. table[s].client \in Conn
    BY <2>1, EntryAges DEF Typed, TableTyped
  <2>3. QED
    BY <2>1, <2>2 DEF OrphanInv, OrphanOf, Alone
<1>2. QED
  BY <1>1, OrphanAlways, PTL

(* So with lingering, and in the multiplex server without oneway threads,  *)
(* where a disconnect has the loop to itself, no stream stays with a       *)
(* connection that is gone (docs/source/clientcode.rst:450).  Elsewhere    *)
(* the run stream_orphan refutes this.                                     *)
THEOREM NothingOrphaned == Spec => [](config.linger \/ Alone => NoOrphan)
<1>1. OrphansAreCut => (config.linger \/ Alone => NoOrphan)
  BY DEF OrphansAreCut, Alone, NoOrphan
<1>2. QED
  BY <1>1, OrphansWereCut, PTL

(* The whole invariant of the table and its clients, for every set of      *)
(* streams and connections and every configuration.                        *)
THEOREM StreamsAreKept == Spec => []StreamInv
<1>1. TypeOK /\ ItemsComplete /\ LoopSurvives /\ OrphansAreCut => StreamInv
  BY DEF StreamInv
<1>2. QED
  BY <1>1, TypeCorrect, ItemsAreComplete, LoopGoesOn, OrphansWereCut, PTL
=============================================================================
