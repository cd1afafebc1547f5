------------------------------ MODULE BatchCall ------------------------------
(***************************************************************************)
(* Batched calls: an adapter (core._BatchProxyAdapter) collects calls,     *)
(* sends them in one request, and the daemon executes them until one       *)
(* fails.  A batch may be sent in a oneway request or by a thread of its   *)
(* own, which copies the adapter and tries again when the reply is lost.   *)
(***************************************************************************)
EXTENDS Values, Naturals, Sequences, SequencesExt

CONSTANTS
    Retries,        \* _pyroMaxRetries of the proxy
    MaxAdded, MaxBatches    \* bounds: calls, and calls of the adapter

ASSUME BatchAssumption == None \notin {"replied", "raised"}

VARIABLES
    callsQueued,     \* the adapter's calls: [id, kind]; a kind is "works", "fails" or "hidden"
    added,
    batches,    \* the adapter's batches: [mode, phase, attempt, request, copied]
    orders,  \* what the daemon executes: [calls, done, ended], ended is None or how
    resent,     \* history: calls of batches that failed or were asynchronous
    outcomes    \* history: what the program got: [calls, results]

batchVars == <<callsQueued, added, batches, orders, resent, outcomes>>

Ids(calls) == {c.id : c \in ToSet(calls)}
Main(b) == batches[b].mode # "async"
Busy == \E b \in DOMAIN batches : Main(b) /\ batches[b].phase = "waits"
Locked == \E b \in DOMAIN batches : batches[b].phase = "waits"

BatchInit ==
    /\ callsQueued = <<>> /\ added = 0 /\ batches = <<>> /\ orders = <<>> /\ resent = {}
    /\ outcomes = {}

-----------------------------------------------------------------------------
(* The client *)

(* A _BatchedRemoteMethod is called. *)
AddCall(kind) ==
    /\ ~Busy /\ added < MaxAdded /\ added' = added + 1
    /\ callsQueued' = Append(callsQueued, [id |-> added', kind |-> kind])
    /\ UNCHANGED <<batches, orders, resent, outcomes>>

Batch(mode, phase) ==
    [mode |-> mode, phase |-> phase, attempt |-> 0, request |-> Len(orders) + 1, copied |-> <<>>]
Sent(calls) == Append(orders, [calls |-> calls, done |-> <<>>, ended |-> None])

(* A call of the adapter sends the batch and waits, *)
CallBatch ==
    /\ ~Busy /\ ~Locked /\ Len(batches) < MaxBatches
    /\ batches' = Append(batches, Batch("sync", "waits")) /\ orders' = Sent(callsQueued)
    /\ UNCHANGED <<callsQueued, added, resent, outcomes>>

(* Mutant: the adapter keeps the calls of a oneway batch. *)
CallOnewayKeeping ==
    /\ ~Busy /\ ~Locked /\ Len(batches) < MaxBatches
    /\ batches' = Append(batches, Batch("oneway", "over")) /\ orders' = Sent(callsQueued)
    /\ UNCHANGED <<callsQueued, added, resent, outcomes>>

(* or does not wait. *)
CallOneway ==
    /\ ~Busy /\ ~Locked /\ Len(batches) < MaxBatches
    /\ batches' = Append(batches, Batch("oneway", "over")) /\ orders' = Sent(callsQueued)
    /\ callsQueued' = <<>> /\ UNCHANGED <<added, resent, outcomes>>

CallAsync ==
    /\ ~Busy /\ Len(batches) < MaxBatches
    /\ batches' = Append(batches, Batch("async", "starts"))
    /\ UNCHANGED <<callsQueued, added, orders, resent, outcomes>>

(* The thread copies the adapter, with the calls it has by then, which     *)
(* stay in the adapter, *)
CopyAdapter(b) ==
    /\ batches[b].phase = "starts"
    /\ batches' = [batches EXCEPT ![b].phase = "copied", ![b].copied = callsQueued]
    /\ resent' = resent \cup Ids(callsQueued)
    /\ UNCHANGED <<callsQueued, added, orders, outcomes>>

(* and sends the calls of the copy over the proxy that both have. *)
SendAsync(b) ==
    /\ batches[b].phase = "copied" /\ ~Locked
    /\ batches' = [batches EXCEPT ![b].phase = "waits", ![b].request = Len(orders) + 1]
    /\ orders' = Sent(batches[b].copied)
    /\ UNCHANGED <<callsQueued, added, resent, outcomes>>

(* The reply arrives: the results, or an exception of the request itself.  *)
AnswerBatch(b) ==
    LET r == orders[batches[b].request]
    IN  /\ batches[b].phase = "waits" /\ r.ended # None
        /\ batches' = [batches EXCEPT ![b].phase = "over"]
        /\ outcomes' = IF r.ended = "replied"
                       THEN outcomes \cup {[calls |-> r.calls, results |-> r.done]}
                       ELSE outcomes
        /\ callsQueued' = IF Main(b) /\ r.ended = "replied" THEN <<>> ELSE callsQueued
        /\ resent' = IF r.ended = "replied" THEN resent ELSE resent \cup Ids(r.calls)
        /\ UNCHANGED <<added, orders>>

(* The connection is lost, or the timeout passes, while the daemon may     *)
(* still execute the batch; the thread of an asynchronous batch tries      *)
(* again.                                                                  *)
Lose(b) ==
    /\ batches[b].phase = "waits"
    /\ batches' = [batches EXCEPT
            ![b].phase = IF ~Main(b) /\ batches[b].attempt < Retries THEN "starts" ELSE "over",
            ![b].attempt = IF ~Main(b) /\ batches[b].attempt < Retries THEN @ + 1 ELSE @]
    /\ resent' = resent \cup Ids(orders[batches[b].request].calls)
    /\ UNCHANGED <<callsQueued, added, orders, outcomes>>

-----------------------------------------------------------------------------
(* The daemon *)

(* Mutant: the batch goes on after a call that fails. *)
ExecuteAll(r) ==
    LET req == orders[r]
        c == req.calls[Len(req.done) + 1]
    IN  /\ req.ended = None /\ Len(req.done) < Len(req.calls)
        /\ orders' = [orders EXCEPT
                ![r].done = IF c.kind = "hidden" THEN @ ELSE Append(@, c.id),
                ![r].ended = IF c.kind = "hidden" THEN "raised" ELSE None]
        /\ UNCHANGED <<callsQueued, added, batches, resent, outcomes>>

(* A call that is not exposed ends the request with an exception, after    *)
(* the calls before it are done.                                           *)
ExecuteBatch(r) ==
    LET req == orders[r]
        c == req.calls[Len(req.done) + 1]
    IN  /\ req.ended = None /\ Len(req.done) < Len(req.calls)
        /\ orders' = [orders EXCEPT
                ![r].done = IF c.kind = "hidden" THEN @ ELSE Append(@, c.id),
                ![r].ended = CASE c.kind = "works" -> None
                               [] c.kind = "fails" -> "replied"
                               [] c.kind = "hidden" -> "raised"]
        /\ UNCHANGED <<callsQueued, added, batches, resent, outcomes>>

Executed(r) ==
    /\ orders[r].ended = None /\ Len(orders[r].done) = Len(orders[r].calls)
    /\ orders' = [orders EXCEPT ![r].ended = "replied"]
    /\ UNCHANGED <<callsQueued, added, batches, resent, outcomes>>

BatchNext ==
    \/ \E kind \in {"works", "fails", "hidden"} : AddCall(kind)
    \/ CallBatch \/ CallOneway \/ CallAsync
    \/ \E b \in DOMAIN batches : CopyAdapter(b) \/ SendAsync(b) \/ AnswerBatch(b) \/ Lose(b)
    \/ \E r \in DOMAIN orders : ExecuteBatch(r) \/ Executed(r)

BatchSpec == BatchInit /\ [][BatchNext]_batchVars

-----------------------------------------------------------------------------
(* Properties *)

(* The results of a batch are those of its calls in their order, and end   *)
(* with that of the first one that fails (core lines 831-885, 1394-1413):  *)
(* docs, clientcode.rst line 368.                                          *)
ResultsInOrder ==
    \A o \in outcomes :
        LET n == Len(o.results)
        IN  /\ \A i \in 1 .. n : o.results[i] = o.calls[i].id
            /\ \A i \in 1 .. n : o.calls[i].kind = "works" \/ i = n
            /\ n = Len(o.calls) \/ o.calls[n].kind = "fails"

(* A call of a batch is executed once, however often the adapter is used   *)
(* after it, unless a batch with it failed or was asynchronous, which      *)
(* leave it in the adapter.                                                *)
ExecutedOnce ==
    \A r, q \in DOMAIN orders : r # q =>
        ToSet(orders[r].done) \cap ToSet(orders[q].done) \subseteq resent

(* A batch gives the results of its calls in their order up to the first   *)
(* error, and its calls are not executed again by a later one.             *)
BatchInv == ResultsInOrder /\ ExecutedOnce
=============================================================================
