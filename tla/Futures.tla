------------------------------- MODULE Futures -------------------------------
(***************************************************************************)
(* Results of calls that run in a background thread: futures.py, and the   *)
(* thread of an asynchronous proxy's call in core.py.                      *)
(*                                                                         *)
(* One FutureResult is followed.  It is filled by one background thread,   *)
(* that of a Future (Future.__asynccall) or that of an asynchronous proxy  *)
(* (_AsyncRemoteMethod.__asynccall), while the threads in User cancel it,  *)
(* delay it and chain more calls to it.  The result has a lock; the Future *)
(* has none, so its attributes are read and written one at a time.         *)
(*                                                                         *)
(* A value is the sequence of the chained calls that made it.  An          *)
(* _ExceptionWrapper is <<Fault>>; what a call makes of a wrapper it was   *)
(* given starts with Fault too.                                            *)
(***************************************************************************)
EXTENDS Values, Integers, Sequences, SequencesExt

CONSTANTS
    User,        \* threads that hold the Future and its result
    Call,        \* callables given to then(); each is given once
    MaxRetries,  \* proxy._pyroMaxRetries
    MaxDelays,   \* bound: how often delay() is called
    Fault

ASSUME BoundsAssumption == MaxRetries \in Nat /\ MaxDelays \in Nat

ASSUME FaultAssumption == Fault \notin Call /\ None \notin Call

VARIABLES
    kind,                             \* "future" or "remote"; never changes
    chain, hasChain,                  \* the list Future.chain; the attribute exists
    delayed, cancelled, completed,    \* Future.call_delay, .cancelled, .completed
    handler,                          \* Future.exceptionhandler is set
    ready, value, callchain, locked,  \* of the FutureResult
    resultHandler,                    \* FutureResult.exceptionhandler is set
    apc, attempt, walked, carried,    \* the background thread and its locals
    failing, nap,                     \*   it is in an except clause; its sleep
    upc, holds,                       \* a user thread, the argument it holds
    order, started, inTime, promised, \* history, see below
    delays

futureVars == <<chain, hasChain, delayed, cancelled, completed, handler>>
resultVars == <<ready, value, callchain, locked, resultHandler>>
asyncVars  == <<apc, attempt, walked, carried, failing, nap>>
userVars   == <<upc, holds>>
history    == <<order, started, inTime, promised, delays>>
vars == <<kind, futureVars, resultVars, asyncVars, userVars, history>>

AsyncPc == {"idle", "delay?", "sleep", "load", "store", "cancel?", "cancelled", "complete",
            "uncancel", "callable", "chain", "handler", "bind", "invoke",
            "set", "resultHandler", "walk", "clear", "ready", "end", "died"}
UserPc  == {"idle", "cancelled?", "take", "delete", "start", "append", "apply",
            "setDelay", "setCancel"}

TypeOK ==
    /\ kind \in {"future", "remote"}
    /\ chain \in Seq(Call) /\ hasChain \in BOOLEAN
    /\ delayed \in -1 .. 1 /\ cancelled \in BOOLEAN /\ completed \in BOOLEAN
    /\ handler \in BOOLEAN /\ resultHandler \in BOOLEAN
    /\ ready \in BOOLEAN /\ locked \in BOOLEAN
    /\ value \in Seq(Call \cup {Fault}) \cup {None} /\ callchain \in Seq(Call)
    /\ apc \in AsyncPc /\ attempt \in 0 .. MaxRetries /\ walked \in Nat
    /\ carried \in Seq(Call \cup {Fault}) /\ failing \in BOOLEAN /\ nap \in -1 .. 1
    /\ upc \in [User -> UserPc] /\ holds \in [User -> Call \cup {0, 1, None}]
    /\ order \in Seq(Call) /\ started \in Nat /\ inTime \in BOOLEAN
    /\ promised \in BOOLEAN /\ delays \in 0 .. MaxDelays

-----------------------------------------------------------------------------
(* Future.__init__ and FutureResult.__init__ *)
Init ==
    /\ kind \in {"future", "remote"}
    /\ chain = <<>> /\ hasChain = (kind = "future")
    /\ delayed = 0 /\ cancelled = FALSE /\ completed = FALSE /\ handler = FALSE
    /\ ready = FALSE /\ value = None /\ callchain = <<>> /\ locked = FALSE
    /\ resultHandler = FALSE
    /\ apc = "idle" /\ attempt = 0 /\ walked = 0 /\ carried = <<>>
    /\ failing = FALSE /\ nap = 0
    /\ upc = [u \in User |-> "idle"] /\ holds = [u \in User |-> None]
    /\ order = <<>> /\ started = 0 /\ inTime = FALSE /\ promised = FALSE /\ delays = 0

Failed(v) == v = <<Fault>>

(* A chained call is given the value so far.  It returns, and may return a *)
(* wrapper; it may also raise.                                             *)
Returns(v, c) == {Append(v, c), <<Fault>>}

Goto(u, from, to) == upc[u] = from /\ upc' = [upc EXCEPT ![u] = to]

-----------------------------------------------------------------------------
(* Future.__call__: two tests, the list is taken, and the attribute is     *)
(* deleted; whoever finds it gone gets an AttributeError.                  *)
Evaluate(u) ==
    /\ kind = "future" /\ ~completed /\ hasChain
    /\ Goto(u, "idle", "cancelled?")
    /\ UNCHANGED <<kind, futureVars, resultVars, asyncVars, holds, history>>

EvaluateTest(u) ==
    /\ Goto(u, "cancelled?", IF cancelled THEN "idle" ELSE "take")
    /\ UNCHANGED <<kind, futureVars, resultVars, asyncVars, holds, history>>

TakeChain(u) ==
    /\ Goto(u, "take", IF hasChain THEN "delete" ELSE "idle")
    /\ UNCHANGED <<kind, futureVars, resultVars, asyncVars, holds, history>>

(* Mutant: the attribute is left in place. *)
DeleteChainForgotten(u) ==
    /\ Goto(u, "delete", "start")
    /\ UNCHANGED <<kind, futureVars, resultVars, asyncVars, holds, history>>

DeleteChain(u) ==
    /\ Goto(u, "delete", IF hasChain THEN "start" ELSE "idle")
    /\ hasChain' = FALSE
    /\ UNCHANGED <<kind, chain, delayed, cancelled, completed, handler, resultVars,
                   asyncVars, holds, history>>

StartThread(u) ==
    /\ Goto(u, "start", "idle")
    /\ apc' = "delay?" /\ started' = started + 1
    /\ UNCHANGED <<kind, futureVars, resultVars, attempt, walked, carried, failing, nap,
                   holds, order, inTime, promised, delays>>

(* _AsyncRemoteMethod.__call__: a method call on an asynchronous proxy. *)
StartRemote(u) ==
    /\ kind = "remote" /\ apc = "idle" /\ upc[u] = "idle"
    /\ apc' = "bind" /\ started' = started + 1
    /\ UNCHANGED <<kind, futureVars, resultVars, attempt, walked, carried, failing, nap,
                   userVars, order, inTime, promised, delays>>

(* Future.delay: refused once the future has been evaluated. *)
DelayTest(u) ==
    /\ kind = "future" /\ ~completed /\ delays < MaxDelays
    /\ Goto(u, "idle", "setDelay")
    /\ \E d \in 0 .. 1 : holds' = [holds EXCEPT ![u] = d]
    /\ delays' = delays + 1
    /\ UNCHANGED <<kind, futureVars, resultVars, asyncVars, order, started, inTime, promised>>

DelaySet(u) ==
    /\ Goto(u, "setDelay", "idle")
    /\ delayed' = holds[u] /\ holds' = [holds EXCEPT ![u] = None]
    /\ UNCHANGED <<kind, chain, hasChain, cancelled, completed, handler, resultVars,
                   asyncVars, history>>

(* Future.cancel: refused once the future has been evaluated, else TRUE.   *)
CancelTest(u) ==
    /\ kind = "future" /\ ~completed
    /\ Goto(u, "idle", "setCancel")
    /\ UNCHANGED <<kind, futureVars, resultVars, asyncVars, holds, history>>

Undecided == apc \in {"idle", "delay?", "sleep", "load", "store", "cancel?"}

CancelSet(u) ==
    /\ Goto(u, "setCancel", "idle")
    /\ cancelled' = TRUE
    /\ promised' = TRUE /\ inTime' = (inTime \/ Undecided)
    /\ UNCHANGED <<kind, chain, hasChain, delayed, completed, handler, resultVars,
                   asyncVars, holds, order, started, delays>>

(* Future.then: the list is read from the attribute, then appended to. *)
Unused(c) ==
    /\ \A i \in DOMAIN chain : chain[i] # c
    /\ \A i \in DOMAIN order : order[i] # c
    /\ \A u \in User : holds[u] # c

ThenFuture(u, c) ==
    /\ hasChain /\ Unused(c)
    /\ Goto(u, "idle", "append")
    /\ holds' = [holds EXCEPT ![u] = c]
    /\ UNCHANGED <<kind, futureVars, resultVars, asyncVars, history>>

ThenAppend(u) ==
    /\ Goto(u, "append", "idle")
    /\ chain' = Append(chain, holds[u]) /\ holds' = [holds EXCEPT ![u] = None]
    /\ UNCHANGED <<kind, hasChain, delayed, cancelled, completed, handler, resultVars,
                   asyncVars, history>>

(* Future.iferror and FutureResult.iferror, one assignment each. *)
IfError(u) ==
    /\ upc[u] = "idle"
    /\ \/ kind = "future" /\ ~handler /\ handler' = TRUE /\ UNCHANGED resultHandler
       \/ apc # "idle" /\ ~resultHandler /\ resultHandler' = TRUE /\ UNCHANGED handler
    /\ UNCHANGED <<kind, chain, hasChain, delayed, cancelled, completed, ready, value,
                   callchain, locked, asyncVars, userVars, history>>

(* FutureResult.then, under the lock.  Not ready: the call is deferred.    *)
Defer(u, c) ==
    /\ upc[u] = "idle" /\ ~ready
    /\ callchain' = Append(callchain, c) /\ order' = Append(order, c)
    /\ UNCHANGED <<kind, futureVars, ready, value, locked, resultHandler, asyncVars,
                   userVars, started, inTime, promised, delays>>

(* Mutant: then() does not take the lock. *)
ThenDeferUnlocked(u, c) == apc # "idle" /\ Unused(c) /\ Defer(u, c)

ThenDefer(u, c) == apc # "idle" /\ Unused(c) /\ ~locked /\ Defer(u, c)

(* Ready: the call is made at once, by this thread, with the lock held. *)
ThenNow(u, c) ==
    /\ ready /\ ~locked /\ Unused(c)
    /\ Goto(u, "idle", "apply")
    /\ locked' = TRUE /\ holds' = [holds EXCEPT ![u] = c]
    /\ UNCHANGED <<kind, futureVars, ready, value, callchain, resultHandler, asyncVars,
                   history>>

ThenReturns(u) ==
    /\ Goto(u, "apply", "idle")
    /\ value' \in Returns(value, holds[u]) /\ order' = Append(order, holds[u])
    /\ locked' = FALSE /\ holds' = [holds EXCEPT ![u] = None]
    /\ UNCHANGED <<kind, futureVars, ready, callchain, resultHandler, asyncVars,
                   started, inTime, promised, delays>>

(* It raises out of then(); the value stays. *)
ThenRaises(u) ==
    /\ Goto(u, "apply", "idle")
    /\ locked' = FALSE /\ holds' = [holds EXCEPT ![u] = None]
    /\ UNCHANGED <<kind, futureVars, ready, value, callchain, resultHandler, asyncVars,
                   history>>

UserStarts(u) ==
    \/ Evaluate(u) \/ StartRemote(u) \/ DelayTest(u) \/ CancelTest(u) \/ IfError(u)
    \/ \E c \in Call : ThenFuture(u, c) \/ ThenDefer(u, c) \/ ThenNow(u, c)

UserContinues(u) ==
    \/ EvaluateTest(u) \/ TakeChain(u) \/ DeleteChain(u) \/ StartThread(u)
    \/ DelaySet(u) \/ CancelSet(u) \/ ThenAppend(u) \/ ThenReturns(u) \/ ThenRaises(u)

-----------------------------------------------------------------------------
(* The background thread. *)

AGoto(from, to) == apc = from /\ apc' = to

(* Future.__asynccall: the delay, two seconds of it at most in one sleep   *)
(* (one unit here), subtracted by a read and a write.                      *)
TestDelay ==
    /\ AGoto("delay?", IF delayed > 0 /\ ~cancelled THEN "sleep" ELSE "cancel?")
    /\ UNCHANGED <<kind, futureVars, resultVars, attempt, walked, carried, failing, nap,
                   userVars, history>>

Sleep ==
    /\ AGoto("sleep", "load")
    /\ nap' = delayed
    /\ UNCHANGED <<kind, futureVars, resultVars, attempt, walked, carried, failing,
                   userVars, history>>

LoadDelay ==
    /\ AGoto("load", "store")
    /\ nap' = delayed - nap
    /\ UNCHANGED <<kind, futureVars, resultVars, attempt, walked, carried, failing,
                   userVars, history>>

(* Mutant: the time slept is stored in place of the time left. *)
StoreDelaySlept ==
    /\ AGoto("store", "delay?")
    /\ delayed' = delayed + 1 /\ nap' = 0
    /\ UNCHANGED <<kind, chain, hasChain, cancelled, completed, handler, resultVars,
                   attempt, walked, carried, failing, userVars, history>>

StoreDelay ==
    /\ AGoto("store", "delay?")
    /\ delayed' = nap /\ nap' = 0
    /\ UNCHANGED <<kind, chain, hasChain, cancelled, completed, handler, resultVars,
                   attempt, walked, carried, failing, userVars, history>>

(* Mutant: a cancellation during the delay is not looked at. *)
TestCancelledForgotten ==
    /\ AGoto("cancel?", "complete")
    /\ UNCHANGED <<kind, futureVars, resultVars, attempt, walked, carried, failing, nap,
                   userVars, history>>

TestCancelled ==
    /\ AGoto("cancel?", IF cancelled THEN "cancelled" ELSE "complete")
    /\ UNCHANGED <<kind, futureVars, resultVars, attempt, walked, carried, failing, nap,
                   userVars, history>>

(* set_cancelled() *)
EndCancelled ==
    /\ AGoto("cancelled", "set")
    /\ completed' = TRUE /\ carried' = <<Fault>> /\ failing' = TRUE
    /\ UNCHANGED <<kind, chain, hasChain, delayed, cancelled, handler, resultVars,
                   attempt, walked, nap, userVars, history>>

Complete ==
    /\ AGoto("complete", "uncancel")
    /\ completed' = TRUE
    /\ UNCHANGED <<kind, chain, hasChain, delayed, cancelled, handler, resultVars,
                   attempt, walked, carried, failing, nap, userVars, history>>

Uncancel ==
    /\ AGoto("uncancel", "callable")
    /\ cancelled' = FALSE
    /\ UNCHANGED <<kind, chain, hasChain, delayed, completed, handler, resultVars,
                   attempt, walked, carried, failing, nap, userVars, history>>

CallableReturns ==
    /\ AGoto("callable", "chain")
    /\ carried' \in {<<>>, <<Fault>>} /\ walked' = 0
    /\ UNCHANGED <<kind, futureVars, resultVars, attempt, failing, nap, userVars, history>>

(* The Future's own chain passes a wrapper on to the next call. *)
ChainReturns ==
    /\ walked < Len(chain) /\ AGoto("chain", "chain")
    /\ carried' \in Returns(carried, chain[walked + 1]) /\ walked' = walked + 1
    /\ UNCHANGED <<kind, futureVars, resultVars, attempt, failing, nap, userVars, history>>

ChainDone ==
    /\ walked >= Len(chain) /\ AGoto("chain", "set")
    /\ UNCHANGED <<kind, futureVars, resultVars, attempt, walked, carried, failing, nap,
                   userVars, history>>

(* The callable or a chained call raises. *)
FutureRaises ==
    /\ apc = "callable" \/ (apc = "chain" /\ walked < Len(chain))
    /\ apc' = "handler"
    /\ UNCHANGED <<kind, futureVars, resultVars, attempt, walked, carried, failing, nap,
                   userVars, history>>

(* The handler, if there is one, returns and the wrapper is set ... *)
HandlerReturns ==
    /\ AGoto("handler", "set")
    /\ carried' = <<Fault>> /\ failing' = TRUE
    /\ UNCHANGED <<kind, futureVars, resultVars, attempt, walked, nap, userVars, history>>

(* ... or it raises in the except clause, and the thread is gone. *)
HandlerRaises ==
    /\ handler /\ AGoto("handler", "died")
    /\ UNCHANGED <<kind, futureVars, resultVars, attempt, walked, carried, failing, nap,
                   userVars, history>>

-----------------------------------------------------------------------------
(* _AsyncRemoteMethod.__asynccall.  While the server has no free worker    *)
(* the thread sleeps and binds again: it stays where it is.                *)
Bind ==
    /\ AGoto("bind", "invoke")
    /\ UNCHANGED <<kind, futureVars, resultVars, attempt, walked, carried, failing, nap,
                   userVars, history>>

Invoke ==
    /\ AGoto("invoke", "set")
    /\ carried' = <<>>
    /\ UNCHANGED <<kind, futureVars, resultVars, attempt, walked, failing, nap,
                   userVars, history>>

(* What the except clauses do: a network error is retried ... *)
RemoteRetries ==
    /\ attempt < MaxRetries /\ attempt' = attempt + 1
    /\ apc' = "bind" /\ UNCHANGED <<carried, failing>>

(* ... the last one, and any other error, becomes the result. *)
RemoteFails ==
    /\ apc' = "set" /\ carried' = <<Fault>> /\ failing' = TRUE
    /\ UNCHANGED attempt

RemoteRaises ==
    /\ apc \in {"bind", "invoke"}
    /\ RemoteRetries \/ RemoteFails
    /\ UNCHANGED <<kind, futureVars, resultVars, walked, nap, userVars, history>>

-----------------------------------------------------------------------------
(* FutureResult.set_value *)

SetValue ==
    /\ ~locked
    /\ AGoto("set", IF Failed(carried) THEN "resultHandler" ELSE "walk")
    /\ locked' = TRUE /\ value' = carried /\ walked' = 0
    /\ UNCHANGED <<kind, futureVars, ready, callchain, resultHandler, attempt, carried,
                   failing, nap, userVars, history>>

ResultHandlerReturns ==
    /\ AGoto("resultHandler", "clear")
    /\ UNCHANGED <<kind, futureVars, resultVars, attempt, walked, carried, failing, nap,
                   userVars, history>>

(* It raises out of set_value: caught if the value was set in a try block. *)
ResultHandlerRaises ==
    /\ resultHandler
    /\ AGoto("resultHandler", IF failing THEN "died" ELSE "handler")
    /\ locked' = FALSE
    /\ UNCHANGED <<kind, futureVars, ready, value, callchain, resultHandler, attempt,
                   walked, carried, failing, nap, userVars, history>>

WalkReturns ==
    /\ apc = "walk" /\ walked < Len(callchain)
    /\ value' \in Returns(value, callchain[walked + 1]) /\ walked' = walked + 1
    /\ apc' = IF Failed(value') THEN "clear" ELSE "walk"
    /\ UNCHANGED <<kind, futureVars, ready, callchain, locked, resultHandler, attempt,
                   carried, failing, nap, userVars, history>>

(* A deferred call raises out of set_value, into the try block around it.  *)
(* An asynchronous proxy that is to retry network errors takes one of      *)
(* these for its own.                                                      *)
WalkRaises ==
    /\ apc = "walk" /\ walked < Len(callchain)
    /\ \/ /\ kind = "future" /\ apc' = "handler" /\ UNCHANGED <<attempt, carried, failing>>
       \/ kind = "remote" /\ (RemoteRetries \/ RemoteFails)
    /\ locked' = FALSE
    /\ UNCHANGED <<kind, futureVars, ready, value, callchain, resultHandler, walked, nap,
                   userVars, history>>

WalkDone ==
    /\ walked >= Len(callchain) /\ AGoto("walk", "clear")
    /\ UNCHANGED <<kind, futureVars, resultVars, attempt, walked, carried, failing, nap,
                   userVars, history>>

ClearChain ==
    /\ AGoto("clear", "ready")
    /\ callchain' = <<>>
    /\ UNCHANGED <<kind, futureVars, ready, value, locked, resultHandler, attempt, walked,
                   carried, failing, nap, userVars, history>>

(* Mutant: the event is not set for an exception. *)
AnnounceValuesOnly ==
    /\ AGoto("ready", "end")
    /\ ready' = ~Failed(value) /\ locked' = FALSE
    /\ UNCHANGED <<kind, futureVars, value, callchain, resultHandler, attempt, walked,
                   carried, failing, nap, userVars, history>>

(* Mutant: no return after the wrapper has been set, so the loop goes on.  *)
AnnounceAndRetry ==
    /\ apc = "ready"
    /\ apc' = IF failing /\ attempt < MaxRetries THEN "bind" ELSE "end"
    /\ attempt' = IF failing /\ attempt < MaxRetries THEN attempt + 1 ELSE attempt
    /\ ready' = TRUE /\ locked' = FALSE
    /\ UNCHANGED <<kind, futureVars, value, callchain, resultHandler, walked,
                   carried, failing, nap, userVars, history>>

Announce ==
    /\ AGoto("ready", "end")
    /\ ready' = TRUE /\ locked' = FALSE
    /\ UNCHANGED <<kind, futureVars, value, callchain, resultHandler, attempt, walked,
                   carried, failing, nap, userVars, history>>

AsyncStep ==
    \/ TestDelay \/ Sleep \/ LoadDelay \/ StoreDelay \/ TestCancelled \/ EndCancelled
    \/ Complete \/ Uncancel \/ CallableReturns \/ ChainReturns \/ ChainDone
    \/ FutureRaises \/ HandlerReturns \/ HandlerRaises \/ Invoke
    \/ SetValue \/ ResultHandlerReturns \/ ResultHandlerRaises \/ WalkReturns
    \/ WalkRaises \/ WalkDone \/ ClearChain \/ Announce

-----------------------------------------------------------------------------
Next ==
    \/ \E u \in User : UserStarts(u) \/ UserContinues(u)
    \/ AsyncStep
    \/ Bind \/ RemoteRaises

(* Threads are scheduled, and the functions the user supplies return or    *)
(* raise.  Nothing obliges a server to have a worker free (Bind), or a     *)
(* user to start anything.                                                 *)
Fairness ==
    /\ WF_vars(AsyncStep)
    /\ \A u \in User : WF_vars(UserContinues(u))

Spec == Init /\ [][Next]_vars /\ Fairness

-----------------------------------------------------------------------------
(* Properties *)

(* Two threads that call the same future, both past the test for the       *)
(* chain, do not both start it: deleting the attribute decides             *)
(* (futures.py lines 43-48).                                               *)
StartedOnce == started <= 1

(* then() may come before, during and after the arrival of the value.      *)
(* Unless an exception has come between, the result is made by the calls   *)
(* chained to the future, a first part of them, and then by every call     *)
(* given to the result, each once and in the order in which then() was     *)
(* called: none is lost between the walk and the event (lines 156-170,     *)
(* 177-192).                                                               *)
ComposedInOrder ==
    ready /\ Fault \notin Range(value) =>
        /\ IsSuffix(order, value)
        /\ IsPrefix(SubSeq(value, 1, Len(value) - Len(order)), chain)

(* The value a reader has been given is not replaced behind its back: once *)
(* the result is ready only then() changes it (lines 156-170, 184-188;     *)
(* the returns of core.py 905-934).                                        *)
ReadyIsFinal ==
    [][ready /\ value' # value => \E u \in User : upc[u] = "apply"]_vars

(* A future that is cancelled before its thread has looked, delayed or     *)
(* not, started or not, never calls its callable (lines 45-46, 56-63).     *)
CancelledInTime == inTime => apc # "callable"

(* Whoever starts, cancels, delays or extends a future at the same time:   *)
(* it is started once, a cancellation in time is honoured, and its value   *)
(* is made by all chained calls in their order.                            *)
FutureInv == TypeOK /\ StartedOnce /\ ComposedInOrder /\ CancelledInTime

(* A thread that waits for the result gets it: whatever is raised and      *)
(* whoever chains calls, the result becomes ready, unless an error handler *)
(* raises itself or the server never has a worker free (lines 55-76,       *)
(* 156-170; core.py 905-934).                                              *)
ResultArrives ==
    <>[](apc # "bind") => (apc # "idle" ~> (ready \/ apc = "died"))

-----------------------------------------------------------------------------
(* What the documentation says, which the code does not keep.              *)

(* futures.py:91, cancel(): "If the execution hasn't been started yet, the *)
(* cancellation is successful and returns True."  A cancel() that has      *)
(* returned TRUE is thus never followed by the execution; but the test of  *)
(* completed and the assignment of cancelled are two steps, and line 66    *)
(* takes the cancellation back.                                            *)
CancelHonoured == promised => apc # "callable"
=============================================================================
