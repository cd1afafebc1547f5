---------------------------- MODULE ClientProofs ----------------------------
(***************************************************************************)
(* Proofs about what a client holds: futures and asynchronous calls,       *)
(* batches of calls, and what a proxy knows of its object, for any threads *)
(* that share them, any callables, members, retries, delays and errors.    *)
(***************************************************************************)
EXTENDS Futures, BatchCall, ExposedMembers, SequenceTheorems, TLAPS

-----------------------------------------------------------------------------
(* Futures and asynchronous calls: Futures. *)

(* The types of the attributes that are true or false.                     *)
FlagsTyped ==
    /\ hasChain \in BOOLEAN /\ cancelled \in BOOLEAN /\ completed \in BOOLEAN
    /\ handler \in BOOLEAN /\ resultHandler \in BOOLEAN
    /\ ready \in BOOLEAN /\ locked \in BOOLEAN /\ failing \in BOOLEAN
    /\ inTime \in BOOLEAN /\ promised \in BOOLEAN

(* Those of the rest but the sequences, and what a thread knows of its     *)
(* locals at each step: the call it was given, and the nap it takes.       *)
AsyncTyped ==
    /\ kind \in {"future", "remote"} /\ apc \in AsyncPc
    /\ attempt \in 0 .. MaxRetries /\ walked \in Nat /\ started \in Nat
    /\ nap \in -1 .. 1 /\ delayed \in -1 .. 1 /\ delays \in 0 .. MaxDelays
    /\ apc \in {"sleep", "load"} => delayed \in 0 .. 1
    /\ apc = "load" => nap \in 0 .. 1

(* What a user's thread holds between two steps of a call: the callable    *)
(* that it chains, or the delay that it sets.                              *)
UserTyped ==
    /\ upc \in [User -> UserPc] /\ holds \in [User -> Call \cup {0, 1, None}]
    /\ \A u \in User :
        /\ upc[u] \in {"append", "apply"} => holds[u] \in Call
        /\ upc[u] = "setDelay" => holds[u] \in {0, 1}

(* The steps of both.                                                      *)
Typed == AsyncTyped /\ UserTyped

(* A step of a future is one of a thread that uses it, or of the one in    *)
(* the background, whose remote call may bind its proxy or raise; or it    *)
(* leaves everything alone (futures.py lines 43-123, core.py's             *)
(* _AsyncRemoteMethod).                                                    *)
LEMMA StepKinds ==
    [Next]_vars => \/ UNCHANGED vars
                   \/ \E u \in User : UserStarts(u) \/ UserContinues(u)
                   \/ AsyncStep
                   \/ Bind \/ RemoteRaises
BY DEF Next

(* The flags stay flags (futures.py lines 14-33 and 125-144).              *)
LEMMA FlagsInvariant == Spec => []FlagsTyped
<1>1. Init => FlagsTyped
  BY DEF Init, FlagsTyped
<1>2. FlagsTyped /\ [Next]_vars => FlagsTyped'
  <2> SUFFICES ASSUME FlagsTyped, [Next]_vars PROVE FlagsTyped'
    OBVIOUS
  <2> USE DEF FlagsTyped, futureVars, resultVars, asyncVars, userVars, history
  <2>1. CASE UNCHANGED vars
    BY <2>1 DEF vars
  <2>2. ASSUME NEW u \in User, UserStarts(u) PROVE FlagsTyped'
    <3>1. CASE Evaluate(u) \/ CancelTest(u) \/ DelayTest(u)
      BY <3>1 DEF Evaluate, CancelTest, DelayTest
    <3>2. CASE StartRemote(u)
      BY <3>2 DEF StartRemote
    <3>3. CASE IfError(u)
      BY <3>3 DEF IfError
    <3>4. ASSUME NEW c \in Call, ThenFuture(u, c) \/ ThenDefer(u, c) \/ ThenNow(u, c)
          PROVE  FlagsTyped'
      BY <3>4 DEF ThenFuture, ThenDefer, ThenNow, Defer
    <3>5. QED
      BY <2>2, <3>1, <3>2, <3>3, <3>4 DEF UserStarts
  <2>3. ASSUME NEW u \in User, UserContinues(u) PROVE FlagsTyped'
    <3>1. CASE EvaluateTest(u) \/ TakeChain(u) \/ StartThread(u)
      BY <3>1 DEF EvaluateTest, TakeChain, StartThread
    <3>2. CASE DeleteChain(u)
      BY <3>2 DEF DeleteChain
    <3>3. CASE DelaySet(u) \/ ThenAppend(u)
      BY <3>3 DEF DelaySet, ThenAppend
    <3>4. CASE CancelSet(u)
      BY <3>4 DEF CancelSet
    <3>5. CASE ThenReturns(u) \/ ThenRaises(u)
      BY <3>5 DEF ThenReturns, ThenRaises
    <3>6. QED
      BY <2>3, <3>1, <3>2, <3>3, <3>4, <3>5 DEF UserContinues
  <2>4. CASE AsyncStep
    <3>1. CASE TestDelay \/ Sleep \/ LoadDelay \/ StoreDelay
      BY <3>1 DEF TestDelay, Sleep, LoadDelay, StoreDelay
    <3>2. CASE TestCancelled
      BY <3>2 DEF TestCancelled
    <3>3. CASE EndCancelled
      BY <3>3 DEF EndCancelled
    <3>4. CASE Complete
      BY <3>4 DEF Complete
    <3>5. CASE Uncancel
      BY <3>5 DEF Uncancel
    <3>6. CASE CallableReturns \/ ChainReturns \/ ChainDone \/ FutureRaises
      BY <3>6 DEF CallableReturns, ChainReturns, ChainDone, FutureRaises
    <3>7. CASE HandlerReturns \/ HandlerRaises
      BY <3>7 DEF HandlerReturns, HandlerRaises
    <3>8. CASE Invoke \/ SetValue
      BY <3>8 DEF Invoke, SetValue
    <3>9. CASE ResultHandlerReturns \/ ResultHandlerRaises
      BY <3>9 DEF ResultHandlerReturns, ResultHandlerRaises
    <3>10. CASE WalkReturns
      BY <3>10 DEF WalkReturns
    <3>11. CASE WalkRaises
      BY <3>11 DEF WalkRaises, RemoteRetries, RemoteFails
    <3>12. CASE WalkDone \/ ClearChain
      BY <3>12 DEF WalkDone, ClearChain
    <3>13. CASE Announce
      BY <3>13 DEF Announce
    <3>14. QED
      BY <2>4, <3>1, <3>2, <3>3, <3>4, <3>5, <3>6, <3>7, <3>8, <3>9, <3>10, <3>11,
         <3>12, <3>13 DEF AsyncStep
  <2>5. CASE Bind \/ RemoteRaises
    <3>1. CASE Bind
      BY <3>1 DEF Bind, AGoto
    <3>2. CASE RemoteRaises
      <4>1. CASE RemoteRetries
        BY <3>2, <4>1 DEF RemoteRaises, RemoteRetries
      <4>2. CASE RemoteFails
        BY <3>2, <4>2 DEF RemoteRaises, RemoteFails
      <4>3. QED
        BY <3>2, <4>1, <4>2 DEF RemoteRaises
    <3>3. QED
      BY <2>5, <3>1, <3>2
  <2> QED
    BY StepKinds, <2>1, <2>2, <2>3, <2>4, <2>5
<1>3. QED
  BY <1>1, <1>2, PTL DEF Spec

(* The two kinds of thread keep to the steps of their methods, and the     *)
(* retries, delays and naps to their bounds (futures.py lines 43-123).     *)
LEMMA TypedInvariant == Spec => []Typed
<1>1. Init => Typed
  BY BoundsAssumption DEF Init, Typed, AsyncTyped, UserTyped, AsyncPc, UserPc
<1>2. Typed /\ [Next]_vars => Typed'
  <2> SUFFICES ASSUME Typed, [Next]_vars PROVE Typed'
    OBVIOUS
  <2> USE BoundsAssumption
      DEF Typed, AsyncTyped, UserTyped, futureVars, resultVars, asyncVars, userVars, history
  <2>1. CASE UNCHANGED vars
    BY <2>1 DEF vars, AsyncPc, UserPc
  <2>2. ASSUME NEW u \in User, UserStarts(u) PROVE Typed'
    <3>1. CASE Evaluate(u) \/ CancelTest(u) \/ DelayTest(u)
      BY <3>1 DEF Evaluate, CancelTest, DelayTest, Goto, AsyncPc, UserPc
    <3>2. CASE StartRemote(u) \/ IfError(u)
      BY <3>2 DEF StartRemote, IfError, AsyncPc, UserPc
    <3>3. ASSUME NEW c \in Call, ThenFuture(u, c) \/ ThenDefer(u, c) \/ ThenNow(u, c)
          PROVE  Typed'
      BY <3>3 DEF ThenFuture, ThenDefer, ThenNow, Goto, Defer, AsyncPc, UserPc
    <3>4. QED
      BY <2>2, <3>1, <3>2, <3>3 DEF UserStarts
  <2>3. ASSUME NEW u \in User, UserContinues(u) PROVE Typed'
    <3>1. CASE EvaluateTest(u) \/ TakeChain(u) \/ DeleteChain(u) \/ StartThread(u)
      BY <3>1 DEF EvaluateTest, TakeChain, DeleteChain, StartThread, Goto, AsyncPc,
         UserPc
    <3>2. CASE DelaySet(u) \/ CancelSet(u) \/ ThenAppend(u) \/ ThenReturns(u) \/
                ThenRaises(u)
      BY <3>2 DEF DelaySet, CancelSet, ThenAppend, ThenReturns, ThenRaises, Goto,
         Returns, AsyncPc, UserPc
    <3>3. QED
      BY <2>3, <3>1, <3>2 DEF UserContinues
  <2>4. CASE AsyncStep
    <3>1. CASE TestDelay \/ Sleep \/ LoadDelay \/ StoreDelay
      BY <3>1 DEF TestDelay, Sleep, LoadDelay, StoreDelay, AGoto, AsyncPc, UserPc
    <3>2. CASE TestCancelled \/ EndCancelled \/ Complete \/ Uncancel
      BY <3>2 DEF TestCancelled, EndCancelled, Complete, Uncancel, AGoto, AsyncPc,
         UserPc
    <3>3. CASE CallableReturns \/ ChainReturns \/ ChainDone \/ FutureRaises
      BY <3>3 DEF CallableReturns, ChainReturns, ChainDone, FutureRaises, AGoto,
         Returns, AsyncPc, UserPc
    <3>4. CASE HandlerReturns \/ HandlerRaises \/ Invoke \/ SetValue
      BY <3>4 DEF HandlerReturns, HandlerRaises, Invoke, SetValue, AGoto, AsyncPc,
         UserPc
    <3>5. CASE ResultHandlerReturns \/ ResultHandlerRaises \/ WalkReturns
      BY <3>5 DEF ResultHandlerReturns, ResultHandlerRaises, WalkReturns, AGoto,
         Returns, AsyncPc, UserPc
    <3>6. CASE WalkRaises
      BY <3>6 DEF WalkRaises, RemoteRetries, RemoteFails, AsyncPc, UserPc
    <3>7. CASE WalkDone \/ ClearChain \/ Announce
      BY <3>7 DEF WalkDone, ClearChain, Announce, AGoto, AsyncPc, UserPc
    <3>8. QED
      BY <2>4, <3>1, <3>2, <3>3, <3>4, <3>5, <3>6, <3>7 DEF AsyncStep
  <2>5. CASE Bind \/ RemoteRaises
    BY <2>5 DEF Bind, AGoto, RemoteRaises, RemoteRetries, RemoteFails, AsyncPc,
       UserPc
  <2> QED
    BY StepKinds, <2>1, <2>2, <2>3, <2>4, <2>5
<1>3. QED
  BY <1>1, <1>2, PTL DEF Spec

(* A value: the calls that made it, with the exceptions that came between. *)
Outcomes == Seq(Call \cup {Fault})

(* The chains and the values. Nobody reads a value before it is set, but   *)
(* for whoever has seen that the result is ready.                          *)
SequencesTyped ==
    /\ chain \in Seq(Call) /\ callchain \in Seq(Call) /\ order \in Seq(Call)
    /\ carried \in Outcomes /\ value \in Outcomes \cup {None}
    /\ ready \/ apc \in {"resultHandler", "walk", "clear", "ready"} => value \in Outcomes
    /\ \A u \in User : upc[u] = "apply" => ready

(* There is a value once it is set, and what is appended to it is a call.  *)
LEMMA SequencesInvariant == Spec => []SequencesTyped
<1>1. Init => SequencesTyped
  BY DEF Init, SequencesTyped, Outcomes
<1>2. Typed /\ SequencesTyped /\ [Next]_vars => SequencesTyped'
  <2> SUFFICES ASSUME Typed, SequencesTyped, [Next]_vars PROVE SequencesTyped'
    OBVIOUS
  <2>a. /\ <<Fault>> \in Outcomes /\ <<>> \in Outcomes
        /\ \A s \in Outcomes, c \in Call : Append(s, c) \in Outcomes
        /\ \A s \in Seq(Call), c \in Call : Append(s, c) \in Seq(Call)
        /\ \A s \in Seq(Call), n \in Nat : n < Len(s) => s[n + 1] \in Call
    BY DEF Outcomes
  <2>b. walked \in Nat /\ \A u \in User : upc[u] \in {"append", "apply"} => holds[u] \in Call
    BY DEF Typed, AsyncTyped, UserTyped
  <2>c. upc \in [User -> UserPc]
    BY DEF Typed, UserTyped
  <2> USE <2>a, <2>b, <2>c
      DEF SequencesTyped, futureVars, resultVars, asyncVars, userVars, history
  <2>1. CASE UNCHANGED vars
    BY <2>1 DEF vars
  <2>2. ASSUME NEW u \in User, UserStarts(u) PROVE SequencesTyped'
    <3>1. CASE Evaluate(u) \/ CancelTest(u) \/ DelayTest(u)
      BY <3>1 DEF Evaluate, CancelTest, DelayTest, Goto
    <3>2. CASE StartRemote(u) \/ IfError(u)
      BY <3>2 DEF StartRemote, IfError
    <3>3. ASSUME NEW c \in Call, ThenFuture(u, c) \/ ThenNow(u, c) PROVE SequencesTyped'
      BY <3>3 DEF ThenFuture, ThenNow, Goto
    <3>4. ASSUME NEW c \in Call, ThenDefer(u, c) PROVE SequencesTyped'
      BY <3>4 DEF ThenDefer, Defer
    <3>5. QED
      BY <2>2, <3>1, <3>2, <3>3, <3>4 DEF UserStarts
  <2>3. ASSUME NEW u \in User, UserContinues(u) PROVE SequencesTyped'
    <3>1. CASE EvaluateTest(u) \/ TakeChain(u) \/ DeleteChain(u) \/ StartThread(u)
                \/ DelaySet(u) \/ CancelSet(u)
      BY <3>1 DEF EvaluateTest, TakeChain, DeleteChain, StartThread, DelaySet,
         CancelSet, Goto
    <3>2. CASE ThenAppend(u)
      BY <3>2 DEF ThenAppend, Goto
    <3>3. CASE ThenReturns(u)
      BY <3>3 DEF ThenReturns, Goto, Returns
    <3>4. CASE ThenRaises(u)
      BY <3>4 DEF ThenRaises, Goto
    <3>5. QED
      BY <2>3, <3>1, <3>2, <3>3, <3>4 DEF UserContinues
  <2>4. CASE AsyncStep
    <3>1. CASE TestDelay \/ Sleep \/ LoadDelay \/ StoreDelay \/ TestCancelled \/
                Complete \/ Uncancel \/ ChainDone
      BY <3>1 DEF TestDelay, Sleep, LoadDelay, StoreDelay, TestCancelled, Complete,
         Uncancel, ChainDone, AGoto
    <3>2. CASE FutureRaises \/ HandlerRaises
      BY <3>2 DEF FutureRaises, HandlerRaises, AGoto
    <3>3. CASE EndCancelled
      BY <3>3 DEF EndCancelled, AGoto
    <3>4. CASE HandlerReturns
      BY <3>4 DEF HandlerReturns, AGoto
    <3>5. CASE CallableReturns \/ Invoke
      BY <3>5 DEF CallableReturns, Invoke, AGoto
    <3>6. CASE ChainReturns
      BY <3>6 DEF ChainReturns, AGoto, Returns
    <3>7. CASE SetValue
      BY <3>7 DEF SetValue, AGoto
    <3>8. CASE ResultHandlerReturns \/ ResultHandlerRaises
      BY <3>8 DEF ResultHandlerReturns, ResultHandlerRaises, AGoto
    <3>9. CASE WalkReturns
      BY <3>9 DEF WalkReturns, Returns
    <3>10. CASE WalkRaises
      BY <3>10 DEF WalkRaises, RemoteRetries, RemoteFails
    <3>11. CASE WalkDone
      BY <3>11 DEF WalkDone, AGoto
    <3>12. CASE ClearChain
      BY <3>12 DEF ClearChain, AGoto
    <3>13. CASE Announce
      BY <3>13 DEF Announce, AGoto
    <3>14. QED
      BY <2>4, <3>1, <3>2, <3>3, <3>4, <3>5, <3>6, <3>7, <3>8, <3>9, <3>10, <3>11,
         <3>12, <3>13 DEF AsyncStep
  <2>5. CASE Bind \/ RemoteRaises
    BY <2>5 DEF Bind, AGoto, RemoteRaises, RemoteRetries, RemoteFails
  <2> QED
    BY StepKinds, <2>1, <2>2, <2>3, <2>4, <2>5
<1>3. QED
  BY <1>1, <1>2, TypedInvariant, PTL DEF Spec

(* Whoever finds the list of calls takes it away, and only a thread that   *)
(* took it starts the background thread; that of a proxy's call starts at  *)
(* most once because it starts from rest.                                  *)
OnceInv ==
    /\ started <= 1 /\ (apc = "idle" <=> started = 0)
    /\ hasChain => kind = "future" /\ started = 0
    /\ \A u \in User : upc[u] = "start" => kind = "future" /\ started = 0 /\ ~hasChain
    /\ \A u, v \in User : upc[u] = "start" /\ upc[v] = "start" => u = v

(* The list of calls can be taken away once (futures.py lines 43-54).      *)
LEMMA OnceInvariant == Spec => []OnceInv
<1>1. Init => OnceInv
  <2> SUFFICES ASSUME Init PROVE OnceInv
    OBVIOUS
  <2>1. started = 0 /\ apc = "idle" /\ \A u \in User : upc[u] # "start"
    BY DEF Init
  <2>2. hasChain => kind = "future"
    BY Zenon DEF Init
  <2>3. QED
    BY <2>1, <2>2 DEF OnceInv
<1>2. Typed /\ OnceInv /\ [Next]_vars => OnceInv'
  <2> SUFFICES ASSUME Typed, OnceInv, [Next]_vars PROVE OnceInv'
    OBVIOUS
  <2>a. upc \in [User -> UserPc] /\ started \in Nat
    BY DEF Typed, UserTyped, AsyncTyped
  <2> USE <2>a DEF OnceInv, futureVars, resultVars, asyncVars, userVars, history
  <2>1. CASE UNCHANGED vars
    BY <2>1 DEF vars
  <2>2. ASSUME NEW u \in User, UserStarts(u) PROVE OnceInv'
    <3>1. CASE Evaluate(u) \/ CancelTest(u) \/ DelayTest(u)
      BY <3>1 DEF Evaluate, CancelTest, DelayTest, Goto
    <3>2. CASE StartRemote(u) \/ IfError(u)
      BY <3>2 DEF StartRemote, IfError
    <3>3. ASSUME NEW c \in Call, ThenFuture(u, c) \/ ThenNow(u, c) PROVE OnceInv'
      BY <3>3 DEF ThenFuture, ThenNow, Goto
    <3>4. ASSUME NEW c \in Call, ThenDefer(u, c) PROVE OnceInv'
      BY <3>4 DEF ThenDefer, Defer
    <3>5. QED
      BY <2>2, <3>1, <3>2, <3>3, <3>4 DEF UserStarts
  <2>3. ASSUME NEW u \in User, UserContinues(u) PROVE OnceInv'
    <3>1. CASE EvaluateTest(u)
      BY <3>1 DEF EvaluateTest, Goto
    <3>2. CASE TakeChain(u)
      BY <3>2 DEF TakeChain, Goto
    <3>3. CASE DeleteChain(u)
      BY <3>3 DEF DeleteChain, Goto
    <3>4. CASE StartThread(u)
      BY <3>4 DEF StartThread, Goto
    <3>5. CASE DelaySet(u)
      BY <3>5 DEF DelaySet, Goto
    <3>6. CASE CancelSet(u)
      BY <3>6 DEF CancelSet, Goto
    <3>7. CASE ThenAppend(u)
      BY <3>7 DEF ThenAppend, Goto
    <3>8. CASE ThenReturns(u)
      BY <3>8 DEF ThenReturns, Goto, Returns
    <3>9. CASE ThenRaises(u)
      BY <3>9 DEF ThenRaises, Goto
    <3>10. QED
      BY <2>3, <3>1, <3>2, <3>3, <3>4, <3>5, <3>6, <3>7, <3>8, <3>9 DEF
         UserContinues
  <2>4. CASE AsyncStep
    <3>1. CASE TestDelay \/ Sleep \/ LoadDelay \/ StoreDelay \/ TestCancelled \/
                Complete \/ Uncancel \/ ChainDone
      BY <3>1 DEF TestDelay, Sleep, LoadDelay, StoreDelay, TestCancelled, Complete,
         Uncancel, ChainDone, AGoto
    <3>2. CASE FutureRaises \/ HandlerRaises
      BY <3>2 DEF FutureRaises, HandlerRaises, AGoto
    <3>3. CASE EndCancelled
      BY <3>3 DEF EndCancelled, AGoto
    <3>4. CASE HandlerReturns
      BY <3>4 DEF HandlerReturns, AGoto
    <3>5. CASE CallableReturns \/ Invoke
      BY <3>5 DEF CallableReturns, Invoke, AGoto
    <3>6. CASE ChainReturns
      BY <3>6 DEF ChainReturns, AGoto, Returns
    <3>7. CASE SetValue
      BY <3>7 DEF SetValue, AGoto
    <3>8. CASE ResultHandlerReturns \/ ResultHandlerRaises
      BY <3>8 DEF ResultHandlerReturns, ResultHandlerRaises, AGoto
    <3>9. CASE WalkReturns
      BY <3>9 DEF WalkReturns, Returns
    <3>10. CASE WalkRaises
      BY <3>10 DEF WalkRaises, RemoteRetries, RemoteFails
    <3>11. CASE WalkDone
      BY <3>11 DEF WalkDone, AGoto
    <3>12. CASE ClearChain
      BY <3>12 DEF ClearChain, AGoto
    <3>13. CASE Announce
      BY <3>13 DEF Announce, AGoto
    <3>14. QED
      BY <2>4, <3>1, <3>2, <3>3, <3>4, <3>5, <3>6, <3>7, <3>8, <3>9, <3>10, <3>11,
         <3>12, <3>13 DEF AsyncStep
  <2>5. CASE Bind \/ RemoteRaises
    BY <2>5 DEF Bind, AGoto, RemoteRaises, RemoteRetries, RemoteFails
  <2> QED
    BY StepKinds, <2>1, <2>2, <2>3, <2>4, <2>5
<1>3. QED
  BY <1>1, <1>2, TypedInvariant, PTL DEF Spec

(* A cancellation in time is still there when the background thread looks, *)
(* which then never comes to the callable.                                 *)
CancelInv ==
    inTime => apc \notin {"complete", "uncancel", "callable"} /\ (Undecided => cancelled)

(* The result is ready when the background thread has ended, and locked    *)
(* for as long as that one sets it.                                        *)
ReadyInv ==
    /\ ready <=> apc = "end"
    /\ apc \in {"resultHandler", "walk", "clear", "ready"} => locked

(* cancel() in time is not undone before the background thread looks       *)
(* (futures.py lines 45-46 and 56-63).                                     *)
LEMMA CancelInvariant == Spec => []CancelInv
<1>1. Init => CancelInv
  BY DEF Init, CancelInv, Undecided
<1>2. Typed /\ OnceInv /\ CancelInv /\ [Next]_vars => CancelInv'
  <2> SUFFICES ASSUME Typed, OnceInv, CancelInv, [Next]_vars PROVE CancelInv'
    OBVIOUS
  <2>a. upc \in [User -> UserPc] /\ apc \in AsyncPc
    BY DEF Typed, UserTyped, AsyncTyped
  <2> USE <2>a DEF OnceInv, CancelInv, Undecided, futureVars, resultVars,
      asyncVars, userVars, history
  <2>1. CASE UNCHANGED vars
    BY <2>1 DEF vars
  <2>2. ASSUME NEW u \in User, UserStarts(u) PROVE CancelInv'
    <3>1. CASE Evaluate(u) \/ CancelTest(u) \/ DelayTest(u)
      BY <3>1 DEF Evaluate, CancelTest, DelayTest, Goto
    <3>2. CASE StartRemote(u) \/ IfError(u)
      BY <3>2 DEF StartRemote, IfError
    <3>3. ASSUME NEW c \in Call, ThenFuture(u, c) \/ ThenNow(u, c) PROVE CancelInv'
      BY <3>3 DEF ThenFuture, ThenNow, Goto
    <3>4. ASSUME NEW c \in Call, ThenDefer(u, c) PROVE CancelInv'
      BY <3>4 DEF ThenDefer, Defer
    <3>5. QED
      BY <2>2, <3>1, <3>2, <3>3, <3>4 DEF UserStarts
  <2>3. ASSUME NEW u \in User, UserContinues(u) PROVE CancelInv'
    <3>1. CASE EvaluateTest(u)
      BY <3>1 DEF EvaluateTest, Goto
    <3>2. CASE TakeChain(u)
      BY <3>2 DEF TakeChain, Goto
    <3>3. CASE DeleteChain(u)
      BY <3>3 DEF DeleteChain, Goto
    <3>4. CASE StartThread(u)
      BY <3>4 DEF StartThread, Goto
    <3>5. CASE DelaySet(u)
      BY <3>5 DEF DelaySet, Goto
    <3>6. CASE CancelSet(u)
      BY <3>6 DEF CancelSet, Goto
    <3>7. CASE ThenAppend(u)
      BY <3>7 DEF ThenAppend, Goto
    <3>8. CASE ThenReturns(u)
      BY <3>8 DEF ThenReturns, Goto, Returns
    <3>9. CASE ThenRaises(u)
      BY <3>9 DEF ThenRaises, Goto
    <3>10. QED
      BY <2>3, <3>1, <3>2, <3>3, <3>4, <3>5, <3>6, <3>7, <3>8, <3>9 DEF
         UserContinues
  <2>4. CASE AsyncStep
    <3>1. CASE TestDelay
      BY <3>1 DEF TestDelay, AGoto
    <3>2. CASE Sleep
      BY <3>2 DEF Sleep, AGoto
    <3>3. CASE LoadDelay
      BY <3>3 DEF LoadDelay, AGoto
    <3>4. CASE StoreDelay
      BY <3>4 DEF StoreDelay, AGoto
    <3>5. CASE TestCancelled
      BY <3>5 DEF TestCancelled, AGoto
    <3>6. CASE EndCancelled
      BY <3>6 DEF EndCancelled, AGoto
    <3>7. CASE Complete
      BY <3>7 DEF Complete, AGoto
    <3>8. CASE Uncancel
      BY <3>8 DEF Uncancel, AGoto
    <3>9. CASE CallableReturns
      BY <3>9 DEF CallableReturns, AGoto
    <3>10. CASE ChainReturns
      BY <3>10 DEF ChainReturns, AGoto, Returns
    <3>11. CASE ChainDone
      BY <3>11 DEF ChainDone, AGoto
    <3>12. CASE FutureRaises
      BY <3>12 DEF FutureRaises
    <3>13. CASE HandlerReturns
      BY <3>13 DEF HandlerReturns, AGoto
    <3>14. CASE HandlerRaises
      BY <3>14 DEF HandlerRaises, AGoto
    <3>15. CASE Invoke
      BY <3>15 DEF Invoke, AGoto
    <3>16. CASE SetValue
      BY <3>16 DEF SetValue, AGoto
    <3>17. CASE ResultHandlerReturns
      BY <3>17 DEF ResultHandlerReturns, AGoto
    <3>18. CASE ResultHandlerRaises
      BY <3>18 DEF ResultHandlerRaises, AGoto
    <3>19. CASE WalkReturns
      BY <3>19 DEF WalkReturns, Returns
    <3>20. CASE WalkRaises
      BY <3>20 DEF WalkRaises, RemoteRetries, RemoteFails
    <3>21. CASE WalkDone
      BY <3>21 DEF WalkDone, AGoto
    <3>22. CASE ClearChain
      BY <3>22 DEF ClearChain, AGoto
    <3>23. CASE Announce
      BY <3>23 DEF Announce, AGoto
    <3>24. QED
      BY <2>4, <3>1, <3>2, <3>3, <3>4, <3>5, <3>6, <3>7, <3>8, <3>9, <3>10, <3>11,
         <3>12, <3>13, <3>14, <3>15, <3>16, <3>17, <3>18, <3>19, <3>20, <3>21,
         <3>22, <3>23 DEF AsyncStep
  <2>5. CASE Bind \/ RemoteRaises
    BY <2>5 DEF Bind, AGoto, RemoteRaises, RemoteRetries, RemoteFails
  <2> QED
    BY StepKinds, <2>1, <2>2, <2>3, <2>4, <2>5
<1>3. QED
  BY <1>1, <1>2, TypedInvariant, OnceInvariant, PTL DEF Spec

(* The lock is held while the value and its calls change, and the result   *)
(* is announced last (futures.py lines 156-170).                           *)
LEMMA ReadyInvariant == Spec => []ReadyInv
<1>1. Init => ReadyInv
  BY DEF Init, ReadyInv
<1>2. Typed /\ SequencesTyped /\ OnceInv /\ ReadyInv /\ [Next]_vars => ReadyInv'
  <2> SUFFICES ASSUME Typed, SequencesTyped, OnceInv, ReadyInv, [Next]_vars PROVE ReadyInv'
    OBVIOUS
  <2>a. upc \in [User -> UserPc] /\ apc \in AsyncPc
    BY DEF Typed, UserTyped, AsyncTyped
  <2> USE <2>a DEF SequencesTyped, OnceInv, ReadyInv, futureVars, resultVars,
      asyncVars, userVars, history
  <2>1. CASE UNCHANGED vars
    BY <2>1 DEF vars
  <2>2. ASSUME NEW u \in User, UserStarts(u) PROVE ReadyInv'
    <3>1. CASE Evaluate(u) \/ CancelTest(u) \/ DelayTest(u)
      BY <3>1 DEF Evaluate, CancelTest, DelayTest, Goto
    <3>2. CASE StartRemote(u) \/ IfError(u)
      BY <3>2 DEF StartRemote, IfError
    <3>3. ASSUME NEW c \in Call, ThenFuture(u, c) \/ ThenNow(u, c) PROVE ReadyInv'
      BY <3>3 DEF ThenFuture, ThenNow, Goto
    <3>4. ASSUME NEW c \in Call, ThenDefer(u, c) PROVE ReadyInv'
      BY <3>4 DEF ThenDefer, Defer
    <3>5. QED
      BY <2>2, <3>1, <3>2, <3>3, <3>4 DEF UserStarts
  <2>3. ASSUME NEW u \in User, UserContinues(u) PROVE ReadyInv'
    <3>1. CASE EvaluateTest(u)
      BY <3>1 DEF EvaluateTest, Goto
    <3>2. CASE TakeChain(u)
      BY <3>2 DEF TakeChain, Goto
    <3>3. CASE DeleteChain(u)
      BY <3>3 DEF DeleteChain, Goto
    <3>4. CASE StartThread(u)
      BY <3>4 DEF StartThread, Goto
    <3>5. CASE DelaySet(u)
      BY <3>5 DEF DelaySet, Goto
    <3>6. CASE CancelSet(u)
      BY <3>6 DEF CancelSet, Goto
    <3>7. CASE ThenAppend(u)
      BY <3>7 DEF ThenAppend, Goto
    <3>8. CASE ThenReturns(u)
      BY <3>8 DEF ThenReturns, Goto, Returns
    <3>9. CASE ThenRaises(u)
      BY <3>9 DEF ThenRaises, Goto
    <3>10. QED
      BY <2>3, <3>1, <3>2, <3>3, <3>4, <3>5, <3>6, <3>7, <3>8, <3>9 DEF
         UserContinues
  <2>4. CASE AsyncStep
    <3>1. CASE TestDelay
      BY <3>1 DEF TestDelay, AGoto
    <3>2. CASE Sleep
      BY <3>2 DEF Sleep, AGoto
    <3>3. CASE LoadDelay
      BY <3>3 DEF LoadDelay, AGoto
    <3>4. CASE StoreDelay
      BY <3>4 DEF StoreDelay, AGoto
    <3>5. CASE TestCancelled
      BY <3>5 DEF TestCancelled, AGoto
    <3>6. CASE EndCancelled
      BY <3>6 DEF EndCancelled, AGoto
    <3>7. CASE Complete
      BY <3>7 DEF Complete, AGoto
    <3>8. CASE Uncancel
      BY <3>8 DEF Uncancel, AGoto
    <3>9. CASE CallableReturns
      BY <3>9 DEF CallableReturns, AGoto
    <3>10. CASE ChainReturns
      BY <3>10 DEF ChainReturns, AGoto, Returns
    <3>11. CASE ChainDone
      BY <3>11 DEF ChainDone, AGoto
    <3>12. CASE FutureRaises
      BY <3>12 DEF FutureRaises
    <3>13. CASE HandlerReturns
      BY <3>13 DEF HandlerReturns, AGoto
    <3>14. CASE HandlerRaises
      BY <3>14 DEF HandlerRaises, AGoto
    <3>15. CASE Invoke
      BY <3>15 DEF Invoke, AGoto
    <3>16. CASE SetValue
      BY <3>16 DEF SetValue, AGoto
    <3>17. CASE ResultHandlerReturns
      BY <3>17 DEF ResultHandlerReturns, AGoto
    <3>18. CASE ResultHandlerRaises
      BY <3>18 DEF ResultHandlerRaises, AGoto
    <3>19. CASE WalkReturns
      BY <3>19 DEF WalkReturns, Returns
    <3>20. CASE WalkRaises
      BY <3>20 DEF WalkRaises, RemoteRetries, RemoteFails
    <3>21. CASE WalkDone
      BY <3>21 DEF WalkDone, AGoto
    <3>22. CASE ClearChain
      BY <3>22 DEF ClearChain, AGoto
    <3>23. CASE Announce
      BY <3>23 DEF Announce, AGoto
    <3>24. QED
      BY <2>4, <3>1, <3>2, <3>3, <3>4, <3>5, <3>6, <3>7, <3>8, <3>9, <3>10, <3>11,
         <3>12, <3>13, <3>14, <3>15, <3>16, <3>17, <3>18, <3>19, <3>20, <3>21,
         <3>22, <3>23 DEF AsyncStep
  <2>5. CASE Bind \/ RemoteRaises
    BY <2>5 DEF Bind, AGoto, RemoteRaises, RemoteRetries, RemoteFails
  <2> QED
    BY StepKinds, <2>1, <2>2, <2>3, <2>4, <2>5
<1>3. QED
  BY <1>1, <1>2, TypedInvariant, SequencesInvariant, OnceInvariant, PTL DEF Spec

(* A value that no exception has cut short: first some of the calls in     *)
(* list, from the first on, and then the first n in calls.                 *)
MadeOf(v, list, calls, n) ==
    \/ Fault \in Range(v)
    \/ \E k \in 0 .. Len(list) :
        /\ Len(v) = k + n
        /\ \A i \in 1 .. k : v[i] = list[i]
        /\ \A i \in 1 .. n : v[k + i] = calls[i]

(* The value at each step of the background thread.                        *)
ComposeInv ==
    /\ apc \notin {"ready", "end"} => order = callchain
    /\ apc = "chain" =>
        /\ MadeOf(carried, chain, <<>>, 0)
        /\ (Fault \in Range(carried) \/ Len(carried) = walked)
    /\ apc = "set" => MadeOf(carried, chain, <<>>, 0)
    /\ apc = "resultHandler" => Fault \in Range(value)
    /\ apc = "walk" => walked <= Len(callchain) /\ MadeOf(value, chain, callchain, walked)
    /\ apc \in {"clear", "ready", "end"} => MadeOf(value, chain, order, Len(order))

(* A call does not mend a value in which an exception came up.             *)
LEMMA FaultyAppended ==
    ASSUME NEW v \in Outcomes, NEW c, Fault \in Range(v) PROVE Fault \in Range(Append(v, c))
<1>1. PICK i \in 1 .. Len(v) : v[i] = Fault
  BY DEF Range, Outcomes
<1>2. Append(v, c)[i] = Fault /\ i \in DOMAIN Append(v, c)
  BY <1>1 DEF Outcomes
<1>3. QED
  BY <1>2 DEF Range

(* The wrapper of an exception has that exception.                         *)
LEMMA FaultyWrapper == Fault \in Range(<<Fault>>)
BY DEF Range

(* The next of the calls is given the value so far.                        *)
LEMMA MadeByNext ==
    ASSUME NEW v \in Outcomes, NEW list \in Seq(Call), NEW calls \in Seq(Call),
           NEW n \in Nat,
           n < Len(calls), MadeOf(v, list, calls, n), NEW w \in Returns(v, calls[n + 1])
    PROVE  MadeOf(w, list, calls, n + 1)
<1>1. CASE w = <<Fault>>
  BY <1>1, FaultyWrapper DEF MadeOf
<1>2. CASE w = Append(v, calls[n + 1])
  <2>1. CASE Fault \in Range(v)
    BY <1>2, <2>1, FaultyAppended DEF MadeOf
  <2>2. CASE Fault \notin Range(v)
    <3>1. PICK k \in 0 .. Len(list) :
            /\ Len(v) = k + n
            /\ \A i \in 1 .. k : v[i] = list[i]
            /\ \A i \in 1 .. n : v[k + i] = calls[i]
      BY <2>2 DEF MadeOf
    <3>2. Len(w) = k + (n + 1) /\ w[k + (n + 1)] = calls[n + 1]
      BY <1>2, <3>1 DEF Outcomes
    <3>3. \A i \in 1 .. Len(v) : w[i] = v[i]
      BY <1>2 DEF Outcomes
    <3>4. (\A i \in 1 .. k : w[i] = list[i]) /\ \A i \in 1 .. n : w[k + i] = calls[i]
      BY <3>1, <3>3
    <3>5. \A i \in 1 .. n + 1 : w[k + i] = calls[i]
      <4>1. TAKE i \in 1 .. n + 1
      <4>2. i = n + 1 \/ i \in 1 .. n
        OBVIOUS
      <4>3. QED
        BY <3>2, <3>4, <4>2
    <3>6. QED
      BY <3>1, <3>2, <3>4, <3>5 DEF MadeOf
  <2>3. QED
    BY <2>1, <2>2
<1>3. QED
  BY <1>1, <1>2 DEF Returns

(* What is made of a list is made of the longer list, too.                 *)
LEMMA MadeOfLonger ==
    ASSUME NEW v, NEW list \in Seq(Call), NEW c \in Call, NEW calls, NEW n \in Nat,
           MadeOf(v, list, calls, n)
    PROVE  MadeOf(v, Append(list, c), calls, n)
<1> DEFINE longer == Append(list, c)
<1>1. Len(list) \in Nat /\ Len(longer) = Len(list) + 1
      /\ \A i \in 1 .. Len(list) : longer[i] = list[i]
  OBVIOUS
<1>2. 0 .. Len(list) \subseteq 0 .. Len(longer)
  BY <1>1
<1> HIDE DEF longer
<1>3. ASSUME NEW k \in 0 .. Len(list),
             Len(v) = k + n, \A i \in 1 .. k : v[i] = list[i],
             \A i \in 1 .. n : v[k + i] = calls[i]
      PROVE  MadeOf(v, longer, calls, n)
  <2>1. \A i \in 1 .. k : v[i] = longer[i]
    BY <1>1, <1>3
  <2>2. QED
    BY <1>2, <1>3, <2>1 DEF MadeOf
<1>4. MadeOf(v, longer, calls, n)
  BY <1>3 DEF MadeOf
<1>5. QED
  BY <1>4 DEF longer

(* A call that comes when the value is there is the last of all.           *)
LEMMA MadeByLast ==
    ASSUME NEW v \in Outcomes, NEW list \in Seq(Call), NEW calls \in Seq(Call),
           NEW c \in Call,
           MadeOf(v, list, calls, Len(calls)), NEW w \in Returns(v, c)
    PROVE  MadeOf(w, list, Append(calls, c), Len(Append(calls, c)))
<1> DEFINE longer == Append(calls, c)
<1>1. /\ longer \in Seq(Call) /\ Len(longer) = Len(calls) + 1 /\ longer[Len(calls) + 1] = c
      /\ \A i \in 1 .. Len(calls) : longer[i] = calls[i]
  OBVIOUS
<1>2. Len(calls) \in Nat
  OBVIOUS
<1> HIDE DEF longer
<1>3. MadeOf(v, list, longer, Len(calls))
  BY <1>1, <1>2 DEF MadeOf
<1>4. MadeOf(w, list, longer, Len(calls) + 1)
  BY <1>1, <1>2, <1>3, MadeByNext
<1>5. QED
  BY <1>1, <1>4 DEF longer

(* The first calls of the list, and then the next of it.                   *)
LEMMA MadeOfList ==
    ASSUME NEW v \in Outcomes, NEW list \in Seq(Call), NEW n \in Nat, n < Len(list),
           MadeOf(v, list, <<>>, 0), Fault \in Range(v) \/ Len(v) = n,
           NEW w \in Returns(v, list[n + 1])
    PROVE  MadeOf(w, list, <<>>, 0) /\ (Fault \in Range(w) \/ Len(w) = n + 1)
<1>1. CASE w = <<Fault>>
  BY <1>1, FaultyWrapper DEF MadeOf
<1>2. CASE w = Append(v, list[n + 1]) /\ Fault \in Range(v)
  BY <1>2, FaultyAppended DEF MadeOf
<1>3. CASE w = Append(v, list[n + 1]) /\ Fault \notin Range(v)
  <2>1. Len(v) = n /\ \A i \in 1 .. n : v[i] = list[i]
    BY <1>3 DEF MadeOf, Outcomes
  <2>2. Len(w) = n + 1 /\ \A i \in 1 .. n + 1 : w[i] = list[i]
    BY <1>3, <2>1 DEF Outcomes
  <2>3. QED
    BY <2>2 DEF MadeOf
<1>4. QED
  BY <1>1, <1>2, <1>3 DEF Returns

(* So it is as ComposedInOrder says.                                       *)
LEMMA MadeInOrder ==
    ASSUME NEW v \in Outcomes, NEW list \in Seq(Call), NEW calls \in Seq(Call),
           MadeOf(v, list, calls, Len(calls)), Fault \notin Range(v)
    PROVE  IsSuffix(calls, v) /\ IsPrefix(SubSeq(v, 1, Len(v) - Len(calls)), list)
<1>1. PICK k \in 0 .. Len(list) :
        /\ Len(v) = k + Len(calls)
        /\ \A i \in 1 .. k : v[i] = list[i]
        /\ \A i \in 1 .. Len(calls) : v[k + i] = calls[i]
  BY DEF MadeOf
<1> DEFINE r == Reverse(v)
           q == Reverse(calls)
           p == SubSeq(v, 1, k)
<1>2. Len(v) - Len(calls) = k /\ k \in Nat /\ Len(calls) \in Nat
  BY <1>1
<1>3. IsPrefix(p, list)
  <2>1. p = [i \in 1 .. k |-> list[i]]
    BY <1>1, <1>2 DEF Outcomes
  <2>2. Len(p) = k /\ SubSeq(list, 1, k) = [i \in 1 .. k |-> list[i]]
    BY <1>1, <1>2, <2>1
  <2>3. SubSeq(p, 1, k) = [i \in 1 .. k |-> list[i]]
    BY <1>1, <1>2, <2>1
  <2>4. QED
    BY <1>1, <2>2, <2>3 DEF IsPrefix
<1>4. IsPrefix(q, r)
  <2>1. Len(q) = Len(calls) /\ Len(r) = Len(v)
    BY DEF Reverse, Outcomes
  <2>2. \A i \in 1 .. Len(calls) : q[i] = r[i]
    <3>1. TAKE i \in 1 .. Len(calls)
    <3>2. q[i] = calls[Len(calls) - i + 1] /\ r[i] = v[Len(v) - i + 1]
      BY <1>1, <1>2 DEF Reverse, Outcomes
    <3>3. /\ Len(calls) - i + 1 \in 1 .. Len(calls)
          /\ Len(v) - i + 1 = k + (Len(calls) - i + 1)
      BY <1>1, <1>2
    <3>4. QED
      BY <1>1, <3>2, <3>3
  <2>3. SubSeq(q, 1, Len(calls)) = SubSeq(r, 1, Len(calls))
    BY <1>1, <1>2, <2>1, <2>2
  <2>4. QED
    BY <1>1, <1>2, <2>1, <2>3 DEF IsPrefix
<1>5. QED
  BY <1>2, <1>3, <1>4 DEF IsSuffix

(* Of a value with an exception nothing is said.                           *)
LEMMA MadeOfFaulty ==
    ASSUME NEW v, Fault \in Range(v), NEW list, NEW calls, NEW n
    PROVE  MadeOf(v, list, calls, n)
BY DEF MadeOf

(* No call has been made of the empty value.                               *)
LEMMA MadeOfNothing == ASSUME NEW list \in Seq(Call) PROVE MadeOf(<<>>, list, <<>>, 0)
<1>1. 0 \in 0 .. Len(list) /\ Len(<<>>) = 0 + 0
  OBVIOUS
<1>2. QED
  BY <1>1 DEF MadeOf

(* Without calls of the result it does not matter which they are.          *)
LEMMA MadeOfListAlone ==
    ASSUME NEW v, NEW list, NEW calls, MadeOf(v, list, <<>>, 0)
    PROVE  MadeOf(v, list, calls, 0)
BY DEF MadeOf

(* What the value is made of at each step of the background thread, and of *)
(* then() afterwards (futures.py lines 65-76 and 156-192).                 *)
LEMMA ComposeInvariant == Spec => []ComposeInv
<1>1. Init => ComposeInv
  BY DEF Init, ComposeInv
<1>2. Typed /\ SequencesTyped /\ OnceInv /\ ReadyInv /\ ComposeInv /\ [Next]_vars
          => ComposeInv'
  <2> SUFFICES ASSUME Typed, SequencesTyped, OnceInv, ReadyInv, ComposeInv, [Next]_vars
               PROVE  ComposeInv'
    OBVIOUS
  <2>a. /\ upc \in [User -> UserPc] /\ apc \in AsyncPc /\ walked \in Nat
        /\ \A u \in User : upc[u] \in {"append", "apply"} => holds[u] \in Call
    BY DEF Typed, UserTyped, AsyncTyped
  <2> USE <2>a DEF SequencesTyped, OnceInv, ReadyInv, ComposeInv, futureVars,
      resultVars, asyncVars, userVars, history
  <2>1. CASE UNCHANGED vars
    BY <2>1 DEF vars
  <2>2. ASSUME NEW u \in User, UserStarts(u) PROVE ComposeInv'
    <3>1. CASE Evaluate(u) \/ CancelTest(u) \/ DelayTest(u)
      BY <3>1 DEF Evaluate, CancelTest, DelayTest, Goto
    <3>2. CASE StartRemote(u)
      BY <3>2 DEF StartRemote
    <3>3. CASE IfError(u)
      BY <3>3 DEF IfError
    <3>4. ASSUME NEW c \in Call, ThenFuture(u, c) \/ ThenNow(u, c) PROVE ComposeInv'
      BY <3>4 DEF ThenFuture, ThenNow, Goto
    <3>5. ASSUME NEW c \in Call, ThenDefer(u, c) PROVE ComposeInv'
      BY <3>5 DEF ThenDefer, Defer
    <3>6. QED
      BY <2>2, <3>1, <3>2, <3>3, <3>4, <3>5 DEF UserStarts
  <2>3. ASSUME NEW u \in User, UserContinues(u) PROVE ComposeInv'
    <3>1. CASE EvaluateTest(u)
      BY <3>1 DEF EvaluateTest, Goto
    <3>2. CASE TakeChain(u)
      BY <3>2 DEF TakeChain, Goto
    <3>3. CASE DeleteChain(u)
      BY <3>3 DEF DeleteChain, Goto
    <3>4. CASE StartThread(u)
      BY <3>4 DEF StartThread, Goto
    <3>5. CASE DelaySet(u)
      BY <3>5 DEF DelaySet, Goto
    <3>6. CASE CancelSet(u)
      BY <3>6 DEF CancelSet, Goto
    <3>7. CASE ThenAppend(u)
      BY <3>7, MadeOfLonger DEF ThenAppend, Goto
    <3>8. CASE ThenReturns(u)
      BY <3>8, MadeByLast DEF ThenReturns, Goto, Returns
    <3>9. CASE ThenRaises(u)
      BY <3>9 DEF ThenRaises, Goto
    <3>10. QED
      BY <2>3, <3>1, <3>2, <3>3, <3>4, <3>5, <3>6, <3>7, <3>8, <3>9 DEF
         UserContinues
  <2>4. CASE AsyncStep
    <3>1. CASE TestDelay
      BY <3>1 DEF TestDelay, AGoto
    <3>2. CASE Sleep
      BY <3>2 DEF Sleep, AGoto
    <3>3. CASE LoadDelay
      BY <3>3 DEF LoadDelay, AGoto
    <3>4. CASE StoreDelay
      BY <3>4 DEF StoreDelay, AGoto
    <3>5. CASE TestCancelled
      BY <3>5 DEF TestCancelled, AGoto
    <3>6. CASE EndCancelled
      BY <3>6, FaultyWrapper, MadeOfFaulty DEF EndCancelled, AGoto
    <3>7. CASE Complete
      BY <3>7 DEF Complete, AGoto
    <3>8. CASE Uncancel
      BY <3>8 DEF Uncancel, AGoto
    <3>9. CASE CallableReturns
      BY <3>9, FaultyWrapper, MadeOfFaulty, MadeOfNothing DEF CallableReturns, AGoto
    <3>10. CASE ChainReturns
      BY <3>10, MadeOfList DEF ChainReturns, AGoto, Returns
    <3>11. CASE ChainDone
      BY <3>11 DEF ChainDone, AGoto
    <3>12. CASE FutureRaises
      BY <3>12 DEF FutureRaises
    <3>13. CASE HandlerReturns
      BY <3>13, FaultyWrapper, MadeOfFaulty DEF HandlerReturns, AGoto
    <3>14. CASE HandlerRaises
      BY <3>14 DEF HandlerRaises, AGoto
    <3>15. CASE Invoke
      BY <3>15, MadeOfNothing DEF Invoke, AGoto
    <3>16. CASE SetValue
      BY <3>16, FaultyWrapper, MadeOfFaulty, MadeOfListAlone DEF SetValue, AGoto, Failed
    <3>17. CASE ResultHandlerReturns
      BY <3>17, FaultyWrapper, MadeOfFaulty DEF ResultHandlerReturns, AGoto
    <3>18. CASE ResultHandlerRaises
      BY <3>18 DEF ResultHandlerRaises, AGoto
    <3>19. CASE WalkReturns
      <4>1. /\ walked < Len(callchain) /\ value \in Outcomes
            /\ MadeOf(value, chain, callchain, walked) /\ walked' = walked + 1
            /\ value' \in Returns(value, callchain[walked + 1])
            /\ apc = "walk" /\ apc' = IF Failed(value') THEN "clear" ELSE "walk"
            /\ UNCHANGED <<chain, callchain, order, carried>>
        BY <3>19 DEF WalkReturns
      <4>2. MadeOf(value', chain, callchain, walked + 1)
        BY <4>1, MadeByNext
      <4>3. Failed(value') => MadeOf(value', chain, order, Len(order))
        BY FaultyWrapper, MadeOfFaulty DEF Failed
      <4>4. QED
        BY <4>1, <4>2, <4>3
    <3>20. CASE WalkRaises
      BY <3>20, FaultyWrapper, MadeOfFaulty DEF WalkRaises, RemoteRetries,
         RemoteFails
    <3>21. CASE WalkDone
      BY <3>21 DEF WalkDone, AGoto
    <3>22. CASE ClearChain
      BY <3>22 DEF ClearChain, AGoto
    <3>23. CASE Announce
      BY <3>23 DEF Announce, AGoto
    <3>24. QED
      BY <2>4, <3>1, <3>2, <3>3, <3>4, <3>5, <3>6, <3>7, <3>8, <3>9, <3>10, <3>11,
         <3>12, <3>13, <3>14, <3>15, <3>16, <3>17, <3>18, <3>19, <3>20, <3>21,
         <3>22, <3>23 DEF AsyncStep
  <2>5. CASE Bind \/ RemoteRaises
    BY <2>5, FaultyWrapper, MadeOfFaulty DEF Bind, AGoto, RemoteRaises,
       RemoteRetries, RemoteFails
  <2> QED
    BY StepKinds, <2>1, <2>2, <2>3, <2>4, <2>5
<1>3. QED
  BY <1>1, <1>2, TypedInvariant, SequencesInvariant, OnceInvariant, ReadyInvariant, PTL
     DEF Spec

-----------------------------------------------------------------------------
(* Theorems                                                                *)

(* The attributes of the future and of its result, and what the threads    *)
(* know, are of their types (futures.py lines 14-33 and 125-144).          *)
THEOREM TypeCorrect == Spec => []TypeOK
<1>1. FlagsTyped /\ Typed /\ SequencesTyped => TypeOK
  BY Zenon DEF FlagsTyped, Typed, AsyncTyped, UserTyped, SequencesTyped, Outcomes, TypeOK
<1>2. QED
  BY <1>1, FlagsInvariant, TypedInvariant, SequencesInvariant, PTL

(* However many threads call a future, its background thread is started    *)
(* once (futures.py lines 43-48).                                          *)
THEOREM StartedAtMostOnce == Spec => []StartedOnce
<1>1. OnceInv => StartedOnce
  BY DEF OnceInv, StartedOnce
<1>2. QED
  BY <1>1, OnceInvariant, PTL

(* A future that is cancelled in time never calls its callable (futures.py *)
(* lines 45-46 and 56-63).                                                 *)
THEOREM CancellationIsHonoured == Spec => []CancelledInTime
<1>1. CancelInv => CancelledInTime
  BY DEF CancelInv, CancelledInTime
<1>2. QED
  BY <1>1, CancelInvariant, PTL

(* Whoever chains calls, before, while and after the value arrives: those  *)
(* of the result are all made, once and in their order, after the first of *)
(* those of the future (futures.py lines 156-170 and 177-192).             *)
THEOREM CallsAreComposed == Spec => []ComposedInOrder
<1>1. SequencesTyped /\ ReadyInv /\ ComposeInv => ComposedInOrder
  <2> SUFFICES ASSUME SequencesTyped, ReadyInv, ComposeInv, ready, Fault \notin Range(value)
               PROVE  /\ IsSuffix(order, value)
                      /\ IsPrefix(SubSeq(value, 1, Len(value) - Len(order)), chain)
    BY DEF ComposedInOrder
  <2>1. /\ value \in Outcomes /\ order \in Seq(Call) /\ chain \in Seq(Call)
        /\ MadeOf(value, chain, order, Len(order))
    BY DEF SequencesTyped, ReadyInv, ComposeInv
  <2>2. QED
    BY <2>1, MadeInOrder
<1>2. QED
  BY <1>1, SequencesInvariant, ReadyInvariant, ComposeInvariant, PTL

(* All of this at once (futures.py lines 14-213, core lines 868-934).      *)
THEOREM FutureIsKept == Spec => []FutureInv
<1>1. TypeOK /\ StartedOnce /\ ComposedInOrder /\ CancelledInTime => FutureInv
  BY DEF FutureInv
<1>2. QED
  BY <1>1, TypeCorrect, StartedAtMostOnce, CallsAreComposed, CancellationIsHonoured, PTL

(* What a reader has been given stays, but for then() (futures.py lines    *)
(* 156-170 and 184-188).                                                   *)
THEOREM ValueIsFinal == Spec => ReadyIsFinal
<1>1. ReadyInv /\ [Next]_vars
          => [ready /\ value' # value => \E u \in User : upc[u] = "apply"]_vars
  <2> SUFFICES ASSUME ReadyInv, Next, apc = "end"
               PROVE  value' = value \/ \E u \in User : upc[u] = "apply"
    BY DEF ReadyInv
  <2> USE DEF resultVars
  <2>1. ASSUME NEW u \in User, UserStarts(u) PROVE value' = value
    BY <2>1 DEF UserStarts, Evaluate, CancelTest, DelayTest, StartRemote, IfError, ThenFuture,
       ThenDefer, Defer, ThenNow
  <2>2. ASSUME NEW u \in User, UserContinues(u) PROVE value' = value \/ upc[u] = "apply"
    BY <2>2 DEF UserContinues, EvaluateTest, TakeChain, DeleteChain, StartThread, DelaySet,
       CancelSet, ThenAppend, ThenReturns, ThenRaises, Goto
  <2>3. ~AsyncStep
    BY DEF AsyncStep, TestDelay, Sleep, LoadDelay, StoreDelay, TestCancelled, EndCancelled,
       Complete, Uncancel, CallableReturns, ChainReturns, ChainDone, FutureRaises,
       HandlerReturns, HandlerRaises, Invoke, SetValue, ResultHandlerReturns,
       ResultHandlerRaises, WalkReturns, WalkRaises, WalkDone, ClearChain, Announce, AGoto
  <2>4. ~(Bind \/ RemoteRaises)
    BY DEF Bind, RemoteRaises, AGoto
  <2>5. QED
    BY <2>1, <2>2, <2>3, <2>4 DEF Next
<1>2. QED
  BY <1>1, ReadyInvariant, PTL DEF Spec, ReadyIsFinal

-----------------------------------------------------------------------------
(* Batched calls: BatchCall. *)

QueuedCall == [id : Nat, kind : {"works", "fails", "hidden"}]
Order == [calls : Seq(QueuedCall), done : Seq(Nat), ended : {None, "replied", "raised"}]
AdapterCall ==
    [mode : {"sync", "oneway", "async"}, phase : {"starts", "copied", "waits", "over"},
     attempt : Nat, request : Nat, copied : Seq(QueuedCall)]

BatchTyped ==
    /\ callsQueued \in Seq(QueuedCall) /\ added \in Nat
    /\ batches \in Seq(AdapterCall) /\ orders \in Seq(Order)

(* What the daemon has done of an order. *)
OrderRight(o) ==
    LET n == Len(o.done)
    IN  /\ n <= Len(o.calls)
        /\ \A i \in 1 .. n : o.done[i] = o.calls[i].id
        /\ \A i \in 1 .. n : o.calls[i].kind = "works" \/ (i = n /\ o.ended = "replied")
        /\ o.ended = "replied" => n = Len(o.calls) \/ o.calls[n].kind = "fails"

OrdersRight == \A r \in DOMAIN orders : OrderRight(orders[r])

(* Calls are numbered; a later call is another one. *)
CallsNumbered ==
    /\ \A n \in Ids(callsQueued) : n <= added
    /\ \A r \in DOMAIN orders : \A n \in Ids(orders[r].calls) : n <= added

OrdersApart ==
    \A r, q \in DOMAIN orders :
        r # q => Ids(orders[r].calls) \cap Ids(orders[q].calls) \subseteq resent

WaitsFor(x, r) == x.mode # "async" /\ x.phase = "waits" /\ x.request = r

(* The adapter has no calls that were sent before, but for those of the    *)
(* batch that it waits for.                                                *)
QueueApart ==
    \A r \in DOMAIN orders :
        \/ Ids(callsQueued) \cap Ids(orders[r].calls) \subseteq resent
        \/ \E b \in DOMAIN batches : WaitsFor(batches[b], r)

RequestsSent ==
    \A b \in DOMAIN batches : batches[b].phase = "waits" => batches[b].request \in DOMAIN orders

(* The calls of a copy were in the adapter, and may be executed again.     *)
CopiesNoted ==
    \A b \in DOMAIN batches : \A n \in Ids(batches[b].copied) : n <= added /\ n \in resent

BatchIInv ==
    /\ BatchTyped /\ OrdersRight /\ CallsNumbered /\ OrdersApart /\ QueueApart /\ RequestsSent
    /\ CopiesNoted /\ ResultsInOrder

(* The calls of a sequence are those at its places, *)
LEMMA IdsOf ==
    ASSUME NEW s \in Seq(QueuedCall)
    PROVE  Ids(s) = {s[i].id : i \in 1 .. Len(s)} /\ Ids(s) \subseteq Nat
<1>1. ToSet(s) = {s[i] : i \in 1 .. Len(s)}
  BY DEF ToSet
<1>2. \A i \in 1 .. Len(s) : s[i].id \in Nat
  <2>1. \A i \in 1 .. Len(s) : s[i] \in QueuedCall
    OBVIOUS
  <2>2. \A c \in QueuedCall : c.id \in Nat
    BY DEF QueuedCall
  <2>3. QED
    BY <2>1, <2>2
<1>3. Ids(s) = {c.id : c \in ToSet(s)}
  BY DEF Ids
<1>4. ASSUME NEW n \in Ids(s) PROVE n \in {s[i].id : i \in 1 .. Len(s)}
  BY <1>1, <1>3
<1>5. ASSUME NEW i \in 1 .. Len(s) PROVE s[i].id \in Ids(s)
  BY <1>1, <1>3
<1>6. Ids(s) = {s[i].id : i \in 1 .. Len(s)}
  BY <1>4, <1>5
<1>7. QED
  BY <1>2, <1>6

(* with one more at its end after Append, *)
LEMMA IdsAppend ==
    ASSUME NEW s \in Seq(QueuedCall), NEW c \in QueuedCall
    PROVE  Append(s, c) \in Seq(QueuedCall) /\ Ids(Append(s, c)) = Ids(s) \cup {c.id}
<1>1. Append(s, c) \in Seq(QueuedCall) /\ Len(Append(s, c)) = Len(s) + 1 /\ Len(s) \in Nat
  OBVIOUS
<1>2. /\ \A i \in 1 .. Len(s) : Append(s, c)[i] = s[i]
      /\ Append(s, c)[Len(s) + 1] = c
  OBVIOUS
<1>3. 1 .. Len(s) + 1 = (1 .. Len(s)) \cup {Len(s) + 1}
  BY <1>1
<1>4. Ids(s) = {s[i].id : i \in 1 .. Len(s)}
  BY IdsOf
<1>5. Ids(Append(s, c)) = {Append(s, c)[i].id : i \in 1 .. Len(Append(s, c))}
  BY <1>1, IdsOf
<1>6. QED
  BY <1>1, <1>2, <1>3, <1>4, <1>5

(* and none in an empty one. *)
LEMMA IdsEmpty == <<>> \in Seq(QueuedCall) /\ Ids(<<>>) = {}
  BY DEF Ids, ToSet

(* The calls and results of a request that the server has. *)
LEMMA OrderCalls ==
    ASSUME BatchTyped, NEW r \in DOMAIN orders
    PROVE  /\ orders[r] \in Order /\ orders[r].calls \in Seq(QueuedCall)
           /\ orders[r].done \in Seq(Nat)
<1>1. orders[r] \in Order
  BY DEF BatchTyped
<1>2. QED
  BY <1>1 DEF Order

(* The calls that a thread has copied. *)
LEMMA CopyCalls ==
    ASSUME BatchTyped, NEW b \in DOMAIN batches
    PROVE  batches[b].copied \in Seq(QueuedCall) /\ Ids(batches[b].copied) \subseteq Nat
<1>1. batches[b] \in AdapterCall
  BY DEF BatchTyped
<1>2. batches[b].copied \in Seq(QueuedCall)
  BY <1>1 DEF AdapterCall
<1>3. QED
  BY <1>2, IdsOf

(* The daemon's record of done calls is of calls that were sent. *)
LEMMA DoneWasSent ==
    ASSUME BatchTyped, OrdersRight, NEW r \in DOMAIN orders
    PROVE  ToSet(orders[r].done) \subseteq Ids(orders[r].calls)
<1>1. orders[r].calls \in Seq(QueuedCall) /\ orders[r].done \in Seq(Nat)
  BY OrderCalls
<1>2. /\ Len(orders[r].done) <= Len(orders[r].calls)
      /\ \A i \in 1 .. Len(orders[r].done) : orders[r].done[i] = orders[r].calls[i].id
  BY DEF OrdersRight, OrderRight
<1>3. Ids(orders[r].calls) = {orders[r].calls[i].id : i \in 1 .. Len(orders[r].calls)}
  BY <1>1, IdsOf
<1>4. ASSUME NEW n \in ToSet(orders[r].done) PROVE n \in Ids(orders[r].calls)
  <2>1. PICK i \in 1 .. Len(orders[r].done) : n = orders[r].done[i]
    BY <1>1 DEF ToSet
  <2>2. i \in 1 .. Len(orders[r].calls)
    BY <1>1, <1>2
  <2>3. QED
    BY <1>2, <1>3, <2>1, <2>2
<1>5. QED
  BY <1>4

(* The inductive invariant implies the one of the run. *)
LEMMA BatchIInvImplies == BatchIInv => BatchInv
<1> SUFFICES ASSUME BatchIInv PROVE BatchInv
  OBVIOUS
<1>1. ASSUME NEW r \in DOMAIN orders, NEW q \in DOMAIN orders, r # q
      PROVE  ToSet(orders[r].done) \cap ToSet(orders[q].done) \subseteq resent
  BY <1>1, DoneWasSent DEF BatchIInv, OrdersApart
<1>2. QED
  BY <1>1 DEF BatchIInv, BatchInv, ExecutedOnce

(* One batch's entry changes, *)
LEMMA EntryChanges ==
    ASSUME BatchTyped, NEW b \in DOMAIN batches, NEW x \in AdapterCall,
           batches' = [batches EXCEPT ![b] = x]
    PROVE  /\ batches' \in Seq(AdapterCall) /\ DOMAIN batches' = DOMAIN batches
           /\ batches'[b] = x /\ \A c \in DOMAIN batches : c # b => batches'[c] = batches[c]
  BY DEF BatchTyped

(* or another is made. *)
LEMMA EntryMade ==
    ASSUME BatchTyped, NEW x \in AdapterCall, batches' = Append(batches, x)
    PROVE  /\ batches' \in Seq(AdapterCall)
           /\ DOMAIN batches' = DOMAIN batches \cup {Len(batches) + 1}
           /\ batches'[Len(batches) + 1] = x
           /\ \A c \in DOMAIN batches : batches'[c] = batches[c]
  BY DEF BatchTyped

(* A request is one more at the end, with the calls that are sent, and    *)
(* right as it is.                                                         *)
LEMMA OrderSent ==
    ASSUME BatchTyped, NEW calls \in Seq(QueuedCall), orders' = Sent(calls)
    PROVE  /\ orders' \in Seq(Order) /\ Len(orders) + 1 \notin DOMAIN orders
           /\ Len(orders) \in Nat
           /\ DOMAIN orders' = DOMAIN orders \cup {Len(orders) + 1}
           /\ \A r \in DOMAIN orders : orders'[r] = orders[r]
           /\ orders'[Len(orders) + 1].calls = calls
           /\ OrderRight(orders'[Len(orders) + 1])
<1>1. PICK o : o = [calls |-> calls, done |-> <<>>, ended |-> None]
  OBVIOUS
<1>2. o \in Order /\ o.calls = calls /\ o.done = <<>> /\ o.ended = None
  BY <1>1 DEF BatchTyped, Order
<1>3. OrderRight(o)
  BY <1>2, BatchAssumption DEF OrderRight, BatchTyped
<1>4. orders' = Append(orders, o)
  BY <1>1 DEF Sent
<1>5. QED
  BY <1>2, <1>3, <1>4 DEF BatchTyped

(* Calls are sent while the adapter has none that were sent before, or     *)
(* they may be executed again.                                             *)
LEMMA Sends ==
    ASSUME BatchIInv, NEW calls \in Seq(QueuedCall), orders' = Sent(calls),
           \A n \in Ids(calls) : n <= added, callsQueued' \in {callsQueued, <<>>},
           resent \subseteq resent',
           UNCHANGED <<added, outcomes>>,
           batches' \in Seq(AdapterCall), DOMAIN batches \subseteq DOMAIN batches',
           \A r \in DOMAIN orders :
               (Ids(calls) \cup Ids(callsQueued)) \cap Ids(orders[r].calls) \subseteq resent',
           \A b \in DOMAIN batches' :
                batches'[b].phase = "waits" =>
                    batches'[b].request = Len(orders) + 1
                    \/ (b \in DOMAIN batches /\ batches'[b] = batches[b]),
           \A b \in DOMAIN batches' : \A n \in Ids(batches'[b].copied) : n <= added /\ n \in resent',
           \/ callsQueued' = <<>> \/ Ids(calls) \subseteq resent'
           \/ \E b \in DOMAIN batches' : WaitsFor(batches'[b], Len(orders) + 1)
    PROVE  BatchIInv'
<1> DEFINE new == Len(orders) + 1
<1>1. /\ orders' \in Seq(Order) /\ new \notin DOMAIN orders
      /\ DOMAIN orders' = DOMAIN orders \cup {new}
      /\ \A r \in DOMAIN orders : orders'[r] = orders[r]
      /\ orders'[new].calls = calls /\ OrderRight(orders'[new])
  BY OrderSent DEF BatchIInv
<1> HIDE DEF new
<1>2. Ids(callsQueued') \subseteq Ids(callsQueued) /\ callsQueued' \in Seq(QueuedCall)
  BY IdsEmpty DEF BatchIInv, BatchTyped
<1>3. BatchTyped'
  BY <1>1, <1>2 DEF BatchIInv, BatchTyped
<1>4. OrdersRight'
  BY <1>1 DEF BatchIInv, OrdersRight, OrderRight
<1>5. CallsNumbered'
  BY <1>1, <1>2 DEF BatchIInv, CallsNumbered
<1>6. OrdersApart'
  BY <1>1 DEF BatchIInv, OrdersApart
<1>7. QueueApart'
  <2>1. ASSUME NEW r \in DOMAIN orders
        PROVE  Ids(callsQueued') \cap Ids(orders'[r].calls) \subseteq resent'
    BY <1>1, <1>2
  <2>2. \/ Ids(callsQueued') \cap Ids(orders'[new].calls) \subseteq resent'
        \/ \E b \in DOMAIN batches' : WaitsFor(batches'[b], new)
    BY <1>1, IdsEmpty DEF new
  <2>3. QED
    BY <1>1, <2>1, <2>2 DEF QueueApart
<1>8. RequestsSent'
  BY <1>1 DEF BatchIInv, RequestsSent, new
<1>9. ResultsInOrder'
  BY DEF BatchIInv, ResultsInOrder
<1>10. CopiesNoted'
  BY DEF CopiesNoted
<1>11. QED
  BY <1>3, <1>4, <1>5, <1>6, <1>7, <1>8, <1>9, <1>10 DEF BatchIInv

(* Nobody waits: all the adapter's calls are new, or may be executed       *)
(* again.                                                                  *)
LEMMA NotBusy ==
    ASSUME BatchIInv, ~Busy
    PROVE  \A r \in DOMAIN orders : Ids(callsQueued) \cap Ids(orders[r].calls) \subseteq resent
  BY DEF BatchIInv, QueueApart, Busy, Main, WaitsFor

(* A call is added to the adapter. *)
LEMMA Adds ==
    ASSUME BatchIInv, NEW k \in {"works", "fails", "hidden"}, AddCall(k)
    PROVE  BatchIInv'
<1>1. PICK c : c = [id |-> added', kind |-> k]
  OBVIOUS
<1>2. /\ ~Busy /\ added' = added + 1 /\ callsQueued' = Append(callsQueued, c)
      /\ UNCHANGED <<batches, orders, resent, outcomes>>
  BY <1>1 DEF AddCall
<1>3. c \in QueuedCall /\ c.id = added + 1 /\ added \in Nat
  BY <1>1, <1>2 DEF BatchIInv, BatchTyped, QueuedCall
<1>4. callsQueued' \in Seq(QueuedCall) /\ Ids(callsQueued') = Ids(callsQueued) \cup {added + 1}
  BY <1>2, <1>3, IdsAppend DEF BatchIInv, BatchTyped
<1>5. BatchTyped'
  BY <1>2, <1>3, <1>4 DEF BatchIInv, BatchTyped
<1>6. CallsNumbered'
  <2>1. \A n \in Ids(callsQueued) : n <= added + 1
    BY <1>3, IdsOf DEF BatchIInv, BatchTyped, CallsNumbered
  <2>2. ASSUME NEW r \in DOMAIN orders, NEW n \in Ids(orders[r].calls) PROVE n <= added + 1
    <3>1. n \in Nat
      BY OrderCalls, IdsOf DEF BatchIInv
    <3>2. QED
      BY <1>3, <3>1 DEF BatchIInv, CallsNumbered
  <2>3. QED
    BY <1>2, <1>3, <1>4, <2>1, <2>2 DEF CallsNumbered
<1>7. OrdersRight' /\ OrdersApart' /\ RequestsSent' /\ CopiesNoted' /\ ResultsInOrder'
  <2>1. OrdersRight' /\ OrdersApart' /\ RequestsSent' /\ ResultsInOrder'
    BY <1>2 DEF BatchIInv, OrdersRight, OrdersApart, RequestsSent, ResultsInOrder
  <2>2. ASSUME NEW b \in DOMAIN batches, NEW n \in Ids(batches[b].copied)
        PROVE  n <= added + 1 /\ n \in resent
    <3>1. n \in Nat
      BY CopyCalls DEF BatchIInv
    <3>2. n <= added /\ n \in resent
      BY DEF BatchIInv, CopiesNoted
    <3>3. QED
      BY <1>3, <3>1, <3>2
  <2>3. QED
    BY <1>2, <2>1, <2>2 DEF CopiesNoted
<1>8. QueueApart'
  <2>1. \A r \in DOMAIN orders : added + 1 \notin Ids(orders[r].calls)
    <3>1. ASSUME NEW r \in DOMAIN orders, added + 1 \in Ids(orders[r].calls) PROVE FALSE
      BY <1>3, <3>1 DEF BatchIInv, CallsNumbered
    <3>2. QED
      BY <3>1
  <2>2. QED
    BY <1>2, <1>4, <2>1, NotBusy DEF QueueApart
<1>9. QED
  BY <1>5, <1>6, <1>7, <1>8 DEF BatchIInv

(* The adapter is called, or called oneway: a thread of its own executes   *)
(* that.                                                                   *)
LEMMA AdapterCalls ==
    ASSUME BatchIInv, CallBatch \/ CallOneway
    PROVE  BatchIInv'
<1>1. PICK x \in AdapterCall :
        /\ batches' = Append(batches, x) /\ x.request = Len(orders) + 1 /\ x.copied = <<>>
        /\ (x.mode = "sync" /\ x.phase = "waits") \/ (x.phase = "over" /\ callsQueued' = <<>>)
  <2>1. Batch("sync", "waits") \in AdapterCall /\ Batch("oneway", "over") \in AdapterCall
    BY DEF BatchIInv, BatchTyped, Batch, AdapterCall
  <2>2. QED
    BY <2>1 DEF CallBatch, CallOneway, Batch
<1>2. /\ ~Busy /\ orders' = Sent(callsQueued) /\ callsQueued' \in {callsQueued, <<>>}
      /\ UNCHANGED <<added, resent, outcomes>>
  BY DEF CallBatch, CallOneway
<1>3. /\ batches' \in Seq(AdapterCall)
      /\ DOMAIN batches' = DOMAIN batches \cup {Len(batches) + 1}
      /\ batches'[Len(batches) + 1] = x
      /\ \A c \in DOMAIN batches : batches'[c] = batches[c]
  BY <1>1, EntryMade DEF BatchIInv
<1>4. callsQueued' = <<>> \/ \E b \in DOMAIN batches' : WaitsFor(batches'[b], Len(orders) + 1)
  <2>1. CASE x.mode = "sync" /\ x.phase = "waits"
    <3>1. WaitsFor(batches'[Len(batches) + 1], Len(orders) + 1)
      BY <1>1, <1>3, <2>1 DEF WaitsFor
    <3>2. QED
      BY <1>3, <3>1
  <2>2. QED
    BY <1>1, <2>1
<1>5. /\ callsQueued \in Seq(QueuedCall) /\ \A n \in Ids(callsQueued) : n <= added
      /\ \A r \in DOMAIN orders : Ids(callsQueued) \cap Ids(orders[r].calls) \subseteq resent
  BY <1>2, NotBusy DEF BatchIInv, BatchTyped, CallsNumbered
<1>6. ASSUME NEW b \in DOMAIN batches', NEW n \in Ids(batches'[b].copied)
      PROVE  n <= added /\ n \in resent
  BY <1>1, <1>3, <1>6, IdsEmpty DEF BatchIInv, CopiesNoted
<1>7. QED
  BY <1>1, <1>2, <1>3, <1>4, <1>5, <1>6, Sends

(* The adapter is called asynchronously: a copy of its proxy goes on. *)
LEMMA AsyncCalls ==
    ASSUME BatchIInv, CallAsync
    PROVE  BatchIInv'
<1>1. PICK x \in AdapterCall :
        batches' = Append(batches, x) /\ x.phase = "starts" /\ x.copied = <<>>
  <2>1. Batch("async", "starts") \in AdapterCall
    BY DEF BatchIInv, BatchTyped, Batch, AdapterCall
  <2>2. QED
    BY <2>1 DEF CallAsync, Batch
<1>2. UNCHANGED <<callsQueued, added, orders, resent, outcomes>>
  BY DEF CallAsync
<1>3. /\ batches' \in Seq(AdapterCall)
      /\ DOMAIN batches' = DOMAIN batches \cup {Len(batches) + 1}
      /\ batches'[Len(batches) + 1] = x
      /\ \A c \in DOMAIN batches : batches'[c] = batches[c]
  BY <1>1, EntryMade DEF BatchIInv
<1>4. BatchTyped' /\ OrdersRight' /\ CallsNumbered' /\ OrdersApart' /\ ResultsInOrder'
  BY <1>2, <1>3 DEF BatchIInv, BatchTyped, OrdersRight, CallsNumbered, OrdersApart, ResultsInOrder
<1>5. QueueApart'
  BY <1>2, <1>3 DEF BatchIInv, QueueApart, WaitsFor
<1>6. RequestsSent' /\ CopiesNoted'
  BY <1>1, <1>2, <1>3, IdsEmpty DEF BatchIInv, RequestsSent, CopiesNoted
<1>7. QED
  BY <1>4, <1>5, <1>6 DEF BatchIInv

(* Its thread copies the adapter. *)
LEMMA AsyncCopies ==
    ASSUME BatchIInv, NEW b \in DOMAIN batches, CopyAdapter(b)
    PROVE  BatchIInv'
<1>1. batches[b] \in AdapterCall /\ callsQueued \in Seq(QueuedCall)
  BY DEF BatchIInv, BatchTyped
<1>2. PICK x : x = [batches[b] EXCEPT !.phase = "copied", !.copied = callsQueued]
  OBVIOUS
<1>3. /\ x \in AdapterCall /\ x.phase = "copied" /\ x.copied = callsQueued
      /\ x.mode = batches[b].mode /\ x.request = batches[b].request
  BY <1>1, <1>2 DEF AdapterCall
<1>4. /\ batches[b].phase = "starts" /\ batches' = [batches EXCEPT ![b] = x]
      /\ resent' = resent \cup Ids(callsQueued)
      /\ UNCHANGED <<callsQueued, added, orders, outcomes>>
  BY <1>2 DEF CopyAdapter, BatchIInv, BatchTyped
<1>5. /\ batches' \in Seq(AdapterCall) /\ DOMAIN batches' = DOMAIN batches
      /\ batches'[b] = x /\ \A c \in DOMAIN batches : c # b => batches'[c] = batches[c]
  BY <1>3, <1>4, EntryChanges DEF BatchIInv
<1>6. BatchTyped' /\ OrdersRight' /\ CallsNumbered' /\ OrdersApart' /\ ResultsInOrder'
  BY <1>4, <1>5 DEF BatchIInv, BatchTyped, OrdersRight, CallsNumbered, OrdersApart, ResultsInOrder
<1>7. QueueApart'
  BY <1>3, <1>4, <1>5 DEF BatchIInv, QueueApart, WaitsFor
<1>8. RequestsSent' /\ CopiesNoted'
  BY <1>3, <1>4, <1>5 DEF BatchIInv, RequestsSent, CopiesNoted, CallsNumbered
<1>9. QED
  BY <1>6, <1>7, <1>8 DEF BatchIInv

(* An asynchronous batch is sent, perhaps again. *)
LEMMA AsyncSends ==
    ASSUME BatchIInv, NEW b \in DOMAIN batches, SendAsync(b)
    PROVE  BatchIInv'
<1>1. batches[b] \in AdapterCall /\ Len(orders) + 1 \in Nat
  BY DEF BatchIInv, BatchTyped
<1>2. PICK x : x = [batches[b] EXCEPT !.phase = "waits", !.request = Len(orders) + 1]
  OBVIOUS
<1>3. x \in AdapterCall /\ x.request = Len(orders) + 1 /\ x.copied = batches[b].copied
  BY <1>1, <1>2 DEF AdapterCall
<1>4. /\ batches' = [batches EXCEPT ![b] = x] /\ ~Locked /\ orders' = Sent(batches[b].copied)
      /\ UNCHANGED <<callsQueued, added, resent, outcomes>>
  BY <1>2 DEF SendAsync, BatchIInv, BatchTyped
<1>5. /\ batches' \in Seq(AdapterCall) /\ DOMAIN batches' = DOMAIN batches
      /\ batches'[b] = x /\ \A c \in DOMAIN batches : c # b => batches'[c] = batches[c]
  BY <1>3, <1>4, EntryChanges DEF BatchIInv
<1>6. ~Busy
  BY <1>4 DEF Busy, Locked
<1>7. \A r \in DOMAIN orders : Ids(callsQueued) \cap Ids(orders[r].calls) \subseteq resent
  BY <1>6, NotBusy
<1>8. /\ batches[b].copied \in Seq(QueuedCall) /\ Ids(batches[b].copied) \subseteq resent
      /\ \A c \in DOMAIN batches' : \A n \in Ids(batches'[c].copied) : n <= added /\ n \in resent
  BY <1>3, <1>5, CopyCalls DEF BatchIInv, CopiesNoted
<1>9. PICK calls \in Seq(QueuedCall) : calls = batches[b].copied
  BY <1>8
<1>10. /\ orders' = Sent(calls) /\ Ids(calls) \subseteq resent
       /\ \A n \in Ids(calls) : n <= added
  BY <1>4, <1>8, <1>9 DEF BatchIInv, CopiesNoted
<1>11. QED
  BY <1>3, <1>4, <1>5, <1>7, <1>8, <1>10, Sends

(* A batch does not wait any more: it left the adapter empty, or its calls *)
(* may be executed again.                                                  *)
LEMMA WaitEnds ==
    ASSUME BatchIInv, NEW b \in DOMAIN batches, batches[b].phase = "waits",
           NEW x \in AdapterCall, x.phase # "waits", x.copied = batches[b].copied, batches' = [batches EXCEPT ![b] = x],
           UNCHANGED <<added, orders>>, resent \subseteq resent', ResultsInOrder',
           \/ callsQueued' = <<>>
           \/ /\ callsQueued' = callsQueued
              /\ Main(b) => Ids(orders[batches[b].request].calls) \subseteq resent'
    PROVE  BatchIInv'
<1>1. /\ batches' \in Seq(AdapterCall) /\ DOMAIN batches' = DOMAIN batches
      /\ batches'[b] = x /\ \A c \in DOMAIN batches : c # b => batches'[c] = batches[c]
  BY EntryChanges DEF BatchIInv
<1>2. callsQueued' \in Seq(QueuedCall) /\ Ids(callsQueued') \subseteq Ids(callsQueued)
  BY IdsEmpty DEF BatchIInv, BatchTyped
<1>3. BatchTyped' /\ OrdersRight' /\ CallsNumbered' /\ OrdersApart'
  BY <1>1, <1>2 DEF BatchIInv, BatchTyped, OrdersRight, OrderRight, CallsNumbered, OrdersApart
<1>4. QueueApart'
  <2>1. CASE callsQueued' = <<>>
    BY <2>1, IdsEmpty DEF QueueApart
  <2>2. CASE /\ callsQueued' = callsQueued
             /\ Main(b) => Ids(orders[batches[b].request].calls) \subseteq resent'
    <3>1. ASSUME NEW r \in DOMAIN orders
          PROVE  \/ Ids(callsQueued) \cap Ids(orders[r].calls) \subseteq resent'
                 \/ \E c \in DOMAIN batches : WaitsFor(batches'[c], r)
      <4>1. CASE Ids(callsQueued) \cap Ids(orders[r].calls) \subseteq resent
        BY <4>1
      <4>2. ASSUME NEW c \in DOMAIN batches, WaitsFor(batches[c], r), c # b
            PROVE  \E d \in DOMAIN batches : WaitsFor(batches'[d], r)
        BY <1>1, <4>2
      <4>3. CASE WaitsFor(batches[b], r)
        BY <2>2, <4>3 DEF WaitsFor, Main
      <4>4. QED
        BY <4>1, <4>2, <4>3 DEF BatchIInv, QueueApart
    <3>2. QED
      BY <1>1, <2>2, <3>1 DEF QueueApart
  <2>3. QED
    BY <2>1, <2>2
<1>5. RequestsSent' /\ CopiesNoted'
  BY <1>1 DEF BatchIInv, RequestsSent, CopiesNoted
<1>6. QED
  BY <1>3, <1>4, <1>5 DEF BatchIInv

(* An answer to a batch arrives. *)
LEMMA Answers ==
    ASSUME BatchIInv, NEW b \in DOMAIN batches, AnswerBatch(b)
    PROVE  BatchIInv'
<1>1. PICK r \in DOMAIN orders : r = batches[b].request
  BY DEF BatchIInv, RequestsSent, AnswerBatch
<1>2. PICK x : x = [batches[b] EXCEPT !.phase = "over"]
  OBVIOUS
<1>3. batches[b] \in AdapterCall
  BY DEF BatchIInv, BatchTyped
<1>4. x \in AdapterCall /\ x.phase = "over" /\ x.copied = batches[b].copied
  BY <1>2, <1>3 DEF AdapterCall
<1>5. /\ batches[b].phase = "waits" /\ batches' = [batches EXCEPT ![b] = x]
      /\ UNCHANGED <<added, orders>>
  BY <1>2 DEF AnswerBatch, BatchIInv, BatchTyped
<1>6. CASE orders[r].ended = "replied"
  <2>1. PICK o : o = [calls |-> orders[r].calls, results |-> orders[r].done]
    OBVIOUS
  <2>2. /\ outcomes' = outcomes \cup {o} /\ resent' = resent
        /\ callsQueued' = IF Main(b) THEN <<>> ELSE callsQueued
    BY <1>1, <1>6, <2>1 DEF AnswerBatch
  <2>3. ResultsInOrder'
    <3>1. o.calls = orders[r].calls /\ o.results = orders[r].done
      BY <2>1
    <3>2. OrderRight(orders[r])
      BY DEF BatchIInv, OrdersRight
    <3>3. QED
      BY <1>6, <2>2, <3>1, <3>2 DEF BatchIInv, ResultsInOrder, OrderRight
  <2>4. QED
    BY <1>4, <1>5, <2>2, <2>3, WaitEnds
<1>7. CASE orders[r].ended # "replied"
  <2>1. /\ outcomes' = outcomes /\ resent' = resent \cup Ids(orders[r].calls)
        /\ callsQueued' = callsQueued
    BY <1>1, <1>7 DEF AnswerBatch
  <2>2. ResultsInOrder'
    BY <2>1 DEF BatchIInv, ResultsInOrder
  <2>3. QED
    BY <1>1, <1>4, <1>5, <2>1, <2>2, WaitEnds
<1>8. QED
  BY <1>6, <1>7

(* The connection of a batch is lost; what is asynchronous may try again. *)
LEMMA Loses ==
    ASSUME BatchIInv, NEW b \in DOMAIN batches, Lose(b)
    PROVE  BatchIInv'
<1>1. batches[b] \in AdapterCall /\ batches[b].attempt \in Nat
  <2>1. batches[b] \in AdapterCall
    BY DEF BatchIInv, BatchTyped
  <2>2. QED
    BY <2>1 DEF AdapterCall
<1>2. PICK stage \in {"starts", "over"}, tried \in Nat :
        batches' = [batches EXCEPT ![b].phase = stage, ![b].attempt = tried]
  <2>1. PICK stage : stage =
            IF ~Main(b) /\ batches[b].attempt < Retries THEN "starts" ELSE "over"
    OBVIOUS
  <2>2. PICK tried : tried =
            IF ~Main(b) /\ batches[b].attempt < Retries THEN batches[b].attempt + 1
            ELSE batches[b].attempt
    OBVIOUS
  <2>3. stage \in {"starts", "over"} /\ tried \in Nat
    BY <1>1, <2>1, <2>2
  <2>4. batches' = [batches EXCEPT ![b].phase = stage, ![b].attempt = tried]
    BY <2>1, <2>2 DEF Lose, BatchIInv, BatchTyped
  <2>5. QED
    BY <2>3, <2>4
<1>3. PICK x : x = [batches[b] EXCEPT !.phase = stage, !.attempt = tried]
  OBVIOUS
<1>4. x \in AdapterCall /\ x.phase = stage /\ x.copied = batches[b].copied
  BY <1>1, <1>3 DEF AdapterCall
<1>5. batches' = [batches EXCEPT ![b] = x]
  BY <1>2, <1>3 DEF BatchIInv, BatchTyped
<1>6. /\ batches[b].phase = "waits"
      /\ resent' = resent \cup Ids(orders[batches[b].request].calls)
      /\ UNCHANGED <<callsQueued, added, orders, outcomes>>
  BY DEF Lose
<1>7. ResultsInOrder'
  BY <1>6 DEF BatchIInv, ResultsInOrder
<1>8. QED
  BY <1>4, <1>5, <1>6, <1>7, WaitEnds

(* The daemon goes on with an order. *)
LEMMA OrderAdvances ==
    ASSUME BatchIInv, NEW r \in DOMAIN orders, NEW x \in Order, x.calls = orders[r].calls,
           OrderRight(x), orders' = [orders EXCEPT ![r] = x],
           UNCHANGED <<callsQueued, added, batches, resent, outcomes>>
    PROVE  BatchIInv'
<1>1. /\ orders' \in Seq(Order) /\ DOMAIN orders' = DOMAIN orders /\ orders'[r] = x
      /\ \A q \in DOMAIN orders : q # r => orders'[q] = orders[q]
  BY DEF BatchIInv, BatchTyped
<1>2. \A q \in DOMAIN orders : orders'[q].calls = orders[q].calls
  BY <1>1
<1>3. BatchTyped' /\ OrdersRight'
  BY <1>1 DEF BatchIInv, BatchTyped, OrdersRight
<1>4. CallsNumbered' /\ OrdersApart' /\ QueueApart' /\ RequestsSent' /\ ResultsInOrder'
  BY <1>1, <1>2 DEF BatchIInv, CallsNumbered, OrdersApart, QueueApart, WaitsFor, RequestsSent,
                    ResultsInOrder
<1>5. CopiesNoted'
  BY DEF BatchIInv, CopiesNoted
<1>6. QED
  BY <1>3, <1>4, <1>5 DEF BatchIInv

(* The server executes the next call of a batch. *)
LEMMA BatchExecutes ==
    ASSUME BatchIInv, NEW r \in DOMAIN orders, ExecuteBatch(r)
    PROVE  BatchIInv'
<1>1. /\ orders[r] \in Order /\ orders[r].calls \in Seq(QueuedCall)
      /\ orders[r].done \in Seq(Nat) /\ OrderRight(orders[r])
  BY OrderCalls DEF BatchIInv, OrdersRight
<1>2. PICK n \in Nat : n = Len(orders[r].done)
  BY <1>1
<1>3. PICK c : c = orders[r].calls[n + 1]
  OBVIOUS
<1>4. /\ orders[r].ended = None /\ n < Len(orders[r].calls)
      /\ c \in QueuedCall
  <2>1. orders[r].ended = None /\ n < Len(orders[r].calls)
    BY <1>2 DEF ExecuteBatch
  <2>2. n + 1 \in 1 .. Len(orders[r].calls)
    BY <1>1, <2>1
  <2>3. QED
    BY <1>1, <1>3, <2>1, <2>2
<1>5. c.id \in Nat /\ c.kind \in {"works", "fails", "hidden"}
  BY <1>4 DEF QueuedCall
<1>6. PICK done : done = IF c.kind = "hidden" THEN orders[r].done
                         ELSE Append(orders[r].done, c.id)
  OBVIOUS
<1>7. PICK ended : ended = CASE c.kind = "works" -> None
                             [] c.kind = "fails" -> "replied"
                             [] c.kind = "hidden" -> "raised"
  OBVIOUS
<1>8. done \in Seq(Nat) /\ ended \in {None, "replied", "raised"}
  BY <1>1, <1>5, <1>6, <1>7
<1>9. PICK x : x = [orders[r] EXCEPT !.done = done, !.ended = ended]
  OBVIOUS
<1>10. x \in Order /\ x.calls = orders[r].calls /\ x.done = done /\ x.ended = ended
  BY <1>1, <1>8, <1>9 DEF Order
<1>11. orders' = [orders EXCEPT ![r].done = done, ![r].ended = ended]
  BY <1>2, <1>3, <1>6, <1>7 DEF ExecuteBatch, BatchIInv, BatchTyped
<1>12. orders' = [orders EXCEPT ![r] = x]
  BY <1>9, <1>11 DEF BatchIInv, BatchTyped
<1>13. OrderRight(x)
  <2>1. /\ \A i \in 1 .. n : orders[r].done[i] = orders[r].calls[i].id
        /\ \A i \in 1 .. n : orders[r].calls[i].kind = "works"
    BY <1>1, <1>2, <1>4, BatchAssumption DEF OrderRight
  <2>2. CASE c.kind = "hidden"
    <3>1. done = orders[r].done /\ ended = "raised"
      BY <1>6, <1>7, <2>2
    <3>2. QED
      BY <1>2, <1>4, <1>10, <2>1, <3>1 DEF OrderRight
  <2>3. CASE c.kind # "hidden"
    <3>1. /\ done = Append(orders[r].done, c.id) /\ Len(done) = n + 1
          /\ \A i \in 1 .. n : done[i] = orders[r].done[i]
          /\ done[n + 1] = c.id
      BY <1>1, <1>2, <1>5, <1>6, <2>3
    <3>2. (c.kind = "works" /\ ended = None) \/ (c.kind = "fails" /\ ended = "replied")
      BY <1>5, <1>7, <2>3
    <3>3. Len(orders[r].calls) \in Nat /\ n + 1 <= Len(orders[r].calls)
      BY <1>1, <1>4
    <3>4. ASSUME NEW i \in 1 .. n + 1
          PROVE  /\ done[i] = orders[r].calls[i].id
                 /\ orders[r].calls[i].kind = "works" \/ (i = n + 1 /\ ended = "replied")
      <4>1. CASE i = n + 1
        BY <1>3, <3>1, <3>2, <4>1
      <4>2. CASE i \in 1 .. n
        BY <2>1, <3>1, <4>2
      <4>3. QED
        BY <4>1, <4>2
    <3>5. ended = "replied" => orders[r].calls[n + 1].kind = "fails"
      BY <1>3, <3>2, BatchAssumption
    <3>6. QED
      BY <1>10, <3>1, <3>3, <3>4, <3>5 DEF OrderRight
  <2>4. QED
    BY <2>2, <2>3
<1>14. QED
  BY <1>10, <1>12, <1>13, OrderAdvances DEF ExecuteBatch

(* The server has executed all calls of a batch, or one has failed. *)
LEMMA CompletesOrder ==
    ASSUME BatchIInv, NEW r \in DOMAIN orders, Executed(r)
    PROVE  BatchIInv'
<1>1. orders[r] \in Order /\ OrderRight(orders[r]) /\ orders[r].ended = None
  BY OrderCalls DEF BatchIInv, OrdersRight, Executed
<1>2. PICK x : x = [orders[r] EXCEPT !.ended = "replied"]
  OBVIOUS
<1>3. /\ x \in Order /\ x.calls = orders[r].calls /\ x.done = orders[r].done
      /\ x.ended = "replied"
  BY <1>1, <1>2 DEF Order
<1>4. orders' = [orders EXCEPT ![r] = x] /\ Len(orders[r].done) = Len(orders[r].calls)
      /\ UNCHANGED <<callsQueued, added, batches, resent, outcomes>>
  BY <1>2 DEF Executed, BatchIInv, BatchTyped
<1>5. OrderRight(x)
  BY <1>1, <1>3, <1>4, BatchAssumption DEF OrderRight
<1>6. QED
  BY <1>3, <1>4, <1>5, OrderAdvances

(* Every step of batched calls keeps the invariant. *)
LEMMA BatchNextKeeps == BatchIInv /\ [BatchNext]_batchVars => BatchIInv'
<1> SUFFICES ASSUME BatchIInv, [BatchNext]_batchVars PROVE BatchIInv'
  OBVIOUS
<1>1. CASE UNCHANGED batchVars
  <2>1. UNCHANGED <<callsQueued, added, batches, orders, resent, outcomes>>
    BY <1>1 DEF batchVars
  <2>2. QED
    BY <2>1 DEF BatchIInv, BatchTyped, OrdersRight, CallsNumbered, OrdersApart, QueueApart,
                RequestsSent, CopiesNoted, ResultsInOrder
<1>2. ASSUME NEW k \in {"works", "fails", "hidden"}, AddCall(k) PROVE BatchIInv'
  BY <1>2, Adds
<1>3. CASE CallBatch \/ CallOneway \/ CallAsync
  BY <1>3, AdapterCalls, AsyncCalls
<1>4. ASSUME NEW b \in DOMAIN batches, CopyAdapter(b) \/ SendAsync(b) \/ AnswerBatch(b) \/ Lose(b)
      PROVE  BatchIInv'
  BY <1>4, AsyncCopies, AsyncSends, Answers, Loses
<1>5. ASSUME NEW r \in DOMAIN orders, ExecuteBatch(r) \/ Executed(r) PROVE BatchIInv'
  BY <1>5, BatchExecutes, CompletesOrder
<1>6. QED
  BY <1>1, <1>2, <1>3, <1>4, <1>5 DEF BatchNext

(* BatchInv for any number of calls, batches and retries: the ids of the   *)
(* calls tell the batches apart, as the adapter is emptied after a batch   *)
(* unless that failed or is asynchronous (core lines 810-885 and           *)
(* 1390-1452).                                                             *)
THEOREM BatchesAreOrdered == BatchSpec => []BatchInv
<1>1. BatchInit => BatchIInv
  <2> SUFFICES ASSUME BatchInit PROVE BatchIInv
    OBVIOUS
  <2>1. BatchTyped
    BY DEF BatchInit, BatchTyped
  <2>2. CallsNumbered
    BY IdsEmpty DEF BatchInit, CallsNumbered
  <2>3. QED
    BY <2>1, <2>2 DEF BatchInit, BatchIInv, OrdersRight, OrdersApart, QueueApart, RequestsSent,
                      CopiesNoted, ResultsInOrder
<1>2. QED
  BY <1>1, BatchNextKeeps, BatchIInvImplies, PTL DEF BatchSpec

-----------------------------------------------------------------------------
(* What a proxy knows of its object: ExposedMembers. *)

(* What get_exposed_members finds with only_exposed. *)
MethodsFor(only) ==
    {m \in Member : ~IsPrivate(m) /\ IsMethod(m) /\ (<<m, "call">> \in tagged \/ ~only)}
AttrsFor(only) ==
    {m \in Member : ~IsPrivate(m) /\ IsProperty(m) /\ (<<m, FirstOf(m)>> \in tagged \/ ~only)}

(* Before the class is there nobody knows anything of it. *)
ClassTyped ==
    /\ requireExpose \in BOOLEAN
    /\ cache \in [BOOLEAN \X BOOLEAN -> {cache[k] : k \in BOOLEAN \X BOOLEAN}]
    /\ outdated \in [BOOLEAN -> BOOLEAN]
    /\ members # None => members \in [Member -> Shapes]
    /\ members = None =>
        methods = {} /\ attrs = {} /\ \A k \in BOOLEAN \X BOOLEAN : cache[k] = None

(* What is cached holds of the class until that changes. *)
CacheHolds ==
    \A only, lists \in BOOLEAN :
        cache[<<only, lists>>] # None /\ ~outdated[only] =>
            /\ cache[<<only, lists>>].methods = MethodsFor(only)
            /\ cache[<<only, lists>>].attrs = AttrsFor(only)

(* What a proxy knows holds until the class or the configuration changes. *)
ProxyHolds ==
    methods \cup attrs # {} /\ ~stale =>
        methods = MethodsFor(requireExpose) /\ attrs = AttrsFor(requireExpose)

ExposedIInv == ClassTyped /\ CacheHolds /\ ProxyHolds

LEMMA ClassChangesKeeps ==
    ASSUME ExposedIInv, ClassChanges
    PROVE  ExposedIInv'
<1>1. /\ UNCHANGED <<members, methods, attrs, requireExpose, cache>> /\ stale' = TRUE /\ members # None
      /\ outdated' = [k \in BOOLEAN |-> outdated[k] \/ \E l \in BOOLEAN : cache[<<k, l>>] # None]
  BY DEF ClassChanges, Change, proxyVars
<1>2. ClassTyped' /\ ProxyHolds'
  BY <1>1 DEF ExposedIInv, ClassTyped, ProxyHolds
<1>3. CacheHolds'
  BY <1>1 DEF CacheHolds
<1> QED
  BY <1>2, <1>3 DEF ExposedIInv

LEMMA SetRequireExposeKeeps ==
    ASSUME ExposedIInv, SetRequireExpose
    PROVE  ExposedIInv'
<1>1. UNCHANGED <<members, tagged, methods, attrs, cache, outdated>> /\ stale' = TRUE /\ members # None
      /\ requireExpose' = ~requireExpose
  BY DEF SetRequireExpose, Change, proxyVars
<1>2. ClassTyped' /\ ProxyHolds'
  BY <1>1 DEF ExposedIInv, ClassTyped, ProxyHolds
<1>3. CacheHolds'
  BY <1>1 DEF ExposedIInv, CacheHolds, MethodsFor, AttrsFor, IsMethod, IsProperty, FirstOf
<1> QED
  BY <1>2, <1>3 DEF ExposedIInv

LEMMA ResetKeeps ==
    ASSUME ExposedIInv, ResetMetadataCache
    PROVE  ExposedIInv'
<1>1. /\ UNCHANGED <<members, tagged, requireExpose, methods, attrs, stale>> /\ members # None
      /\ cache' = [k \in BOOLEAN \X BOOLEAN |-> IF k[1] = requireExpose THEN None ELSE cache[k]]
      /\ outdated' = [outdated EXCEPT ![requireExpose] = FALSE]
  BY DEF ResetMetadataCache, Reset, proxyVars
<1>2. ClassTyped'
  BY <1>1 DEF ExposedIInv, ClassTyped
<1>3. ProxyHolds'
  BY <1>1 DEF ExposedIInv, ProxyHolds, MethodsFor, AttrsFor, IsMethod, IsProperty, FirstOf
<1>4. CacheHolds'
  <2>1. SUFFICES ASSUME NEW only \in BOOLEAN, NEW lists \in BOOLEAN,
                        cache'[<<only, lists>>] # None, ~outdated'[only]
                 PROVE  /\ cache'[<<only, lists>>].methods = MethodsFor(only)'
                        /\ cache'[<<only, lists>>].attrs = AttrsFor(only)'
    BY DEF CacheHolds
  <2>2. only # requireExpose /\ cache'[<<only, lists>>] = cache[<<only, lists>>] /\ ~outdated[only]
    BY <1>1, <2>1 DEF ExposedIInv, ClassTyped
  <2> QED
    BY <1>1, <2>1, <2>2 DEF ExposedIInv, CacheHolds, MethodsFor, AttrsFor, IsMethod, IsProperty, FirstOf
<1> QED
  BY <1>2, <1>3, <1>4 DEF ExposedIInv

LEMMA GetMetadataKeeps ==
    ASSUME ExposedIInv, NEW lists \in BOOLEAN, members # None, GetMetadata(lists)
    PROVE  ExposedIInv'
<1>1. PICK known : known = Metadata(lists)
  OBVIOUS
<1>2. PICK re \in BOOLEAN : re = requireExpose
  BY DEF ExposedIInv, ClassTyped
<1>3. /\ UNCHANGED <<members, tagged, requireExpose, outdated>>
      /\ cache' = [cache EXCEPT ![<<re, lists>>] = known]
      /\ methods' = known.methods /\ attrs' = known.attrs /\ stale' = outdated[re]
  BY <1>1, <1>2 DEF GetMetadata
<1>4. ~outdated[re] => known.methods = MethodsFor(re) /\ known.attrs = AttrsFor(re)
  <2>1. CASE cache[<<re, lists>>] # None
    BY <1>1, <1>2, <2>1 DEF ExposedIInv, CacheHolds, Metadata
  <2>2. CASE cache[<<re, lists>>] = None
    BY <1>1, <1>2, <2>2 DEF Metadata, ExposedMethods, ExposedAttrs, MethodsFor, AttrsFor, Tagged
  <2> QED
    BY <2>1, <2>2
<1>5. \A only \in BOOLEAN : MethodsFor(only)' = MethodsFor(only) /\ AttrsFor(only)' = AttrsFor(only)
  BY <1>3 DEF MethodsFor, AttrsFor, IsMethod, IsProperty, FirstOf
<1>6. ClassTyped'
  BY <1>2, <1>3 DEF ExposedIInv, ClassTyped
<1>7. ProxyHolds'
  BY <1>2, <1>3, <1>4, <1>5 DEF ProxyHolds
<1>8. CacheHolds'
  <2>1. SUFFICES ASSUME NEW only \in BOOLEAN, NEW l \in BOOLEAN,
                        cache'[<<only, l>>] # None, ~outdated[only]
                 PROVE  /\ cache'[<<only, l>>].methods = MethodsFor(only)
                        /\ cache'[<<only, l>>].attrs = AttrsFor(only)
    BY <1>3, <1>5 DEF CacheHolds
  <2>2. CASE only = re /\ l = lists
    BY <1>3, <1>4, <2>1, <2>2 DEF ExposedIInv, ClassTyped
  <2>3. CASE ~(only = re /\ l = lists)
    <3>1. cache'[<<only, l>>] = cache[<<only, l>>]
      BY <1>3, <2>3 DEF ExposedIInv, ClassTyped
    <3> QED
      BY <2>1, <3>1 DEF ExposedIInv, CacheHolds
  <2> QED
    BY <2>2, <2>3
<1> QED
  BY <1>6, <1>7, <1>8 DEF ExposedIInv

LEMMA ProxyStays ==
    ASSUME ExposedIInv,
           UNCHANGED <<members, tagged, requireExpose, cache, methods, attrs, outdated, stale>>
    PROVE  ExposedIInv'
<1>1. \A only \in BOOLEAN : MethodsFor(only)' = MethodsFor(only) /\ AttrsFor(only)' = AttrsFor(only)
  BY DEF MethodsFor, AttrsFor, IsMethod, IsProperty, FirstOf
<1>2. ClassTyped'
  BY DEF ExposedIInv, ClassTyped
<1>3. CacheHolds'
  BY <1>1 DEF ExposedIInv, CacheHolds
<1>4. ProxyHolds'
  <2>1. PICK re \in BOOLEAN : re = requireExpose
    BY DEF ExposedIInv, ClassTyped
  <2>2. MethodsFor(re)' = MethodsFor(re) /\ AttrsFor(re)' = AttrsFor(re)
    BY <1>1
  <2> QED
    BY <2>1, <2>2 DEF ExposedIInv, ProxyHolds
<1> QED
  BY <1>2, <1>3, <1>4 DEF ExposedIInv

LEMMA DefineKeeps ==
    ASSUME ExposedIInv, Define
    PROVE  ExposedIInv'
<1>1. /\ members = None /\ members' \in [Member -> Shapes]
      /\ UNCHANGED <<tagged, requireExpose, cache, methods, attrs, outdated, stale>>
  BY DEF Define, proxyVars
<1>2. methods = {} /\ attrs = {} /\ \A k \in BOOLEAN \X BOOLEAN : cache[k] = None
  BY <1>1 DEF ExposedIInv, ClassTyped
<1>3. ClassTyped'
  BY <1>1, <1>2 DEF ExposedIInv, ClassTyped
<1>4. CacheHolds'
  <2>1. \A only, lists \in BOOLEAN : <<only, lists>> \in BOOLEAN \X BOOLEAN
    OBVIOUS
  <2>2. \A only, lists \in BOOLEAN : cache'[<<only, lists>>] = None
    BY <1>1, <1>2, <2>1
  <2> QED
    BY <2>2 DEF CacheHolds
<1>5. ProxyHolds'
  BY <1>1, <1>2 DEF ProxyHolds
<1> QED
  BY <1>3, <1>4, <1>5 DEF ExposedIInv

LEMMA ExposedBegins == ExposedInit => ExposedIInv
  BY DEF ExposedInit, ExposedIInv, ClassTyped, CacheHolds, ProxyHolds

(* The proxy and the daemon judge alike by what holds of the class. *)
LEMMA AgreesByClass ==
    ASSUME ExposedIInv
    PROVE  ProxyAgrees
<1>1. SUFFICES ASSUME methods \cup attrs # {}, ~stale, NEW op \in Access, NEW m \in Member
               PROVE  /\ Passes(op, m) /\ Accessor(op) \in members[m].parts => Executes(op, m)
                      /\ Executes(op, m) /\ ~IsPrivate(m) =>
                            Passes(op, m) \/ (op = "call" /\ ~IsMethod(m))
  BY DEF ProxyAgrees
<1>2. members[m] \in Shapes
  BY <1>1 DEF ExposedIInv, ClassTyped
<1>3. /\ m \in methods <=> ~IsPrivate(m) /\ IsMethod(m) /\ Tagged(m, "call")
      /\ m \in attrs <=> ~IsPrivate(m) /\ IsProperty(m) /\ Tagged(m, FirstOf(m))
  BY <1>1 DEF ExposedIInv, ProxyHolds, MethodsFor, AttrsFor, Tagged
<1>4. CASE op = "call"
  <2>1. "call" \in members[m].parts => IsMethod(m)
    BY <1>2 DEF Shapes, IsMethod
  <2> QED
    BY <1>3, <1>4, <2>1 DEF Passes, Accessor, Executes, Callable
<1>5. CASE op = "get"
  <2>1. "fget" \in members[m].parts => FirstOf(m) = "fget" /\ IsProperty(m)
    BY DEF FirstOf, IsProperty
  <2> QED
    BY <1>3, <1>5, <2>1 DEF Passes, Accessor, Executes
<1>6. CASE op = "set"
  <2>1. "fset" \in members[m].parts => IsProperty(m)
    BY DEF IsProperty
  <2> QED
    BY <1>3, <1>6, <2>1 DEF Passes, Accessor, Executes
<1> QED
  BY <1>4, <1>5, <1>6 DEF Access

(* A proxy that learned the members after the last change lets pass what   *)
(* the daemon executes, but for a callable that is no method, and nothing  *)
(* else that the member has a function for -- for any members, tags,       *)
(* changes, resets and connections.                                        *)
THEOREM ProxiesAgree == ExposedSpec => []ProxyAgrees
<1>1. ASSUME ExposedIInv, [ExposedNext]_exposedVars
      PROVE  ExposedIInv'
  <2>1. CASE Define
    BY <1>1, <2>1, DefineKeeps
  <2>2. CASE ExposeClass \/ \E m \in Member : Expose(m)
    BY <1>1, <2>2, ClassChangesKeeps DEF ExposeClass, Expose
  <2>3. CASE SetRequireExpose
    BY <1>1, <2>3, SetRequireExposeKeeps
  <2>4. CASE ResetMetadataCache
    BY <1>1, <2>4, ResetKeeps
  <2>5. CASE BindProxy \/ AskMetadata
    BY <1>1, <2>5, GetMetadataKeeps DEF BindProxy, AskMetadata
  <2>6. CASE Release \/ ConnectSocket
    BY <1>1, <2>6, ProxyStays DEF Release, ConnectSocket
  <2>7. CASE UNCHANGED exposedVars
    BY <1>1, <2>7, ProxyStays DEF exposedVars, proxyVars
  <2> QED
    BY <1>1, <2>1, <2>2, <2>3, <2>4, <2>5, <2>6, <2>7 DEF ExposedNext
<1> QED
  BY <1>1, ExposedBegins, AgreesByClass, PTL DEF ExposedSpec
=============================================================================
