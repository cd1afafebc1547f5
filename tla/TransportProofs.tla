-------------------------- MODULE TransportProofs ---------------------------
(***************************************************************************)
(* Proofs about what carries a call and about those who serve it: the pool *)
(* of worker threads, the messages of the wire protocol, the stream that   *)
(* they are cut from, the values in the serializers, and the message bus,  *)
(* for any numbers of workers, messages, subscribers and retries, any      *)
(* classes and any sizes.                                                  *)
(***************************************************************************)
EXTENDS
    ThreadPool, WireMessage, MessageStream, MessageBus, Serializing,
    FiniteSetTheorems, SequenceTheorems, WellFoundedInduction, TLAPS

-----------------------------------------------------------------------------
(* The worker pool: ThreadPool. *)

(* What a worker does before it has read its job, and after it erased it. *)
Before == {"wait", "clear", "test"}
After  == {"member", "remove", "closed?", "count", "add", "poison", "signal"}

(* The job that process() holds, and the worker it has chosen for it.      *)
OfferedInv ==
    /\ apc \in {"idle?", "pop", "count", "compare", "add", "assign"} =>
           offered \in Job /\ status[offered] = "offered"
    /\ apc \in {"add", "assign"} =>
           /\ wpc[picked] \in Before \cup {"dead"}
           /\ job[picked] = None /\ picked \notin idle

(* An idle worker has no job and is not counted as busy. *)
IdleInv ==
    \A w \in idle : /\ wpc[w] \in Before \cup {"dead"}
                    /\ job[w] = None /\ w \notin busy

(* A worker on its way back has no job, and once removed is in no set. *)
BackInv ==
    \A w \in Worker : /\ wpc[w] \in After => job[w] = None
                      /\ wpc[w] \in {"closed?", "count", "add", "unborn"} =>
                             w \notin idle /\ w \notin busy

(* The history agrees with what the workers hold. *)
StatusInv ==
    \A w \in Worker :
        /\ running[w] # None => wpc[w] = "run" /\ status[running[w]] = "running"
        /\ wpc[w] \in Before \cup {"call"} /\ job[w] # None =>
               status[job[w]] = "queued"

BaseInv == OfferedInv /\ IdleInv /\ BackInv /\ StatusInv /\ OneWorkerPerJob

(* While nobody closes the pool: the event of a worker is set only between *)
(* SignalJob (or SignalSelf) and ClearEvent, and the worker that process() *)
(* is handing a job to still waits.                                        *)
EventInv == \A w \in Worker : event[w] => wpc[w] \in {"wait", "clear"}

HandInv ==
    /\ apc \in {"add", "assign", "signal"} => wpc[picked] = "wait" /\ ~event[picked]
    /\ apc \in {"assign", "signal"} => picked \in busy
    /\ \A w \in Worker : wpc[w] = "remove" => w \in busy

OpenInv ==
    ~Closing => EventInv /\ HandInv /\ IdleReady /\ JobKept /\ MinimumKept

-----------------------------------------------------------------------------
(* process() knows its worker once it has chosen one; TypeOK alone is not  *)
(* inductive, since AddBusy adds picked to a set of workers.               *)
PickedInv ==
    IF apc \in {"add", "assign", "signal"} THEN picked \in Worker ELSE picked = None

Typed == TypeOK /\ PickedInv

LEMMA TypedInvariant == Spec => []Typed
<1>1. Init => Typed
  <2> SUFFICES ASSUME Init PROVE Typed
    OBVIOUS
  <2>1. wpc \in [Worker -> WorkerPc]
    BY DEF Init, WorkerPc
  <2>2. apc \in ProcPc /\ cpc \in [Closer -> ClosePc]
    BY DEF Init, ProcPc, ClosePc
  <2> QED
    BY <2>1, <2>2 DEF Init, Typed, PickedInv, TypeOK
<1>2. Typed /\ [Next]_vars => Typed'
  <2> SUFFICES ASSUME Typed, [Next]_vars PROVE Typed'
    OBVIOUS
  <2> USE DEF Typed, PickedInv, TypeOK, WorkerPc, ProcPc, ClosePc, vars, poolVars, workerVars,
              procVars, closeVars
  <2>1. ASSUME NEW j \in Job, Offer(j) PROVE Typed'
    BY <2>1 DEF Offer
  <2>2. ASSUME TestIdle PROVE Typed'
    BY <2>2 DEF TestIdle
  <2>3. ASSUME PopIdle PROVE Typed'
    BY <2>3 DEF PopIdle
  <2>4. ASSUME PopEmpty PROVE Typed'
    BY <2>4 DEF PopEmpty
  <2>5. ASSUME SpawnWorker PROVE Typed'
    BY <2>5 DEF SpawnWorker
  <2>6. ASSUME Deny PROVE Typed'
    BY <2>6 DEF Deny
  <2>7. ASSUME AddBusy PROVE Typed'
    BY <2>7 DEF AddBusy
  <2>8. ASSUME AssignJob PROVE Typed'
    BY <2>8 DEF AssignJob
  <2>9. ASSUME SignalJob PROVE Typed'
    BY <2>9 DEF SignalJob
  <2>10. ASSUME NEW w \in Worker, WaitEvent(w) PROVE Typed'
    BY <2>10 DEF WaitEvent, Goto
  <2>11. ASSUME NEW w \in Worker, ClearEvent(w) PROVE Typed'
    BY <2>11 DEF ClearEvent, Goto
  <2>12. ASSUME NEW w \in Worker, TestJob(w) PROVE Typed'
    BY <2>12 DEF TestJob, Goto
  <2>13. ASSUME NEW w \in Worker, CallJob(w) PROVE Typed'
    BY <2>13 DEF CallJob, Goto
  <2>14. ASSUME NEW w \in Worker, EndJob(w) PROVE Typed'
    BY <2>14 DEF EndJob, Goto
  <2>15. ASSUME NEW w \in Worker, ResetJob(w) PROVE Typed'
    BY <2>15 DEF ResetJob, Goto
  <2>16. ASSUME NEW w \in Worker, TestMember(w) PROVE Typed'
    BY <2>16 DEF TestMember, Goto
  <2>17. ASSUME NEW w \in Worker, RemoveBusy(w) PROVE Typed'
    BY <2>17 DEF RemoveBusy, Goto
  <2>18. ASSUME NEW w \in Worker, TestClosed(w) PROVE Typed'
    BY <2>18 DEF TestClosed, Goto
  <2>19. ASSUME NEW w \in Worker, CountIdle(w) PROVE Typed'
    BY <2>19 DEF CountIdle, Goto
  <2>20. ASSUME NEW w \in Worker, AddIdle(w) PROVE Typed'
    BY <2>20 DEF AddIdle, Goto
  <2>21. ASSUME NEW w \in Worker, PoisonSelf(w) PROVE Typed'
    BY <2>21 DEF PoisonSelf, Goto
  <2>22. ASSUME NEW w \in Worker, SignalSelf(w) PROVE Typed'
    BY <2>22 DEF SignalSelf, Goto
  <2>23. ASSUME NEW c \in Closer, CloseTest(c) PROVE Typed'
    BY <2>23 DEF CloseTest, CloseGoto
  <2>24. ASSUME NEW c \in Closer, CloseListBusy(c) PROVE Typed'
    BY <2>24 DEF CloseListBusy, CloseGoto
  <2>25. ASSUME NEW c \in Closer, StopWorker(c) PROVE Typed'
    BY <2>25 DEF StopWorker, CloseGoto
  <2>26. ASSUME NEW c \in Closer, StopSignal(c) PROVE Typed'
    BY <2>26 DEF StopSignal, CloseGoto
  <2>27. ASSUME NEW c \in Closer, CloseListIdle(c) PROVE Typed'
    BY <2>27 DEF CloseListIdle, CloseGoto
  <2>28. ASSUME NEW c \in Closer, CloseMark(c) PROVE Typed'
    BY <2>28 DEF CloseMark, CloseGoto
  <2>29. ASSUME NEW c \in Closer, CloseSwapIdle(c) PROVE Typed'
    BY <2>29 DEF CloseSwapIdle, CloseGoto
  <2>30. ASSUME NEW c \in Closer, CloseSwapBusy(c) PROVE Typed'
    BY <2>30 DEF CloseSwapBusy, CloseGoto
  <2>31. ASSUME CountBusy PROVE Typed'
    <3>1. Cardinality(busy) \in Nat
      BY WorkerAssumption, FS_CardinalityType, FS_Subset
    <3> QED BY <2>31, <3>1 DEF CountBusy
  <2>32. CASE UNCHANGED vars
    BY <2>32
  <2> QED
    BY <2>1, <2>2, <2>3, <2>4, <2>5, <2>6, <2>7, <2>8, <2>9, <2>10, <2>11,
       <2>12, <2>13, <2>14, <2>15, <2>16, <2>17, <2>18, <2>19, <2>20, <2>21,
       <2>22, <2>23, <2>24, <2>25, <2>26, <2>27, <2>28, <2>29, <2>30, <2>31,
       <2>32 DEF Next, Process, WorkerStep, CloseStep
<1> QED
  BY <1>1, <1>2, PTL DEF Spec

(* Type correctness: every variable keeps to its domain. *)
THEOREM TypeCorrect == Spec => []TypeOK
<1>1. Typed => TypeOK
  BY DEF Typed
<1> QED
  BY <1>1, TypedInvariant, PTL


(* The base invariant holds whether or not the pool is being closed. *)
LEMMA BaseInvariant == Spec => []BaseInv
<1>1. Init => BaseInv
  BY NoneAssumption DEF Init, BaseInv, OfferedInv, IdleInv, BackInv, StatusInv,
     OneWorkerPerJob, Has, Before, After
<1>2. Typed /\ BaseInv /\ [Next]_vars => BaseInv'
  <2> SUFFICES ASSUME Typed, BaseInv, [Next]_vars PROVE BaseInv'
    OBVIOUS
  <2> USE NoneAssumption
      DEF Typed, PickedInv, TypeOK, BaseInv, OfferedInv, IdleInv, BackInv, StatusInv,
          OneWorkerPerJob, Has, Before, After, vars, poolVars, workerVars, procVars,
          closeVars
  <2>1. ASSUME NEW j \in Job, Offer(j) PROVE BaseInv'
    BY <2>1 DEF Offer
  <2>2. ASSUME TestIdle PROVE BaseInv'
    BY <2>2 DEF TestIdle
  <2>3. ASSUME PopIdle PROVE BaseInv'
    BY <2>3 DEF PopIdle
  <2>4. ASSUME PopEmpty PROVE BaseInv'
    BY <2>4 DEF PopEmpty
  <2>5. ASSUME CountBusy PROVE BaseInv'
    BY <2>5 DEF CountBusy
  <2>6. ASSUME SpawnWorker PROVE BaseInv'
    BY <2>6 DEF SpawnWorker, Fresh
  <2>7. ASSUME Deny PROVE BaseInv'
    BY <2>7 DEF Deny
  <2>8. ASSUME AddBusy PROVE BaseInv'
    BY <2>8 DEF AddBusy
  <2>9. ASSUME AssignJob PROVE BaseInv'
    BY <2>9 DEF AssignJob
  <2>10. ASSUME SignalJob PROVE BaseInv'
    BY <2>10 DEF SignalJob
  <2>11. ASSUME NEW w \in Worker, WaitEvent(w) PROVE BaseInv'
    BY <2>11 DEF WaitEvent, Goto
  <2>12. ASSUME NEW w \in Worker, ClearEvent(w) PROVE BaseInv'
    BY <2>12 DEF ClearEvent, Goto
  <2>13. ASSUME NEW w \in Worker, TestJob(w) PROVE BaseInv'
    BY <2>13 DEF TestJob, Goto
  <2>14. ASSUME NEW w \in Worker, CallJob(w) PROVE BaseInv'
    BY <2>14 DEF CallJob, Goto
  <2>15. ASSUME NEW w \in Worker, EndJob(w) PROVE BaseInv'
    BY <2>15 DEF EndJob, Goto
  <2>16. ASSUME NEW w \in Worker, ResetJob(w) PROVE BaseInv'
    BY <2>16 DEF ResetJob, Goto
  <2>17. ASSUME NEW w \in Worker, TestMember(w) PROVE BaseInv'
    BY <2>17 DEF TestMember, Goto
  <2>18. ASSUME NEW w \in Worker, RemoveBusy(w) PROVE BaseInv'
    BY <2>18 DEF RemoveBusy, Goto
  <2>19. ASSUME NEW w \in Worker, TestClosed(w) PROVE BaseInv'
    BY <2>19 DEF TestClosed, Goto
  <2>20. ASSUME NEW w \in Worker, CountIdle(w) PROVE BaseInv'
    BY <2>20 DEF CountIdle, Goto
  <2>21. ASSUME NEW w \in Worker, AddIdle(w) PROVE BaseInv'
    BY <2>21 DEF AddIdle, Goto
  <2>22. ASSUME NEW w \in Worker, PoisonSelf(w) PROVE BaseInv'
    BY <2>22 DEF PoisonSelf, Goto
  <2>23. ASSUME NEW w \in Worker, SignalSelf(w) PROVE BaseInv'
    BY <2>23 DEF SignalSelf, Goto
  <2>24. ASSUME NEW c \in Closer, CloseTest(c) PROVE BaseInv'
    BY <2>24 DEF CloseTest, CloseGoto
  <2>25. ASSUME NEW c \in Closer, CloseListBusy(c) PROVE BaseInv'
    BY <2>25 DEF CloseListBusy, CloseGoto
  <2>26. ASSUME NEW c \in Closer, StopWorker(c) PROVE BaseInv'
    BY <2>26 DEF StopWorker, CloseGoto
  <2>27. ASSUME NEW c \in Closer, StopSignal(c) PROVE BaseInv'
    BY <2>27 DEF StopSignal, CloseGoto
  <2>28. ASSUME NEW c \in Closer, CloseListIdle(c) PROVE BaseInv'
    BY <2>28 DEF CloseListIdle, CloseGoto
  <2>29. ASSUME NEW c \in Closer, CloseMark(c) PROVE BaseInv'
    BY <2>29 DEF CloseMark, CloseGoto
  <2>30. ASSUME NEW c \in Closer, CloseSwapIdle(c) PROVE BaseInv'
    BY <2>30 DEF CloseSwapIdle, CloseGoto
  <2>31. ASSUME NEW c \in Closer, CloseSwapBusy(c) PROVE BaseInv'
    BY <2>31 DEF CloseSwapBusy, CloseGoto
  <2>32. CASE UNCHANGED vars
    BY <2>32
  <2> QED
    BY <2>1, <2>2, <2>3, <2>4, <2>5, <2>6, <2>7, <2>8, <2>9, <2>10, <2>11,
       <2>12, <2>13, <2>14, <2>15, <2>16, <2>17, <2>18, <2>19, <2>20, <2>21,
       <2>22, <2>23, <2>24, <2>25, <2>26, <2>27, <2>28, <2>29, <2>30, <2>31,
       <2>32 DEF Next, Process, WorkerStep, CloseStep
<1> QED
  BY <1>1, <1>2, TypedInvariant, PTL DEF Spec

(* While the pool is open no closer takes a step, and closing never ends. *)
OpenNext ==
    \/ \E j \in Job : Offer(j)
    \/ Process
    \/ \E w \in Worker : WorkerStep(w) \/ EndJob(w)

LEMMA OpenSteps ==
  ASSUME Typed, [Next]_vars, ~Closing'
  PROVE  ~Closing /\ [OpenNext]_vars
<1> USE DEF Typed, TypeOK, Closing, vars, poolVars, workerVars, procVars, closeVars
<1>1. ASSUME NEW c \in Closer, CloseTest(c) PROVE FALSE
  BY <1>1 DEF CloseTest, CloseGoto
<1>2. ASSUME NEW c \in Closer, CloseStep(c) PROVE FALSE
  <2>1. cpc[c] # "start" /\ cpc'[c] # "start"
    BY <1>2 DEF CloseStep, CloseListBusy, StopWorker, StopSignal, CloseListIdle,
       CloseMark, CloseSwapIdle, CloseSwapBusy, CloseGoto
  <2> QED
    BY <2>1
<1>3. [OpenNext]_vars
  BY <1>1, <1>2 DEF Next, OpenNext
<1>4. UNCHANGED <<closed, cpc>>
  <2>1. ASSUME NEW j \in Job, Offer(j) PROVE UNCHANGED <<closed, cpc>>
    BY <2>1 DEF Offer
  <2>2. ASSUME Process PROVE UNCHANGED <<closed, cpc>>
    BY <2>2 DEF Process, TestIdle, PopIdle, PopEmpty, CountBusy, SpawnWorker, Deny,
       AddBusy, AssignJob, SignalJob
  <2>3. ASSUME NEW w \in Worker, WorkerStep(w) \/ EndJob(w)
        PROVE  UNCHANGED <<closed, cpc>>
    BY <2>3 DEF WorkerStep, EndJob, WaitEvent, ClearEvent, TestJob, CallJob,
       ResetJob,
       TestMember, RemoveBusy, TestClosed, CountIdle, AddIdle, PoisonSelf, SignalSelf
  <2> QED
    BY <1>3, <2>1, <2>2, <2>3 DEF OpenNext
<1> QED
  BY <1>3, <1>4

LEMMA HandOverStep ==
  ASSUME Typed, BaseInv, ~Closing, ~Closing', [OpenNext]_vars,
         EventInv, HandInv, IdleReady, JobKept
  PROVE  EventInv' /\ HandInv' /\ IdleReady' /\ JobKept'
<1> USE NoneAssumption
    DEF Typed, PickedInv, TypeOK, BaseInv, OfferedInv, IdleInv, BackInv, StatusInv,
        OneWorkerPerJob, Has, Before, After, EventInv, HandInv, IdleReady, JobKept,
        WillRead, vars, poolVars, workerVars, procVars, closeVars
<1>1. ASSUME NEW j \in Job, Offer(j) PROVE EventInv' /\ HandInv' /\ IdleReady' /\ JobKept'
  BY <1>1 DEF Offer
<1>2. ASSUME TestIdle PROVE EventInv' /\ HandInv' /\ IdleReady' /\ JobKept'
  BY <1>2 DEF TestIdle
<1>3. ASSUME PopIdle PROVE EventInv' /\ HandInv' /\ IdleReady' /\ JobKept'
  BY <1>3 DEF PopIdle
<1>4. ASSUME PopEmpty PROVE EventInv' /\ HandInv' /\ IdleReady' /\ JobKept'
  BY <1>4 DEF PopEmpty
<1>5. ASSUME CountBusy PROVE EventInv' /\ HandInv' /\ IdleReady' /\ JobKept'
  BY <1>5 DEF CountBusy
<1>6. ASSUME SpawnWorker PROVE EventInv' /\ HandInv' /\ IdleReady' /\ JobKept'
  BY <1>6 DEF SpawnWorker, Fresh
<1>7. ASSUME Deny PROVE EventInv' /\ HandInv' /\ IdleReady' /\ JobKept'
  BY <1>7 DEF Deny
<1>8. ASSUME AddBusy PROVE EventInv' /\ HandInv' /\ IdleReady' /\ JobKept'
  BY <1>8 DEF AddBusy
<1>9. ASSUME AssignJob PROVE EventInv' /\ HandInv' /\ IdleReady' /\ JobKept'
  BY <1>9 DEF AssignJob
<1>10. ASSUME SignalJob PROVE EventInv' /\ HandInv' /\ IdleReady' /\ JobKept'
  BY <1>10 DEF SignalJob
<1>11. ASSUME NEW w \in Worker, WaitEvent(w) PROVE EventInv' /\ HandInv' /\ IdleReady' /\ JobKept'
  BY <1>11 DEF WaitEvent, Goto
<1>12. ASSUME NEW w \in Worker, ClearEvent(w) PROVE EventInv' /\ HandInv' /\ IdleReady' /\ JobKept'
  BY <1>12 DEF ClearEvent, Goto
<1>13. ASSUME NEW w \in Worker, TestJob(w) PROVE EventInv' /\ HandInv' /\ IdleReady' /\ JobKept'
  BY <1>13 DEF TestJob, Goto
<1>14. ASSUME NEW w \in Worker, CallJob(w) PROVE EventInv' /\ HandInv' /\ IdleReady' /\ JobKept'
  BY <1>14 DEF CallJob, Goto
<1>15. ASSUME NEW w \in Worker, EndJob(w) PROVE EventInv' /\ HandInv' /\ IdleReady' /\ JobKept'
  BY <1>15 DEF EndJob, Goto
<1>16. ASSUME NEW w \in Worker, ResetJob(w) PROVE EventInv' /\ HandInv' /\ IdleReady' /\ JobKept'
  BY <1>16 DEF ResetJob, Goto
<1>17. ASSUME NEW w \in Worker, TestMember(w) PROVE EventInv' /\ HandInv' /\ IdleReady' /\ JobKept'
  BY <1>17 DEF TestMember, Goto
<1>18. ASSUME NEW w \in Worker, RemoveBusy(w) PROVE EventInv' /\ HandInv' /\ IdleReady' /\ JobKept'
  BY <1>18 DEF RemoveBusy, Goto
<1>19. ASSUME NEW w \in Worker, TestClosed(w) PROVE EventInv' /\ HandInv' /\ IdleReady' /\ JobKept'
  BY <1>19 DEF TestClosed, Goto
<1>20. ASSUME NEW w \in Worker, CountIdle(w) PROVE EventInv' /\ HandInv' /\ IdleReady' /\ JobKept'
  BY <1>20 DEF CountIdle, Goto
<1>21. ASSUME NEW w \in Worker, AddIdle(w) PROVE EventInv' /\ HandInv' /\ IdleReady' /\ JobKept'
  BY <1>21 DEF AddIdle, Goto
<1>22. ASSUME NEW w \in Worker, PoisonSelf(w) PROVE EventInv' /\ HandInv' /\ IdleReady' /\ JobKept'
  BY <1>22 DEF PoisonSelf, Goto
<1>23. ASSUME NEW w \in Worker, SignalSelf(w) PROVE EventInv' /\ HandInv' /\ IdleReady' /\ JobKept'
  BY <1>23 DEF SignalSelf, Goto
<1>24. CASE UNCHANGED vars
  BY <1>24
<1> QED
  BY <1>1, <1>2, <1>3, <1>4, <1>5, <1>6, <1>7, <1>8, <1>9, <1>10, <1>11, <1>12,
     <1>13, <1>14, <1>15, <1>16, <1>17, <1>18, <1>19, <1>20, <1>21, <1>22, <1>23,
     <1>24 DEF OpenNext, Process, WorkerStep

(* No step of the open pool but CountIdle takes a worker out of Standing. *)
LEMMA StandingGrows ==
  ASSUME Typed, BaseInv, HandInv, ~closed, [OpenNext]_vars,
         \A w \in Worker : ~CountIdle(w)
  PROVE  Standing \subseteq Standing'
<1> SUFFICES ASSUME NEW v \in Worker, Stands(v) PROVE Stands(v)'
  BY DEF Standing
<1> USE NoneAssumption
    DEF Typed, PickedInv, TypeOK, BaseInv, OfferedInv, IdleInv, BackInv, HandInv,
        Stands, After, Before, vars, poolVars, workerVars, procVars, closeVars
<1>1. ASSUME NEW j \in Job, Offer(j) PROVE Stands(v)'
  BY <1>1 DEF Offer
<1>2. ASSUME TestIdle PROVE Stands(v)'
  BY <1>2 DEF TestIdle
<1>3. ASSUME PopIdle PROVE Stands(v)'
  BY <1>3 DEF PopIdle
<1>4. ASSUME PopEmpty PROVE Stands(v)'
  BY <1>4 DEF PopEmpty
<1>5. ASSUME CountBusy PROVE Stands(v)'
  BY <1>5 DEF CountBusy
<1>6. ASSUME SpawnWorker PROVE Stands(v)'
  BY <1>6 DEF SpawnWorker, Fresh
<1>7. ASSUME Deny PROVE Stands(v)'
  BY <1>7 DEF Deny
<1>8. ASSUME AddBusy PROVE Stands(v)'
  BY <1>8 DEF AddBusy
<1>9. ASSUME AssignJob PROVE Stands(v)'
  BY <1>9 DEF AssignJob
<1>10. ASSUME SignalJob PROVE Stands(v)'
  BY <1>10 DEF SignalJob
<1>11. ASSUME NEW w \in Worker, WaitEvent(w) PROVE Stands(v)'
  BY <1>11 DEF WaitEvent, Goto
<1>12. ASSUME NEW w \in Worker, ClearEvent(w) PROVE Stands(v)'
  BY <1>12 DEF ClearEvent, Goto
<1>13. ASSUME NEW w \in Worker, TestJob(w) PROVE Stands(v)'
  BY <1>13 DEF TestJob, Goto
<1>14. ASSUME NEW w \in Worker, CallJob(w) PROVE Stands(v)'
  BY <1>14 DEF CallJob, Goto
<1>15. ASSUME NEW w \in Worker, EndJob(w) PROVE Stands(v)'
  BY <1>15 DEF EndJob, Goto
<1>16. ASSUME NEW w \in Worker, ResetJob(w) PROVE Stands(v)'
  BY <1>16 DEF ResetJob, Goto
<1>17. ASSUME NEW w \in Worker, TestMember(w) PROVE Stands(v)'
  BY <1>17 DEF TestMember, Goto
<1>18. ASSUME NEW w \in Worker, RemoveBusy(w) PROVE Stands(v)'
  <2>1. w \in busy /\ wpc' = [wpc EXCEPT ![w] = "closed?"]
    BY <1>18 DEF RemoveBusy, Goto
  <2>2. busy' = busy \ {w} /\ idle' = idle /\ picked' = picked
    BY <1>18 DEF RemoveBusy
  <2> QED
    BY <2>1, <2>2
<1>19. ASSUME NEW w \in Worker, TestClosed(w) PROVE Stands(v)'
  BY <1>19 DEF TestClosed, Goto
<1>20. ASSUME NEW w \in Worker, AddIdle(w) PROVE Stands(v)'
  BY <1>20 DEF AddIdle, Goto
<1>21. ASSUME NEW w \in Worker, PoisonSelf(w) PROVE Stands(v)'
  BY <1>21 DEF PoisonSelf, Goto
<1>22. ASSUME NEW w \in Worker, SignalSelf(w) PROVE Stands(v)'
  BY <1>22 DEF SignalSelf, Goto
<1>23. CASE UNCHANGED vars
  BY <1>23
<1> QED
  BY <1>1, <1>2, <1>3, <1>4, <1>5, <1>6, <1>7, <1>8, <1>9, <1>10, <1>11, <1>12,
     <1>13, <1>14, <1>15, <1>16, <1>17, <1>18, <1>19, <1>20, <1>21, <1>22, <1>23
     DEF OpenNext, Process, WorkerStep

LEMMA MinimumStep ==
  ASSUME Typed, Typed', BaseInv, HandInv, ~closed, [OpenNext]_vars,
         Cardinality(Standing) >= SIZE_MIN
  PROVE  Cardinality(Standing') >= SIZE_MIN
<1>1. IsFiniteSet(Standing) /\ IsFiniteSet(Standing') /\ Cardinality(Standing) \in Nat
      /\ Cardinality(Standing') \in Nat
  <2>1. IsFiniteSet(Standing) /\ IsFiniteSet(Standing')
    BY WorkerAssumption, FS_Subset DEF Standing
  <2> QED
    BY <2>1, FS_CardinalityType
<1>2. ASSUME NEW w \in Worker, CountIdle(w)
      PROVE  Cardinality(Standing') >= SIZE_MIN
  <2>1. CASE Cardinality(idle) >= SIZE_MIN
    <3>1. idle \subseteq Standing'
      <4> SUFFICES ASSUME NEW v \in idle PROVE v \in Worker /\ Stands(v)'
        BY DEF Standing
      <4> QED
        BY <1>2 DEF CountIdle, Stands, Typed, TypeOK, poolVars
    <3>2. Cardinality(idle) <= Cardinality(Standing') /\ Cardinality(idle) \in Nat
      BY <3>1, <1>1, FS_Subset, FS_CardinalityType
    <3> QED
      BY <2>1, <3>2, <1>1, SizeAssumption
  <2>2. CASE ~(Cardinality(idle) >= SIZE_MIN)
    <3>1. Standing \subseteq Standing'
      <4> SUFFICES ASSUME NEW v \in Worker, Stands(v) PROVE Stands(v)'
        BY DEF Standing
      <4> QED
        BY <1>2, <2>2
           DEF CountIdle, Goto, Stands, Typed, TypeOK, poolVars, procVars
    <3> QED
      BY <3>1, <1>1, FS_Subset, SizeAssumption
  <2> QED
    BY <2>1, <2>2
<1>3. CASE \A w \in Worker : ~CountIdle(w)
  BY <1>1, <1>3, StandingGrows, FS_Subset, SizeAssumption
<1> QED
  BY <1>2, <1>3

LEMMA OpenInvariant ==
  Spec => []OpenInv
<1>1. Init => OpenInv
  <2> SUFFICES ASSUME Init PROVE OpenInv
    OBVIOUS
  <2>1. Standing = idle
    BY NoneAssumption DEF Init, Standing, Stands
  <2> QED
    BY <2>1, SizeAssumption DEF Init, OpenInv, EventInv, HandInv, IdleReady,
       JobKept, MinimumKept
<1>2. Typed /\ Typed' /\ BaseInv /\ OpenInv /\ [Next]_vars => OpenInv'
  <2> SUFFICES ASSUME Typed, Typed', BaseInv, OpenInv, [Next]_vars, ~Closing'
               PROVE  EventInv' /\ HandInv' /\ IdleReady' /\ JobKept' /\ MinimumKept'
    BY DEF OpenInv
  <2>1. ~Closing /\ [OpenNext]_vars
    BY OpenSteps
  <2>2. EventInv /\ HandInv /\ IdleReady /\ JobKept /\ Cardinality(Standing) >= SIZE_MIN
    BY <2>1 DEF OpenInv, MinimumKept
  <2>3. EventInv' /\ HandInv' /\ IdleReady' /\ JobKept'
    BY <2>1, <2>2, HandOverStep
  <2>4. MinimumKept'
    BY <2>1, <2>2, MinimumStep DEF MinimumKept, Closing
  <2> QED
    BY <2>3, <2>4
<1> QED
  BY <1>1, <1>2, TypedInvariant, BaseInvariant, PTL DEF Spec

-----------------------------------------------------------------------------
(* The pool's two sets stay disjoint, whoever closes it and whenever. *)
THEOREM SetsDisjoint == Spec => []Disjoint
<1>1. BaseInv => Disjoint
  BY DEF BaseInv, IdleInv, Disjoint
<1> QED
  BY <1>1, BaseInvariant, PTL

(* No job is ever with two workers, whoever closes the pool and whenever. *)
THEOREM JobsAreNotShared == Spec => []OneWorkerPerJob
<1>1. BaseInv => OneWorkerPerJob
  BY DEF BaseInv
<1> QED
  BY <1>1, BaseInvariant, PTL

(* Until the pool is closed, every idle worker waits for its next job. *)
THEOREM IdleWorkersAreReady == Spec => []IdleReady
<1>1. OpenInv => IdleReady
  BY DEF OpenInv, IdleReady
<1> QED
  BY <1>1, OpenInvariant, PTL

(* Until the pool is closed, no job that process() accepted is lost. *)
THEOREM JobsAreKept == Spec => []JobKept
<1>1. OpenInv => JobKept
  BY DEF OpenInv, JobKept
<1> QED
  BY <1>1, OpenInvariant, PTL

(* Until the pool is closed, it never shrinks below SIZE_MIN workers. *)
THEOREM MinimumIsKept == Spec => []MinimumKept
<1>1. OpenInv => MinimumKept
  BY DEF OpenInv, MinimumKept
<1> QED
  BY <1>1, OpenInvariant, PTL

(* For any pool: what process(), notify_done and close() keep together.    *)
THEOREM PoolIsKept == Spec => []PoolInv
<1>1. TypeOK /\ Disjoint /\ OneWorkerPerJob /\ IdleReady /\ JobKept => PoolInv
  BY DEF PoolInv
<1> QED
  BY <1>1, TypeCorrect, SetsDisjoint, JobsAreNotShared, IdleWorkersAreReady, JobsAreKept, PTL

-----------------------------------------------------------------------------
(* Recursion over the numbers up to a bound. *)

(* A set of numbers has a smallest element. *)
LEMMA Smallest ==
    ASSUME NEW S \in SUBSET Nat, S # {}
    PROVE  \E m \in S : \A j \in S : m <= j
<1> DEFINE Less == {p \in Nat \X Nat : p[1] < p[2]}
<1>1. IsWellFoundedOn(Less, Nat)
  BY NatLessThanWellFounded DEF OpToRel
<1>2. PICK m \in S : \A j \in S : <<j, m>> \notin Less
  <2> HIDE DEF Less
  <2> QED
    BY <1>1, WFMin
<1>3. ASSUME NEW j \in S PROVE m <= j
  <2>1. <<j, m>> \notin Less
    BY <1>2
  <2>2. m \in Nat /\ j \in Nat
    OBVIOUS
  <2>3. j < m => <<j, m>> \in Less
    BY <2>2
  <2> QED
    BY <2>1, <2>2, <2>3
<1> QED
  BY <1>3

(* What holds of 0 and of each number after one of which it holds. *)
LEMMA Ascending ==
    ASSUME NEW n \in Nat, NEW G, 0 \in G, \A i \in 1 .. n : i - 1 \in G => i \in G
    PROVE  \A i \in 0 .. n : i \in G
<1> DEFINE Bad == {i \in 0 .. n : i \notin G}
<1>1. SUFFICES ASSUME Bad # {} PROVE FALSE
  OBVIOUS
<1>2. PICK k \in Bad : \A j \in Bad : k <= j
  <2>1. Bad \in SUBSET Nat
    OBVIOUS
  <2> HIDE DEF Bad
  <2> QED
    BY <1>1, <2>1, Smallest
<1>3. k \in 1 .. n /\ k \notin G
  OBVIOUS
<1>4. k - 1 \in 0 .. n /\ k - 1 \notin Bad
  <2>1. k - 1 \in 0 .. n /\ ~(k <= k - 1)
    BY <1>3
  <2> HIDE DEF Bad
  <2> QED
    BY <1>2, <2>1
<1>5. k - 1 \in G
  BY <1>4
<1> QED
  BY <1>3, <1>5

(* f is base at 0 and goes on by the functions in step. *)
Recursion(f, n, base, step) ==
    f = [i \in 0 .. n |-> IF i = 0 THEN base ELSE step[i][f[i - 1]]]

LEMMA RecursionExists ==
    ASSUME NEW S, NEW base \in S, NEW n \in Nat, NEW step \in [1 .. n -> [S -> S]]
    PROVE  \E f \in [0 .. n -> S] : Recursion(f, n, base, step)
<1> DEFINE G == {k \in 0 .. n : \E f \in [0 .. k -> S] : Recursion(f, k, base, step)}
<1>1. 0 \in G
  <2> DEFINE f == [i \in 0 .. 0 |-> base]
  <2>1. f \in [0 .. 0 -> S] /\ Recursion(f, 0, base, step)
    BY DEF Recursion
  <2> QED
    BY <2>1
<1>2. ASSUME NEW k \in 1 .. n, k - 1 \in G PROVE k \in G
  <2>1. PICK g \in [0 .. k - 1 -> S] : Recursion(g, k - 1, base, step)
    BY <1>2
  <2>2. /\ k - 1 \in 0 .. k - 1 /\ k # 0
        /\ \A i \in 0 .. k : i # k => i \in 0 .. k - 1
        /\ \A i \in 0 .. k - 1 : i # 0 => i - 1 \in 0 .. k - 1 /\ i - 1 # k
        /\ k - 1 # k /\ k - 1 \in 0 .. k
    OBVIOUS
  <2>3. PICK x \in S : x = step[k][g[k - 1]]
    BY <2>1, <2>2
  <2> DEFINE h == [i \in 0 .. k |-> IF i = k THEN x ELSE g[i]]
             H == [i \in 0 .. k |-> IF i = 0 THEN base ELSE step[i][h[i - 1]]]
  <2>4. h \in [0 .. k -> S]
    BY <2>1, <2>2, <2>3
  <2>5. ASSUME NEW i \in 0 .. k PROVE h[i] = H[i]
    <3>1. CASE i = k
      <4>1. h[i] = x /\ h[i - 1] = g[k - 1]
        BY <2>2, <3>1
      <4>2. H[i] = step[k][h[k - 1]]
        BY <2>2, <3>1
      <4> QED
        BY <2>3, <3>1, <4>1, <4>2
    <3>2. CASE i # k
      <4>1. h[i] = g[i] /\ i \in 0 .. k - 1 /\ (i # 0 => h[i - 1] = g[i - 1])
        BY <2>2, <3>2
      <4>2. g[i] = IF i = 0 THEN base ELSE step[i][g[i - 1]]
        BY <2>1, <4>1 DEF Recursion
      <4> QED
        BY <4>1, <4>2
    <3> QED
      BY <3>1, <3>2
  <2>6. h = H
    <3>1. h = [i \in 0 .. k |-> h[i]] /\ H = [i \in 0 .. k |-> H[i]]
      OBVIOUS
    <3> HIDE DEF h, H
    <3> QED
      BY <2>5, <3>1
  <2>7. Recursion(h, k, base, step)
    BY <2>6 DEF Recursion
  <2> HIDE DEF h, H
  <2>8. k \in 0 .. n
    OBVIOUS
  <2> QED
    BY <2>4, <2>7, <2>8
<1>3. n \in G
  <2>1. n \in 0 .. n
    OBVIOUS
  <2> HIDE DEF G
  <2> QED
    BY <1>1, <1>2, <2>1, Ascending
<1> QED
  BY <1>3

-----------------------------------------------------------------------------
(* The annotations in the order of their keys. *)

Annotations == UNION {[K -> Chunk] : K \in SUBSET AnnotationKeys}

LEMMA OneAnnotation ==
    ASSUME NEW a \in Annotations, NEW k \in DOMAIN a
    PROVE  a[k] \in Chunk /\ k \in AnnotationKeys
  BY DEF Annotations

LEMMA KeysCounted ==
    /\ Len(KeyOrder) \in Nat /\ DOMAIN KeyOrder = 1 .. Len(KeyOrder)
    /\ \A k \in AnnotationKeys : \E i \in 1 .. Len(KeyOrder) : k = KeyOrder[i]
<1>1. PICK S : S = AnnotationKeys
  OBVIOUS
<1>2. Len(KeyOrder) \in Nat /\ DOMAIN KeyOrder = 1 .. Len(KeyOrder)
  BY <1>1, WireAssumption
<1> QED
  BY <1>2 DEF AnnotationKeys

(* The recursion of ValuesInOrder, and of ChunksSize. *)
Collects(f, a) ==
    f = [i \in 0 .. Len(KeyOrder) |->
            IF i = 0 THEN <<>>
            ELSE IF KeyOrder[i] \in DOMAIN a THEN Append(f[i - 1], a[KeyOrder[i]]) ELSE f[i - 1]]

Sums(f, a, prefix) ==
    f = [i \in 0 .. Len(KeyOrder) |->
            IF i = 0 THEN 0
            ELSE IF KeyOrder[i] \in DOMAIN a THEN f[i - 1] + prefix + a[KeyOrder[i]].len ELSE f[i - 1]]

LEMMA CollectExists ==
    ASSUME NEW a \in Annotations
    PROVE  \E f \in [0 .. Len(KeyOrder) -> Seq(Chunk)] : Collects(f, a)
<1> DEFINE n == Len(KeyOrder)
           step == [i \in 1 .. n |-> [s \in Seq(Chunk) |->
                        IF KeyOrder[i] \in DOMAIN a THEN Append(s, a[KeyOrder[i]]) ELSE s]]
<1>1. n \in Nat
  BY KeysCounted
<1>2. step \in [1 .. n -> [Seq(Chunk) -> Seq(Chunk)]]
  <2>1. ASSUME NEW i \in 1 .. n, NEW s \in Seq(Chunk)
        PROVE  (IF KeyOrder[i] \in DOMAIN a THEN Append(s, a[KeyOrder[i]]) ELSE s) \in Seq(Chunk)
    BY OneAnnotation, AppendProperties
  <2> QED
    BY <2>1
<1>3. <<>> \in Seq(Chunk)
  BY EmptySeq
<1>4. \A i \in 1 .. n : \A s \in Seq(Chunk) :
        step[i][s] = IF KeyOrder[i] \in DOMAIN a THEN Append(s, a[KeyOrder[i]]) ELSE s
  OBVIOUS
<1> HIDE DEF n, step
<1>5. PICK f \in [0 .. n -> Seq(Chunk)] : Recursion(f, n, <<>>, step)
  BY <1>1, <1>2, <1>3, RecursionExists
<1>6. ASSUME NEW i \in 0 .. n
      PROVE  (IF i = 0 THEN <<>> ELSE step[i][f[i - 1]]) =
                IF i = 0 THEN <<>>
                ELSE IF KeyOrder[i] \in DOMAIN a THEN Append(f[i - 1], a[KeyOrder[i]]) ELSE f[i - 1]
  <2>1. i # 0 => i \in 1 .. n /\ i - 1 \in 0 .. n
    BY <1>1
  <2>2. i # 0 => f[i - 1] \in Seq(Chunk)
    BY <1>5, <2>1
  <2> QED
    BY <1>4, <2>1, <2>2
<1>7. Collects(f, a)
  BY <1>5, <1>6 DEF Recursion, Collects, n
<1> QED
  BY <1>7, <1>5 DEF n

LEMMA SumExists ==
    ASSUME NEW a \in Annotations, NEW prefix \in Nat
    PROVE  \E f \in [0 .. Len(KeyOrder) -> Nat] : Sums(f, a, prefix)
<1> DEFINE n == Len(KeyOrder)
           step == [i \in 1 .. n |-> [s \in Nat |->
                        IF KeyOrder[i] \in DOMAIN a THEN s + prefix + a[KeyOrder[i]].len ELSE s]]
<1>1. n \in Nat
  BY KeysCounted
<1>2. step \in [1 .. n -> [Nat -> Nat]]
  <2>1. ASSUME NEW i \in 1 .. n, NEW s \in Nat
        PROVE  (IF KeyOrder[i] \in DOMAIN a THEN s + prefix + a[KeyOrder[i]].len ELSE s) \in Nat
    <3>1. KeyOrder[i] \in DOMAIN a => a[KeyOrder[i]].len \in Nat
      BY OneAnnotation, WireAssumption DEF Chunk
    <3> QED
      BY <3>1
  <2> QED
    BY <2>1
<1>3. 0 \in Nat
  OBVIOUS
<1>4. \A i \in 1 .. n : \A s \in Nat :
        step[i][s] = IF KeyOrder[i] \in DOMAIN a THEN s + prefix + a[KeyOrder[i]].len ELSE s
  OBVIOUS
<1> HIDE DEF n, step
<1>5. PICK f \in [0 .. n -> Nat] : Recursion(f, n, 0, step)
  BY <1>1, <1>2, <1>3, RecursionExists
<1>6. ASSUME NEW i \in 0 .. n
      PROVE  (IF i = 0 THEN 0 ELSE step[i][f[i - 1]]) =
                IF i = 0 THEN 0
                ELSE IF KeyOrder[i] \in DOMAIN a THEN f[i - 1] + prefix + a[KeyOrder[i]].len ELSE f[i - 1]
  <2>1. i # 0 => i \in 1 .. n /\ i - 1 \in 0 .. n
    BY <1>1
  <2>2. i # 0 => f[i - 1] \in Nat
    BY <1>5, <2>1
  <2> QED
    BY <1>4, <2>1, <2>2
<1>7. Sums(f, a, prefix)
  BY <1>5, <1>6 DEF Recursion, Sums, n
<1> QED
  BY <1>7, <1>5 DEF n

(* The size of the annotations is a number. *)
LEMMA SizeIsNumber ==
    ASSUME NEW a \in Annotations, NEW prefix \in Nat
    PROVE  ChunksSize(a, prefix) \in Nat
<1> DEFINE n == Len(KeyOrder)
           total == CHOOSE f : f = [i \in 0 .. Len(KeyOrder) |->
                IF i = 0 THEN 0
                ELSE IF KeyOrder[i] \in DOMAIN a
                     THEN f[i - 1] + prefix + a[KeyOrder[i]].len ELSE f[i - 1]]
           G == {i \in 0 .. n : total[i] \in Nat}
<1>1. ChunksSize(a, prefix) = total[n]
  BY DEF ChunksSize
<1>2. Sums(total, a, prefix)
  <2>1. \E f : Sums(f, a, prefix)
    <3> HIDE DEF total
    <3> QED
      BY SumExists
  <2> QED
    BY <2>1 DEF Sums
<1> HIDE DEF total
<1>3. n \in Nat /\ 0 \in 0 .. n /\ n \in 0 .. n
  BY KeysCounted
<1>4. total[0] = 0
  BY <1>2, <1>3 DEF Sums
<1>5. ASSUME NEW i \in 1 .. n, total[i - 1] \in Nat PROVE total[i] \in Nat
  <2>1. i \in 0 .. n /\ i # 0
    BY <1>3
  <2>2. total[i] = IF KeyOrder[i] \in DOMAIN a THEN total[i - 1] + prefix + a[KeyOrder[i]].len ELSE total[i - 1]
    BY <1>2, <2>1 DEF Sums
  <2>3. KeyOrder[i] \in DOMAIN a => a[KeyOrder[i]].len \in Nat
    BY OneAnnotation, WireAssumption DEF Chunk
  <2> QED
    BY <1>5, <2>2, <2>3
<1>6. 0 \in G /\ \A i \in 1 .. n : i - 1 \in G => i \in G
  BY <1>3, <1>4, <1>5
<1>7. n \in G
  <2> HIDE DEF G, n
  <2> QED
    BY <1>3, <1>6, Ascending
<1> QED
  BY <1>1, <1>7

LEMMA ValuesTyped ==
    ASSUME NEW a \in Annotations
    PROVE  ValuesInOrder(a) \in Seq(Chunk)
<1> DEFINE n == Len(KeyOrder)
           va == CHOOSE f : f = [i \in 0 .. Len(KeyOrder) |->
                IF i = 0 THEN <<>>
                ELSE IF KeyOrder[i] \in DOMAIN a THEN Append(f[i - 1], a[KeyOrder[i]]) ELSE f[i - 1]]
           G == {i \in 0 .. n : va[i] \in Seq(Chunk)}
<1>1. ValuesInOrder(a) = va[n]
  BY DEF ValuesInOrder
<1>2. Collects(va, a)
  BY CollectExists DEF Collects
<1> HIDE DEF va
<1>3. n \in Nat /\ 0 \in 0 .. n /\ n \in 0 .. n
  BY KeysCounted
<1>4. 0 \in G
  <2>1. va[0] = <<>>
    BY <1>2, <1>3 DEF Collects
  <2> QED
    BY <1>3, <2>1, EmptySeq
<1>5. ASSUME NEW i \in 1 .. n, i - 1 \in G PROVE i \in G
  <2>1. i \in 0 .. n /\ i # 0
    BY <1>3
  <2>2. PICK k : k = KeyOrder[i]
    OBVIOUS
  <2>3. va[i] = IF k \in DOMAIN a THEN Append(va[i - 1], a[k]) ELSE va[i - 1]
    BY <1>2, <2>1, <2>2 DEF Collects
  <2>4. PICK s \in Seq(Chunk) : s = va[i - 1]
    BY <1>5
  <2>5. k \in DOMAIN a => Append(s, a[k]) \in Seq(Chunk)
    BY OneAnnotation, AppendProperties
  <2> QED
    BY <2>1, <2>3, <2>4, <2>5
<1>6. n \in G
  <2> HIDE DEF G, n
  <2> QED
    BY <1>3, <1>4, <1>5, Ascending
<1> QED
  BY <1>1, <1>6

(* Annotations of the same keys with the same list of values are the same. *)
LEMMA ValuesDiffer ==
    ASSUME NEW a \in Annotations, NEW b \in Annotations, DOMAIN a = DOMAIN b,
           ValuesInOrder(a) = ValuesInOrder(b)
    PROVE  \A k \in DOMAIN a : a[k] = b[k]
<1> DEFINE n == Len(KeyOrder)
           va == CHOOSE f : f = [i \in 0 .. Len(KeyOrder) |->
                IF i = 0 THEN <<>>
                ELSE IF KeyOrder[i] \in DOMAIN a THEN Append(f[i - 1], a[KeyOrder[i]]) ELSE f[i - 1]]
           vb == CHOOSE f : f = [i \in 0 .. Len(KeyOrder) |->
                IF i = 0 THEN <<>>
                ELSE IF KeyOrder[i] \in DOMAIN b THEN Append(f[i - 1], b[KeyOrder[i]]) ELSE f[i - 1]]
           Same(i) == \A j \in 1 .. i : KeyOrder[j] \in DOMAIN a => a[KeyOrder[j]] = b[KeyOrder[j]]
           G == {i \in 0 .. n : /\ va[i] \in Seq(Chunk) /\ vb[i] \in Seq(Chunk)
                                /\ va[i] = vb[i] => Same(i)}
<1>1. va[n] = vb[n]
  BY DEF ValuesInOrder
<1>2. Collects(va, a) /\ Collects(vb, b)
  BY CollectExists DEF Collects
<1> HIDE DEF va, vb
<1>3. n \in Nat /\ 0 \in 0 .. n /\ n \in 0 .. n
  BY KeysCounted
<1>4. 0 \in G
  <2>1. va[0] = <<>> /\ vb[0] = <<>>
    BY <1>2, <1>3 DEF Collects
  <2>2. <<>> \in Seq(Chunk) /\ Same(0)
    BY EmptySeq
  <2> QED
    BY <1>3, <2>1, <2>2
<1>5. ASSUME NEW i \in 1 .. n, i - 1 \in G PROVE i \in G
  <2>1. i \in 0 .. n /\ i # 0
    BY <1>3
  <2>2. PICK k : k = KeyOrder[i]
    OBVIOUS
  <2>3. /\ va[i] = IF k \in DOMAIN a THEN Append(va[i - 1], a[k]) ELSE va[i - 1]
        /\ vb[i] = IF k \in DOMAIN a THEN Append(vb[i - 1], b[k]) ELSE vb[i - 1]
    BY <1>2, <2>1, <2>2 DEF Collects
  <2>4. PICK s \in Seq(Chunk), t \in Seq(Chunk) : s = va[i - 1] /\ t = vb[i - 1]
    BY <1>5
  <2>5. s = t => Same(i - 1)
    BY <1>5, <2>4
  <2>6. (k \in DOMAIN a => a[k] = b[k]) /\ Same(i - 1) => Same(i)
    <3>1. \A j \in 1 .. i : j = i \/ j \in 1 .. i - 1
      OBVIOUS
    <3> QED
      BY <2>2, <3>1
  <2> HIDE DEF Same
  <2>7. CASE k \in DOMAIN a
    <3>1. PICK x \in Chunk, y \in Chunk : x = a[k] /\ y = b[k]
      BY <2>7, OneAnnotation
    <3>2. va[i] = Append(s, x) /\ vb[i] = Append(t, y)
      BY <2>3, <2>4, <2>7, <3>1
    <3>3. Append(s, x) \in Seq(Chunk) /\ Append(t, y) \in Seq(Chunk)
      BY AppendProperties
    <3>4. Append(s, x) = Append(t, y) => s = t /\ x = y
      BY AppendInjective
    <3> QED
      BY <2>1, <2>5, <2>6, <2>7, <3>1, <3>2, <3>3, <3>4
  <2>8. CASE k \notin DOMAIN a
    BY <2>1, <2>3, <2>4, <2>5, <2>6, <2>8
  <2> QED
    BY <2>7, <2>8
<1>6. n \in G
  <2> HIDE DEF G, n
  <2> QED
    BY <1>3, <1>4, <1>5, Ascending
<1>7. Same(n)
  BY <1>1, <1>6
<1> QED
  BY <1>7, OneAnnotation, KeysCounted

-----------------------------------------------------------------------------
(* The checksum. *)

LEMMA DivMod ==
    ASSUME NEW a \in Int
    PROVE  /\ a % 65536 \in Int /\ 0 <= a % 65536 /\ a % 65536 < 65536 /\ a \div 65536 \in Int
           /\ a = 65536 * (a \div 65536) + (a % 65536)
  OBVIOUS

(* Two sums wrap to different numbers if one summand differs. *)
LEMMA SumsDiffer ==
    ASSUME NEW r \in Nat, NEW v \in Nat, NEW x \in Nat, v < 65536, x < 65536, v # x
    PROVE  (r + v) % 65536 # (r + x) % 65536
<1>1. PICK a \in Int : a = r + v
  OBVIOUS
<1>2. PICK b \in Int : b = r + x
  OBVIOUS
<1>3. PICK p \in Int, m \in Int : m = a % 65536 /\ a = 65536 * p + m
  BY DivMod
<1>4. PICK q \in Int, k \in Int : k = b % 65536 /\ b = 65536 * q + k
  BY DivMod
<1>5. m # k
  <2>1. SUFFICES ASSUME m = k PROVE FALSE
    OBVIOUS
  <2>2. v - x = 65536 * p - 65536 * q
    BY <1>1, <1>2, <1>3, <1>4, <2>1
  <2>3. p = q \/ p - q >= 1 \/ q - p >= 1
    OBVIOUS
  <2>4. v - x < 65536 /\ x - v < 65536
    OBVIOUS
  <2> QED
    BY <2>2, <2>3, <2>4
<1> QED
  BY <1>1, <1>2, <1>3, <1>4, <1>5

(* A field and what the network may make of it. *)
LEMMA OthersDiffer ==
    ASSUME NEW f, NEW v \in Nat, NEW x \in Others(f, v)
    PROVE  /\ f = "data_size" => x \in Int /\ v # x
           /\ f # "data_size" => x \in Nat /\ x < 65536 /\ v # x
<1>1. CASE f = "data_size"
  BY <1>1, WireAssumption DEF Others
<1>2. CASE f # "data_size"
  <2>1. PICK d \in Changes : x = (v + d) % 65536
    BY <1>2 DEF Others, W
  <2>2. d \in Int
    BY WireAssumption
  <2>3. PICK a \in Int : a = v + d
    BY <2>2
  <2>4. a % 65536 \in Int /\ 0 <= a % 65536 /\ a % 65536 < 65536
    BY <2>3, DivMod
  <2>5. x \in Nat /\ x < 65536
    BY <2>1, <2>3, <2>4
  <2>6. v # x
    BY <1>2 DEF Others
  <2> QED
    BY <1>2, <2>5, <2>6
<1> QED
  BY <1>1, <1>2

Header ==
    [version : Nat, type : Nat, flags : Nat, seq : Nat, data_size : Nat, serializer_id : Nat,
     annotations_size : Nat]

Fits(h) == \A f \in DOMAIN h \ {"data_size"} : h[f] < W

HeaderChanged(h, f, x) == [h EXCEPT ![f] = x]

(* A change of one field is seen: in the version, or in the sum, unless it *)
(* is one of the data's size by a multiple of 65536.                       *)
LEMMA ChangeSeen ==
    ASSUME NEW h \in Header, h.version = ProtocolVersion, Fits(h),
           NEW f \in DOMAIN h, NEW x \in Others(f, h[f]), NEW g, g = HeaderChanged(h, f, x)
    PROVE  \/ g.version # ProtocolVersion \/ Checksum(g) # Checksum(h)
           \/ f = "data_size" /\ x # h.data_size /\ x % W = h.data_size % W
<1>1. DOMAIN h = {"version", "type", "flags", "seq", "data_size", "serializer_id", "annotations_size"}
  BY DEF Header
<1>2. /\ h.version \in Nat /\ h.type \in Nat /\ h.flags \in Nat /\ h.seq \in Nat
      /\ h.data_size \in Nat /\ h.serializer_id \in Nat /\ h.annotations_size \in Nat
  BY DEF Header
<1>3. /\ h.version < 65536 /\ h.type < 65536 /\ h.flags < 65536 /\ h.seq < 65536
      /\ h.serializer_id < 65536 /\ h.annotations_size < 65536
  BY <1>1 DEF Fits, W
<1>4. PICK v \in Nat : v = h[f]
  BY <1>1, <1>2
<1>6. x \in Others(f, v)
  BY <1>4
<1>7. /\ f = "data_size" => x \in Int /\ v # x
      /\ f # "data_size" => x \in Nat /\ x < 65536 /\ v # x
  BY <1>6, OthersDiffer
<1>8. g.version = IF f = "version" THEN x ELSE h.version
  BY <1>1 DEF HeaderChanged, Header
<1>9. g.type = IF f = "type" THEN x ELSE h.type
  BY <1>1 DEF HeaderChanged, Header
<1>10. g.flags = IF f = "flags" THEN x ELSE h.flags
  BY <1>1 DEF HeaderChanged, Header
<1>11. g.seq = IF f = "seq" THEN x ELSE h.seq
  BY <1>1 DEF HeaderChanged, Header
<1>12. g.data_size = IF f = "data_size" THEN x ELSE h.data_size
  BY <1>1 DEF HeaderChanged, Header
<1>13. g.serializer_id = IF f = "serializer_id" THEN x ELSE h.serializer_id
  BY <1>1 DEF HeaderChanged, Header
<1>14. g.annotations_size = IF f = "annotations_size" THEN x ELSE h.annotations_size
  BY <1>1 DEF HeaderChanged, Header
<1>15. CASE f = "version"
  BY <1>3, <1>4, <1>7, <1>8, <1>15
<1>16. CASE f = "data_size" /\ x % 65536 = h.data_size % 65536
  BY <1>4, <1>7, <1>16 DEF W
<1>17. CASE f # "version" /\ (f = "data_size" => x % 65536 # h.data_size % 65536)
  <2>1. PICK d \in Nat : d = h.data_size % 65536 /\ d < 65536
    BY <1>2, DivMod
  <2>2. g.data_size \in Int
    BY <1>2, <1>7, <1>12
  <2>3. PICK e \in Nat : e = g.data_size % 65536 /\ e < 65536
    BY <2>2, DivMod
  <2>4. /\ g.version \in Nat /\ g.type \in Nat /\ g.flags \in Nat /\ g.seq \in Nat
        /\ g.serializer_id \in Nat /\ g.annotations_size \in Nat
    BY <1>2, <1>3, <1>4, <1>7, <1>8, <1>9, <1>10, <1>11, <1>13, <1>14
  <2>5. PICK sum \in Nat : sum = h.type + h.version + d + h.annotations_size + h.serializer_id
                                    + h.flags + h.seq + 13545
    BY <1>2
  <2>6. PICK total \in Nat : total = g.type + g.version + e + g.annotations_size + g.serializer_id
                                    + g.flags + g.seq + 13545
    BY <2>4
  <2>7. Checksum(h) = sum % 65536 /\ Checksum(g) = total % 65536
    BY <2>1, <2>3, <2>5, <2>6 DEF Checksum, W, ChecksumMagic
  <2>8. PICK p \in Nat, q \in Nat : /\ p < 65536 /\ q < 65536 /\ p # q
                                    /\ p <= sum /\ total = sum - p + q
    <3>1. CASE f = "data_size"
      <4>1. d # e
        BY <1>12, <1>17, <2>1, <2>3, <3>1
      <4>2. d <= sum /\ total = sum - d + e
        BY <1>2, <1>8, <1>9, <1>10, <1>11, <1>13, <1>14, <2>5, <2>6, <3>1
      <4>3. d < 65536 /\ e < 65536
        BY <2>1, <2>3
      <4> QED
        BY ONLY <4>1, <4>2, <4>3, d \in Nat, e \in Nat
    <3>2. CASE f # "data_size"
      <4>1. d = e
        BY <1>12, <2>1, <2>3, <3>2
      <4>2. v < 65536 /\ x \in Nat /\ x < 65536 /\ v # x
        BY <1>1, <1>3, <1>4, <1>7, <3>2
      <4>3. v <= sum /\ total = sum - v + x
        <5>1. CASE f = "type"
          BY <1>2, <1>4, <1>8, <1>9, <1>10, <1>11, <1>13, <1>14, <2>5, <2>6, <4>1, <4>2, <5>1
        <5>2. CASE f = "flags"
          BY <1>2, <1>4, <1>8, <1>9, <1>10, <1>11, <1>13, <1>14, <2>5, <2>6, <4>1, <4>2, <5>2
        <5>3. CASE f = "seq"
          BY <1>2, <1>4, <1>8, <1>9, <1>10, <1>11, <1>13, <1>14, <2>5, <2>6, <4>1, <4>2, <5>3
        <5>4. CASE f = "serializer_id"
          BY <1>2, <1>4, <1>8, <1>9, <1>10, <1>11, <1>13, <1>14, <2>5, <2>6, <4>1, <4>2, <5>4
        <5>5. CASE f = "annotations_size"
          BY <1>2, <1>4, <1>8, <1>9, <1>10, <1>11, <1>13, <1>14, <2>5, <2>6, <4>1, <4>2, <5>5
        <5> QED
          BY <1>1, <1>17, <3>2, <5>1, <5>2, <5>3, <5>4, <5>5
      <4> QED
        BY <4>2, <4>3
    <3> QED
      BY <3>1, <3>2
  <2>9. PICK r \in Nat : sum = r + p /\ total = r + q
    BY <2>8
  <2>10. (r + p) % 65536 # (r + q) % 65536
    BY <2>8, SumsDiffer
  <2> QED
    BY <2>7, <2>9, <2>10
<1> QED
  BY <1>15, <1>16, <1>17

-----------------------------------------------------------------------------
(* Messages. *)

LEMMA MessageFields ==
    ASSUME NEW m \in RequestMessage
    PROVE  /\ m.type \in Type /\ m.flags \in Flags /\ m.seq \in Seqno /\ m.serializer_id \in Format
           /\ m.data \in Chunk /\ m.annotations \in Annotations /\ m.hmac_key \in HmacKey \cup {None}
           /\ m = [type |-> m.type, flags |-> m.flags, seq |-> m.seq,
                   serializer_id |-> m.serializer_id, data |-> m.data,
                   annotations |-> m.annotations, hmac_key |-> m.hmac_key]
  BY DEF RequestMessage, Annotations

LEMMA ByteChanged ==
    ASSUME NEW c \in Chunk, NEW b \in Byte, b # c.byte, NEW e, e = [c EXCEPT !.byte = b]
    PROVE  e \in Chunk /\ e # c
<1>1. e \in Chunk /\ e.byte = b
  BY DEF Chunk
<1> QED
  BY <1>1

LEMMA HeaderTyped ==
    ASSUME NEW m \in RequestMessage
    PROVE  Fields(m) \in Header /\ Fields(m).version = ProtocolVersion
<1>1. /\ m.type \in Nat /\ m.flags \in Nat /\ m.seq \in Nat /\ m.serializer_id \in Nat
      /\ m.data \in Chunk /\ m.annotations \in Annotations
  BY MessageFields, WireAssumption
<1>2. m.data.len \in Nat
  BY <1>1, WireAssumption DEF Chunk
<1>3. AnnotationsSize(m) \in Nat
  <2>1. ChunksSize(m.annotations, 6) \in Nat
    BY <1>1, SizeIsNumber
  <2>2. HmacSize(m.hmac_key # None) \in Nat
    BY DEF HmacSize
  <2> QED
    BY <2>1, <2>2 DEF AnnotationsSize
<1> QED
  BY <1>1, <1>2, <1>3 DEF Fields, Header, ProtocolVersion

(* A digest is not None, and no two secrets, data or lists of values have  *)
(* the same.                                                               *)
LEMMA DigestIsSome ==
    ASSUME NEW key \in HmacKey, NEW data \in Chunk, NEW a \in Annotations
    PROVE  Digest(key, data, a) # None
<1>1. ValuesInOrder(a) \in Seq(Chunk)
  BY ValuesTyped
<1> QED
  BY <1>1, WireAssumption DEF Digest

LEMMA DigestsDiffer ==
    ASSUME NEW k, NEW l, NEW c, NEW d, NEW a, NEW b, Digest(k, c, a) = Digest(l, d, b)
    PROVE  k = l /\ c = d /\ ValuesInOrder(a) = ValuesInOrder(b)
  BY DEF Digest

-----------------------------------------------------------------------------
(* What is on the wire is the message, or is seen to be changed. *)
Intact ==
    /\ damage = None => wire = Packed(sent)
    /\ damage = "reserved" => wire = [Packed(sent) EXCEPT !.reserved = wire.reserved]
    /\ damage # "body" => wire.data = sent.data

HeaderSeen == damage = "header" => ~HeaderValid \/ SizeWrapped

BodySeen ==
    damage = "body" =>
        \A key \in HmacKey : wire.digest # Digest(key, wire.data, wire.annotations)

(* What was received is the peer's view of what is on the wire. *)
Judged ==
    received # None =>
        \E key \in HmacKey \cup {None}, max \in MaxMessage, types \in {{}} \cup {{t} : t \in Type},
           enough \in BOOLEAN :
            received = [result |-> Result(key, max, types, enough),
                        msg |-> IF Result(key, max, types, enough) = "ok" THEN Received(key) ELSE None,
                        key |-> key, max |-> max, types |-> types]

Wired ==
    /\ sent \in RequestMessage /\ Fits(Fields(sent)) /\ damage \in {None, "header", "reserved", "body"}
    /\ Intact /\ HeaderSeen /\ BodySeen /\ Judged

WireIInv ==
    /\ sent # None => sent \in RequestMessage
    /\ sent = None => wire = None /\ damage = None /\ received = None
    /\ wire = None => received = None
    /\ wire # None => Wired

LEMMA PackedData == ASSUME NEW m PROVE Packed(m).data = m.data /\ Packed(m).reserved = 0
  BY DEF Packed

LEMMA SendKeeps ==
    ASSUME WireIInv, sent = None, NEW m \in RequestMessage, NEW max, Send(m, max)
    PROVE  WireIInv'
<1>1. wire = None /\ damage = None /\ received = None
  BY DEF WireIInv
<1>2. sent' = m /\ sent' # None /\ damage' = None /\ received' = None
  BY <1>1, WireAssumption DEF Send
<1>3. CASE ~Sendable(m, max)
  BY <1>2, <1>3 DEF Send, WireIInv
<1>4. CASE Sendable(m, max)
  <2>1. wire' = Packed(m) /\ Fits(Fields(m))
    BY <1>4 DEF Send, Sendable, Fits
  <2>2. Intact' /\ HeaderSeen' /\ BodySeen' /\ Judged'
    BY <1>2, <2>1, PackedData, WireAssumption DEF Intact, HeaderSeen, BodySeen, Judged
  <2> QED
    BY <1>2, <2>1, <2>2 DEF WireIInv, Wired
<1> QED
  BY <1>3, <1>4

LEMMA ChangeHeaderKeeps ==
    ASSUME WireIInv, ChangeHeader
    PROVE  WireIInv'
<1>1. /\ wire # None /\ damage = None /\ damage' \in {"header", "reserved"} /\ received = None
      /\ UNCHANGED <<sent, received>>
  BY DEF ChangeHeader, OnWire
<1>2. /\ sent \in RequestMessage /\ sent # None /\ Fits(Fields(sent)) /\ wire = Packed(sent)
  BY <1>1 DEF WireIInv, Wired, Intact
<1>3. PICK h \in Header : h = Fields(sent) /\ h.version = ProtocolVersion /\ Fits(h)
  BY <1>2, HeaderTyped
<1>4. /\ wire.header = h /\ wire.checksum = Checksum(h) /\ wire.reserved = 0
      /\ DOMAIN wire = {"header", "reserved", "checksum", "annotations", "data", "digest"}
  BY <1>2, <1>3 DEF Packed
<1>5. BodySeen' /\ Judged'
  BY <1>1, WireAssumption DEF BodySeen, Judged
<1>6. CASE /\ damage' = "header"
           /\ \E f \in DOMAIN wire.header : \E x \in Others(f, wire.header[f]) :
                wire' = [wire EXCEPT !.header[f] = x]
  <2>1. PICK f \in DOMAIN h : \E x \in Others(f, h[f]) : wire' = [wire EXCEPT !.header[f] = x]
    BY <1>4, <1>6
  <2>2. PICK x \in Others(f, h[f]) : wire' = [wire EXCEPT !.header[f] = x]
    BY <2>1
  <2>3. PICK g : g = HeaderChanged(h, f, x)
    OBVIOUS
  <2>4. wire'.header = g /\ wire'.checksum = Checksum(h)
    BY <1>4, <2>2, <2>3 DEF HeaderChanged
  <2>5. \/ g.version # ProtocolVersion \/ Checksum(g) # Checksum(h)
        \/ f = "data_size" /\ x # h.data_size /\ x % W = h.data_size % W
    BY <1>3, <2>3, ChangeSeen
  <2>6. HeaderSeen'
    <3>1. CASE g.version # ProtocolVersion \/ Checksum(g) # Checksum(h)
      BY <2>4, <3>1 DEF HeaderSeen, HeaderValid
    <3>2. CASE f = "data_size" /\ x # h.data_size /\ x % W = h.data_size % W
      <4>1. h.data_size = sent.data.len
        BY <1>3 DEF Fields
      <4>2. g = [h EXCEPT !.data_size = x] /\ g.data_size = x
        BY <2>1, <2>3, <3>2 DEF HeaderChanged
      <4> QED
        BY <1>1, <1>3, <2>4, <3>2, <4>1, <4>2 DEF HeaderSeen, SizeWrapped
    <3> QED
      BY <2>5, <3>1, <3>2
  <2>7. wire'.data = sent'.data
    BY <1>1, <1>2, <1>4, <2>2, PackedData
  <2>8. Intact'
    BY <1>6, <2>7, WireAssumption DEF Intact
  <2> QED
    BY <1>1, <1>2, <1>5, <1>6, <2>4, <2>6, <2>8 DEF WireIInv, Wired
<1>7. CASE /\ damage' = "header"
           /\ \E x \in Others("checksum", wire.checksum) : wire' = [wire EXCEPT !.checksum = x]
  <2>1. PICK x : x # Checksum(h) /\ wire' = [wire EXCEPT !.checksum = x]
    BY <1>4, <1>7 DEF Others
  <2>2. wire'.header = h /\ wire'.checksum = x
    BY <1>4, <2>1
  <2>4. wire'.data = sent'.data
    BY <1>1, <1>2, <1>4, <2>1, PackedData
  <2>3. HeaderSeen' /\ Intact'
    BY <1>7, <2>1, <2>2, <2>4, WireAssumption DEF HeaderSeen, HeaderValid, Intact
  <2> QED
    BY <1>1, <1>2, <1>5, <1>7, <2>3 DEF WireIInv, Wired
<1>8. CASE /\ damage' = "reserved"
           /\ \E x \in Others("reserved", wire.reserved) : wire' = [wire EXCEPT !.reserved = x]
  <2>1. PICK x : wire' = [wire EXCEPT !.reserved = x]
    BY <1>8
  <2>2. wire'.reserved = x
    BY <1>4, <2>1
  <2>3. wire' = [Packed(sent') EXCEPT !.reserved = wire'.reserved] /\ wire'.data = sent'.data
    BY <1>1, <1>2, <1>4, <2>1, <2>2, PackedData
  <2>4. HeaderSeen' /\ Intact'
    BY <1>1, <1>8, <2>3, WireAssumption DEF HeaderSeen, Intact
  <2> QED
    BY <1>1, <1>2, <1>5, <1>8, <2>4 DEF WireIInv, Wired
<1> QED
  BY <1>6, <1>7, <1>8 DEF ChangeHeader

LEMMA ChangeBodyKeeps ==
    ASSUME WireIInv, ChangeBody
    PROVE  WireIInv'
<1>1. /\ wire # None /\ damage = None /\ damage' = "body" /\ received = None
      /\ UNCHANGED <<sent, received>>
  BY DEF ChangeBody, OnWire
<1>2. /\ sent \in RequestMessage /\ sent # None /\ Fits(Fields(sent)) /\ wire = Packed(sent)
  BY <1>1 DEF WireIInv, Wired, Intact
<1>3. PICK d \in Chunk : d = sent.data
  BY <1>2, MessageFields
<1>4. PICK a \in Annotations : a = sent.annotations
  BY <1>2, MessageFields
<1>5. PICK s : s = wire.digest
  OBVIOUS
<1>6. /\ wire.data = d /\ wire.annotations = a
      /\ s = IF sent.hmac_key = None THEN None ELSE Digest(sent.hmac_key, d, a)
      /\ DOMAIN wire = {"header", "reserved", "checksum", "annotations", "data", "digest"}
  BY <1>2, <1>3, <1>4, <1>5 DEF Packed
<1>7. ASSUME NEW key \in HmacKey
      PROVE  wire'.digest # Digest(key, wire'.data, wire'.annotations)
  <2>1. CASE \E b \in Byte : b # wire.data.byte /\ wire' = [wire EXCEPT !.data.byte = b]
    <3>1. PICK b \in Byte : b # d.byte /\ wire' = [wire EXCEPT !.data.byte = b]
      BY <1>6, <2>1
    <3>2. PICK e : e = [d EXCEPT !.byte = b]
      OBVIOUS
    <3>3. e \in Chunk /\ e # d
      BY <3>1, <3>2, ByteChanged
    <3>4. wire'.data = e /\ wire'.annotations = a /\ wire'.digest = s
      BY <1>5, <1>6, <3>1, <3>2
    <3>5. s # Digest(key, e, a)
      BY <1>6, <3>3, DigestsDiffer, DigestIsSome
    <3> QED
      BY <3>4, <3>5
  <2>2. CASE \E b \in Byte : \E k \in DOMAIN wire.annotations :
                b # wire.annotations[k].byte /\ wire' = [wire EXCEPT !.annotations[k].byte = b]
    <3>1. PICK b \in Byte, k \in DOMAIN a :
                b # a[k].byte /\ wire' = [wire EXCEPT !.annotations[k].byte = b]
      BY <1>6, <2>2
    <3>2. PICK e \in Chunk : e = [a[k] EXCEPT !.byte = b] /\ e # a[k]
      <4>1. PICK o \in Chunk : o = a[k]
        BY <3>1, OneAnnotation
      <4>2. PICK e : e = [o EXCEPT !.byte = b]
        OBVIOUS
      <4>3. e \in Chunk /\ e # o
        BY <3>1, <4>1, <4>2, ByteChanged
      <4> QED
        BY <4>1, <4>2, <4>3
    <3>3. PICK c : c = [a EXCEPT ![k] = e]
      OBVIOUS
    <3>4. c \in Annotations /\ DOMAIN c = DOMAIN a /\ c[k] = e
      BY <3>1, <3>3 DEF Annotations
    <3>5. wire'.data = d /\ wire'.annotations = c /\ wire'.digest = s
      BY <1>5, <1>6, <3>1, <3>2, <3>3
    <3>6. ValuesInOrder(a) # ValuesInOrder(c)
      BY <3>1, <3>2, <3>4, ValuesDiffer
    <3>7. s # Digest(key, d, c)
      BY <1>6, <3>4, <3>6, DigestsDiffer, DigestIsSome
    <3> QED
      BY <3>5, <3>7
  <2> QED
    BY <2>1, <2>2 DEF ChangeBody
<1>8. BodySeen'
  BY <1>7 DEF BodySeen
<1>9. Intact' /\ HeaderSeen' /\ Judged'
  BY <1>1, WireAssumption DEF Intact, HeaderSeen, Judged
<1> QED
  BY <1>1, <1>2, <1>8, <1>9 DEF WireIInv, Wired

LEMMA ReceiveKeeps ==
    ASSUME WireIInv, NEW key \in HmacKey \cup {None}, NEW max \in MaxMessage,
           NEW types \in {{}} \cup {{t} : t \in Type}, NEW enough \in BOOLEAN,
           Receive(key, max, types, enough)
    PROVE  WireIInv'
<1>1. /\ wire # None /\ UNCHANGED <<sent, wire, damage>>
      /\ received' = [result |-> Result(key, max, types, enough),
                      msg |-> IF Result(key, max, types, enough) = "ok" THEN Received(key) ELSE None,
                      key |-> key, max |-> max, types |-> types]
  BY DEF Receive, OnWire
<1>2. Wired /\ sent # None
  BY <1>1 DEF WireIInv
<1>3. Judged'
  <2>1. \A k : HmacValid(k)' = HmacValid(k) /\ Received(k)' = Received(k)
    BY <1>1 DEF Received, HmacValid, SizesMatch
  <2>2. \A k, m, t, e : Result(k, m, t, e)' = Result(k, m, t, e)
    BY <1>1, <2>1 DEF Result, HeaderValid
  <2> QED
    BY <1>1, <2>1, <2>2 DEF Judged
<1>4. Intact' /\ HeaderSeen' /\ BodySeen'
  BY <1>1, <1>2 DEF Wired, Intact, HeaderSeen, BodySeen, HeaderValid, SizeWrapped
<1> QED
  BY <1>1, <1>2, <1>3, <1>4 DEF WireIInv, Wired

LEMMA WireStutters ==
    ASSUME WireIInv, UNCHANGED wireVars
    PROVE  WireIInv'
<1>1. UNCHANGED <<sent, wire, damage, received>>
  BY DEF wireVars
<1>2. Judged => Judged'
  <2>1. \A k : HmacValid(k)' = HmacValid(k) /\ Received(k)' = Received(k)
    BY <1>1 DEF Received, HmacValid, SizesMatch
  <2>2. \A k, m, t, e : Result(k, m, t, e)' = Result(k, m, t, e)
    BY <1>1, <2>1 DEF Result, HeaderValid
  <2> QED
    BY <1>1, <2>1, <2>2 DEF Judged
<1> QED
  BY <1>1, <1>2 DEF WireIInv, Wired, Intact, HeaderSeen, BodySeen, HeaderValid, SizeWrapped

(* A peer that shares the secret and takes the message has what was sent,  *)
(* and any other refuses it.                                               *)
LEMMA IntactIsReceived ==
    ASSUME WireIInv
    PROVE  ReceivedAsSent
<1>1. SUFFICES ASSUME received # None, damage \in {None, "reserved"}
               PROVE  IF /\ received.key = sent.hmac_key
                         /\ received.types \in {{}, {sent.type}}
                         /\ ~TooLarge(received.max, sent.data.len + AnnotationsSize(sent))
                      THEN received.result = "ok" /\ received.msg = sent
                      ELSE received.result # "ok"
  BY DEF ReceivedAsSent
<1>2. /\ wire # None /\ wire = [Packed(sent) EXCEPT !.reserved = wire.reserved]
      /\ sent \in RequestMessage /\ Judged
  <2>1. wire # None /\ Intact /\ sent \in RequestMessage /\ Judged
    BY <1>1 DEF WireIInv, Wired
  <2>2. Packed(sent) = [Packed(sent) EXCEPT !.reserved = Packed(sent).reserved]
    BY DEF Packed
  <2> QED
    BY <1>1, <2>1, <2>2 DEF Intact
<1>3. PICK key \in HmacKey \cup {None}, max \in MaxMessage, types \in {{}} \cup {{t} : t \in Type},
         enough \in BOOLEAN :
          received = [result |-> Result(key, max, types, enough),
                      msg |-> IF Result(key, max, types, enough) = "ok" THEN Received(key) ELSE None,
                      key |-> key, max |-> max, types |-> types]
  BY <1>1, <1>2 DEF Judged
<1>4. PICK r : r = Result(key, max, types, enough)
  OBVIOUS
<1>5. /\ received.key = key /\ received.max = max /\ received.types = types /\ received.result = r
      /\ r = "ok" => received.msg = Received(key)
  BY <1>3, <1>4
<1>6. PICK m \in RequestMessage : m = sent
  BY <1>2
<1>7. PICK h \in Header : h = Fields(m) /\ h.version = ProtocolVersion
  BY HeaderTyped
<1>8. /\ wire.header = h /\ wire.checksum = Checksum(h) /\ wire.annotations = m.annotations
      /\ wire.data = m.data
      /\ wire.digest = IF m.hmac_key = None THEN None ELSE Digest(m.hmac_key, m.data, m.annotations)
  BY <1>2, <1>6, <1>7 DEF Packed
<1>9. /\ h.type = m.type /\ h.flags = m.flags /\ h.seq = m.seq /\ h.serializer_id = m.serializer_id
      /\ h.data_size = m.data.len /\ h.annotations_size = AnnotationsSize(m)
  BY <1>7 DEF Fields
<1>10. m.hmac_key # None => wire.digest # None
  BY <1>8, MessageFields, DigestIsSome
<1>17. SizesMatch
  <2>1. (wire.digest # None) = (m.hmac_key # None)
    BY <1>8, <1>10
  <2> QED
    BY <1>8, <1>9, <2>1 DEF SizesMatch, AnnotationsSize
<1>11. HmacValid(key) <=> key = m.hmac_key
  BY <1>8, <1>10, <1>17, DigestsDiffer DEF HmacValid
<1>12. Received(m.hmac_key) = m
  BY <1>8, <1>9, <1>17, MessageFields DEF Received
<1>16. h.data_size = wire.data.len /\ ~(h.data_size < 0) /\ ~(wire.data.len < h.data_size)
  <2>1. h.data_size \in Nat
    BY <1>7 DEF Header
  <2> QED
    BY <1>8, <1>9, <2>1
<1>13. (types # {} /\ m.type \notin types) <=> types \notin {{}, {m.type}}
  OBVIOUS
<1>14. r = "ok" <=> /\ key = m.hmac_key /\ types \in {{}, {m.type}}
                    /\ ~TooLarge(max, m.data.len + AnnotationsSize(m))
  <2>1. HeaderValid
    BY <1>7, <1>8 DEF HeaderValid
  <2>2. PICK z : z = TooLarge(max, m.data.len + AnnotationsSize(m))
    OBVIOUS
  <2>3. r = IF z THEN "closed"
            ELSE IF types # {} /\ m.type \notin types THEN "protocol error"
            ELSE IF ~HmacValid(key) THEN "security error" ELSE "ok"
    BY <1>4, <1>8, <1>9, <1>16, <2>1, <2>2 DEF Result
  <2> QED
    BY <1>11, <1>13, <2>2, <2>3
<1>15. r = "ok" => received.msg = m
  BY <1>5, <1>12, <1>14
<1> QED
  BY <1>5, <1>6, <1>14, <1>15

LEMMA DamageIsFound ==
    ASSUME WireIInv
    PROVE  DamageFound
<1>1. SUFFICES ASSUME received # None, received.result = "ok"
               PROVE  /\ damage = "header" => SizeWrapped /\ received.key = None
                      /\ damage = "body" => received.key = None
  BY DEF DamageFound
<1>2. wire # None /\ HeaderSeen /\ BodySeen /\ Judged
  BY <1>1 DEF WireIInv, Wired
<1>3. PICK key \in HmacKey \cup {None}, max \in MaxMessage, types \in {{}} \cup {{t} : t \in Type},
         enough \in BOOLEAN :
          received = [result |-> Result(key, max, types, enough),
                      msg |-> IF Result(key, max, types, enough) = "ok" THEN Received(key) ELSE None,
                      key |-> key, max |-> max, types |-> types]
  BY <1>1, <1>2 DEF Judged
<1>4. received.key = key /\ Result(key, max, types, enough) = "ok"
  BY <1>1, <1>3
<1>5. HeaderValid /\ HmacValid(key)
  BY <1>4 DEF Result
<1>6. damage = "header" => SizeWrapped /\ key = None
  <2>1. SUFFICES ASSUME damage = "header" PROVE SizeWrapped /\ key = None
    OBVIOUS
  <2>2. SizeWrapped
    BY <1>2, <1>5, <2>1 DEF HeaderSeen
  <2>3. wire.data = sent.data
    BY <1>1, <2>1, WireAssumption DEF WireIInv, Wired, Intact
  <2>4. ~SizesMatch
    BY <2>2, <2>3 DEF SizesMatch, SizeWrapped
  <2> QED
    BY <1>5, <2>2, <2>4 DEF HmacValid
<1>7. damage = "body" => key = None
  BY <1>2, <1>5 DEF BodySeen, HmacValid
<1> QED
  BY <1>4, <1>6, <1>7

(* A message is received as it was sent, or refused where it was damaged:  *)
(* packing and parsing fit together, the reserved field does not matter,   *)
(* and any change of one other field of the header shows in the checksum   *)
(* but that of the data's size by a multiple of 65536, which a peer with a *)
(* secret refuses -- for any types, flags, sizes, annotations, secrets,    *)
(* limits and changes.                                                     *)
THEOREM MessagesAreKept == WireSpec => []WireInv
<1>1. WireInit => WireIInv
  BY DEF WireInit, WireIInv
<1>2. ASSUME WireIInv, [WireNext]_wireVars
      PROVE  WireIInv'
  <2>1. CASE sent = None /\ \E m \in RequestMessage, max \in MaxMessage : Send(m, max)
    BY <1>2, <2>1, SendKeeps
  <2>2. CASE ChangeHeader
    BY <1>2, <2>2, ChangeHeaderKeeps
  <2>3. CASE ChangeBody
    BY <1>2, <2>3, ChangeBodyKeeps
  <2>4. CASE \E key \in HmacKey \cup {None}, max \in MaxMessage, types \in {{}} \cup {{t} : t \in Type},
              enough \in BOOLEAN : Receive(key, max, types, enough)
    BY <1>2, <2>4, ReceiveKeeps
  <2>5. CASE UNCHANGED wireVars
    BY <1>2, <2>5, WireStutters
  <2> QED
    BY <1>2, <2>1, <2>2, <2>3, <2>4, <2>5 DEF WireNext
<1>3. WireIInv => WireInv
  BY IntactIsReceived, DamageIsFound DEF WireInv
<1> QED
  BY <1>1, <1>2, <1>3, PTL DEF WireSpec

-----------------------------------------------------------------------------
(* Messages over a stream of bytes: MessageStream. *)

StreamByte == Nat \X Nat

Extent(i) == HeaderSize + BodySize[i]

(* Bytes of the messages 1 to n, each followed by its successor. *)
InOrder(s, n) ==
    /\ s \in Seq(StreamByte)
    /\ \A k \in 1 .. Len(s) : s[k][1] \in 1 .. n /\ s[k][2] \in 1 .. Extent(s[k][1])
    /\ \A k \in 1 .. Len(s) : \A d \in Nat :
        k + d <= Len(s) /\ s[k][2] + d <= Extent(s[k][1]) => s[k + d] = <<s[k][1], s[k][2] + d>>
    /\ \A k \in 1 .. Len(s) :
        k + 1 <= Len(s) /\ s[k][2] = Extent(s[k][1]) => s[k + 1] = <<s[k][1] + 1, 1>>

(* They go from byte j of message i to the last one of message n. *)
Spans(s, i, j, n) ==
    IF s = <<>> THEN i = n + 1 /\ j = 1 ELSE s[1] = <<i, j>> /\ s[Len(s)] = <<n, Extent(n)>>

(* The bytes of a message: each carries its message and its place in it. *)
LEMMA MessageBytesIs ==
    ASSUME NEW i \in 1 .. Len(BodySize)
    PROVE  /\ Extent(i) \in Nat /\ Extent(i) >= HeaderSize /\ Extent(i) - HeaderSize = BodySize[i]
           /\ MessageBytes(i) \in Seq(StreamByte) /\ Len(MessageBytes(i)) = Extent(i)
           /\ \A j \in 1 .. Extent(i) : MessageBytes(i)[j] = <<i, j>>
<1>1. BodySize[i] \in Nat /\ HeaderSize \in Nat /\ i \in Nat
  BY StreamAssumption, ElementOfSeq
<1>2. Extent(i) \in Nat /\ Extent(i) >= HeaderSize /\ Extent(i) - HeaderSize = BodySize[i]
  BY <1>1 DEF Extent
<1>3. MessageBytes(i) = [j \in 1 .. Extent(i) |-> <<i, j>>]
  BY DEF MessageBytes, Extent
<1>4. MessageBytes(i) \in [1 .. Extent(i) -> StreamByte]
  BY <1>1, <1>2, <1>3 DEF StreamByte
<1>5. MessageBytes(i) \in Seq(StreamByte)
  BY <1>2, <1>4, SeqDef
<1>6. Len(MessageBytes(i)) = Extent(i)
  BY <1>2, <1>4, <1>5, LenProperties
<1> QED
  BY <1>2, <1>3, <1>5, <1>6

(* What takes the first bytes takes a part of one message. *)
LEMMA Taken ==
    ASSUME NEW n \in 0 .. Len(BodySize), NEW i \in Nat, NEW j \in Nat,
           NEW a \in Seq(StreamByte), NEW b \in Seq(StreamByte), a # <<>>,
           InOrder(a \o b, n), Spans(a \o b, i, j, n),
           NEW h \in Nat, h = j + Len(a) - 1, h <= Extent(i)
    PROVE  /\ a = SubSeq(MessageBytes(i), j, h)
           /\ InOrder(b, n)
           /\ IF h = Extent(i) THEN Spans(b, i + 1, 1, n) ELSE Spans(b, i, h + 1, n)
<1> DEFINE s == a \o b
<1> DEFINE m == Len(a)
<1>1. /\ s \in Seq(StreamByte) /\ Len(s) = m + Len(b) /\ m \in Nat /\ m > 0 /\ Len(b) \in Nat
      /\ \A k \in 1 .. Len(s) : s[k] = IF k <= m THEN a[k] ELSE b[k - m]
  BY ConcatProperties, LenProperties, EmptySeq
<1>2. s # <<>>
  BY <1>1, EmptySeq
<1>3. s[1] = <<i, j>> /\ s[Len(s)] = <<n, Extent(n)>>
  BY <1>2 DEF Spans
<1>4. i \in 1 .. n /\ j \in 1 .. Extent(i)
  BY <1>1, <1>3 DEF InOrder
<1>5. i \in 1 .. Len(BodySize) /\ Len(BodySize) \in Nat /\ n \in Nat
  BY <1>4, StreamAssumption, LenProperties
<1>6. Extent(i) \in Nat /\ MessageBytes(i) \in Seq(StreamByte) /\ Len(MessageBytes(i)) = Extent(i)
      /\ \A k \in 1 .. Extent(i) : MessageBytes(i)[k] = <<i, k>>
  BY <1>5, MessageBytesIs
<1>7. \A d \in 0 .. m - 1 : s[1 + d] = <<i, j + d>>
  <2> TAKE d \in 0 .. m - 1
  <2>1. 1 \in 1 .. Len(s) /\ d \in Nat /\ 1 + d <= Len(s) /\ s[1][2] + d <= Extent(s[1][1])
    BY <1>1, <1>3, <1>4, <1>6
  <2>2. s[1 + d] = <<s[1][1], s[1][2] + d>>
    BY <2>1 DEF InOrder
  <2> QED
    BY <2>2, <1>3
<1>8. a = SubSeq(MessageBytes(i), j, j + m - 1)
  <2> DEFINE t == SubSeq(MessageBytes(i), j, j + m - 1)
  <2>1. \A k \in j .. j + m - 1 : MessageBytes(i)[k] = <<i, k>> /\ MessageBytes(i)[k] \in StreamByte
    <3> TAKE k \in j .. j + m - 1
    <3>1. k \in 1 .. Extent(i) /\ k \in Nat
      BY <1>1, <1>4, <1>6
    <3>2. MessageBytes(i)[k] = <<i, k>>
      BY <3>1, <1>6
    <3> QED
      BY <3>1, <3>2 DEF StreamByte
  <2>2. /\ t \in Seq(StreamByte) /\ Len(t) = m
        /\ \A k \in 1 .. m : t[k] = MessageBytes(i)[j + k - 1]
    <3>1. j \in Int /\ h \in Int /\ h = j + m - 1 /\ j <= h /\ h - j + 1 = m
      BY <1>1
    <3>2. /\ t \in Seq(StreamByte) /\ Len(t) = IF j <= h THEN h - j + 1 ELSE 0
          /\ \A k \in 1 .. h - j + 1 : t[k] = MessageBytes(i)[j + k - 1]
      <4>1. t = SubSeq(MessageBytes(i), j, h) /\ \A k \in j .. h : MessageBytes(i)[k] \in StreamByte
        BY <3>1, <2>1
      <4> HIDE DEF t
      <4> QED
        BY <3>1, <4>1, SubSeqProperties
    <3> QED
      BY <3>1, <3>2, <1>1
  <2>3. \A k \in 1 .. m : t[k] = <<i, j + k - 1>>
    BY <2>1, <2>2, <1>1
  <2>4. \A k \in 1 .. m : a[k] = <<i, j + k - 1>>
    <3> TAKE k \in 1 .. m
    <3>1. k - 1 \in 0 .. m - 1 /\ 1 + (k - 1) = k /\ j + (k - 1) = j + k - 1
      BY <1>1
    <3>2. s[k] = <<i, j + k - 1>>
      BY <3>1, <1>7
    <3> QED
      BY <3>2, <1>1
  <2> QED
    BY <2>2, <2>3, <2>4, SeqEqual
<1>9. InOrder(b, n)
  <2>1. \A k \in 1 .. Len(b) : k + m \in 1 .. Len(s) /\ s[k + m] = b[k]
    BY <1>1
  <2>2. \A k \in 1 .. Len(b) : b[k][1] \in 1 .. n /\ b[k][2] \in 1 .. Extent(b[k][1])
    BY <2>1 DEF InOrder
  <2>3. ASSUME NEW k \in 1 .. Len(b), NEW d \in Nat, k + d <= Len(b),
               b[k][2] + d <= Extent(b[k][1])
        PROVE  b[k + d] = <<b[k][1], b[k][2] + d>>
    <3>1. k + m + d <= Len(s) /\ (k + d) + m = k + m + d /\ k + d \in 1 .. Len(b)
      BY <1>1, <2>3
    <3>2. s[k + m + d] = <<s[k + m][1], s[k + m][2] + d>>
      BY <3>1, <2>1, <2>3 DEF InOrder
    <3> QED
      BY <3>1, <3>2, <2>1
  <2>4. ASSUME NEW k \in 1 .. Len(b), k + 1 <= Len(b), b[k][2] = Extent(b[k][1])
        PROVE  b[k + 1] = <<b[k][1] + 1, 1>>
    <3>0. k \in Nat /\ m \in Nat /\ Len(b) \in Nat /\ Len(s) = m + Len(b)
      BY <1>1
    <3>1. k + m + 1 <= Len(s) /\ (k + 1) + m = k + m + 1 /\ k + 1 \in 1 .. Len(b)
      BY ONLY <3>0, <2>4
    <3>2. s[k + m + 1] = <<s[k + m][1] + 1, 1>>
      BY <3>1, <2>1, <2>4 DEF InOrder
    <3> QED
      BY <3>1, <3>2, <2>1
  <2> QED
    BY <2>2, <2>3, <2>4 DEF InOrder
<1>10. s[m] = <<i, j + m - 1>>
  <2>1. m - 1 \in 0 .. m - 1 /\ 1 + (m - 1) = m /\ j + (m - 1) = j + m - 1
    BY <1>1
  <2> QED
    BY <2>1, <1>7
<1>11. ASSUME b = <<>>
       PROVE  i = n /\ j + m - 1 = Extent(i)
  <2>1. Len(s) = m
    BY <1>11, <1>1, EmptySeq
  <2> QED
    BY <2>1, <1>10, <1>3
<1>12. ASSUME b # <<>>
       PROVE  /\ b[Len(b)] = <<n, Extent(n)>>
              /\ b[1] = IF j + m - 1 = Extent(i) THEN <<i + 1, 1>> ELSE <<i, j + m>>
  <2>1. Len(b) > 0
    BY <1>12, <1>1, EmptySeq
  <2>2. b[Len(b)] = s[Len(s)]
    BY <2>1, <1>1
  <2>3. b[1] = s[m + 1] /\ m \in 1 .. Len(s) /\ m + 1 <= Len(s)
    BY <2>1, <1>1
  <2>4. CASE j + m - 1 = Extent(i)
    <3>0. s[m][2] = Extent(s[m][1])
      BY <2>4, <1>10
    <3>1. s[m + 1] = <<s[m][1] + 1, 1>>
      BY <2>3, <3>0 DEF InOrder
    <3> QED
      BY <3>1, <2>2, <2>3, <2>4, <1>3, <1>10
  <2>5. CASE j + m - 1 # Extent(i)
    <3>0. s[m][1] = i /\ s[m][2] = j + m - 1
      BY <1>10
    <3>1. s[m][2] + 1 <= Extent(s[m][1]) /\ 1 \in Nat
      <4>1. j + m - 1 <= Extent(i) /\ Extent(i) \in Nat /\ m \in Nat /\ j \in Nat
        BY <1>1, <1>6
      <4> QED
        BY <2>5, <3>0, <4>1
    <3>2. s[m + 1] = <<s[m][1], s[m][2] + 1>>
      BY <2>3, <3>1 DEF InOrder
    <3>3. s[m][2] + 1 = j + m
      BY <1>10, <1>1
    <3> QED
      BY <3>2, <3>3, <2>2, <2>3, <2>5, <1>3, <1>10
  <2> QED
    BY <2>4, <2>5
<1>13. IF j + m - 1 = Extent(i) THEN Spans(b, i + 1, 1, n) ELSE Spans(b, i, j + m, n)
  BY <1>11, <1>12 DEF Spans
<1>14. h = j + m - 1 /\ h + 1 = j + m
  BY <1>1
<1> QED
  BY <1>8, <1>9, <1>13, <1>14

(* What sendData adds is the next message. *)
LEMMA Added ==
    ASSUME NEW n \in 0 .. Len(BodySize), n < Len(BodySize), NEW i \in Nat, NEW j \in Nat,
           NEW s, InOrder(s, n), Spans(s, i, j, n)
    PROVE  /\ InOrder(s \o MessageBytes(n + 1), n + 1)
           /\ Spans(s \o MessageBytes(n + 1), i, j, n + 1)
<1> DEFINE b == MessageBytes(n + 1)
<1> DEFINE t == s \o b
<1> DEFINE m == Len(s)
<1>1. Len(BodySize) \in Nat /\ n \in Nat /\ n + 1 \in 1 .. Len(BodySize)
  BY StreamAssumption, LenProperties
<1>2. /\ Extent(n + 1) \in Nat /\ Extent(n + 1) > 0
      /\ b \in Seq(StreamByte) /\ Len(b) = Extent(n + 1)
      /\ \A k \in 1 .. Extent(n + 1) : b[k] = <<n + 1, k>>
  BY <1>1, MessageBytesIs, StreamAssumption
<1>3. s \in Seq(StreamByte) /\ m \in Nat
  BY LenProperties DEF InOrder
<1>4. /\ t \in Seq(StreamByte) /\ Len(t) = m + Extent(n + 1)
      /\ \A k \in 1 .. m : t[k] = s[k]
      /\ \A k \in 1 .. Len(t) : k > m => k - m \in 1 .. Extent(n + 1) /\ t[k] = <<n + 1, k - m>>
  <2>1. /\ t \in Seq(StreamByte) /\ Len(t) = m + Extent(n + 1)
        /\ \A k \in 1 .. Len(t) : t[k] = IF k <= m THEN s[k] ELSE b[k - m]
    BY <1>2, <1>3, ConcatProperties
  <2>2. \A k \in 1 .. m : t[k] = s[k]
    BY <2>1, <1>2, <1>3
  <2>3. \A k \in 1 .. Len(t) : k > m => k - m \in 1 .. Extent(n + 1) /\ ~(k <= m)
    BY <2>1, <1>2, <1>3
  <2>4. \A k \in 1 .. Len(t) : k > m => t[k] = b[k - m]
    BY <2>1, <2>3
  <2> QED
    BY <2>1, <2>2, <2>3, <2>4, <1>2
<1>5. \A k \in 1 .. Len(t) : t[k][1] \in 1 .. n + 1 /\ t[k][2] \in 1 .. Extent(t[k][1])
  <2> TAKE k \in 1 .. Len(t)
  <2>1. CASE k <= m
    <3>1. k \in 1 .. m
      BY <2>1, <1>3
    <3>2. t[k][1] \in 1 .. n /\ t[k][2] \in 1 .. Extent(t[k][1])
      BY <3>1, <1>4 DEF InOrder
    <3> QED
      BY <3>2, <1>1
  <2>2. CASE k > m
    <3>1. k - m \in 1 .. Extent(n + 1) /\ t[k] = <<n + 1, k - m>>
      BY <2>2, <1>4
    <3>2. t[k][1] = n + 1 /\ t[k][2] = k - m
      BY <3>1
    <3> QED
      BY <3>1, <3>2, <1>1
  <2> QED
    BY <2>1, <2>2, <1>3
<1>6. m > 0 => s[m] = <<n, Extent(n)>>
  BY EmptySeq, <1>3 DEF Spans
(* A run of s ends with it. *)
<1>7. ASSUME NEW k \in 1 .. m, NEW d \in Nat, k + d > m
      PROVE  ~(s[k][2] + d <= Extent(s[k][1]))
  <2> SUFFICES ASSUME s[k][2] + d <= Extent(s[k][1])
               PROVE  FALSE
    OBVIOUS
  <2>0. s[k][1] \in 1 .. n /\ s[k][2] \in 1 .. Extent(s[k][1])
    BY DEF InOrder
  <2>1. m > 0 /\ m - k \in Nat /\ k + (m - k) = m /\ m - k < d
    BY <1>3, <1>7
  <2>2. s[k][1] \in 1 .. Len(BodySize) /\ s[k][2] \in Nat
    BY <2>0, <1>1
  <2>3. Extent(s[k][1]) \in Nat
    BY <2>2, MessageBytesIs
  <2>4. s[k][2] + (m - k) <= Extent(s[k][1])
    <3>1. PICK x \in Nat, y \in Nat, z \in Nat : x = s[k][2] /\ y = Extent(s[k][1]) /\ z = m - k
      BY <2>1, <2>2, <2>3
    <3>2. x + d <= y /\ z < d /\ d \in Nat
      BY <3>1, <2>1, <1>7
    <3>3. x + z <= y
      BY ONLY <3>1, <3>2
    <3> QED
      BY <3>1, <3>3
  <2>5. s[m] = <<s[k][1], s[k][2] + (m - k)>>
    <3>1. k + (m - k) <= Len(s)
      BY <2>1, <1>3
    <3>2. s[k + (m - k)] = <<s[k][1], s[k][2] + (m - k)>>
      BY <2>1, <2>4, <3>1 DEF InOrder
    <3> QED
      BY <3>2, <2>1
  <2>6. s[k][1] = n /\ s[k][2] + (m - k) = Extent(n)
    BY <2>5, <2>1, <1>6
  <2> QED
    BY <2>1, <2>2, <2>3, <2>6
<1>8. ASSUME NEW k \in 1 .. Len(t), NEW d \in Nat, k + d <= Len(t),
             t[k][2] + d <= Extent(t[k][1])
      PROVE  t[k + d] = <<t[k][1], t[k][2] + d>>
  <2>1. CASE k <= m /\ k + d <= m
    <3>1. k \in 1 .. m /\ k + d \in 1 .. m
      BY <2>1, <1>3
    <3>2. s[k + d] = <<s[k][1], s[k][2] + d>>
      BY <3>1, <2>1, <1>8, <1>4 DEF InOrder
    <3> QED
      BY <3>1, <3>2, <1>4
  <2>2. CASE k <= m /\ k + d > m
    <3>1. k \in 1 .. m /\ t[k] = s[k]
      BY <2>2, <1>3, <1>4
    <3> QED
      BY <3>1, <2>2, <1>7, <1>8
  <2>3. CASE k > m
    <3>1. k + d \in 1 .. Len(t) /\ k + d > m /\ (k + d) - m = (k - m) + d
      BY <2>3, <1>3, <1>8, <1>4, <1>2
    <3>2. t[k + d] = <<n + 1, (k - m) + d>> /\ t[k] = <<n + 1, k - m>>
      BY <3>1, <2>3, <1>4
    <3>3. t[k][1] = n + 1 /\ t[k][2] = k - m
      BY <3>2
    <3> QED
      BY <3>2, <3>3
  <2>4. k \in Nat /\ m \in Nat /\ k + d \in Nat
    BY <1>3, <1>4, <1>2
  <2>5. (k <= m /\ k + d <= m) \/ (k <= m /\ k + d > m) \/ k > m
    BY <2>4
  <2> QED
    BY ONLY <2>1, <2>2, <2>3, <2>5
<1>9. ASSUME NEW k \in 1 .. Len(t), k + 1 <= Len(t), t[k][2] = Extent(t[k][1])
      PROVE  t[k + 1] = <<t[k][1] + 1, 1>>
  <2>1. CASE k < m
    <3>1. k \in 1 .. m /\ k + 1 \in 1 .. m
      BY <2>1, <1>3
    <3>2. s[k + 1] = <<s[k][1] + 1, 1>>
      BY <3>1, <1>9, <1>4 DEF InOrder
    <3> QED
      BY <3>1, <3>2, <1>4
  <2>2. CASE k = m
    <3>1. t[k] = <<n, Extent(n)>>
      BY <2>2, <1>4, <1>6
    <3>2. k + 1 \in 1 .. Len(t) /\ k + 1 > m /\ (k + 1) - m = 1
      BY <2>2, <1>3, <1>9
    <3>3. t[k + 1] = <<n + 1, 1>>
      BY <3>2, <1>4
    <3>4. t[k][1] = n
      BY <3>1
    <3> QED
      BY <3>3, <3>4
  <2>3. CASE k > m
    <3>1. t[k] = <<n + 1, k - m>>
      BY <2>3, <1>4
    <3>2. k - m = Extent(n + 1)
      BY <3>1, <1>9
    <3> QED
      BY <3>2, <1>9, <1>4, <1>3, <1>2
  <2>4. k \in Nat /\ m \in Nat
    BY <1>3, <1>4, <1>2
  <2>5. k < m \/ k = m \/ k > m
    BY <2>4
  <2> QED
    BY ONLY <2>1, <2>2, <2>3, <2>5
<1>10. InOrder(t, n + 1)
  BY <1>4, <1>5, <1>8, <1>9 DEF InOrder
<1>11. Spans(t, i, j, n + 1)
  <2>1. Len(t) > m /\ Len(t) \in 1 .. Len(t) /\ Len(t) - m = Extent(n + 1)
    BY <1>2, <1>3, <1>4
  <2>2. t[Len(t)] = <<n + 1, Extent(n + 1)>> /\ t # <<>>
    <3>1. t[Len(t)] = <<n + 1, Extent(n + 1)>>
      BY <2>1, <1>4
    <3>2. Len(t) > 0
      BY <2>1, <1>3
    <3> QED
      BY <3>1, <3>2, EmptySeq
  <2>3. CASE s = <<>>
    <3>1. m = 0
      BY <2>3, EmptySeq
    <3>2. 1 \in 1 .. Len(t) /\ 1 > m /\ 1 - m = 1
      BY <3>1, <2>1
    <3>3. t[1] = <<n + 1, 1>>
      BY <3>2, <1>4
    <3> QED
      BY <3>3, <2>2, <2>3 DEF Spans
  <2>4. CASE s # <<>>
    <3>1. m > 0
      BY <2>4, <1>3, EmptySeq
    <3>2. t[1] = s[1]
      BY <3>1, <1>3, <1>4
    <3> QED
      BY <3>2, <2>2, <2>4 DEF Spans
  <2> QED
    BY <2>3, <2>4
<1> QED
  BY <1>10, <1>11

-----------------------------------------------------------------------------
WaitsTyped ==
    /\ waitall \in BOOLEAN /\ useWaitall \in {None, TRUE, FALSE}
    /\ waitall = TRUE \/ useWaitall = None => chunks = <<>>
    /\ waitall = TRUE => useWaitall # None

StreamTyped ==
    /\ WaitsTyped
    /\ sending \in 0 .. Len(BodySize)
    /\ unsent \in Seq(StreamByte) /\ (unsent # <<>> => sending > 0)
    /\ bytes \in Seq(StreamByte) /\ chunks \in Seq(StreamByte)
    /\ writer \in {"open", "closed"} /\ reader \in {"open", "closed"}
    /\ phase \in {"header", "body"}
    /\ got \in Seq(Seq(StreamByte)) /\ Len(got) <= Len(BodySize) /\ (phase = "body" => Len(got) > 0)
    /\ size = IF phase = "body" THEN BodySize[Len(got)] ELSE HeaderSize
    /\ Len(chunks) <= size
    /\ writer = "closed" => failed = TRUE

(* What the reader has or will get. *)
Arriving == (chunks \o bytes) \o unsent

NextMessage == IF phase = "body" /\ BodySize[Len(got)] > 0 THEN Len(got) ELSE Len(got) + 1
NextByte == IF phase = "body" /\ BodySize[Len(got)] > 0 THEN HeaderSize + 1 ELSE 1

InPlace == InOrder(Arriving, sending) /\ Spans(Arriving, NextMessage, NextByte, sending)

StreamIInv == StreamTyped /\ WholeMessages /\ (reader = "open" => InPlace)

(* The smaller of two numbers is one of them. *)
LEMMA SmallerOf ==
    ASSUME NEW a \in Int, NEW b \in Int
    PROVE  Min({a, b}) \in {a, b} /\ Min({a, b}) <= a /\ Min({a, b}) <= b
<1>1. \E x \in {a, b} : \A y \in {a, b} : x <= y
  BY SMT
<1>2. Min({a, b}) \in {a, b} /\ \A y \in {a, b} : Min({a, b}) <= y
  BY <1>1 DEF Min
<1> QED
  BY <1>2

(* What recv takes and what it leaves are together what there was. *)
LEMMA Cut ==
    ASSUME NEW s \in Seq(StreamByte), NEW n \in 0 .. Len(s)
    PROVE  /\ SubSeq(s, 1, n) \in Seq(StreamByte) /\ Len(SubSeq(s, 1, n)) = n
           /\ Drop(s, n) \in Seq(StreamByte) /\ Len(Drop(s, n)) = Len(s) - n
           /\ SubSeq(s, 1, n) \o Drop(s, n) = s
<1>1. Len(s) \in Nat /\ \A k \in 1 .. Len(s) : s[k] \in StreamByte
  BY LenProperties, ElementOfSeq
<1>2. SubSeq(s, 1, n) \in Seq(StreamByte) /\ Len(SubSeq(s, 1, n)) = n
  <2>1. \A k \in 1 .. n : s[k] \in StreamByte
    BY <1>1
  <2>2. /\ SubSeq(s, 1, n) \in Seq(StreamByte)
        /\ Len(SubSeq(s, 1, n)) = IF 1 <= n THEN n - 1 + 1 ELSE 0
    BY <2>1, SubSeqProperties
  <2> QED
    BY <2>2, <1>1
<1>3. Drop(s, n) \in Seq(StreamByte) /\ Len(Drop(s, n)) = Len(s) - n
  <2>1. \A k \in n + 1 .. Len(s) : s[k] \in StreamByte
    BY <1>1
  <2>2. n + 1 \in Int /\ Len(s) \in Int
    BY <1>1
  <2>3. /\ SubSeq(s, n + 1, Len(s)) \in Seq(StreamByte)
        /\ Len(SubSeq(s, n + 1, Len(s))) =
             IF n + 1 <= Len(s) THEN Len(s) - (n + 1) + 1 ELSE 0
    BY <2>1, <2>2, SubSeqProperties
  <2> QED
    BY <2>3, <1>1 DEF Drop
<1>4. SubSeq(s, 1, n) \o SubSeq(s, n + 1, Len(s)) = SubSeq(s, 1, Len(s))
  <2>1. 1 \in 1 .. Len(s) + 1 /\ n \in 1 - 1 .. Len(s) /\ Len(s) \in n .. Len(s)
    BY <1>1
  <2> QED
    BY <2>1, ConcatAdjacentSubSeq
<1> QED
  BY <1>2, <1>3, <1>4, SubSeqFull DEF Drop

(* The header says which message it is the header of. *)
LEMMA HeaderIs ==
    ASSUME NEW i \in 1 .. Len(BodySize)
    PROVE  HeaderOf(SubSeq(MessageBytes(i), 1, HeaderSize)) = i
<1> DEFINE data == SubSeq(MessageBytes(i), 1, HeaderSize)
<1>1. HeaderSize \in Nat /\ HeaderSize > 0
  BY StreamAssumption
<1>2. /\ Extent(i) >= HeaderSize /\ Extent(i) \in Nat
      /\ MessageBytes(i) \in Seq(StreamByte) /\ Len(MessageBytes(i)) = Extent(i)
      /\ \A j \in 1 .. Extent(i) : MessageBytes(i)[j] = <<i, j>>
  BY MessageBytesIs
<1>3. data[1] = <<i, 1>>
  <2>1. \A k \in 1 .. HeaderSize : MessageBytes(i)[k] \in StreamByte
    BY <1>1, <1>2, ElementOfSeq
  <2>2. \A k \in 1 .. HeaderSize - 1 + 1 : data[k] = MessageBytes(i)[1 + k - 1]
    BY <2>1, <1>1, SubSeqProperties
  <2>3. data[1] = MessageBytes(i)[1]
    BY <2>2, <1>1
  <2> QED
    BY <2>3, <1>1, <1>2
<1>4. \E k \in 1 .. Len(BodySize) : data = SubSeq(MessageBytes(k), 1, HeaderSize)
  OBVIOUS
<1>5. data[1][1] = i
  <2> HIDE DEF data
  <2> QED
    BY <1>3
<1> QED
  BY <1>4, <1>5 DEF HeaderOf

(* An empty part changes nothing. *)
LEMMA MessageParts ==
    ASSUME NEW i \in 1 .. Len(BodySize)
    PROVE  /\ SubSeq(MessageBytes(i), 1, HeaderSize)
                \o SubSeq(MessageBytes(i), HeaderSize + 1, Extent(i)) = MessageBytes(i)
           /\ SubSeq(MessageBytes(i), HeaderSize + 1, Extent(i)) \in Seq(StreamByte)
           /\ SubSeq(MessageBytes(i), 1, HeaderSize) \in Seq(StreamByte)
<1>1. /\ Extent(i) >= HeaderSize /\ Extent(i) \in Nat /\ HeaderSize \in Nat
      /\ MessageBytes(i) \in Seq(StreamByte) /\ Len(MessageBytes(i)) = Extent(i)
  BY MessageBytesIs, StreamAssumption
<1>2. HeaderSize \in 0 .. Len(MessageBytes(i))
  BY <1>1
<1> QED
  BY <1>1, <1>2, Cut DEF Drop

(* Where the reader is in the messages that are sent. *)
LEMMA PlaceIs ==
    ASSUME NEW n \in Nat, NEW i \in Nat, NEW j \in Nat, NEW s, InOrder(s, n), Spans(s, i, j, n)
    PROVE  /\ i <= n + 1
           /\ s # <<>> => i \in 1 .. n /\ j \in 1 .. Extent(i)
<1>1. CASE s = <<>>
  BY <1>1 DEF Spans
<1>2. CASE s # <<>>
  <2>1. s[1] = <<i, j>> /\ 1 \in 1 .. Len(s)
    BY <1>2, EmptySeq, LenProperties DEF Spans, InOrder
  <2>2. s[1][1] \in 1 .. n /\ s[1][2] \in 1 .. Extent(s[1][1])
    BY <2>1 DEF InOrder
  <2> QED
    BY <2>1, <2>2
<1> QED
  BY <1>1, <1>2

(* A call of receiveData that has all it was asked for. *)
LEMMA ReturnedKeeps ==
    ASSUME StreamIInv, reader = "open", useWaitall # None,
           NEW data \in Seq(StreamByte), NEW rest \in Seq(StreamByte), Arriving = data \o rest,
           Len(data) = size, Returned(data), bytes' \in Seq(StreamByte), Arriving' = rest,
           UNCHANGED <<sending, unsent, writer, useWaitall, failed>>
    PROVE  StreamIInv' /\ (Channel!Next \/ UNCHANGED Channel!vars)
<1> USE DEF StreamIInv
<1> DEFINE L == Len(got)
<1> DEFINE n == sending
<1>1. /\ n \in 0 .. Len(BodySize) /\ n \in Nat /\ Len(BodySize) \in Nat
      /\ L \in Nat /\ L <= Len(BodySize) /\ DOMAIN got = 1 .. L
      /\ HeaderSize \in Nat /\ HeaderSize > 0
  BY StreamAssumption, LenProperties DEF StreamTyped
<1>2. InOrder(data \o rest, n) /\ Spans(data \o rest, NextMessage, NextByte, n)
  BY DEF InPlace
<1>3. chunks' = <<>> /\ waitall' = useWaitall /\ Complete(data)
  BY DEF Returned
<1>4. /\ chunks' \in Seq(StreamByte) /\ Len(chunks') = 0
      /\ WaitsTyped'
  <2>1. useWaitall' \in BOOLEAN /\ useWaitall' = useWaitall
    BY Zenon DEF StreamTyped, WaitsTyped
  <2>2. WaitsTyped'
    BY <1>3, <2>1, Zenon DEF WaitsTyped
  <2> QED
    BY <1>3, <2>2, EmptySeq
<1>5. CASE phase = "header"
  <2> DEFINE i == L + 1
  <2>1. NextMessage = i /\ NextByte = 1 /\ Len(data) = HeaderSize /\ i \in Nat
    BY <1>1, <1>5 DEF NextMessage, NextByte, StreamTyped
  <2>2. data # <<>> /\ data \o rest # <<>>
    BY <2>1, <1>1, EmptySeq, ConcatEqualIffEmpty
  <2>3. i \in 1 .. n
    BY <2>1, <2>2, <1>1, <1>2, PlaceIs
  <2>4. i \in 1 .. Len(BodySize)
    BY <2>3, <1>1
  <2>5. /\ Extent(i) >= HeaderSize /\ Extent(i) \in Nat /\ BodySize[i] = Extent(i) - HeaderSize
    BY <2>4, MessageBytesIs
  <2>6. 1 + HeaderSize - 1 = HeaderSize /\ 1 + HeaderSize = HeaderSize + 1
    BY <1>1
  <2>7. /\ data = SubSeq(MessageBytes(i), 1, HeaderSize)
        /\ InOrder(rest, n)
        /\ IF HeaderSize = Extent(i) THEN Spans(rest, i + 1, 1, n)
           ELSE Spans(rest, i, HeaderSize + 1, n)
    <3>1. /\ n \in 0 .. Len(BodySize) /\ i \in Nat /\ 1 \in Nat /\ data # <<>>
          /\ InOrder(data \o rest, n) /\ Spans(data \o rest, i, 1, n)
          /\ HeaderSize \in Nat /\ HeaderSize = 1 + Len(data) - 1 /\ HeaderSize <= Extent(i)
      BY <1>1, <1>2, <2>1, <2>2, <2>5, <2>6
    <3> HIDE DEF i, n
    <3> QED
      BY <3>1, Taken
  <2>8. HeaderOf(data) # 0
    BY <2>7, <2>4, HeaderIs
  <2>9. /\ got' = Append(got, data) /\ phase' = "body" /\ reader' = reader
        /\ size' = BodySize[i]
    BY <1>3, <1>5, <2>8, <2>4, <2>7, HeaderIs DEF Complete
  <2>10. /\ got' \in Seq(Seq(StreamByte)) /\ Len(got') = i
         /\ \A k \in 1 .. L : got'[k] = got[k]
         /\ got'[i] = data
    BY <2>9, AppendProperties DEF StreamTyped
  <2>11. StreamTyped'
    <3>1. /\ got' \in Seq(Seq(StreamByte)) /\ Len(got') <= Len(BodySize) /\ Len(got') > 0
          /\ size' = BodySize[Len(got')] /\ size' \in Nat
      BY <2>3, <2>4, <2>5, <2>9, <2>10, <1>1
    <3>2. /\ sending' \in 0 .. Len(BodySize)
          /\ unsent' \in Seq(StreamByte) /\ (unsent' # <<>> => sending' > 0)
          /\ writer' \in {"open", "closed"} /\ reader' \in {"open", "closed"}
          /\ writer' = "closed" => failed' = TRUE
      BY <2>9 DEF StreamTyped
    <3>3. Len(chunks') <= size'
      BY <3>1, <1>4
    <3> QED
      BY <3>1, <3>2, <3>3, <2>9, <1>3, <1>4 DEF StreamTyped
  <2>12. WholeMessages'
    <3>1. DOMAIN got' = 1 .. i
      BY <2>10, LenProperties
    <3>2. SUFFICES ASSUME NEW k \in 1 .. i
                   PROVE  got'[k] = IF k = i THEN SubSeq(MessageBytes(k), 1, HeaderSize)
                                    ELSE MessageBytes(k)
      BY <3>1, <2>9, <2>10 DEF WholeMessages, MessageBytes
    <3>3. CASE k = i
      BY <3>3, <2>7, <2>10
    <3>4. CASE k # i
      <4>1. k \in 1 .. L
        BY <3>4, <1>1
      <4> QED
        BY <4>1, <3>4, <1>1, <1>5, <2>10 DEF WholeMessages
    <3> QED
      BY <3>3, <3>4
  <2>13. InPlace'
    <3>1. IF BodySize[i] > 0 THEN NextMessage' = i /\ NextByte' = HeaderSize + 1
          ELSE NextMessage' = i + 1 /\ NextByte' = 1
      BY <2>9, <2>10 DEF NextMessage, NextByte
    <3>2. BodySize[i] > 0 <=> HeaderSize # Extent(i)
      BY <2>5, <1>1
    <3> QED
      BY <3>1, <3>2, <2>7, <1>1 DEF InPlace, InOrder, Spans, Extent
  <2>14. UNCHANGED Channel!vars
    BY <2>9, <2>10, <1>1, <1>5 DEF Channel!vars
  <2> QED
    BY <2>11, <2>12, <2>13, <2>14
<1>6. CASE phase = "body"
  <2>1. L \in 1 .. Len(BodySize) /\ Len(data) = BodySize[L]
    BY <1>1, <1>6 DEF StreamTyped
  <2>2. /\ Extent(L) >= HeaderSize /\ Extent(L) \in Nat /\ BodySize[L] = Extent(L) - HeaderSize
    BY <2>1, MessageBytesIs
  <2>3. /\ data = SubSeq(MessageBytes(L), HeaderSize + 1, Extent(L))
        /\ InOrder(rest, n)
        /\ Spans(rest, L + 1, 1, n)
    <3>1. CASE BodySize[L] = 0
      <4>1. data = <<>> /\ data \o rest = rest
        BY <3>1, <2>1, EmptySeq, ConcatEmptySeq
      <4>2. SubSeq(MessageBytes(L), HeaderSize + 1, Extent(L)) = <<>>
        BY <3>1, <2>2, <1>1, SubSeqEmpty
      <4>3. NextMessage = L + 1 /\ NextByte = 1
        BY <3>1 DEF NextMessage, NextByte
      <4> QED
        BY <4>1, <4>2, <4>3, <1>2
    <3>2. CASE BodySize[L] > 0
      <4>1. NextMessage = L /\ NextByte = HeaderSize + 1
        BY <3>2, <1>6 DEF NextMessage, NextByte
      <4>2. data # <<>> /\ HeaderSize + 1 + Len(data) - 1 = Extent(L)
        BY <3>2, <2>1, <2>2, <1>1, EmptySeq
      <4>3. /\ n \in 0 .. Len(BodySize) /\ L \in Nat /\ HeaderSize + 1 \in Nat
            /\ InOrder(data \o rest, n) /\ Spans(data \o rest, L, HeaderSize + 1, n)
        BY <4>1, <1>1, <1>2
      <4>4. PICK h \in Nat, j \in Nat : h = Extent(L) /\ j = HeaderSize + 1
        BY <2>2, <1>1
      <4>5. Spans(data \o rest, L, j, n) /\ h = j + Len(data) - 1 /\ h <= Extent(L)
        BY <4>2, <4>3, <4>4
      <4>6. /\ data = SubSeq(MessageBytes(L), j, h) /\ InOrder(rest, n)
            /\ IF h = Extent(L) THEN Spans(rest, L + 1, 1, n) ELSE Spans(rest, L, h + 1, n)
        <5>1. /\ n \in 0 .. Len(BodySize) /\ L \in Nat /\ data \in Seq(StreamByte) /\
                 rest \in Seq(StreamByte)
              /\ data # <<>> /\ InOrder(data \o rest, n) /\ Spans(data \o rest, L, j, n)
              /\ j \in Nat /\ h \in Nat /\ h = j + Len(data) - 1 /\ h <= Extent(L)
          BY <4>2, <4>3, <4>5
        <5> HIDE DEF L, n
        <5> QED
          BY ONLY <5>1, Taken
      <4> QED
        BY <4>4, <4>6
    <3> QED
      BY <3>1, <3>2, <2>2, <1>1
  <2>4. /\ got' = [got EXCEPT ![L] = got[L] \o data] /\ phase' = "header" /\ reader' = reader
        /\ size' = HeaderSize
    BY <1>3, <1>6 DEF Complete
  <2>5. got[L] = SubSeq(MessageBytes(L), 1, HeaderSize)
    <3>1. L \in DOMAIN got
      BY <2>1 DEF StreamTyped
    <3> QED
      BY <1>1, <3>1, <1>6 DEF WholeMessages
  <2>6. got[L] \o data = MessageBytes(L) /\ MessageBytes(L) \in Seq(StreamByte)
    BY <2>1, <2>3, <2>5, MessageParts, MessageBytesIs
  <2>7. /\ got' \in Seq(Seq(StreamByte)) /\ Len(got') = L
        /\ \A k \in 1 .. L : got'[k] = IF k = L THEN MessageBytes(L) ELSE got[k]
    <3>1. got \in Seq(Seq(StreamByte)) /\ L \in 1 .. Len(got)
      BY <2>1 DEF StreamTyped
    <3> QED
      BY <3>1, <2>4, <2>6, ExceptSeq
  <2>8. StreamTyped'
    <3>1. /\ got' \in Seq(Seq(StreamByte)) /\ Len(got') <= Len(BodySize)
          /\ size' = HeaderSize /\ size' \in Nat
      BY <2>4, <2>7, <1>1
    <3>2. /\ sending' \in 0 .. Len(BodySize)
          /\ unsent' \in Seq(StreamByte) /\ (unsent' # <<>> => sending' > 0)
          /\ writer' \in {"open", "closed"} /\ reader' \in {"open", "closed"}
          /\ writer' = "closed" => failed' = TRUE
      BY <2>4 DEF StreamTyped
    <3>3. Len(chunks') <= size'
      BY <3>1, <1>4
    <3> QED
      BY <3>1, <3>2, <3>3, <2>4, <1>3, <1>4 DEF StreamTyped
  <2>9. WholeMessages'
    <3>1. DOMAIN got' = 1 .. L
      BY <2>7, LenProperties
    <3>2. SUFFICES ASSUME NEW k \in 1 .. L
                   PROVE  got'[k] = MessageBytes(k)
      BY <3>1, <2>4 DEF WholeMessages, MessageBytes
    <3> QED
      BY <2>7, <1>1 DEF WholeMessages
  <2>10. InPlace'
    <3>1. NextMessage' = L + 1 /\ NextByte' = 1
      BY <2>4, <2>7 DEF NextMessage, NextByte
    <3> QED
      BY <3>1, <2>3 DEF InPlace, InOrder, Spans, Extent
  <2>11. L <= IF unsent = <<>> THEN n ELSE n - 1
    <3>1. L + 1 <= n + 1 /\ (rest # <<>> => L + 1 \in 1 .. n)
      BY <2>3, <1>1, PlaceIs
    <3>2. unsent # <<>> => rest # <<>>
      <4>1. rest = (chunks' \o bytes') \o unsent /\ unsent \in Seq(StreamByte)
        BY DEF Arriving, StreamTyped
      <4>2. chunks' \o bytes' \in Seq(StreamByte)
        BY <1>4, ConcatProperties
      <4> QED
        BY <4>1, <4>2, ConcatEqualIffEmpty
    <3> QED
      BY <3>1, <3>2, <1>1
  <2>12. Channel!Receive
    <3>1. Len(got') = L /\ L - 1 < L /\ L - 1 + 1 = L
      BY <2>7, <1>1
    <3>2. L - 1 < IF unsent = <<>> THEN n ELSE n - 1
      BY <2>11, <1>1
    <3> QED
      BY <3>1, <3>2, <2>4, <1>6 DEF Channel!Receive
  <2> QED
    BY <2>8, <2>9, <2>10, <2>12 DEF Channel!Next
<1> QED
  BY <1>5, <1>6 DEF StreamTyped

(* What has been read can be joined first, or what is still to come. *)
LEMMA Joined == \A a, b, c \in Seq(StreamByte) : a \o b \in Seq(StreamByte) /\
    (a \o b) \o c = a \o (b \o c)
<1> TAKE a, b, c \in Seq(StreamByte)
<1>1. a \o b \in Seq(StreamByte)
  BY ConcatProperties
<1>2. (a \o b) \o c = a \o (b \o c)
  BY ConcatAssociative
<1> QED
  BY <1>1, <1>2

(* Steps that cut the bytes in another way. *)
LEMMA PlaceKept ==
    ASSUME InPlace, WholeMessages, Arriving' = Arriving, UNCHANGED <<phase, got, sending>>
    PROVE  InPlace' /\ WholeMessages'
BY DEF InPlace, WholeMessages, InOrder, Spans, Extent, NextMessage, NextByte, MessageBytes

(* Nothing is sent and nothing is received at first. *)
LEMMA StreamStarts ==
    ASSUME StreamInit
    PROVE  StreamIInv
<1>1. /\ Len(BodySize) \in Nat /\ HeaderSize \in Nat
      /\ <<>> \in Seq(StreamByte) /\ <<>> \in Seq(Seq(StreamByte)) /\
         DOMAIN got = {} /\ Len(<<>>) = 0
      /\ \A S : <<>> \in Seq(S)
  BY StreamAssumption, LenProperties, EmptySeq DEF StreamInit
<1>2. StreamTyped
  <2>1. WaitsTyped
    BY Zenon DEF StreamInit, WaitsTyped
  <2> QED
    BY <1>1, <2>1, StreamAssumption DEF StreamInit, StreamTyped
<1>3. WholeMessages
  BY <1>1 DEF WholeMessages
<1>4. Arriving = <<>>
  <2>1. Arriving = (<<>> \o <<>>) \o <<>>
    BY DEF StreamInit, Arriving
  <2> QED
    BY <2>1, <1>1, ConcatEmptySeq
<1>5. NextMessage = 1 /\ NextByte = 1
  BY <1>1 DEF StreamInit, NextMessage, NextByte
<1>6. InPlace
  BY <1>1, <1>4, <1>5 DEF InPlace, InOrder, Spans, StreamInit
<1> QED
  BY <1>2, <1>3, <1>6 DEF StreamIInv

(* The writer's steps: each is one of the channel, or none. *)
LEMMA SenderKeeps ==
    ASSUME StreamIInv, Configure \/ SendData \/ Write \/ WriteFails
    PROVE  StreamIInv' /\ (Channel!Next \/ UNCHANGED Channel!vars)
<1> USE DEF StreamIInv
<1>1. Len(BodySize) \in Nat /\ HeaderSize \in Nat /\ sending \in Nat
  BY StreamAssumption, LenProperties DEF StreamTyped
<1>2. CASE Configure
  <2>0. WaitsTyped'
    <3>1. chunks' = <<>>
      BY <1>2, Zenon DEF Configure, StreamTyped, WaitsTyped
    <3>2. useWaitall' \in BOOLEAN /\ waitall' = useWaitall'
      BY <1>2 DEF Configure
    <3> QED
      BY <3>1, <3>2, StreamAssumption, Zenon DEF WaitsTyped
  <2>1. StreamTyped'
    BY <1>2, <2>0 DEF StreamTyped, Configure, senderVars
  <2>2. Arriving' = Arriving /\ UNCHANGED Channel!vars
    BY <1>2 DEF Configure, Arriving, senderVars, Channel!vars
  <2>3. UNCHANGED <<phase, got, sending, reader>>
    BY <1>2 DEF Configure, senderVars
  <2> QED
    BY <2>1, <2>2, <2>3, PlaceKept DEF WholeMessages, MessageBytes
<1>3. CASE SendData
  <2>1. /\ sending + 1 \in 1 .. Len(BodySize) /\ sending' = sending + 1
        /\ unsent = <<>> /\ unsent' = MessageBytes(sending + 1)
        /\ UNCHANGED <<readerVars, bytes, writer, failed>>
    BY <1>1, <1>3 DEF SendData
  <2>2. /\ MessageBytes(sending + 1) \in Seq(StreamByte)
        /\ Len(MessageBytes(sending + 1)) > 0
    BY <2>1, MessageBytesIs, StreamAssumption
  <2>0. WaitsTyped'
    BY <2>1, Zenon DEF StreamTyped, WaitsTyped, readerVars
  <2>3. StreamTyped'
    BY <1>1, <2>0, <2>1, <2>2 DEF StreamTyped, readerVars
  <2>4. Arriving' = Arriving \o MessageBytes(sending + 1)
    <3>1. chunks \in Seq(StreamByte) /\ bytes \in Seq(StreamByte)
      BY DEF StreamTyped
    <3>2. chunks \o bytes \in Seq(StreamByte) /\ Arriving = chunks \o bytes
      BY <2>1, <3>1, ConcatProperties, ConcatEmptySeq DEF Arriving
    <3> QED
      BY <2>1, <3>2 DEF Arriving, readerVars
  <2>5. ASSUME reader = "open"
        PROVE  InPlace'
    <3>1. NextMessage \in Nat /\ NextByte \in Nat
      <4>1. Len(got) \in Nat /\ HeaderSize + 1 \in Nat
        BY <1>1, LenProperties DEF StreamTyped
      <4> QED
        BY <4>1 DEF NextMessage, NextByte
    <3>2. /\ sending \in 0 .. Len(BodySize) /\ sending < Len(BodySize)
          /\ InOrder(Arriving, sending) /\ Spans(Arriving, NextMessage, NextByte, sending)
      BY <1>1, <2>1, <2>5 DEF InPlace
    <3>3. /\ InOrder(Arriving', sending') /\ Spans(Arriving', NextMessage, NextByte, sending')
      BY <3>1, <3>2, <2>1, <2>4, Added
    <3>4. NextMessage' = NextMessage /\ NextByte' = NextByte
      BY <2>1 DEF readerVars, NextMessage, NextByte
    <3> QED
      BY <3>3, <3>4 DEF InPlace, InOrder, Spans, Extent
  <2>6. WholeMessages'
    BY <2>1 DEF readerVars, WholeMessages, MessageBytes
  <2>7. UNCHANGED Channel!vars
    <3>1. unsent' # <<>>
      BY <2>1, <2>2, EmptySeq
    <3> QED
      BY <1>1, <2>1, <3>1 DEF Channel!vars, readerVars
  <2> QED
    BY <2>1, <2>3, <2>5, <2>6, <2>7 DEF readerVars
<1>4. CASE Write
  <2>1. PICK n \in 1 .. Len(unsent) :
            /\ unsent' = Drop(unsent, n)
            /\ bytes' = IF reader = "open" THEN bytes \o SubSeq(unsent, 1, n) ELSE bytes
    BY <1>4 DEF Write
  <2>2. unsent # <<>> /\ sending > 0 /\ UNCHANGED <<readerVars, sending, writer, failed>>
    BY <1>4 DEF Write, StreamTyped
  <2>3. unsent \in Seq(StreamByte) /\ bytes \in Seq(StreamByte) /\
        chunks \in Seq(StreamByte) /\ n \in 0 .. Len(unsent)
    BY LenProperties DEF StreamTyped
  <2>4. /\ SubSeq(unsent, 1, n) \in Seq(StreamByte) /\ Drop(unsent, n) \in Seq(StreamByte)
        /\ SubSeq(unsent, 1, n) \o Drop(unsent, n) = unsent
    BY <2>3, Cut
  <2>5. bytes' \in Seq(StreamByte)
    BY <2>1, <2>3, <2>4, ConcatProperties
  <2>0. WaitsTyped'
    BY <2>2, Zenon DEF StreamTyped, WaitsTyped, readerVars
  <2>6. StreamTyped'
    BY <2>0, <2>1, <2>2, <2>4, <2>5 DEF StreamTyped, readerVars
  <2>7. ASSUME reader = "open"
        PROVE  InPlace'
    <3>1. (chunks \o (bytes \o SubSeq(unsent, 1, n))) \o Drop(unsent, n)
            = (chunks \o bytes) \o (SubSeq(unsent, 1, n) \o Drop(unsent, n))
      <4>1. /\ chunks \in Seq(StreamByte) /\ bytes \in Seq(StreamByte)
            /\ SubSeq(unsent, 1, n) \in Seq(StreamByte) /\ Drop(unsent, n) \in Seq(StreamByte)
        BY <2>3, <2>4
      <4>2. PICK front \in Seq(StreamByte), back \in Seq(StreamByte) :
                front = SubSeq(unsent, 1, n) /\ back = Drop(unsent, n)
        BY <4>1
      <4>3. (chunks \o (bytes \o front)) \o back = (chunks \o bytes) \o (front \o back)
        <5>0. chunks \in Seq(StreamByte) /\ bytes \in Seq(StreamByte) /\ front \in Seq(StreamByte)
          BY <4>1
        <5>1. /\ chunks \o bytes \in Seq(StreamByte)
              /\ (chunks \o bytes) \o front = chunks \o (bytes \o front)
          BY ONLY <5>0, Joined
        <5>2. PICK held \in Seq(StreamByte) : held = chunks \o bytes
          BY <5>1
        <5>3. (held \o front) \o back = held \o (front \o back)
          BY ONLY <4>2, <5>2, Joined
        <5> QED
          BY <5>1, <5>2, <5>3
      <4> QED
        BY <4>2, <4>3
    <3>2. Arriving' = Arriving
      BY <2>1, <2>2, <2>4, <2>7, <3>1 DEF Arriving, readerVars
    <3> QED
      BY <2>2, <2>7, <3>2, PlaceKept DEF readerVars
  <2>8. WholeMessages'
    BY <2>2 DEF readerVars, WholeMessages, MessageBytes
  <2>9. CASE unsent' = <<>>
    <3>1. Channel!Send
      BY <1>1, <2>2, <2>9 DEF Channel!Send, readerVars, StreamTyped
    <3> QED
      BY <2>2, <2>6, <2>7, <2>8, <3>1 DEF Channel!Next, readerVars
  <2>10. CASE unsent' # <<>>
    <3>1. UNCHANGED Channel!vars
      BY <2>2, <2>10 DEF Channel!vars, readerVars
    <3> QED
      BY <2>2, <2>6, <2>7, <2>8, <3>1 DEF readerVars
  <2> QED
    BY <2>9, <2>10
<1>5. CASE WriteFails
  <2>1. /\ writer' = "closed" /\ failed' = TRUE
        /\ UNCHANGED <<readerVars, bytes, sending, unsent>>
    BY <1>5 DEF WriteFails
  <2>0. WaitsTyped'
    BY <2>1, Zenon DEF StreamTyped, WaitsTyped, readerVars
  <2>2. StreamTyped'
    BY <2>0, <2>1 DEF StreamTyped, readerVars
  <2>3. Arriving' = Arriving /\ UNCHANGED <<phase, got, sending, reader>>
    BY <2>1 DEF Arriving, readerVars
  <2>4. Channel!Next
    BY <2>1 DEF Channel!Next, Channel!Break, readerVars
  <2> QED
    BY <2>2, <2>3, <2>4, PlaceKept DEF WholeMessages, MessageBytes
<1> QED
  BY <1>2, <1>3, <1>4, <1>5

(* The reader's steps: each is one of the channel, or none. *)
LEMMA ReaderKeeps ==
    ASSUME StreamIInv, ReadWaitall \/ ReadChunk \/ ReadEnds \/ ReadFails
    PROVE  StreamIInv' /\ (Channel!Next \/ UNCHANGED Channel!vars)
<1> USE DEF StreamIInv
<1>1. /\ Len(BodySize) \in Nat /\ HeaderSize \in Nat /\ sending \in Nat
      /\ unsent \in Seq(StreamByte) /\ bytes \in Seq(StreamByte) /\ chunks \in Seq(StreamByte)
      /\ Len(bytes) \in Nat /\ Len(chunks) \in Nat /\ Len(unsent) \in Nat
  BY StreamAssumption, LenProperties DEF StreamTyped
<1>2. size \in Nat
  <2>1. Len(got) \in Nat
    BY LenProperties DEF StreamTyped
  <2>2. phase = "body" => Len(got) \in 1 .. Len(BodySize)
    BY <2>1 DEF StreamTyped
  <2> QED
    BY <1>1, <2>2, StreamAssumption, ElementOfSeq DEF StreamTyped
<1>3. CASE ReadWaitall
  <2>1. PICK n \in 0 .. Min({size, Len(bytes)}) :
            /\ bytes' = Drop(bytes, n)
            /\ LET data == SubSeq(bytes, 1, n)
               IN  IF n = size THEN Returned(data)
                   ELSE chunks' = data /\ waitall' = FALSE /\ UNCHANGED <<reader, phase, size, got>>
    BY <1>3 DEF ReadWaitall
  <2>2. /\ reader = "open" /\ chunks = <<>> /\ useWaitall # None
        /\ UNCHANGED <<sending, unsent, writer, useWaitall, failed>>
    <3>1. chunks = <<>> /\ useWaitall # None
      BY <1>3, Zenon DEF ReadWaitall, StreamTyped, WaitsTyped
    <3> QED
      BY <1>3, <3>1 DEF ReadWaitall, senderVars
  <2>3. n \in 0 .. Len(bytes) /\ n <= size /\ n \in Nat
    <3>1. /\ Min({size, Len(bytes)}) \in {size, Len(bytes)}
          /\ Min({size, Len(bytes)}) <= size /\ Min({size, Len(bytes)}) <= Len(bytes)
      <4>1. size \in Int /\ Len(bytes) \in Int
        BY <1>1, <1>2
      <4> QED
        BY <4>1, SmallerOf, Zenon
    <3> QED
      BY <1>1, <1>2, <2>1, <3>1
  <2> DEFINE data == SubSeq(bytes, 1, n)
  <2>4. /\ data \in Seq(StreamByte) /\ Len(data) = n /\ bytes' \in Seq(StreamByte)
        /\ data \o bytes' = bytes
    BY <1>1, <2>1, <2>3, Cut
  <2>5. Arriving = data \o (bytes' \o unsent) /\ bytes' \o unsent \in Seq(StreamByte)
        /\ Arriving = (data \o bytes') \o unsent
    <3>1. Arriving = bytes \o unsent
      BY <1>1, <2>2, ConcatEmptySeq DEF Arriving
    <3>2. (data \o bytes') \o unsent = data \o (bytes' \o unsent)
      <4>1. data \in Seq(StreamByte) /\ bytes' \in Seq(StreamByte) /\ unsent \in Seq(StreamByte)
        BY <1>1, <2>4
      <4> HIDE DEF data
      <4> QED
        BY ONLY <4>1, Joined
    <3>3. bytes' \o unsent \in Seq(StreamByte)
      BY <1>1, <2>4, Joined, Zenon
    <3> QED
      BY <2>4, <3>1, <3>2, <3>3
  <2>6. CASE n = size
    <3>1. Returned(data)
      BY <2>1, <2>6
    <3>2. Arriving' = bytes' \o unsent
      BY <2>2, <2>4, <3>1, ConcatEmptySeq DEF Arriving, Returned
    <3> QED
      BY <2>2, <2>4, <2>5, <2>6, <3>1, <3>2, ReturnedKeeps
  <2>7. CASE n # size
    <3>1. chunks' = data /\ waitall' = FALSE /\ UNCHANGED <<reader, phase, size, got>>
      BY <2>1, <2>7
    <3>0. WaitsTyped'
      BY <2>2, <3>1, Zenon DEF StreamTyped, WaitsTyped
    <3>2. StreamTyped'
      BY <2>2, <2>3, <2>4, <3>0, <3>1 DEF StreamTyped
    <3>3. Arriving' = Arriving
      BY <2>2, <2>5, <3>1 DEF Arriving
    <3>4. UNCHANGED Channel!vars
      BY <2>2, <3>1 DEF Channel!vars
    <3> QED
      BY <2>2, <3>1, <3>2, <3>3, <3>4, PlaceKept
  <2> QED
    BY <2>6, <2>7
<1>4. CASE ReadChunk
  <2>1. PICK n \in 1 .. Min({Asked, Len(bytes)}) :
            bytes' = Drop(bytes, n) /\ chunks' = chunks \o SubSeq(bytes, 1, n)
    BY <1>4 DEF ReadChunk
  <2>2. /\ reader = "open" /\ waitall = FALSE /\ useWaitall # None
        /\ UNCHANGED <<senderVars, reader, phase, size, waitall, useWaitall, got, failed>>
    BY <1>4 DEF ReadChunk
  <2>3. n \in 0 .. Len(bytes) /\ n <= size - Len(chunks) /\ n \in Nat
    <3>1. Asked \in Int /\ Asked <= size - Len(chunks)
      <4>1. BufferSize \in Int /\ size - Len(chunks) \in Int
        BY <1>1, <1>2, StreamAssumption
      <4> QED
        BY <4>1, SmallerOf DEF Asked
    <3>2. Min({Asked, Len(bytes)}) \in Int /\ Min({Asked, Len(bytes)}) <= Asked
          /\ Min({Asked, Len(bytes)}) <= Len(bytes)
      <4>1. Len(bytes) \in Int /\ Asked \in Int
        BY <1>1, <3>1
      <4>2. /\ Min({Asked, Len(bytes)}) \in {Asked, Len(bytes)}
            /\ Min({Asked, Len(bytes)}) <= Asked /\ Min({Asked, Len(bytes)}) <= Len(bytes)
        BY <4>1, SmallerOf, Zenon
      <4> QED
        BY <4>1, <4>2
    <3> QED
      BY <1>1, <1>2, <2>1, <3>1, <3>2
  <2> DEFINE data == SubSeq(bytes, 1, n)
  <2>4. /\ data \in Seq(StreamByte) /\ Len(data) = n /\ bytes' \in Seq(StreamByte)
        /\ data \o bytes' = bytes
    BY <1>1, <2>1, <2>3, Cut
  <2>5. /\ chunks' \in Seq(StreamByte) /\ Len(chunks') = Len(chunks) + n
        /\ chunks' \o bytes' = chunks \o bytes
    <3>1. (chunks \o data) \o bytes' = chunks \o (data \o bytes')
      BY <1>1, <2>4, Joined, Zenon
    <3>2. chunks \o data \in Seq(StreamByte) /\ Len(chunks \o data) = Len(chunks) + n
      BY <1>1, <2>4, ConcatProperties
    <3> QED
      BY <2>1, <2>4, <3>1, <3>2
  <2>0. WaitsTyped'
    BY <2>2, Zenon DEF StreamTyped, WaitsTyped
  <2>6. StreamTyped'
    <3>1. Len(chunks') <= size'
      BY <1>1, <1>2, <2>2, <2>3, <2>5
    <3> QED
      BY <2>0, <2>2, <2>4, <2>5, <3>1 DEF StreamTyped, senderVars
  <2>7. Arriving' = Arriving /\ UNCHANGED Channel!vars
    BY <2>2, <2>5 DEF Arriving, senderVars, Channel!vars
  <2> QED
    BY <2>2, <2>6, <2>7, PlaceKept DEF senderVars
<1>5. CASE ReadEnds
  <2>1. /\ reader = "open" /\ useWaitall # None /\ waitall = FALSE
        /\ Len(chunks) >= size \/ (bytes = <<>> /\ writer = "closed")
        /\ UNCHANGED <<sending, unsent, writer, bytes, useWaitall, failed>>
    BY <1>5 DEF ReadEnds, senderVars
  <2>2. CASE Enough
    <3>1. Returned(chunks) /\ Len(chunks) = size
      BY <1>5, <2>2 DEF ReadEnds, Enough
    <3>2. Arriving = chunks \o (bytes \o unsent) /\ bytes \o unsent \in Seq(StreamByte)
      BY <1>1, Joined, Zenon DEF Arriving
    <3>3. Arriving' = bytes \o unsent
      BY <1>1, <2>1, <3>1, ConcatEmptySeq DEF Arriving, Returned
    <3> QED
      BY <1>1, <2>1, <3>1, <3>2, <3>3, ReturnedKeeps
  <2>3. CASE ~Enough
    <3>1. reader' = "closed" /\ UNCHANGED <<phase, size, got, chunks, waitall>>
      BY <1>5, <2>3 DEF ReadEnds
    <3>2. writer = "closed"
      BY <1>1, <1>2, <2>1, <2>3 DEF Enough, StreamTyped
    <3>0. WaitsTyped'
      BY <2>1, <3>1, Zenon DEF StreamTyped, WaitsTyped
    <3>3. StreamTyped' /\ WholeMessages'
      BY <2>1, <3>0, <3>1 DEF StreamTyped, WholeMessages, MessageBytes
    <3>4. UNCHANGED Channel!vars
      BY <2>1, <3>1, <3>2 DEF Channel!vars
    <3> QED
      BY <3>1, <3>3, <3>4
  <2> QED
    BY <2>2, <2>3
<1>6. CASE ReadFails
  <2>1. /\ reader' = "closed" /\ bytes' = <<>> /\ failed' = TRUE
        /\ UNCHANGED <<senderVars, phase, size, chunks, waitall, useWaitall, got>>
    BY <1>6 DEF ReadFails
  <2>0. WaitsTyped'
    BY <2>1, Zenon DEF StreamTyped, WaitsTyped
  <2>2. StreamTyped' /\ WholeMessages'
    BY <2>0, <2>1, EmptySeq DEF StreamTyped, WholeMessages, MessageBytes, senderVars
  <2>3. Channel!Next
    BY <2>1 DEF Channel!Next, Channel!Break, senderVars
  <2> QED
    BY <2>1, <2>2, <2>3
<1> QED
  BY <1>3, <1>4, <1>5, <1>6

(* What is received and what is on the way are, in each state, the bytes   *)
(* of the messages sent, in order and without a gap.                       *)
THEOREM StreamIsSafe == StreamSpec => []StreamIInv
<1>1. StreamInit => StreamIInv
  BY StreamStarts
<1>2. StreamIInv /\ [StreamNext]_streamVars => StreamIInv'
  <2>1. SUFFICES ASSUME StreamIInv, [StreamNext]_streamVars
                 PROVE  StreamIInv'
    OBVIOUS
  <2>2. CASE StreamNext
    BY <2>1, <2>2, SenderKeeps, ReaderKeeps DEF StreamNext
  <2>3. CASE UNCHANGED streamVars
    <3>0. WaitsTyped'
      BY <2>1, <2>3, Zenon DEF StreamIInv, StreamTyped, streamVars, WaitsTyped
    <3>1. StreamTyped' /\ WholeMessages' /\ Arriving' = Arriving
          /\ UNCHANGED <<phase, got, sending, reader>>
      BY <2>1, <2>3, <3>0 DEF StreamIInv, streamVars, StreamTyped, WholeMessages,
         MessageBytes, Arriving
    <3> QED
      BY <2>1, <3>1, PlaceKept DEF StreamIInv
  <2> QED
    BY <2>1, <2>2, <2>3
<1> QED
  BY <1>1, <1>2, PTL DEF StreamSpec

(* WholeMessages for any sizes of messages and buffers and any cuts of the *)
(* bytes: recv returns the messages that were sent, one after the other    *)
(* (socketutil lines 130-226, message lines 161-199).                      *)
THEOREM MessagesAreWhole == StreamSpec => []WholeMessages
<1>1. StreamIInv => WholeMessages
  BY DEF StreamIInv
<1> QED
  BY <1>1, StreamIsSafe, PTL

(* A connection implements MessageChannel, for any sizes of messages and   *)
(* buffers: every step that sends, receives or loses bytes is one of the   *)
(* channel, or changes nothing of it (socketutil lines 130-226).           *)
THEOREM StreamKeepsPromise == StreamSpec => Channel!Init /\ StreamIsChannel
<1>1. StreamInit => Channel!Init
  <2> SUFFICES ASSUME StreamInit
               PROVE  Channel!Init
    OBVIOUS
  <2>1. Len(<<>>) = 0
    BY EmptySeq
  <2> QED
    BY <2>1 DEF StreamInit, Channel!Init
<1>2. StreamIInv /\ [StreamNext]_streamVars =>
        [UNCHANGED streamVars \/ Channel!Next]_(Channel!vars)
  <2>1. SUFFICES ASSUME StreamIInv, [StreamNext]_streamVars
                 PROVE  [UNCHANGED streamVars \/ Channel!Next]_(Channel!vars)
    OBVIOUS
  <2>2. CASE StreamNext
    BY <2>1, <2>2, SenderKeeps, ReaderKeeps DEF StreamNext
  <2>3. CASE UNCHANGED streamVars
    BY <2>3
  <2> QED
    BY <2>1, <2>2, <2>3
<1> QED
  BY <1>1, <1>2, StreamIsSafe, PTL DEF StreamSpec, StreamIsChannel

-----------------------------------------------------------------------------
(* The message bus: MessageBus. *)

Phase == {"stopped", "wait", "stats", "collect", "deliver", "drop", "dead"}

(* A list of messages, in the order in which they were sent, up to number n. *)
Sorted(n) ==
    {s \in Seq(Nat) : /\ \A i \in DOMAIN s : s[i] <= n
                      /\ \A i, j \in DOMAIN s : i < j => s[i] < s[j]}
BusState(n) ==
    [topics : SUBSET Topic, messages : [Topic -> Sorted(n)],
     subscribers : [Topic -> SUBSET Subscriber]]
SenderState(n) ==
    [phase : Phase, batch : [Topic -> Sorted(n)], todo : SUBSET (Topic \X Subscriber),
     failing : SUBSET Subscriber, counted : {Cardinality(T) : T \in SUBSET Topic}]
CallState(n) ==
    [to : Subscriber, parts : Seq(Sorted(n)) \ {<<>>}, tries : Nat, no : Nat]
RequestState(n) == [no : Nat \ {0}, to : Subscriber, rest : Sorted(n)]
Owed(n) == [topic : Topic, msg : 0 .. n, to : Subscriber]

(* What the bus, its threads and its subscribers hold. *)
BusTyped ==
    /\ bus \in BusState(counts.sent)
    /\ checked # None => checked \in Topic
    /\ subscribing # None => subscribing \in [topic : Topic, who : Subscriber]
    /\ sender \in SenderState(counts.sent)
    /\ counts \in [sent : Nat, invokes : Nat, rounds : Nat]

(* The messages in a request, and those delivered, are sent ones, in order. *)
TransitTyped ==
    /\ call # None =>
        /\ call \in CallState(counts.sent)
        /\ call.no <= counts.invokes
    /\ \A c \in incoming :
        /\ c \in RequestState(counts.sent)
        /\ c.no <= counts.invokes
    /\ backlog \in [Subscriber -> Nat]
    /\ delivered \in [Subscriber -> Seq(0 .. counts.sent)]

(* What is due is owed to somebody who is subscribed. *)
DueTyped ==
    /\ due \in SUBSET Owed(counts.sent)
    /\ \A o \in due : o.to \in bus.subscribers[o.topic]

(* A message has one topic. *)
DueTopic ==
    \A o \in due, t \in Topic :
        o.msg \in Elements(bus.messages[t]) \cup Elements(sender.batch[t]) => o.topic = t

Got(o) == Elements(delivered[o.to])
Earlier(o, p) == o.topic = p.topic /\ o.to = p.to /\ o.msg < p.msg

(* What was collected is delivered, to be delivered, or in the call. *)
Served ==
    sender.phase = "deliver" =>
        \A o \in due :
            o.msg \in Elements(sender.batch[o.topic]) =>
                \/ o.msg \in Got(o)
                \/ <<o.topic, o.to>> \in sender.todo
                \/ /\ call # None /\ call.to = o.to
                   /\ \E i \in DOMAIN call.parts : o.msg \in Elements(call.parts[i])

(* No message is delivered, collected or requested before an earlier one: *)
BatchOrder ==
    sender.phase = "deliver" =>
        \A o, p \in due :
            Earlier(o, p) /\ p.msg \in Elements(sender.batch[p.topic]) =>
                o.msg \in Got(o) \cup Elements(sender.batch[o.topic])

CallOrder ==
    call # None =>
        \A o, p \in due : Earlier(o, p) /\ p.to = call.to =>
            \A i \in DOMAIN call.parts :
                p.msg \in Elements(call.parts[i]) =>
                    o.msg \in Got(o) \/ \E j \in 1 .. i : o.msg \in Elements(call.parts[j])

RequestOrder ==
    \A c \in incoming : \A o, p \in due :
        Earlier(o, p) /\ p.to = c.to /\ p.msg \in Elements(c.rest) =>
            o.msg \in Got(o) \cup Elements(c.rest)

(* The request that is waited for has the first part of the call. *)
AwaitedPart ==
    \A c \in incoming : Awaited(c) =>
        /\ c.to = call.to
        /\ Elements(Head(call.parts)) \subseteq Elements(delivered[c.to]) \cup Elements(c.rest)

BusIInv ==
    /\ BusTyped /\ TransitTyped /\ DueTyped /\ DueTopic /\ Served
    /\ BatchOrder /\ CallOrder /\ RequestOrder /\ AwaitedPart /\ BusInv

-----------------------------------------------------------------------------
(* Lists of messages. *)

(* The recursion of Remaining over a list has a solution. *)
Keeps(f, s, gone) ==
    f = [i \in 0 .. Len(s) |->
            IF i = 0 THEN <<>> ELSE IF s[i] \in gone THEN f[i - 1] ELSE Append(f[i - 1], s[i])]

LEMMA KeepExists ==
    ASSUME NEW s \in Seq(Nat), NEW gone
    PROVE  \E f : Keeps(f, s, gone)
<1> DEFINE n == Len(s)
           step == [i \in 1 .. n |-> [x \in Seq(Nat) |-> IF s[i] \in gone THEN x ELSE Append(x, s[i])]]
<1>1. n \in Nat
  OBVIOUS
<1>2. step \in [1 .. n -> [Seq(Nat) -> Seq(Nat)]]
  <2>1. ASSUME NEW i \in 1 .. n, NEW x \in Seq(Nat)
        PROVE  (IF s[i] \in gone THEN x ELSE Append(x, s[i])) \in Seq(Nat)
    BY AppendProperties
  <2> QED
    BY <2>1
<1>3. <<>> \in Seq(Nat)
  BY EmptySeq
<1>4. \A i \in 1 .. n : \A x \in Seq(Nat) :
        step[i][x] = IF s[i] \in gone THEN x ELSE Append(x, s[i])
  OBVIOUS
<1> HIDE DEF n, step
<1>5. PICK f \in [0 .. n -> Seq(Nat)] : Recursion(f, n, <<>>, step)
  BY <1>1, <1>2, <1>3, RecursionExists
<1>6. ASSUME NEW i \in 0 .. n
      PROVE  (IF i = 0 THEN <<>> ELSE step[i][f[i - 1]]) =
                IF i = 0 THEN <<>> ELSE IF s[i] \in gone THEN f[i - 1] ELSE Append(f[i - 1], s[i])
  <2>1. i # 0 => i \in 1 .. n /\ i - 1 \in 0 .. n
    BY <1>1
  <2>2. i # 0 => f[i - 1] \in Seq(Nat)
    BY <1>5, <2>1
  <2> QED
    BY <1>4, <2>1, <2>2
<1>7. [i \in 0 .. n |-> IF i = 0 THEN <<>> ELSE step[i][f[i - 1]]] =
        [i \in 0 .. n |-> IF i = 0 THEN <<>> ELSE IF s[i] \in gone THEN f[i - 1] ELSE Append(f[i - 1], s[i])]
  BY <1>6, Zenon
<1>8. f = [i \in 0 .. n |-> IF i = 0 THEN <<>> ELSE step[i][f[i - 1]]]
  BY <1>5, Zenon DEF Recursion
<1>9. Keeps(f, s, gone)
  BY <1>7, <1>8, Zenon DEF Keeps, n
<1> QED
  BY <1>9

(* What is put behind a list in order. *)
LEMMA AppendedLast ==
    ASSUME NEW n \in Nat, NEW s \in Sorted(n), NEW x \in Nat, \A i \in DOMAIN s : s[i] < x,
           NEW m \in Nat, n <= m, x <= m
    PROVE  Append(s, x) \in Sorted(m) /\ Elements(Append(s, x)) = Elements(s) \cup {x}
<1>1. /\ s \in Seq(Nat) /\ DOMAIN s = 1 .. Len(s) /\ Len(s) \in Nat
      /\ \A i \in 1 .. Len(s) : s[i] \in Nat /\ s[i] <= n /\ s[i] < x
      /\ \A i, j \in 1 .. Len(s) : i < j => s[i] < s[j]
  BY DEF Sorted
<1>2. /\ Append(s, x) \in Seq(Nat) /\ DOMAIN Append(s, x) = 1 .. Len(s) + 1
      /\ \A i \in 1 .. Len(s) : Append(s, x)[i] = s[i]
      /\ Append(s, x)[Len(s) + 1] = x
  BY <1>1, AppendProperties
<1> DEFINE t == Append(s, x)
<1>3. \A i \in 1 .. Len(s) + 1 : i \in 1 .. Len(s) \/ i = Len(s) + 1
  BY <1>1
<1> HIDE DEF t
<1>4. ASSUME NEW i \in DOMAIN t PROVE t[i] <= m
  BY <1>1, <1>2, <1>3 DEF t
<1>5. ASSUME NEW i \in DOMAIN t, NEW j \in DOMAIN t, i < j PROVE t[i] < t[j]
  <2>1. i \in 1 .. Len(s) /\ (j \in 1 .. Len(s) \/ j = Len(s) + 1)
    BY <1>1, <1>2, <1>3, <1>5 DEF t
  <2> QED
    BY <2>1, <1>1, <1>2, <1>5 DEF t
<1>6. t \in Sorted(m)
  BY <1>2, <1>4, <1>5 DEF Sorted, t
<1>7. Elements(t) = Elements(s) \cup {x}
  BY <1>1, <1>2, <1>3 DEF Elements, t
<1> QED
  BY <1>6, <1>7 DEF t

(* What is removed from a list is gone, and the rest is in order. *)
LEMMA RemainingInOrder ==
    ASSUME NEW n \in Nat, NEW s \in Sorted(n), NEW gone
    PROVE  /\ Remaining(s, gone) \in Sorted(n)
           /\ Elements(Remaining(s, gone)) = Elements(s) \ gone
<1>1. /\ s \in Seq(Nat) /\ DOMAIN s = 1 .. Len(s) /\ Len(s) \in Nat
      /\ \A i \in 1 .. Len(s) : s[i] \in Nat /\ s[i] <= n
      /\ \A i, j \in 1 .. Len(s) : i < j => s[i] < s[j]
  BY DEF Sorted
<1> DEFINE keep == CHOOSE f : f = [i \in 0 .. Len(s) |->
                IF i = 0 THEN <<>> ELSE IF s[i] \in gone THEN f[i - 1] ELSE Append(f[i - 1], s[i])]
           Good(i) == /\ keep[i] \in Sorted(n)
                      /\ Elements(keep[i]) = {s[j] : j \in 1 .. i} \ gone
<1>2. keep = [i \in 0 .. Len(s) |->
                IF i = 0 THEN <<>> ELSE IF s[i] \in gone THEN keep[i - 1] ELSE Append(keep[i - 1], s[i])]
  <2>1. s \in Seq(Nat)
    BY <1>1
  <2>2. \E f : Keeps(f, s, gone)
    BY <2>1, KeepExists
  <2> QED
    BY <2>2 DEF Keeps
<1>3. Remaining(s, gone) = keep[Len(s)]
  BY DEF Remaining
<1> DEFINE K == [i \in 0 .. Len(s) |->
                IF i = 0 THEN <<>> ELSE IF s[i] \in gone THEN keep[i - 1] ELSE Append(keep[i - 1], s[i])]
<1>9. keep = K
  BY <1>2
<1> HIDE DEF keep
<1>10. ASSUME NEW i \in 1 .. Len(s)
       PROVE  keep[i] = IF s[i] \in gone THEN keep[i - 1] ELSE Append(keep[i - 1], s[i])
  <2>1. i \in 0 .. Len(s) /\ i # 0
    BY <1>1
  <2>2. K[i] = IF s[i] \in gone THEN keep[i - 1] ELSE Append(keep[i - 1], s[i])
    BY <2>1
  <2> HIDE DEF K
  <2> QED
    BY <2>2, <1>9
<1> HIDE DEF K
<1>4. Good(0)
  <2>1. keep[0] = <<>>
    BY <1>1, <1>2
  <2>2. <<>> \in Sorted(n) /\ Elements(<<>>) = {}
    BY DEF Sorted, Elements
  <2> QED
    BY <2>1, <2>2
<1>5. ASSUME NEW i \in 1 .. Len(s), Good(i - 1) PROVE Good(i)
  <2>1. keep[i] = IF s[i] \in gone THEN keep[i - 1] ELSE Append(keep[i - 1], s[i])
    BY <1>10
  <2>2. {s[j] : j \in 1 .. i} = {s[j] : j \in 1 .. i - 1} \cup {s[i]}
    BY <1>1
  <2>3. CASE s[i] \in gone
    BY <1>5, <2>1, <2>2, <2>3
  <2>4. CASE s[i] \notin gone
    <3>1. \A j \in DOMAIN keep[i - 1] : keep[i - 1][j] < s[i]
      <4>1. \A j \in DOMAIN keep[i - 1] : keep[i - 1][j] \in {s[k] : k \in 1 .. i - 1}
        BY <1>5 DEF Elements
      <4>2. \A k \in 1 .. i - 1 : s[k] < s[i]
        BY <1>1
      <4> QED
        BY <4>1, <4>2
    <3>2. s[i] \in Nat /\ s[i] <= n /\ n <= n
      BY <1>1
    <3> DEFINE k == keep[i - 1]
    <3>3. k \in Sorted(n) /\ \A j \in DOMAIN k : k[j] < s[i]
      BY <1>5, <3>1
    <3> HIDE DEF k
    <3>4. Append(k, s[i]) \in Sorted(n) /\ Elements(Append(k, s[i])) = Elements(k) \cup {s[i]}
      BY <3>2, <3>3, AppendedLast
    <3> QED
      BY <1>5, <2>1, <2>2, <2>4, <3>4 DEF k
  <2> QED
    BY <2>3, <2>4
<1>7. Good(Len(s))
  <2> DEFINE G == {i \in 0 .. Len(s) : Good(i)}
  <2> HIDE DEF Good
  <2>1. 0 \in G /\ \A i \in 1 .. Len(s) : i - 1 \in G => i \in G
    BY <1>1, <1>4, <1>5
  <2>2. Len(s) \in 0 .. Len(s)
    BY <1>1
  <2> HIDE DEF G
  <2>3. Len(s) \in G
    BY <1>1, <2>1, <2>2, Ascending
  <2> QED
    BY <2>3 DEF G
<1>8. Elements(s) = {s[j] : j \in 1 .. Len(s)}
  BY <1>1 DEF Elements
<1> QED
  BY <1>3, <1>7, <1>8

LEMMA ElementsAppended ==
    ASSUME NEW S, NEW s \in Seq(S), NEW x \in S
    PROVE  Append(s, x) \in Seq(S) /\ Elements(Append(s, x)) = Elements(s) \cup {x}
<1>1. /\ Append(s, x) \in Seq(S) /\ DOMAIN Append(s, x) = 1 .. Len(s) + 1
      /\ \A i \in 1 .. Len(s) : Append(s, x)[i] = s[i]
      /\ Append(s, x)[Len(s) + 1] = x
      /\ DOMAIN s = 1 .. Len(s) /\ Len(s) \in Nat
  BY AppendProperties
<1>2. \A i \in 1 .. Len(s) + 1 : i \in 1 .. Len(s) \/ i = Len(s) + 1
  BY <1>1
<1> QED
  BY <1>1, <1>2 DEF Elements

LEMMA MoreNumbers ==
    ASSUME NEW n \in Nat, NEW m \in Nat, n <= m
    PROVE  /\ Sorted(n) \subseteq Sorted(m)
           /\ Seq(0 .. n) \subseteq Seq(0 .. m)
           /\ Seq(Sorted(n)) \subseteq Seq(Sorted(m))
<1>1. ASSUME NEW s \in Sorted(n) PROVE s \in Sorted(m)
  <2>1. s \in Seq(Nat) /\ \A i \in DOMAIN s : s[i] \in Nat /\ s[i] <= n
    BY DEF Sorted
  <2>2. \A i \in DOMAIN s : s[i] <= m
    BY <2>1
  <2> QED
    BY <2>1, <2>2 DEF Sorted
<1>2. Sorted(n) \subseteq Sorted(m) /\ 0 .. n \subseteq 0 .. m
  BY <1>1
<1>3. \A S, T : S \subseteq T => Seq(S) \subseteq Seq(T)
  BY SeqMonotonic
<1> QED
  BY <1>2, <1>3

LEMMA SortedNumbers ==
    ASSUME NEW n \in Nat, NEW s \in Sorted(n)
    PROVE  s \in Seq(Nat) /\ s \in Seq(0 .. n) /\ Elements(s) \subseteq 0 .. n
<1>1. s \in Seq(Nat) /\ DOMAIN s = 1 .. Len(s) /\ Len(s) \in Nat
  BY DEF Sorted
<1>2. \A i \in 1 .. Len(s) : s[i] \in 0 .. n
  BY <1>1 DEF Sorted
<1> QED
  BY <1>1, <1>2 DEF Elements

LEMMA EmptySorted ==
    ASSUME NEW n \in Nat
    PROVE  <<>> \in Sorted(n) /\ Elements(<<>>) = {}
  BY DEF Sorted, Elements

(* The first message of a request is the earliest one. *)
LEMMA FirstOfRest ==
    ASSUME NEW n \in Nat, NEW s \in Sorted(n), s # <<>>
    PROVE  /\ Head(s) \in 0 .. n /\ Tail(s) \in Sorted(n)
           /\ Elements(s) = {Head(s)} \cup Elements(Tail(s))
           /\ \A m \in Elements(s) : Head(s) <= m
           /\ Len(s) > 1 <=> Tail(s) # <<>>
<1>1. /\ s \in Seq(Nat) /\ DOMAIN s = 1 .. Len(s) /\ Len(s) \in Nat /\ Len(s) > 0
      /\ \A i \in 1 .. Len(s) : s[i] \in Nat /\ s[i] <= n
      /\ \A i, j \in 1 .. Len(s) : i < j => s[i] < s[j]
  BY DEF Sorted
<1>2. /\ Head(s) = s[1] /\ Tail(s) \in Seq(Nat) /\ Len(Tail(s)) = Len(s) - 1
      /\ DOMAIN Tail(s) = 1 .. Len(s) - 1
      /\ \A i \in 1 .. Len(s) - 1 : Tail(s)[i] = s[i + 1]
  BY <1>1, HeadTailProperties
<1>3. Tail(s) \in Sorted(n)
  <2>1. \A i \in DOMAIN Tail(s) : Tail(s)[i] <= n
    BY <1>1, <1>2
  <2>2. \A i, j \in DOMAIN Tail(s) : i < j => Tail(s)[i] < Tail(s)[j]
    BY <1>1, <1>2
  <2> QED
    BY <1>2, <2>1, <2>2 DEF Sorted
<1>4. \A i \in 1 .. Len(s) : i = 1 \/ (i - 1 \in 1 .. Len(s) - 1 /\ s[i] = Tail(s)[i - 1])
  BY <1>1, <1>2
<1>5. Elements(s) \subseteq {Head(s)} \cup Elements(Tail(s))
  <2>1. ASSUME NEW i \in 1 .. Len(s) PROVE s[i] \in {Head(s)} \cup Elements(Tail(s))
    <3>1. i = 1 => s[i] = Head(s)
      BY <1>2
    <3>2. i # 1 => \E j \in DOMAIN Tail(s) : s[i] = Tail(s)[j]
      BY <1>2, <1>4
    <3> QED
      BY <3>1, <3>2 DEF Elements
  <2> QED
    BY <1>1, <2>1 DEF Elements
<1>6. {Head(s)} \cup Elements(Tail(s)) \subseteq Elements(s)
  BY <1>1, <1>2 DEF Elements
<1>7. \A m \in Elements(s) : Head(s) <= m
  BY <1>1, <1>2 DEF Elements
<1>8. Len(s) > 1 <=> Tail(s) # <<>>
  <2>1. Tail(s) = <<>> <=> Len(Tail(s)) = 0
    BY <1>2, EmptySeq
  <2> QED
    BY <1>1, <1>2, <2>1
<1> QED
  BY <1>1, <1>2, <1>3, <1>5, <1>6, <1>7, <1>8

(* Messages that come one by one come in their order. *)
LEMMA RequestsInOrder ==
    ASSUME NEW n \in Nat, NEW b \in Sorted(n)
    PROVE  /\ Requests(b) \in Seq(Sorted(n)) /\ Requests(b) # <<>>
           /\ \A m \in Elements(b) : \E i \in DOMAIN Requests(b) : m \in Elements(Requests(b)[i])
           /\ \A i \in DOMAIN Requests(b) : Elements(Requests(b)[i]) \subseteq Elements(b)
           /\ \A i \in DOMAIN Requests(b) : \A p \in Elements(Requests(b)[i]) : \A o \in Elements(b) :
                o < p => \E j \in 1 .. i : o \in Elements(Requests(b)[j])
<1>1. /\ b \in Seq(Nat) /\ DOMAIN b = 1 .. Len(b) /\ Len(b) \in Nat
      /\ \A i \in 1 .. Len(b) : b[i] \in Nat /\ b[i] <= n
      /\ \A i, j \in 1 .. Len(b) : i < j => b[i] < b[j]
  BY DEF Sorted
<1> DEFINE R == Requests(b)
<1>2. CASE Len(b) <= BatchLimit
  <2>1. R = <<b>>
    BY <1>2 DEF Requests
  <2>2. R \in Seq(Sorted(n)) /\ R # <<>> /\ DOMAIN R = {1} /\ R[1] = b
    BY <2>1
  <2> HIDE DEF R
  <2>3. \A i \in DOMAIN R : i = 1 /\ Elements(R[i]) = Elements(b) /\ i \in 1 .. i
    BY <2>2
  <2>4. \A m \in Elements(b) : \E i \in DOMAIN R : m \in Elements(R[i])
    BY <2>2
  <2> QED
    BY <2>2, <2>3, <2>4 DEF R
<1>3. CASE ~(Len(b) <= BatchLimit)
  <2>1. R = [i \in 1 .. Len(b) |-> <<b[i]>>]
    BY <1>1, <1>3 DEF Requests
  <2>2. Len(b) > 0
    BY <1>1, <1>3, BusAssumption
  <2>3. ASSUME NEW i \in 1 .. Len(b)
        PROVE  R[i] = <<b[i]>> /\ <<b[i]>> \in Sorted(n) /\ Elements(<<b[i]>>) = {b[i]}
    <3>1. b[i] \in Nat /\ b[i] <= n
      BY <1>1
    <3>2. <<b[i]>> \in Seq(Nat) /\ DOMAIN <<b[i]>> = {1} /\ <<b[i]>>[1] = b[i]
      BY <3>1
    <3>3. <<b[i]>> \in Sorted(n)
      BY <3>1, <3>2 DEF Sorted
    <3> QED
      BY <2>1, <3>2, <3>3 DEF Elements
  <2>4. DOMAIN R = 1 .. Len(b)
    BY <2>1
  <2>5. R \in [1 .. Len(b) -> Sorted(n)]
    BY <2>1, <2>3
  <2>6. R \in Seq(Sorted(n)) /\ R # <<>>
    BY <1>1, <2>2, <2>4, <2>5, IsASeq
  <2> HIDE DEF R
  <2>7. \A m \in Elements(b) : \E i \in DOMAIN R : m \in Elements(R[i])
    <3>1. ASSUME NEW i \in 1 .. Len(b) PROVE i \in DOMAIN R /\ b[i] \in Elements(R[i])
      BY <2>3, <2>4
    <3>2. \A m \in Elements(b) : \E i \in 1 .. Len(b) : m = b[i]
      BY <1>1 DEF Elements
    <3> QED
      BY <3>1, <3>2
  <2>8. \A i \in DOMAIN R : Elements(R[i]) \subseteq Elements(b)
    <3>1. \A i \in 1 .. Len(b) : b[i] \in Elements(b)
      BY <1>1 DEF Elements
    <3> QED
      BY <2>3, <2>4, <3>1
  <2>9. ASSUME NEW i \in DOMAIN R, NEW p \in Elements(R[i]), NEW o \in Elements(b), o < p
        PROVE  \E j \in 1 .. i : o \in Elements(R[j])
    <3>1. p = b[i] /\ i \in 1 .. Len(b)
      BY <2>3, <2>4
    <3>2. PICK j \in 1 .. Len(b) : o = b[j]
      BY <1>1 DEF Elements
    <3>3. j < i
      BY <1>1, <2>9, <3>1, <3>2
    <3>4. j \in 1 .. i
      BY <1>1, <3>1, <3>3
    <3>5. o \in Elements(R[j])
      BY <2>3, <3>2
    <3> QED
      BY <3>4, <3>5
  <2> QED
    BY <2>6, <2>7, <2>8, <2>9 DEF R
<1> QED
  BY <1>2, <1>3

(* The parts of a call that are left when the first one is answered. *)
LEMMA PartsLeft ==
    ASSUME NEW S, NEW parts \in Seq(S), Len(parts) > 1
    PROVE  /\ Tail(parts) \in Seq(S) /\ Tail(parts) # <<>>
           /\ \A i \in DOMAIN Tail(parts) : i + 1 \in DOMAIN parts /\ Tail(parts)[i] = parts[i + 1]
           /\ \A i \in DOMAIN parts : i = 1 \/ (i - 1 \in DOMAIN Tail(parts) /\ Tail(parts)[i - 1] = parts[i])
<1>1. parts # <<>> /\ Len(parts) \in Nat /\ DOMAIN parts = 1 .. Len(parts)
  BY EmptySeq
<1>2. /\ Tail(parts) \in Seq(S) /\ Len(Tail(parts)) = Len(parts) - 1
      /\ DOMAIN Tail(parts) = 1 .. Len(parts) - 1
      /\ \A i \in 1 .. Len(parts) - 1 : Tail(parts)[i] = parts[i + 1]
  BY <1>1, HeadTailProperties
<1>3. Tail(parts) # <<>>
  <2>1. Tail(parts) = <<>> <=> Len(Tail(parts)) = 0
    BY <1>2, EmptySeq
  <2> QED
    BY <1>1, <1>2, <2>1
<1>4. \A i \in DOMAIN Tail(parts) : i + 1 \in DOMAIN parts
  BY <1>1, <1>2
<1>5. \A i \in DOMAIN parts : i = 1 \/ (i - 1 \in DOMAIN Tail(parts) /\ Tail(parts)[i - 1] = parts[i])
  BY <1>1, <1>2
<1> QED
  BY <1>2, <1>3, <1>4, <1>5

-----------------------------------------------------------------------------
(* What the operations of the storages leave. *)

LEMMA BusFields ==
    ASSUME NEW n, NEW b \in BusState(n)
    PROVE  /\ b.topics \in SUBSET Topic /\ b.messages \in [Topic -> Sorted(n)]
           /\ b.subscribers \in [Topic -> SUBSET Subscriber]
  BY DEF BusState

LEMMA BusParts ==
    ASSUME NEW n, NEW T \in SUBSET Topic, NEW M \in [Topic -> Sorted(n)],
           NEW S \in [Topic -> SUBSET Subscriber], NEW c,
           c = [topics |-> T, messages |-> M, subscribers |-> S]
    PROVE  c \in BusState(n) /\ c.topics = T /\ c.messages = M /\ c.subscribers = S
  BY DEF BusState

LEMMA TopicsReplaced ==
    ASSUME NEW n, NEW b \in BusState(n), NEW T \in SUBSET Topic, NEW c,
           c = [b EXCEPT !.topics = T]
    PROVE  /\ c \in BusState(n) /\ c.topics = T
           /\ c.messages = b.messages /\ c.subscribers = b.subscribers
  BY DEF BusState

LEMMA MessagesReplaced ==
    ASSUME NEW n, NEW b \in BusState(n), NEW M \in [Topic -> Sorted(n)], NEW c,
           c = [b EXCEPT !.messages = M]
    PROVE  /\ c \in BusState(n) /\ c.messages = M
           /\ c.topics = b.topics /\ c.subscribers = b.subscribers
  BY DEF BusState

LEMMA SubscribersReplaced ==
    ASSUME NEW n, NEW b \in BusState(n), NEW S \in [Topic -> SUBSET Subscriber], NEW c,
           c = [b EXCEPT !.subscribers = S]
    PROVE  /\ c \in BusState(n) /\ c.subscribers = S
           /\ c.topics = b.topics /\ c.messages = b.messages
  BY DEF BusState

LEMMA BusGrows ==
    ASSUME NEW n \in Nat, NEW b \in BusState(n)
    PROVE  b \in BusState(n + 1)
<1>1. Sorted(n) \subseteq Sorted(n + 1)
  BY MoreNumbers
<1> QED
  BY <1>1 DEF BusState

LEMMA EmptyBusState ==
    ASSUME NEW n \in Nat
    PROVE  /\ EmptyBus \in BusState(n) /\ Nothing \in [Topic -> Sorted(n)]
           /\ \A t \in Topic : Elements(Nothing[t]) = {} /\ EmptyBus.messages = Nothing
<1>1. Nothing \in [Topic -> Sorted(n)] /\ \A t \in Topic : Elements(Nothing[t]) = {}
  BY EmptySorted DEF Nothing
<1>2. EmptyBus.messages = Nothing /\ EmptyBus \in BusState(n)
  BY <1>1 DEF EmptyBus, BusState
<1> QED
  BY <1>1, <1>2

LEMMA TopicCreated ==
    ASSUME NEW n, NEW b \in BusState(n), NEW t \in Topic
    PROVE  /\ CreateTopic(b, t) \in BusState(n)
           /\ CreateTopic(b, t).messages = b.messages
           /\ CreateTopic(b, t).subscribers = b.subscribers
<1>1. b.topics \cup {t} \in SUBSET Topic
  BY BusFields
<1>2. PICK T \in SUBSET Topic : T = b.topics \cup {t}
  BY <1>1
<1>3. PICK c : c = CreateTopic(b, t)
  OBVIOUS
<1>4. c = [b EXCEPT !.topics = T]
  BY <1>2, <1>3 DEF CreateTopic
<1>5. c \in BusState(n) /\ c.messages = b.messages /\ c.subscribers = b.subscribers
  BY <1>4, TopicsReplaced
<1> QED
  BY <1>3, <1>5

LEMMA TopicDeleted ==
    ASSUME NEW n \in Nat, NEW b \in BusState(n), NEW t \in Topic
    PROVE  /\ DeleteTopic(b, t) \in BusState(n)
           /\ \A u \in Topic : u # t =>
                /\ DeleteTopic(b, t).messages[u] = b.messages[u]
                /\ DeleteTopic(b, t).subscribers[u] = b.subscribers[u]
           /\ Elements(DeleteTopic(b, t).messages[t]) = {}
<1> DEFINE M == [b.messages EXCEPT ![t] = <<>>]
           S == [b.subscribers EXCEPT ![t] = {}]
<1>1. M \in [Topic -> Sorted(n)] /\ S \in [Topic -> SUBSET Subscriber]
  BY BusFields, EmptySorted
<1>2. M[t] = <<>> /\ \A u \in Topic : u # t => M[u] = b.messages[u] /\ S[u] = b.subscribers[u]
  BY BusFields
<1>3. DeleteTopic(b, t) = [topics |-> b.topics \ {t}, messages |-> M, subscribers |-> S]
  BY DEF DeleteTopic
<1>4. b.topics \ {t} \in SUBSET Topic
  BY BusFields
<1> HIDE DEF M, S
<1>5. /\ DeleteTopic(b, t) \in BusState(n)
      /\ DeleteTopic(b, t).messages = M /\ DeleteTopic(b, t).subscribers = S
  BY <1>1, <1>3, <1>4, BusParts
<1> QED
  BY <1>2, <1>5, EmptySorted

LEMMA SubscriberAdded ==
    ASSUME NEW n, NEW b \in BusState(n), NEW t \in Topic, NEW s \in Subscriber
    PROVE  /\ AddSubscriber(b, t, s) \in BusState(n)
           /\ AddSubscriber(b, t, s).messages = b.messages
           /\ \A u \in Topic : b.subscribers[u] \subseteq AddSubscriber(b, t, s).subscribers[u]
<1>1. CASE t \notin b.topics
  BY <1>1 DEF AddSubscriber
<1>2. CASE t \in b.topics
  <2> DEFINE S == [b.subscribers EXCEPT ![t] = b.subscribers[t] \cup {s}]
  <2>1. S \in [Topic -> SUBSET Subscriber] /\ \A u \in Topic : b.subscribers[u] \subseteq S[u]
    BY BusFields
  <2>2. PICK c : c = AddSubscriber(b, t, s)
    OBVIOUS
  <2>3. c = [b EXCEPT !.subscribers = S]
    BY <1>2, <2>2 DEF AddSubscriber
  <2> HIDE DEF S
  <2>4. c \in BusState(n) /\ c.subscribers = S /\ c.messages = b.messages
    BY <2>1, <2>3, SubscribersReplaced
  <2> QED
    BY <2>1, <2>2, <2>4
<1> QED
  BY <1>1, <1>2

LEMMA SubscriberRemoved ==
    ASSUME NEW n, NEW b \in BusState(n), NEW t \in Topic, NEW who \in SUBSET Subscriber
    PROVE  /\ RemoveSubscriber(b, t, who) \in BusState(n)
           /\ RemoveSubscriber(b, t, who).messages = b.messages
           /\ \A u \in Topic, s \in Subscriber :
                s \in b.subscribers[u] /\ (u # t \/ s \notin who)
                    => s \in RemoveSubscriber(b, t, who).subscribers[u]
<1> DEFINE S == [b.subscribers EXCEPT ![t] = b.subscribers[t] \ who]
<1>1. S \in [Topic -> SUBSET Subscriber]
  BY BusFields
<1>2. \A u \in Topic, s \in Subscriber :
        s \in b.subscribers[u] /\ (u # t \/ s \notin who) => s \in S[u]
  BY BusFields
<1>3. PICK c : c = RemoveSubscriber(b, t, who)
  OBVIOUS
<1>4. c = [b EXCEPT !.subscribers = S]
  BY <1>3 DEF RemoveSubscriber
<1> HIDE DEF S
<1>5. c \in BusState(n) /\ c.subscribers = S /\ c.messages = b.messages
  BY <1>1, <1>4, SubscribersReplaced
<1> QED
  BY <1>2, <1>3, <1>5

NoSubscriptions(b, who) ==
    [b EXCEPT !.subscribers = [t \in Topic |-> b.subscribers[t] \ who]]

LEMMA ManyUnsubscribed ==
    ASSUME NEW n, NEW b \in BusState(n), NEW who \in SUBSET Subscriber, NEW c,
           c = NoSubscriptions(b, who)
    PROVE  /\ c \in BusState(n) /\ c.messages = b.messages
           /\ \A u \in Topic, s \in Subscriber :
                s \in b.subscribers[u] /\ s \notin who => s \in c.subscribers[u]
<1> DEFINE S == [t \in Topic |-> b.subscribers[t] \ who]
<1>1. S \in [Topic -> SUBSET Subscriber]
  BY BusFields
<1>2. \A u \in Topic, s \in Subscriber : s \in b.subscribers[u] /\ s \notin who => s \in S[u]
  BY BusFields
<1>3. c = [b EXCEPT !.subscribers = S]
  BY DEF NoSubscriptions
<1> HIDE DEF S
<1>4. c \in BusState(n) /\ c.messages = b.messages /\ c.subscribers = S
  <2>1. b \in BusState(n)
    OBVIOUS
  <2> QED
    BY ONLY <2>1, <1>1, <1>3, SubscribersReplaced
<1> QED
  BY <1>2, <1>4

LEMMA MessageAdded ==
    ASSUME NEW n \in Nat, NEW b \in BusState(n), NEW t \in Topic
    PROVE  /\ AddToMemory(b, t, n + 1) \in BusState(n + 1)
           /\ AddToMemory(b, t, n + 1).subscribers = b.subscribers
           /\ \A u \in Topic : u # t => AddToMemory(b, t, n + 1).messages[u] = b.messages[u]
           /\ Elements(AddToMemory(b, t, n + 1).messages[t]) = Elements(b.messages[t]) \cup {n + 1}
<1> DEFINE M == [b.messages EXCEPT ![t] = Append(b.messages[t], n + 1)]
<1>1. \A u \in Topic : b.messages[u] \in Sorted(n) /\ b.messages[u] \in Sorted(n + 1)
  BY BusFields, MoreNumbers
<1>2. /\ Append(b.messages[t], n + 1) \in Sorted(n + 1)
      /\ Elements(Append(b.messages[t], n + 1)) = Elements(b.messages[t]) \cup {n + 1}
  <2>1. PICK s \in Sorted(n) : s = b.messages[t]
    BY <1>1
  <2>2. \A i \in DOMAIN s : s[i] < n + 1
    BY <2>1 DEF Sorted
  <2>3. Append(s, n + 1) \in Sorted(n + 1) /\ Elements(Append(s, n + 1)) = Elements(s) \cup {n + 1}
    BY <2>2, AppendedLast
  <2> QED
    BY <2>1, <2>3
<1>3. M \in [Topic -> Sorted(n + 1)]
  BY <1>1, <1>2, BusFields
<1>4. M[t] = Append(b.messages[t], n + 1) /\ \A u \in Topic : u # t => M[u] = b.messages[u]
  BY BusFields
<1>5. PICK m \in Nat : m = n + 1
  OBVIOUS
<1>6. PICK c : c = AddToMemory(b, t, n + 1)
  OBVIOUS
<1>7. c = [b EXCEPT !.messages = M]
  BY <1>6 DEF AddToMemory
<1> HIDE DEF M
<1>8. b \in BusState(m) /\ M \in [Topic -> Sorted(m)]
  BY <1>3, <1>5, BusGrows
<1>9. c \in BusState(m) /\ c.messages = M /\ c.subscribers = b.subscribers
  BY <1>7, <1>8, MessagesReplaced
<1> QED
  BY <1>2, <1>4, <1>5, <1>6, <1>9

LEMMA MessagesDeleted ==
    ASSUME NEW n \in Nat, NEW b \in BusState(n), NEW batch \in [Topic -> Sorted(n)]
    PROVE  /\ DeleteMessages(b, batch) \in BusState(n)
           /\ DeleteMessages(b, batch).subscribers = b.subscribers
           /\ \A t \in Topic : Elements(DeleteMessages(b, batch).messages[t])
                                = Elements(b.messages[t]) \ Elements(batch[t])
<1> DEFINE M == [t \in Topic |-> Remaining(b.messages[t], Elements(batch[t]))]
<1>1. ASSUME NEW t \in Topic
      PROVE  M[t] \in Sorted(n) /\ Elements(M[t]) = Elements(b.messages[t]) \ Elements(batch[t])
  <2>1. PICK s \in Sorted(n) : s = b.messages[t]
    BY BusFields
  <2>2. PICK gone : gone = Elements(batch[t])
    OBVIOUS
  <2>3. Remaining(s, gone) \in Sorted(n) /\ Elements(Remaining(s, gone)) = Elements(s) \ gone
    BY RemainingInOrder
  <2>4. M[t] = Remaining(s, gone)
    BY <2>1, <2>2
  <2> QED
    BY <2>1, <2>2, <2>3, <2>4
<1>2. PICK c : c = DeleteMessages(b, batch)
  OBVIOUS
<1>3. c = [b EXCEPT !.messages = M]
  BY <1>2 DEF DeleteMessages
<1>4. M = [t \in Topic |-> M[t]]
  OBVIOUS
<1> HIDE DEF M
<1>5. M \in [Topic -> Sorted(n)]
  BY <1>1, <1>4
<1>6. c \in BusState(n) /\ c.messages = M /\ c.subscribers = b.subscribers
  BY <1>3, <1>5, MessagesReplaced
<1> QED
  BY <1>1, <1>2, <1>6

-----------------------------------------------------------------------------
(* The fields of the sender and of its call. *)

LEMMA SenderFields ==
    ASSUME NEW n, NEW s \in SenderState(n)
    PROVE  /\ s.phase \in Phase /\ s.batch \in [Topic -> Sorted(n)]
           /\ s.todo \in SUBSET (Topic \X Subscriber) /\ s.failing \in SUBSET Subscriber
           /\ s.counted \in {Cardinality(T) : T \in SUBSET Topic}
  BY DEF SenderState

LEMMA ThreadState ==
    ASSUME NEW n \in Nat, NEW ph \in Phase
    PROVE  /\ Thread(ph) \in SenderState(n) /\ Thread(ph).phase = ph
           /\ Thread(ph).batch = Nothing
<1>1. Nothing \in [Topic -> Sorted(n)]
  BY EmptyBusState
<1>2. Cardinality({}) = 0 /\ {} \in SUBSET Topic
  BY FS_EmptySet
<1>3. 0 \in {Cardinality(T) : T \in SUBSET Topic}
  BY <1>2
<1> QED
  BY <1>1, <1>3 DEF SenderState, Thread

LEMMA SenderGrows ==
    ASSUME NEW n \in Nat, NEW s \in SenderState(n)
    PROVE  s \in SenderState(n + 1)
<1>1. Sorted(n) \subseteq Sorted(n + 1)
  BY MoreNumbers
<1> QED
  BY <1>1 DEF SenderState

Counting(s, T) == [s EXCEPT !.phase = "stats", !.counted = Cardinality(T)]

LEMMA SenderCounts ==
    ASSUME NEW n, NEW s \in SenderState(n), NEW T \in SUBSET Topic, NEW c,
           c = Counting(s, T)
    PROVE  c \in SenderState(n) /\ c.phase = "stats" /\ c.batch = s.batch
  BY DEF SenderState, Phase, Counting

Collecting(M, D) == [Thread("deliver") EXCEPT !.batch = M, !.todo = D]

LEMMA SenderCollects ==
    ASSUME NEW n \in Nat, NEW M \in [Topic -> Sorted(n)], NEW D \in SUBSET (Topic \X Subscriber),
           NEW c, c = Collecting(M, D)
    PROVE  c \in SenderState(n) /\ c.phase = "deliver" /\ c.batch = M /\ c.todo = D
<1>1. Thread("deliver") \in SenderState(n) /\ Thread("deliver").phase = "deliver"
  BY ThreadState DEF Phase
<1>2. PICK s \in SenderState(n) : s = Thread("deliver") /\ s.phase = "deliver"
  BY <1>1
<1>3. c = [s EXCEPT !.batch = M, !.todo = D]
  BY <1>2 DEF Collecting
<1> QED
  BY <1>2, <1>3 DEF SenderState

LEMMA SenderDelivers ==
    ASSUME NEW n, NEW s \in SenderState(n), NEW D \in SUBSET (Topic \X Subscriber),
           NEW c, c = [s EXCEPT !.todo = D]
    PROVE  /\ c \in SenderState(n) /\ c.phase = s.phase /\ c.batch = s.batch /\ c.todo = D
  BY DEF SenderState

GivingUp(s, F, D) == [s EXCEPT !.failing = F, !.todo = D]

LEMMA SenderFails ==
    ASSUME NEW n, NEW s \in SenderState(n), NEW D \in SUBSET (Topic \X Subscriber),
           NEW F \in SUBSET Subscriber, NEW c, c = GivingUp(s, F, D)
    PROVE  /\ c \in SenderState(n) /\ c.phase = s.phase /\ c.batch = s.batch /\ c.todo = D
  BY DEF SenderState, GivingUp

LEMMA SenderDrops ==
    ASSUME NEW n, NEW s \in SenderState(n), NEW c, c = [s EXCEPT !.phase = "drop"]
    PROVE  /\ c \in SenderState(n) /\ c.phase = "drop" /\ c.batch = s.batch
  BY DEF SenderState, Phase

LEMMA CallFields ==
    ASSUME NEW n, NEW c \in CallState(n)
    PROVE  /\ c.to \in Subscriber /\ c.parts \in Seq(Sorted(n)) /\ c.parts # <<>>
           /\ c.tries \in Nat /\ c.no \in Nat
  BY DEF CallState

LEMMA CallIsSome ==
    ASSUME NEW n \in Nat, NEW c \in CallState(n)
    PROVE  c # None
<1>1. Sorted(n) \subseteq Seq(Nat)
  BY DEF Sorted
<1>2. Seq(Sorted(n)) \subseteq Seq(Seq(Nat))
  BY <1>1, SeqMonotonic
<1>3. c \in [to : Subscriber, parts : Seq(Seq(Nat)), tries : Nat, no : Nat]
  BY <1>2 DEF CallState
<1> QED
  BY <1>3, BusAssumption

LEMMA CallMade ==
    ASSUME NEW n, NEW s \in Subscriber, NEW P \in Seq(Sorted(n)), P # <<>>, NEW c,
           c = [to |-> s, parts |-> P, tries |-> 0, no |-> 0]
    PROVE  c \in CallState(n) /\ c.to = s /\ c.parts = P /\ c.no = 0
  BY DEF CallState

LEMMA CallSent ==
    ASSUME NEW n, NEW c \in CallState(n), NEW k \in Nat, NEW d, d = [c EXCEPT !.no = k]
    PROVE  d \in CallState(n) /\ d.to = c.to /\ d.parts = c.parts /\ d.no = k
  BY DEF CallState

TriedAgain(c, k) == [c EXCEPT !.tries = k, !.no = 0]

LEMMA CallAgain ==
    ASSUME NEW n, NEW c \in CallState(n), NEW k \in Nat, NEW d, d = TriedAgain(c, k)
    PROVE  d \in CallState(n) /\ d.to = c.to /\ d.parts = c.parts /\ d.no = 0
  BY DEF CallState, TriedAgain

GoingOn(c, P) == [c EXCEPT !.parts = P, !.tries = 0, !.no = 0]

LEMMA CallGoesOn ==
    ASSUME NEW n, NEW c \in CallState(n), NEW P \in Seq(Sorted(n)), P # <<>>, NEW d,
           d = GoingOn(c, P)
    PROVE  d \in CallState(n) /\ d.to = c.to /\ d.parts = P /\ d.no = 0
  BY DEF CallState, GoingOn

LEMMA CallGrows ==
    ASSUME NEW n \in Nat, NEW c \in CallState(n)
    PROVE  c \in CallState(n + 1)
<1>1. Seq(Sorted(n)) \subseteq Seq(Sorted(n + 1))
  BY MoreNumbers
<1> QED
  BY <1>1 DEF CallState

LEMMA RequestFields ==
    ASSUME NEW n, NEW c \in RequestState(n)
    PROVE  c.no \in Nat \ {0} /\ c.to \in Subscriber /\ c.rest \in Sorted(n)
  BY DEF RequestState

LEMMA RequestMade ==
    ASSUME NEW n, NEW k \in Nat \ {0}, NEW s \in Subscriber, NEW m \in Sorted(n), NEW c,
           c = [no |-> k, to |-> s, rest |-> m]
    PROVE  c \in RequestState(n) /\ c.no = k /\ c.to = s /\ c.rest = m
  BY DEF RequestState

LEMMA RequestGoesOn ==
    ASSUME NEW n, NEW c \in RequestState(n), NEW m \in Sorted(n), NEW d,
           d = [c EXCEPT !.rest = m]
    PROVE  d \in RequestState(n) /\ d.no = c.no /\ d.to = c.to /\ d.rest = m
  BY DEF RequestState

LEMMA RequestGrows ==
    ASSUME NEW n \in Nat, NEW c \in RequestState(n)
    PROVE  c \in RequestState(n + 1)
<1>1. Sorted(n) \subseteq Sorted(n + 1)
  BY MoreNumbers
<1> QED
  BY <1>1 DEF RequestState

LEMMA OwedFields ==
    ASSUME NEW n, NEW o \in Owed(n)
    PROVE  o.topic \in Topic /\ o.msg \in 0 .. n /\ o.to \in Subscriber
  BY DEF Owed

-----------------------------------------------------------------------------
(* What a step keeps that neither sends nor delivers. *)

LEMMA TransitKept ==
    ASSUME TransitTyped, call' \in {call, None}, incoming' \subseteq incoming,
           UNCHANGED <<backlog, delivered, counts>>
    PROVE  TransitTyped'
  BY DEF TransitTyped

LEMMA OrdersKept ==
    ASSUME CallOrder, RequestOrder, AwaitedPart, call' \in {call, None},
           incoming' \subseteq incoming, due' \subseteq due, delivered' = delivered
    PROVE  CallOrder' /\ RequestOrder' /\ AwaitedPart'
<1>1. CallOrder'
  BY DEF CallOrder, Got, Earlier
<1>2. RequestOrder'
  BY DEF RequestOrder, Got, Earlier
<1>3. AwaitedPart'
  <2>1. \A c : Awaited(c)' => Awaited(c) /\ call' = call
    BY DEF Awaited
  <2> QED
    BY <2>1 DEF AwaitedPart
<1> QED
  BY <1>1, <1>2, <1>3

(* The sender goes on with its round, or is not in one. *)
LEMMA RoundKept ==
    ASSUME DueTyped, DueTopic, Served, BatchOrder, due' \subseteq due, delivered' = delivered,
           \/ sender' = sender /\ call' = call
           \/ /\ sender'.phase # "deliver"
              /\ \A t \in Topic : Elements(sender'.batch[t]) \subseteq Elements(sender.batch[t]),
           \A t \in Topic : Elements(bus'.messages[t]) \subseteq Elements(bus.messages[t])
    PROVE  DueTopic' /\ Served' /\ BatchOrder'
<1>1. DueTopic'
  BY DEF DueTopic
<1>2. CASE sender' = sender /\ call' = call
  <2>1. Served'
    BY <1>2 DEF Served, Got
  <2>2. BatchOrder'
    BY <1>2 DEF BatchOrder, Got, Earlier
  <2> QED
    BY <1>1, <2>1, <2>2
<1>3. CASE sender'.phase # "deliver"
  BY <1>1, <1>3 DEF Served, BatchOrder
<1> QED
  BY <1>2, <1>3

LEMMA QuietStep ==
    ASSUME BusIInv, UNCHANGED <<backlog, delivered, counts>>, BusTyped',
           call' \in {call, None}, incoming' \subseteq incoming, due' \subseteq due,
           \/ sender' = sender /\ call' = call
           \/ /\ sender'.phase # "deliver"
              /\ \A t \in Topic : Elements(sender'.batch[t]) \subseteq Elements(sender.batch[t]),
           \A t \in Topic : Elements(bus'.messages[t]) \subseteq Elements(bus.messages[t]),
           \A o \in due' :
                /\ o.to \in bus'.subscribers[o.topic]
                /\ o.msg \in Elements(bus.messages[o.topic])
                    => o.msg \in Got(o) \cup Elements(bus'.messages[o.topic])
    PROVE  BusIInv'
<1>1. TransitTyped'
  BY TransitKept DEF BusIInv
<1>2. CallOrder' /\ RequestOrder' /\ AwaitedPart'
  BY OrdersKept DEF BusIInv
<1>3. DueTopic' /\ Served' /\ BatchOrder'
  <2>1. DueTyped /\ DueTopic /\ Served /\ BatchOrder /\ delivered' = delivered
    BY DEF BusIInv
  <2> QED
    BY <2>1, RoundKept
<1>4. DueTyped'
  BY DEF BusIInv, DueTyped
<1>5. BusInv'
  <2>1. KeptUntilDelivered'
    BY DEF BusIInv, BusInv, KeptUntilDelivered, Got
  <2>2. SentOrder'
    BY DEF BusIInv, BusInv, SentOrder
  <2> QED
    BY <2>1, <2>2 DEF BusInv
<1> QED
  BY <1>1, <1>2, <1>3, <1>4, <1>5 DEF BusIInv

LEMMA Facts ==
    ASSUME BusIInv
    PROVE  /\ counts.sent \in Nat /\ counts.invokes \in Nat
           /\ bus \in BusState(counts.sent) /\ sender \in SenderState(counts.sent)
           /\ \A o \in due : /\ o \in Owed(counts.sent) /\ o.topic \in Topic /\ o.to \in Subscriber
                             /\ o.msg \in 0 .. counts.sent /\ o.to \in bus.subscribers[o.topic]
           /\ \A t \in Topic : /\ bus.messages[t] \in Sorted(counts.sent)
                               /\ sender.batch[t] \in Sorted(counts.sent)
<1>1. counts.sent \in Nat /\ counts.invokes \in Nat
  BY DEF BusIInv, BusTyped
<1>2. bus \in BusState(counts.sent) /\ sender \in SenderState(counts.sent)
  BY DEF BusIInv, BusTyped
<1>3. \A o \in due : o \in Owed(counts.sent) /\ o.to \in bus.subscribers[o.topic]
  BY DEF BusIInv, DueTyped
<1> QED
  BY <1>1, <1>2, <1>3, OwedFields, BusFields, SenderFields

LEMMA AddTopicKeeps ==
    ASSUME BusIInv, NEW t \in Topic, AddTopic(t) \/ CheckTopic(t)
    PROVE  BusIInv'
<1>1. bus' \in BusState(counts.sent) /\ bus'.messages = bus.messages
        /\ bus'.subscribers = bus.subscribers
  BY Facts, TopicCreated DEF AddTopic, CheckTopic
<1>2. UNCHANGED <<sender, call, incoming, backlog, delivered, due, counts, subscribing>>
  BY DEF AddTopic, CheckTopic, threadVars, subscriberVars
<1>3. checked' # None => checked' \in Topic
  BY DEF AddTopic, CheckTopic, BusIInv, BusTyped
<1>4. BusTyped'
  BY <1>1, <1>2, <1>3 DEF BusIInv, BusTyped
<1> QED
  BY <1>1, <1>2, <1>4, Facts, QuietStep

LEMMA RemoveTopicKeeps ==
    ASSUME BusIInv, RemoveTopic
    PROVE  BusIInv'
<1>1. checked \in Topic /\ checked' = None /\ bus' = DeleteTopic(bus, checked)
  BY DEF RemoveTopic, BusIInv, BusTyped
<1>2. UNCHANGED <<sender, call, incoming, backlog, delivered, counts, subscribing>>
  BY DEF RemoveTopic, threadVars, subscriberVars
<1>3. due' \subseteq due /\ \A o \in due' : o.topic # checked
  BY Facts DEF RemoveTopic, Without
<1>4. /\ bus' \in BusState(counts.sent)
      /\ \A u \in Topic : u # checked => /\ bus'.messages[u] = bus.messages[u]
                                         /\ bus'.subscribers[u] = bus.subscribers[u]
      /\ Elements(bus'.messages[checked]) = {}
  <2>1. PICK t \in Topic : t = checked
    BY <1>1
  <2>2. PICK n \in Nat : n = counts.sent /\ bus \in BusState(n)
    BY Facts
  <2>3. PICK b \in BusState(n) : b = bus
    BY <2>2
  <2>4. /\ DeleteTopic(b, t) \in BusState(n)
        /\ \A u \in Topic : u # t => /\ DeleteTopic(b, t).messages[u] = b.messages[u]
                                     /\ DeleteTopic(b, t).subscribers[u] = b.subscribers[u]
        /\ Elements(DeleteTopic(b, t).messages[t]) = {}
    BY TopicDeleted
  <2>5. bus' = DeleteTopic(b, t)
    BY <1>1, <2>1, <2>3
  <2> QED
    BY <2>1, <2>2, <2>3, <2>4, <2>5
<1>5. BusTyped'
  BY <1>1, <1>2, <1>4 DEF BusIInv, BusTyped
<1>6. \A t \in Topic : Elements(bus'.messages[t]) \subseteq Elements(bus.messages[t])
  BY <1>4
<1>7. \A o \in due' : /\ o.to \in bus'.subscribers[o.topic]
                      /\ bus'.messages[o.topic] = bus.messages[o.topic]
  BY <1>3, <1>4, Facts
<1> QED
  BY <1>2, <1>3, <1>5, <1>6, <1>7, QuietStep

LEMMA BeginSubscribeKeeps ==
    ASSUME BusIInv, NEW t \in Topic, NEW s \in Subscriber, BeginSubscribe(t, s)
    PROVE  BusIInv'
<1>1. bus' \in BusState(counts.sent) /\ bus'.messages = bus.messages
        /\ bus'.subscribers = bus.subscribers
  BY Facts, TopicCreated DEF BeginSubscribe
<1>2. UNCHANGED <<sender, call, incoming, backlog, delivered, due, counts, checked>>
  BY DEF BeginSubscribe, threadVars, subscriberVars
<1>3. subscribing' \in [topic : Topic, who : Subscriber]
  BY DEF BeginSubscribe
<1>4. BusTyped'
  BY <1>1, <1>2, <1>3 DEF BusIInv, BusTyped
<1> QED
  BY <1>1, <1>2, <1>4, Facts, QuietStep

LEMMA SubscribeKeeps ==
    ASSUME BusIInv, Subscribe
    PROVE  BusIInv'
<1>1. /\ subscribing.topic \in Topic /\ subscribing.who \in Subscriber /\ subscribing' = None
      /\ bus' = AddSubscriber(bus, subscribing.topic, subscribing.who)
  BY DEF Subscribe, BusIInv, BusTyped
<1>2. UNCHANGED <<sender, call, incoming, backlog, delivered, due, counts, checked>>
  BY DEF Subscribe, threadVars, subscriberVars
<1>3. /\ bus' \in BusState(counts.sent) /\ bus'.messages = bus.messages
      /\ \A u \in Topic : bus.subscribers[u] \subseteq bus'.subscribers[u]
  BY <1>1, Facts, SubscriberAdded
<1>4. BusTyped'
  BY <1>1, <1>2, <1>3 DEF BusIInv, BusTyped
<1>5. \A o \in due' : o.to \in bus'.subscribers[o.topic]
  BY <1>2, <1>3, Facts
<1> QED
  BY <1>2, <1>3, <1>4, <1>5, QuietStep

LEMMA UnsubscribeKeeps ==
    ASSUME BusIInv, NEW t \in Topic, NEW s \in Subscriber, Unsubscribe(t, s)
    PROVE  BusIInv'
<1>1. bus' = RemoveSubscriber(bus, t, {s}) /\ due' = Without(due, {t}, {s})
  BY DEF Unsubscribe
<1>2. UNCHANGED <<sender, call, incoming, backlog, delivered, counts, checked, subscribing>>
  BY DEF Unsubscribe, threadVars, subscriberVars
<1>3. PICK who \in SUBSET Subscriber : who = {s}
  OBVIOUS
<1>4. /\ bus' \in BusState(counts.sent) /\ bus'.messages = bus.messages
      /\ \A u \in Topic, r \in Subscriber :
            r \in bus.subscribers[u] /\ (u # t \/ r \notin who) => r \in bus'.subscribers[u]
  BY <1>1, <1>3, Facts, SubscriberRemoved
<1>5. due' \subseteq due /\ \A o \in due' : o.topic # t \/ o.to \notin who
  BY <1>1, <1>3 DEF Without
<1>6. BusTyped'
  BY <1>2, <1>4 DEF BusIInv, BusTyped
<1>7. \A o \in due' : o.to \in bus'.subscribers[o.topic]
  BY <1>4, <1>5, Facts
<1> QED
  BY <1>2, <1>4, <1>5, <1>6, <1>7, QuietStep

(* The bus starts again, with what the database has. *)
LEMMA StartBusKeeps ==
    ASSUME BusIInv, NEW k, StartBus(k)
    PROVE  BusIInv'
<1>1. UNCHANGED <<bus, call, incoming, backlog, delivered, due, counts, checked, subscribing>>
  BY DEF StartBus, subscriberVars
<1>2. /\ sender' \in SenderState(counts.sent) /\ sender'.phase = "wait" /\ sender'.batch = Nothing
  BY Facts, ThreadState DEF StartBus, Phase
<1>3. \A t \in Topic : Elements(sender'.batch[t]) = {}
  BY <1>2, Facts, EmptyBusState
<1>4. BusTyped'
  BY <1>1, <1>2 DEF BusIInv, BusTyped
<1> QED
  BY <1>1, <1>2, <1>3, <1>4, Facts, QuietStep

LEMMA CrashBusKeeps ==
    ASSUME BusIInv, CrashBus
    PROVE  BusIInv'
<1>1. /\ UNCHANGED <<backlog, delivered, counts>>
      /\ call' = None /\ checked' = None /\ subscribing' = None /\ incoming' \subseteq incoming
  BY DEF CrashBus
<1>2. /\ sender' \in SenderState(counts.sent) /\ sender'.phase = "stopped" /\ sender'.batch = Nothing
  BY Facts, ThreadState DEF CrashBus, Phase
<1>3. \A t \in Topic : Elements(sender'.batch[t]) = {}
  BY <1>2, Facts, EmptyBusState
<1>4. \/ bus' = EmptyBus /\ due' = {}
      \/ bus' = bus /\ due' = due
  BY DEF CrashBus
<1>5. bus' \in BusState(counts.sent) /\ \A t \in Topic : Elements(bus'.messages[t]) \subseteq Elements(bus.messages[t])
  <2>1. CASE bus' = EmptyBus
    <3>1. bus' \in BusState(counts.sent) /\ bus'.messages = Nothing
            /\ \A t \in Topic : Elements(Nothing[t]) = {}
      BY <2>1, Facts, EmptyBusState DEF EmptyBus
    <3> QED
      BY <3>1
  <2>2. CASE bus' = bus
    BY <2>2, Facts
  <2> QED
    BY <1>4, <2>1, <2>2
<1>6. BusTyped'
  BY <1>1, <1>2, <1>5 DEF BusIInv, BusTyped
<1>7. /\ due' \subseteq due
      /\ \A o \in due' : o.to \in bus'.subscribers[o.topic] /\ bus' = bus
  BY <1>4, Facts
<1> QED
  BY <1>1, <1>2, <1>3, <1>5, <1>6, <1>7, QuietStep

LEMMA StatsKeep ==
    ASSUME BusIInv, ReadStats \/ PrintStats
    PROVE  BusIInv'
<1>1. UNCHANGED <<bus, call, incoming, backlog, delivered, due, counts, checked, subscribing>>
  BY DEF ReadStats, PrintStats, callerVars, subscriberVars
<1>2. /\ sender' \in SenderState(counts.sent) /\ sender'.phase # "deliver"
      /\ \A t \in Topic : Elements(sender'.batch[t]) \subseteq Elements(sender.batch[t])
  <2>1. CASE ReadStats
    <3>1. sender' = [sender EXCEPT !.phase = "stats", !.counted = Cardinality(bus.topics)]
      BY <2>1 DEF ReadStats
    <3>2. bus.topics \in SUBSET Topic /\ sender \in SenderState(counts.sent)
      BY Facts, BusFields
    <3>3. /\ sender' \in SenderState(counts.sent) /\ sender'.phase = "stats"
          /\ sender'.batch = sender.batch
      <4>1. PICK T \in SUBSET Topic : T = bus.topics
        BY <3>2
      <4>2. PICK n : n = counts.sent /\ sender \in SenderState(n)
        BY <3>2
      <4>3. PICK s \in SenderState(n) : s = sender
        BY <4>2
      <4>4. PICK c : c = sender'
        OBVIOUS
      <4>5. c = Counting(s, T)
        BY <3>1, <4>1, <4>3, <4>4 DEF Counting
      <4>6. c \in SenderState(n) /\ c.phase = "stats" /\ c.batch = s.batch
        BY <4>5, SenderCounts
      <4> QED
        BY <4>2, <4>3, <4>4, <4>6
    <3> QED
      BY <3>3
  <2>2. CASE PrintStats
    <3>1. PICK ph \in {"dead", "collect"} : sender' = Thread(ph)
      BY <2>2 DEF PrintStats
    <3>2. ph \in Phase /\ ph # "deliver"
      BY <3>1 DEF Phase
    <3>3. /\ sender' \in SenderState(counts.sent) /\ sender'.phase = ph
          /\ sender'.batch = Nothing /\ \A t \in Topic : Elements(Nothing[t]) = {}
      BY <3>1, <3>2, Facts, ThreadState, EmptyBusState
    <3> QED
      BY <3>2, <3>3
  <2> QED
    BY <2>1, <2>2
<1>3. BusTyped'
  BY <1>1, <1>2 DEF BusIInv, BusTyped
<1> QED
  BY <1>1, <1>2, <1>3, Facts, QuietStep

(* After a round the thread waits, or drops subscriptions first. *)
LEMMA RoundOver ==
    ASSUME BusIInv, sender' = AfterRemoval \/ sender' = Thread("wait")
    PROVE  /\ sender' \in SenderState(counts.sent) /\ sender'.phase # "deliver"
           /\ \A t \in Topic : Elements(sender'.batch[t]) \subseteq Elements(sender.batch[t])
<1>1. CASE sender' = Thread("wait")
  <2>1. /\ sender' \in SenderState(counts.sent) /\ sender'.phase = "wait"
        /\ sender'.batch = Nothing /\ \A t \in Topic : Elements(Nothing[t]) = {}
    BY <1>1, Facts, ThreadState, EmptyBusState DEF Phase
  <2> QED
    BY <2>1
<1>2. CASE sender' = [sender EXCEPT !.phase = "drop"]
  <2>1. /\ sender' \in SenderState(counts.sent) /\ sender'.phase = "drop"
        /\ sender'.batch = sender.batch
    BY <1>2, Facts, SenderDrops
  <2> QED
    BY <2>1
<1> QED
  BY <1>1, <1>2 DEF AfterRemoval

(* What was collected is removed: everybody it is owed to has it. *)
LEMMA RemoveMessagesKeeps ==
    ASSUME BusIInv, RemoveMessages
    PROVE  BusIInv'
<1>1. /\ UNCHANGED <<call, incoming, backlog, delivered, due, counts, checked, subscribing>>
      /\ bus' = DeleteMessages(bus, sender.batch) /\ sender' = AfterRemoval
      /\ sender.phase = "deliver" /\ call = None /\ sender.todo = {}
  BY DEF RemoveMessages, Finished, callerVars, subscriberVars
<1>2. /\ sender' \in SenderState(counts.sent) /\ sender'.phase # "deliver"
      /\ \A t \in Topic : Elements(sender'.batch[t]) \subseteq Elements(sender.batch[t])
  BY <1>1, RoundOver
<1>3. /\ bus' \in BusState(counts.sent) /\ bus'.subscribers = bus.subscribers
      /\ \A t \in Topic : Elements(bus'.messages[t])
                            = Elements(bus.messages[t]) \ Elements(sender.batch[t])
  <2>1. PICK n \in Nat : n = counts.sent /\ bus \in BusState(n) /\ sender \in SenderState(n)
    BY Facts
  <2>2. PICK b \in BusState(n) : b = bus
    BY <2>1
  <2>3. PICK batch \in [Topic -> Sorted(n)] : batch = sender.batch
    BY <2>1, SenderFields
  <2>4. /\ DeleteMessages(b, batch) \in BusState(n)
        /\ DeleteMessages(b, batch).subscribers = b.subscribers
        /\ \A t \in Topic : Elements(DeleteMessages(b, batch).messages[t])
                             = Elements(b.messages[t]) \ Elements(batch[t])
    BY MessagesDeleted
  <2>5. bus' = DeleteMessages(b, batch)
    BY <1>1, <2>2, <2>3
  <2> QED
    BY <2>1, <2>2, <2>3, <2>4, <2>5
<1>4. \A o \in due : o.msg \in Elements(sender.batch[o.topic]) => o.msg \in Got(o)
  BY <1>1 DEF BusIInv, Served
<1>5. \A o \in due' : o.msg \in Elements(bus.messages[o.topic])
                        => o.msg \in Got(o) \cup Elements(bus'.messages[o.topic])
  BY <1>1, <1>3, <1>4, Facts
<1>6. \A o \in due' : o.to \in bus'.subscribers[o.topic]
  BY <1>1, <1>3, Facts
<1>7. BusTyped'
  BY <1>1, <1>2, <1>3 DEF BusIInv, BusTyped
<1>8. \A t \in Topic : Elements(bus'.messages[t]) \subseteq Elements(bus.messages[t])
  BY <1>3
<1> QED
  BY <1>1, <1>2, <1>5, <1>6, <1>7, <1>8, QuietStep

LEMMA UnsubscribeManyKeeps ==
    ASSUME BusIInv, UnsubscribeMany
    PROVE  BusIInv'
<1>1. /\ UNCHANGED <<call, incoming, backlog, delivered, counts, checked, subscribing>>
      /\ sender' = Thread("wait")
      /\ bus' = [bus EXCEPT !.subscribers = [t \in Topic |-> @[t] \ sender.failing]]
      /\ due' = Without(due, Topic, sender.failing)
  BY DEF UnsubscribeMany, callerVars, subscriberVars
<1>2. /\ sender' \in SenderState(counts.sent) /\ sender'.phase # "deliver"
      /\ \A t \in Topic : Elements(sender'.batch[t]) \subseteq Elements(sender.batch[t])
  BY <1>1, RoundOver
<1>3. PICK who \in SUBSET Subscriber : who = sender.failing
  BY Facts, SenderFields
<1>4. bus' = [bus EXCEPT !.subscribers = [t \in Topic |-> @[t] \ who]]
  BY <1>1, <1>3
<1>5. /\ bus' \in BusState(counts.sent) /\ bus'.messages = bus.messages
      /\ \A u \in Topic, s \in Subscriber :
            s \in bus.subscribers[u] /\ s \notin who => s \in bus'.subscribers[u]
  <2>1. PICK n : n = counts.sent /\ bus \in BusState(n)
    BY Facts
  <2>2. PICK b \in BusState(n) : b = bus
    BY <2>1
  <2>3. PICK c : c = bus'
    OBVIOUS
  <2>4. c = NoSubscriptions(b, who)
    BY <1>4, <2>2, <2>3 DEF NoSubscriptions
  <2>5. /\ c \in BusState(n) /\ c.messages = b.messages
        /\ \A u \in Topic, s \in Subscriber :
            s \in b.subscribers[u] /\ s \notin who => s \in c.subscribers[u]
    BY <2>4, ManyUnsubscribed
  <2> QED
    BY <2>1, <2>2, <2>3, <2>5
<1>6. due' \subseteq due /\ \A o \in due' : o.to \notin who
  BY <1>1, <1>3, Facts DEF Without
<1>7. \A o \in due' : o.to \in bus'.subscribers[o.topic]
  BY <1>5, <1>6, Facts
<1>8. BusTyped'
  BY <1>1, <1>2, <1>5 DEF BusIInv, BusTyped
<1> QED
  BY <1>1, <1>2, <1>5, <1>6, <1>7, <1>8, QuietStep

-----------------------------------------------------------------------------
(* Steps that send and deliver. *)

(* A message that is sent has a number that none has had. *)
LEMMA SendTransitKept ==
    ASSUME TransitTyped, counts.sent \in Nat, UNCHANGED <<call, incoming, backlog, delivered>>,
           counts'.sent = counts.sent + 1, counts'.invokes = counts.invokes
    PROVE  TransitTyped'
<1>1. call # None => call \in CallState(counts.sent + 1)
  BY CallGrows DEF TransitTyped
<1>2. \A c \in incoming : c \in RequestState(counts.sent + 1)
  BY RequestGrows DEF TransitTyped
<1>3. delivered \in [Subscriber -> Seq(0 .. counts.sent + 1)]
  <2>1. Seq(0 .. counts.sent) \subseteq Seq(0 .. counts.sent + 1)
    BY MoreNumbers
  <2> QED
    BY <2>1 DEF TransitTyped
<1> QED
  BY <1>1, <1>2, <1>3 DEF TransitTyped

(* What was sent before has smaller numbers. *)
LEMMA OldNumbers ==
    ASSUME BusIInv
    PROVE  /\ \A t \in Topic : counts.sent + 1 \notin Elements(bus.messages[t]) \cup Elements(sender.batch[t])
           /\ \A s \in Subscriber : counts.sent + 1 \notin Elements(delivered[s])
           /\ \A c \in incoming : counts.sent + 1 \notin Elements(c.rest)
           /\ call # None => \A i \in DOMAIN call.parts : counts.sent + 1 \notin Elements(call.parts[i])
<1>1. counts.sent \in Nat /\ counts.sent + 1 \notin 0 .. counts.sent
  BY Facts
<1>2. \A s \in Sorted(counts.sent) : Elements(s) \subseteq 0 .. counts.sent
  BY <1>1, SortedNumbers
<1>3. \A s \in Subscriber : Elements(delivered[s]) \subseteq 0 .. counts.sent
  <2>1. ASSUME NEW s \in Subscriber PROVE Elements(delivered[s]) \subseteq 0 .. counts.sent
    <3>1. PICK S : S = 0 .. counts.sent
      OBVIOUS
    <3>2. PICK q \in Seq(S) : q = delivered[s]
      BY <3>1 DEF BusIInv, TransitTyped
    <3>3. \A i \in DOMAIN q : q[i] \in S
      OBVIOUS
    <3> QED
      BY <3>1, <3>2, <3>3 DEF Elements
  <2> QED
    BY <2>1
<1>4. \A c \in incoming : c.rest \in Sorted(counts.sent)
  BY RequestFields DEF BusIInv, TransitTyped
<1>5. call # None => \A i \in DOMAIN call.parts : call.parts[i] \in Sorted(counts.sent)
  <2>1. SUFFICES ASSUME call # None PROVE \A i \in DOMAIN call.parts : call.parts[i] \in Sorted(counts.sent)
    OBVIOUS
  <2>2. call.parts \in Seq(Sorted(counts.sent))
    BY <2>1, CallFields DEF BusIInv, TransitTyped
  <2> QED
    BY <2>2, ElementOfSeq
<1> QED
  BY <1>1, <1>2, <1>3, <1>4, <1>5, Facts

LEMMA SendMessageKeeps ==
    ASSUME BusIInv, NEW t \in Topic, SendMessage(t)
    PROVE  BusIInv'
<1> DEFINE n == counts.sent + 1
<1>1. /\ UNCHANGED <<sender, call, incoming, backlog, delivered, checked, subscribing>>
      /\ counts' = [counts EXCEPT !.sent = n]
      /\ bus' = IF storage = "sqlite" THEN AddMessage(bus, t, counts'.sent)
                ELSE AddToMemory(bus, t, counts'.sent)
      /\ due' = due \cup [topic : {t}, msg : {counts'.sent}, to : bus.subscribers[t]]
  BY DEF SendMessage, threadVars, subscriberVars
<1>2. /\ counts'.sent = n /\ counts'.invokes = counts.invokes
      /\ counts' \in [sent : Nat, invokes : Nat, rounds : Nat] /\ counts.sent \in Nat /\ n \in Nat
  BY <1>1 DEF BusIInv, BusTyped
<1>3. bus' = AddToMemory(bus, t, n) \/ (bus' = bus /\ bus.subscribers[t] = {})
  BY <1>1, <1>2 DEF AddMessage, HasSubscribers
<1> DEFINE New == [topic : {t}, msg : {n}, to : bus.subscribers[t]]
<1>4. due' = due \cup New
  BY <1>1, <1>2
<1> HIDE DEF n
<1>5. /\ bus' \in BusState(n) /\ bus'.subscribers = bus.subscribers
      /\ \A u \in Topic : Elements(bus.messages[u]) \subseteq Elements(bus'.messages[u])
      /\ \A u \in Topic : Elements(bus'.messages[u])
                            \subseteq Elements(bus.messages[u]) \cup (IF u = t THEN {n} ELSE {})
      /\ bus.subscribers[t] # {} => n \in Elements(bus'.messages[t])
  <2>1. PICK k \in Nat : k = counts.sent /\ n = k + 1
    BY <1>2 DEF n
  <2>2. PICK b \in BusState(k) : b = bus
    BY <2>1, Facts
  <2>3. CASE bus' = AddToMemory(bus, t, n)
    <3>1. /\ AddToMemory(b, t, k + 1) \in BusState(k + 1)
          /\ AddToMemory(b, t, k + 1).subscribers = b.subscribers
          /\ \A u \in Topic : u # t => AddToMemory(b, t, k + 1).messages[u] = b.messages[u]
          /\ Elements(AddToMemory(b, t, k + 1).messages[t]) = Elements(b.messages[t]) \cup {k + 1}
      BY MessageAdded
    <3>2. /\ bus' \in BusState(n) /\ bus'.subscribers = bus.subscribers
          /\ \A u \in Topic : u # t => bus'.messages[u] = bus.messages[u]
          /\ Elements(bus'.messages[t]) = Elements(bus.messages[t]) \cup {n}
      BY <2>1, <2>2, <2>3, <3>1
    <3> QED
      BY <3>2
  <2>4. CASE bus' = bus /\ bus.subscribers[t] = {}
    <3>1. b \in BusState(k + 1)
      BY BusGrows
    <3> QED
      BY <2>1, <2>2, <2>4, <3>1
  <2> QED
    BY <1>3, <2>3, <2>4
<1>6. sender \in SenderState(n)
  <2>1. PICK k \in Nat : k = counts.sent /\ n = k + 1
    BY <1>2 DEF n
  <2> QED
    BY <2>1, Facts, SenderGrows
<1>7. BusTyped'
  BY <1>1, <1>2, <1>5, <1>6 DEF BusIInv, BusTyped
<1>8. TransitTyped'
  BY <1>1, <1>2, SendTransitKept DEF BusIInv, n
<1>9. /\ \A u \in Topic : n \notin Elements(bus.messages[u]) \cup Elements(sender.batch[u])
      /\ \A s \in Subscriber : n \notin Elements(delivered[s])
      /\ \A c \in incoming : n \notin Elements(c.rest)
      /\ call # None => \A i \in DOMAIN call.parts : n \notin Elements(call.parts[i])
  BY OldNumbers DEF n
<1>10. \A o \in New : /\ o.topic = t /\ o.msg = n /\ o.to \in bus.subscribers[t] /\ o.to \in Subscriber
                      /\ o \in Owed(n) /\ bus.subscribers[t] # {}
  <2>1. bus.subscribers[t] \subseteq Subscriber /\ n \in 0 .. n
    BY <1>2, Facts, BusFields
  <2> QED
    BY <2>1 DEF Owed
<1>11. \A o \in due : /\ o.topic \in Topic /\ o.to \in Subscriber /\ o.msg \in 0 .. counts.sent
                      /\ o.msg < n /\ o \in Owed(n) /\ o.to \in bus.subscribers[o.topic]
  BY <1>2, Facts DEF Owed, n
<1> HIDE DEF New
<1>12. DueTyped'
  BY <1>2, <1>4, <1>5, <1>10, <1>11 DEF DueTyped
<1>13. DueTopic'
  <2>1. SUFFICES ASSUME NEW o \in due', NEW u \in Topic,
                        o.msg \in Elements(bus'.messages[u]) \cup Elements(sender.batch[u])
                 PROVE  o.topic = u
    BY <1>1 DEF DueTopic
  <2>2. CASE o \in due
    <3>1. o.msg \in Elements(bus.messages[u]) \cup Elements(sender.batch[u])
      <4>1. o.msg # n
        BY <1>2, <1>11, <2>2
      <4> QED
        BY <1>5, <2>1, <4>1
    <3> QED
      BY <2>2, <3>1 DEF BusIInv, DueTopic
  <2>3. CASE o \in New
    BY <1>5, <1>9, <1>10, <2>1, <2>3
  <2> QED
    BY <1>4, <2>2, <2>3
(* A pair of which the second one is in a list has none that is new. *)
<1>14. ASSUME NEW o \in due', NEW p \in due', Earlier(o, p), p.msg # n
       PROVE  o \in due /\ p \in due
  BY <1>2, <1>4, <1>10, <1>11, <1>14 DEF Earlier
<1>15. \A o \in due' : o.msg # n => o \in due
  BY <1>4, <1>10
<1>16. \A o \in due' : o.topic \in Topic /\ o.to \in Subscriber
  BY <1>4, <1>10, <1>11
<1>17. Served' /\ BatchOrder'
  <2>1. Served'
    <3>1. SUFFICES ASSUME sender.phase = "deliver", NEW o \in due',
                          o.msg \in Elements(sender.batch[o.topic])
                   PROVE  \/ o.msg \in Got(o)
                          \/ <<o.topic, o.to>> \in sender.todo
                          \/ /\ call # None /\ call.to = o.to
                             /\ \E i \in DOMAIN call.parts : o.msg \in Elements(call.parts[i])
      BY <1>1 DEF Served, Got
    <3>2. o \in due
      BY <1>9, <1>15, <1>16, <3>1
    <3> QED
      BY <3>1, <3>2 DEF BusIInv, Served
  <2>2. BatchOrder'
    <3>1. SUFFICES ASSUME sender.phase = "deliver", NEW o \in due', NEW p \in due', Earlier(o, p),
                          p.msg \in Elements(sender.batch[p.topic])
                   PROVE  o.msg \in Got(o) \cup Elements(sender.batch[o.topic])
      BY <1>1 DEF BatchOrder, Got, Earlier
    <3>2. o \in due /\ p \in due
      BY <1>9, <1>14, <1>16, <3>1
    <3> QED
      BY <3>1, <3>2 DEF BusIInv, BatchOrder
  <2> QED
    BY <2>1, <2>2
<1>18. CallOrder'
  <2>1. SUFFICES ASSUME call # None, NEW o \in due', NEW p \in due', Earlier(o, p), p.to = call.to,
                        NEW i \in DOMAIN call.parts, p.msg \in Elements(call.parts[i])
                 PROVE  o.msg \in Got(o) \/ \E j \in 1 .. i : o.msg \in Elements(call.parts[j])
    BY <1>1 DEF CallOrder, Got, Earlier
  <2>2. o \in due /\ p \in due
    BY <1>9, <1>14, <2>1
  <2> QED
    BY <2>1, <2>2 DEF BusIInv, CallOrder
<1>19. RequestOrder'
  <2>1. SUFFICES ASSUME NEW c \in incoming, NEW o \in due', NEW p \in due', Earlier(o, p), p.to = c.to,
                        p.msg \in Elements(c.rest)
                 PROVE  o.msg \in Got(o) \cup Elements(c.rest)
    BY <1>1 DEF RequestOrder, Got, Earlier
  <2>2. o \in due /\ p \in due
    BY <1>9, <1>14, <2>1
  <2> QED
    BY <2>1, <2>2 DEF BusIInv, RequestOrder
<1>20. AwaitedPart'
  BY <1>1 DEF BusIInv, AwaitedPart, Awaited
<1>21. BusInv'
  <2>1. KeptUntilDelivered'
    <3>1. ASSUME NEW o \in due' PROVE o.msg \in Elements(delivered[o.to]) \cup Elements(bus'.messages[o.topic])
      <4>1. CASE o \in due
        BY <1>5, <1>11, <4>1 DEF BusIInv, BusInv, KeptUntilDelivered
      <4>2. CASE o \in New
        BY <1>5, <1>10, <4>2
      <4> QED
        BY <1>4, <4>1, <4>2
    <3> QED
      BY <1>1, <3>1 DEF KeptUntilDelivered
  <2>2. SentOrder'
    <3>1. SUFFICES ASSUME NEW o \in due', NEW p \in due', Earlier(o, p),
                          p.msg \in Elements(delivered[p.to])
                   PROVE  o.msg \in Elements(delivered[o.to])
      BY <1>1 DEF SentOrder, Earlier
    <3>2. o \in due /\ p \in due
      BY <1>9, <1>14, <1>16, <3>1
    <3> QED
      BY <3>1, <3>2 DEF BusIInv, BusInv, SentOrder, Earlier
  <2> QED
    BY <2>1, <2>2 DEF BusInv
<1> QED
  BY <1>7, <1>8, <1>12, <1>13, <1>17, <1>18, <1>19, <1>20, <1>21 DEF BusIInv

(* What is collected has an addressee for everyone it is owed to. *)
LEMMA CollectKeeps ==
    ASSUME BusIInv, Collect
    PROVE  BusIInv'
<1> DEFINE D == {ts \in AllSubscribers(bus) : HasPending(bus, ts[1])}
<1>1. /\ UNCHANGED <<bus, call, incoming, backlog, delivered, due, checked, subscribing>>
      /\ counts' = [counts EXCEPT !.rounds = @ + 1]
      /\ sender' = [Thread("deliver") EXCEPT !.batch = bus.messages, !.todo = D]
  BY DEF Collect, AllPending, callerVars, subscriberVars
<1>2. /\ counts'.sent = counts.sent /\ counts'.invokes = counts.invokes
      /\ counts' \in [sent : Nat, invokes : Nat, rounds : Nat]
  BY <1>1 DEF BusIInv, BusTyped
<1>3. D \in SUBSET (Topic \X Subscriber)
  BY DEF AllSubscribers
<1>4. \A o \in due : o.msg \in Elements(bus.messages[o.topic]) => <<o.topic, o.to>> \in D
  <2>1. \A t \in Topic : Elements(bus.messages[t]) # {} => HasPending(bus, t)
    BY DEF HasPending, Elements
  <2> QED
    BY <2>1, Facts DEF AllSubscribers
<1> HIDE DEF D
<1>5. /\ sender' \in SenderState(counts.sent) /\ sender'.phase = "deliver"
      /\ sender'.batch = bus.messages /\ sender'.todo = D
  <2>1. PICK n \in Nat : n = counts.sent
    BY Facts
  <2>2. PICK M \in [Topic -> Sorted(n)] : M = bus.messages
    BY <2>1, Facts, BusFields
  <2>3. PICK c : c = sender'
    OBVIOUS
  <2>4. c = Collecting(M, D)
    BY <1>1, <2>2, <2>3 DEF Collecting
  <2>5. c \in SenderState(n) /\ c.phase = "deliver" /\ c.batch = M /\ c.todo = D
    BY <1>3, <2>4, SenderCollects
  <2> QED
    BY <2>1, <2>2, <2>3, <2>5
<1>6. BusTyped'
  BY <1>1, <1>2, <1>5 DEF BusIInv, BusTyped
<1>7. TransitTyped' /\ DueTyped'
  BY <1>1, <1>2 DEF BusIInv, TransitTyped, DueTyped
<1>8. DueTopic'
  BY <1>1, <1>5 DEF BusIInv, DueTopic
<1>9. Served'
  BY <1>1, <1>4, <1>5 DEF Served
<1>10. BatchOrder'
  BY <1>1, <1>5, Facts DEF BusIInv, BusInv, KeptUntilDelivered, BatchOrder, Got, Earlier
<1>11. CallOrder' /\ RequestOrder' /\ AwaitedPart'
  BY <1>1, OrdersKept DEF BusIInv
<1>12. BusInv'
  BY <1>1 DEF BusIInv, BusInv, KeptUntilDelivered, SentOrder
<1> QED
  BY <1>6, <1>7, <1>8, <1>9, <1>10, <1>11, <1>12 DEF BusIInv

LEMMA DeliverKeeps ==
    ASSUME BusIInv, NEW t \in Topic, NEW s \in Subscriber, Deliver(t, s)
    PROVE  BusIInv'
<1>1. /\ UNCHANGED <<bus, incoming, backlog, delivered, due, counts, checked, subscribing>>
      /\ sender.phase = "deliver" /\ call = None
      /\ sender' = [sender EXCEPT !.todo = sender.todo \ {<<t, s>>}]
      /\ call' = [to |-> s, parts |-> Requests(sender.batch[t]), tries |-> 0, no |-> 0]
  BY DEF Deliver, callerVars, subscriberVars
<1>2. PICK n \in Nat : n = counts.sent
  BY Facts
<1>3. PICK b \in Sorted(n) : b = sender.batch[t]
  BY <1>2, Facts
<1>4. PICK P : P = Requests(b)
  OBVIOUS
<1>5. /\ P \in Seq(Sorted(n)) /\ P # <<>>
      /\ \A m \in Elements(b) : \E i \in DOMAIN P : m \in Elements(P[i])
      /\ \A i \in DOMAIN P : Elements(P[i]) \subseteq Elements(b)
      /\ \A i \in DOMAIN P : \A p \in Elements(P[i]) : \A o \in Elements(b) :
            o < p => \E j \in 1 .. i : o \in Elements(P[j])
  BY <1>4, RequestsInOrder
<1>6. call' \in CallState(n) /\ call'.to = s /\ call'.parts = P /\ call'.no = 0
  <2>1. PICK c : c = call'
    OBVIOUS
  <2>2. c = [to |-> s, parts |-> P, tries |-> 0, no |-> 0]
    BY <1>1, <1>3, <1>4, <2>1
  <2>3. c \in CallState(n) /\ c.to = s /\ c.parts = P /\ c.no = 0
    BY <1>5, <2>2, CallMade
  <2> QED
    BY <2>1, <2>3
<1>7. /\ sender' \in SenderState(n) /\ sender'.phase = "deliver"
      /\ sender'.batch = sender.batch /\ sender'.todo = sender.todo \ {<<t, s>>}
  <2>1. PICK D \in SUBSET (Topic \X Subscriber) : D = sender.todo \ {<<t, s>>}
    BY Facts, SenderFields
  <2>2. PICK c : c = sender'
    OBVIOUS
  <2>3. c = [sender EXCEPT !.todo = D] /\ sender \in SenderState(n)
    BY <1>1, <1>2, <2>1, <2>2, Facts
  <2>4. c \in SenderState(n) /\ c.phase = sender.phase /\ c.batch = sender.batch /\ c.todo = D
    BY <2>3, SenderDelivers
  <2> QED
    BY <1>1, <2>1, <2>2, <2>4
<1>8. BusTyped'
  BY <1>1, <1>2, <1>7 DEF BusIInv, BusTyped
<1>9. TransitTyped'
  <2>1. 0 <= counts.invokes
    BY Facts
  <2> QED
    BY <1>1, <1>2, <1>6, <2>1 DEF BusIInv, TransitTyped
<1>10. DueTyped' /\ DueTopic'
  BY <1>1, <1>7 DEF BusIInv, DueTyped, DueTopic
<1>11. Served'
  <2>1. SUFFICES ASSUME NEW o \in due, o.msg \in Elements(sender.batch[o.topic])
                 PROVE  \/ o.msg \in Got(o)
                        \/ <<o.topic, o.to>> \in sender'.todo
                        \/ /\ call' # None /\ call'.to = o.to
                           /\ \E i \in DOMAIN call'.parts : o.msg \in Elements(call'.parts[i])
    BY <1>1, <1>7 DEF Served, Got
  <2>2. o.msg \in Got(o) \/ <<o.topic, o.to>> \in sender.todo
    BY <1>1, <2>1 DEF BusIInv, Served
  <2>3. CASE <<o.topic, o.to>> = <<t, s>>
    <3>1. o.topic = t /\ o.to = s
      BY <2>3
    <3>2. \E i \in DOMAIN call'.parts : o.msg \in Elements(call'.parts[i])
      BY <1>3, <1>5, <1>6, <2>1, <3>1
    <3>3. call' # None
      BY <1>2, <1>6, CallIsSome
    <3> QED
      BY <1>6, <3>1, <3>2, <3>3
  <2>4. CASE <<o.topic, o.to>> # <<t, s>>
    BY <1>7, <2>2, <2>4
  <2> QED
    BY <2>3, <2>4
<1>12. BatchOrder'
  BY <1>1, <1>7 DEF BusIInv, BatchOrder, Got, Earlier
<1>13. CallOrder'
  <2>1. SUFFICES ASSUME NEW o \in due, NEW p \in due, Earlier(o, p), p.to = s,
                        NEW i \in DOMAIN P, p.msg \in Elements(P[i])
                 PROVE  o.msg \in Got(o) \/ \E j \in 1 .. i : o.msg \in Elements(P[j])
    BY <1>1, <1>6 DEF CallOrder, Got, Earlier
  <2>2. p.msg \in Elements(sender.batch[t])
    BY <1>3, <1>5, <2>1
  <2>3. p.topic = t /\ o.topic = t
    BY <2>1, <2>2 DEF BusIInv, DueTopic, Earlier
  <2>4. o.msg \in Got(o) \cup Elements(b)
    BY <1>1, <1>3, <2>1, <2>2, <2>3 DEF BusIInv, BatchOrder
  <2> QED
    BY <1>5, <2>1, <2>4 DEF Earlier
<1>14. RequestOrder'
  BY <1>1 DEF BusIInv, RequestOrder, Got, Earlier
<1>15. AwaitedPart'
  BY <1>1, <1>6, RequestFields DEF BusIInv, TransitTyped, AwaitedPart, Awaited
<1>16. BusInv'
  BY <1>1 DEF BusIInv, BusInv, KeptUntilDelivered, SentOrder
<1> QED
  BY <1>8, <1>9, <1>10, <1>11, <1>12, <1>13, <1>14, <1>15, <1>16 DEF BusIInv

LEMMA InvokeKeeps ==
    ASSUME BusIInv, NEW arrives \in BOOLEAN, InvokeSubscriber(arrives)
    PROVE  BusIInv'
<1> DEFINE k == counts.invokes + 1
           c == [no |-> k, to |-> call.to, rest |-> Head(call.parts)]
<1>1. /\ UNCHANGED <<bus, sender, backlog, delivered, due, checked, subscribing>>
      /\ call # None /\ counts' = [counts EXCEPT !.invokes = k]
      /\ call' = [call EXCEPT !.no = counts'.invokes]
      /\ incoming' = IF arrives THEN incoming \cup {[no |-> call'.no, to |-> call.to, rest |-> Head(call.parts)]}
                     ELSE incoming
  BY DEF InvokeSubscriber, callerVars
<1>2. /\ counts'.sent = counts.sent /\ counts'.invokes = k
      /\ counts' \in [sent : Nat, invokes : Nat, rounds : Nat] /\ k \in Nat \ {0}
      /\ counts.invokes \in Nat /\ counts.sent \in Nat /\ counts.invokes < k
  BY <1>1 DEF BusIInv, BusTyped
<1> HIDE DEF k
<1>3. call \in CallState(counts.sent)
  BY <1>1 DEF BusIInv, TransitTyped
<1>4. /\ call' \in CallState(counts.sent) /\ call'.to = call.to /\ call'.parts = call.parts
      /\ call'.no = k
  <2>1. PICK d : d = call'
    OBVIOUS
  <2>2. d = [call EXCEPT !.no = k] /\ k \in Nat
    BY <1>1, <1>2, <2>1
  <2>3. d \in CallState(counts.sent) /\ d.to = call.to /\ d.parts = call.parts /\ d.no = k
    BY <1>3, <2>2, CallSent
  <2> QED
    BY <2>1, <2>3
<1>5. c \in RequestState(counts.sent) /\ c.no = k /\ c.to = call.to /\ c.rest = Head(call.parts)
  <2>1. Head(call.parts) \in Sorted(counts.sent) /\ call.to \in Subscriber
    BY <1>3, CallFields, HeadTailProperties
  <2> QED
    BY <1>2, <2>1, RequestMade
<1> HIDE DEF c
<1>6. incoming' \subseteq incoming \cup {c}
  BY <1>1, <1>4 DEF c
<1>7. /\ BusTyped' /\ DueTyped' /\ DueTopic' /\ Served' /\ BatchOrder' /\ BusInv'
  <2>1. BusTyped'
    BY <1>1, <1>2 DEF BusIInv, BusTyped
  <2>2. DueTyped' /\ DueTopic'
    BY <1>1, <1>2 DEF BusIInv, DueTyped, DueTopic
  <2>3. Served'
    <3>1. call' # None
      BY <1>2, <1>4, CallIsSome
    <3> QED
      BY <1>1, <1>4, <3>1 DEF BusIInv, Served, Got
  <2>4. BatchOrder' /\ BusInv'
    BY <1>1 DEF BusIInv, BatchOrder, Got, Earlier, BusInv, KeptUntilDelivered, SentOrder
  <2> QED
    BY <2>1, <2>2, <2>3, <2>4
<1>8. TransitTyped'
  <2>1. \A d \in incoming : d.no <= k
    BY <1>2, RequestFields DEF BusIInv, TransitTyped
  <2>2. k <= k
    BY <1>2
  <2>3. \A d \in incoming' : d \in RequestState(counts.sent) /\ d.no <= k
    BY <1>5, <1>6, <2>1, <2>2 DEF BusIInv, TransitTyped
  <2> QED
    BY <1>1, <1>2, <1>4, <2>2, <2>3 DEF BusIInv, TransitTyped
<1>9. CallOrder'
  BY <1>1, <1>4 DEF BusIInv, CallOrder, Got, Earlier
<1>10. RequestOrder'
  <2>1. ASSUME NEW o \in due, NEW p \in due, Earlier(o, p), p.to = c.to, p.msg \in Elements(c.rest)
        PROVE  o.msg \in Got(o) \cup Elements(c.rest)
    <3>1. Head(call.parts) = call.parts[1] /\ 1 \in DOMAIN call.parts
      BY <1>3, CallFields, HeadTailProperties
    <3>2. o.msg \in Got(o) \/ \E j \in 1 .. 1 : o.msg \in Elements(call.parts[j])
      BY <1>1, <1>5, <2>1, <3>1 DEF BusIInv, CallOrder
    <3> QED
      BY <1>5, <3>1, <3>2
  <2> QED
    BY <1>1, <1>6, <2>1 DEF BusIInv, RequestOrder, Got, Earlier
<1>11. AwaitedPart'
  <2>1. \A d \in incoming : d.no # k
    BY <1>2, RequestFields DEF BusIInv, TransitTyped
  <2> QED
    BY <1>1, <1>4, <1>5, <1>6, <2>1 DEF AwaitedPart, Awaited
<1> QED
  BY <1>7, <1>8, <1>9, <1>10, <1>11 DEF BusIInv

(* What the answered part had has been delivered. *)
LEMMA AcknowledgedKeeps ==
    ASSUME BusIInv, NEW c \in incoming, Acknowledged(c)
    PROVE  BusIInv'
<1>1. /\ UNCHANGED <<bus, sender, backlog, delivered, due, counts, checked, subscribing>>
      /\ call # None /\ c.rest = <<>> /\ incoming' = incoming \ {c} /\ Awaited(c)
      /\ call' = IF Len(call.parts) = 1 THEN None
                 ELSE [call EXCEPT !.parts = Tail(call.parts), !.tries = 0, !.no = 0]
  BY DEF Acknowledged, Awaited, callerVars
<1>2. PICK n \in Nat : n = counts.sent
  BY Facts
<1>3. call \in CallState(n)
  BY <1>1, <1>2 DEF BusIInv, TransitTyped
<1>4. PICK P \in Seq(Sorted(n)) : P = call.parts /\ P # <<>>
  BY <1>3, CallFields
<1>5. Elements(P[1]) \subseteq Elements(delivered[call.to]) /\ P[1] = Head(P) /\ 1 \in DOMAIN P
  <2>1. P[1] = Head(P) /\ 1 \in DOMAIN P
    BY <1>4, HeadTailProperties
  <2>2. c.to = call.to /\ Elements(Head(call.parts)) \subseteq Elements(delivered[c.to]) \cup Elements(c.rest)
    BY <1>1 DEF BusIInv, AwaitedPart
  <2>3. Elements(c.rest) = {}
    BY <1>1 DEF Elements
  <2> QED
    BY <1>4, <2>1, <2>2, <2>3
<1>6. BusTyped'
  BY <1>1 DEF BusIInv, BusTyped
<1>7. DueTyped' /\ DueTopic' /\ BatchOrder' /\ RequestOrder' /\ BusInv'
  BY <1>1 DEF BusIInv, DueTyped, DueTopic, BatchOrder, RequestOrder, Got, Earlier, BusInv,
              KeptUntilDelivered, SentOrder
<1>8. CASE Len(P) = 1
  <2>1. call' = None
    BY <1>1, <1>4, <1>8
  <2>2. TransitTyped' /\ CallOrder' /\ AwaitedPart'
    BY <1>1, <2>1 DEF BusIInv, TransitTyped, CallOrder, AwaitedPart, Awaited
  <2>3. Served'
    <3>1. ASSUME NEW o \in due, call.to = o.to,
                 NEW i \in DOMAIN call.parts, o.msg \in Elements(call.parts[i])
          PROVE  o.msg \in Got(o)
      <4>1. i = 1
        BY <1>4, <1>8
      <4> QED
        BY <1>4, <1>5, <3>1, <4>1 DEF Got
    <3> QED
      BY <1>1, <2>1, <3>1 DEF BusIInv, Served, Got
  <2> QED
    BY <1>6, <1>7, <2>2, <2>3 DEF BusIInv
<1>9. CASE Len(P) # 1
  <2>1. Len(P) > 1
    <3>1. PICK S : S = Sorted(n)
      OBVIOUS
    <3>2. Len(P) \in Nat \ {0}
      BY <1>4, <3>1, EmptySeq
    <3>3. PICK k \in Nat \ {0} : k = Len(P)
      BY <3>2
    <3>4. k > 1
      BY <1>9, <3>3
    <3> QED
      BY <3>3, <3>4
  <2>2. PICK Q : Q = Tail(P)
    OBVIOUS
  <2>3. /\ Q \in Seq(Sorted(n)) /\ Q # <<>>
        /\ \A i \in DOMAIN Q : i + 1 \in DOMAIN P /\ Q[i] = P[i + 1]
        /\ \A i \in DOMAIN P : i = 1 \/ (i - 1 \in DOMAIN Q /\ Q[i - 1] = P[i])
    BY <2>1, <2>2, PartsLeft
  <2>4. call' \in CallState(n) /\ call'.to = call.to /\ call'.parts = Q /\ call'.no = 0
    <3>1. PICK d : d = call'
      OBVIOUS
    <3>2. PICK a \in CallState(n) : a = call
      BY <1>3
    <3>3. d = GoingOn(a, Q)
      BY <1>1, <1>4, <1>9, <2>2, <3>1, <3>2 DEF GoingOn
    <3>4. d \in CallState(n) /\ d.to = a.to /\ d.parts = Q /\ d.no = 0
      BY <2>3, <3>3, CallGoesOn
    <3> QED
      BY <3>1, <3>2, <3>4
  <2>5. TransitTyped'
    <3>1. 0 <= counts.invokes
      BY Facts
    <3> QED
      BY <1>1, <1>2, <2>4, <3>1 DEF BusIInv, TransitTyped
  <2>6. Served'
    <3>1. call' # None
      BY <2>4, CallIsSome
    <3>2. ASSUME NEW o \in due, call.to = o.to,
                 NEW i \in DOMAIN call.parts, o.msg \in Elements(call.parts[i])
          PROVE  o.msg \in Got(o) \/ \E j \in DOMAIN Q : o.msg \in Elements(Q[j])
      <4>1. CASE i = 1
        BY <1>4, <1>5, <3>2, <4>1 DEF Got
      <4>2. CASE i # 1
        BY <1>4, <2>3, <3>2, <4>2
      <4> QED
        BY <4>1, <4>2
    <3> QED
      BY <1>1, <2>4, <3>1, <3>2 DEF BusIInv, Served, Got
  <2>7. CallOrder'
    <3>1. SUFFICES ASSUME NEW o \in due, NEW p \in due, Earlier(o, p), p.to = call.to,
                          NEW i \in DOMAIN Q, p.msg \in Elements(Q[i])
                   PROVE  o.msg \in Got(o) \/ \E j \in 1 .. i : o.msg \in Elements(Q[j])
      BY <1>1, <2>4 DEF CallOrder, Got, Earlier
    <3>2. i + 1 \in DOMAIN P /\ p.msg \in Elements(P[i + 1]) /\ i \in Nat
      BY <2>3, <3>1
    <3>3. o.msg \in Got(o) \/ \E j \in 1 .. i + 1 : o.msg \in Elements(P[j])
      BY <1>1, <1>4, <3>1, <3>2 DEF BusIInv, CallOrder
    <3>4. ASSUME NEW j \in 1 .. i + 1, o.msg \in Elements(P[j])
          PROVE  o.msg \in Got(o) \/ \E l \in 1 .. i : o.msg \in Elements(Q[l])
      <4>1. CASE j = 1
        BY <1>5, <3>1, <3>4, <4>1 DEF Got, Earlier
      <4>2. CASE j # 1
        <5>1. j - 1 \in 1 .. i /\ j \in DOMAIN P
          BY <1>4, <3>2, <4>2
        <5> QED
          BY <2>3, <3>4, <4>2, <5>1
      <4> QED
        BY <4>1, <4>2
    <3> QED
      BY <3>3, <3>4
  <2>8. AwaitedPart'
    BY <1>1, <2>4, RequestFields DEF BusIInv, TransitTyped, AwaitedPart, Awaited
  <2> QED
    BY <1>6, <1>7, <2>5, <2>6, <2>7, <2>8 DEF BusIInv
<1> QED
  BY <1>8, <1>9

(* The same part is sent again; what the old request has left goes on. *)
LEMMA RetryKeeps ==
    ASSUME BusIInv, Retry
    PROVE  BusIInv'
<1>1. /\ UNCHANGED <<bus, sender, backlog, delivered, due, counts, checked, subscribing>>
      /\ call # None /\ call' = [call EXCEPT !.tries = @ + 1, !.no = 0]
      /\ incoming' \subseteq incoming
  BY DEF Retry, Calling, callerVars
<1>2. PICK n \in Nat : n = counts.sent /\ call \in CallState(n)
  BY <1>1, Facts DEF BusIInv, TransitTyped
<1>3. call' \in CallState(n) /\ call'.to = call.to /\ call'.parts = call.parts /\ call'.no = 0
  <2>1. PICK k \in Nat : k = call.tries + 1
    BY <1>2, CallFields
  <2>2. PICK d : d = call'
    OBVIOUS
  <2>3. PICK a \in CallState(n) : a = call
    BY <1>2
  <2>4. d = TriedAgain(a, k)
    BY <1>1, <2>1, <2>2, <2>3 DEF TriedAgain
  <2>5. d \in CallState(n) /\ d.to = a.to /\ d.parts = a.parts /\ d.no = 0
    BY <2>4, CallAgain
  <2> QED
    BY <2>2, <2>3, <2>5
<1>4. BusTyped'
  BY <1>1 DEF BusIInv, BusTyped
<1>5. DueTyped' /\ DueTopic' /\ BatchOrder' /\ RequestOrder' /\ BusInv'
  BY <1>1 DEF BusIInv, DueTyped, DueTopic, BatchOrder, RequestOrder, Got, Earlier, BusInv,
              KeptUntilDelivered, SentOrder
<1>6. TransitTyped'
  <2>1. 0 <= counts.invokes
    BY Facts
  <2> QED
    BY <1>1, <1>2, <1>3, <2>1 DEF BusIInv, TransitTyped
<1>7. Served'
  <2>1. call' # None
    BY <1>3, CallIsSome
  <2> QED
    BY <1>1, <1>3, <2>1 DEF BusIInv, Served, Got
<1>8. CallOrder'
  BY <1>1, <1>3 DEF BusIInv, CallOrder, Got, Earlier
<1>9. AwaitedPart'
  BY <1>1, <1>3, RequestFields DEF BusIInv, TransitTyped, AwaitedPart, Awaited
<1> QED
  BY <1>4, <1>5, <1>6, <1>7, <1>8, <1>9 DEF BusIInv

(* What cannot be delivered is given up. *)
LEMMA FailKeeps ==
    ASSUME BusIInv, Fail
    PROVE  BusIInv'
<1> DEFINE D == {ts \in sender.todo : ts[2] # call.to}
           given == {o \in due : o.to = call.to /\ o.msg \in Elements(sender.batch[o.topic])}
<1>1. /\ UNCHANGED <<bus, backlog, delivered, counts, checked, subscribing>>
      /\ call # None /\ call' = None /\ incoming' \subseteq incoming
      /\ sender' = [sender EXCEPT !.failing = sender.failing \cup {call.to}, !.todo = D]
      /\ due' = due \ given
  BY DEF Fail, Calling, callerVars
<1>2. PICK n \in Nat : n = counts.sent /\ sender \in SenderState(n) /\ call \in CallState(n)
  BY <1>1, Facts DEF BusIInv, TransitTyped
<1>3. D \in SUBSET (Topic \X Subscriber)
  BY <1>2, SenderFields
<1>4. \A o \in due' : o \in due /\ (o.msg \in Elements(sender.batch[o.topic]) => o.to # call.to)
  BY <1>1
<1>5. \A ts \in sender.todo : ts[2] # call.to => ts \in D
  OBVIOUS
<1> HIDE DEF D, given
<1>6. /\ sender' \in SenderState(n) /\ sender'.phase = sender.phase
      /\ sender'.batch = sender.batch /\ sender'.todo = D
  <2>1. PICK F \in SUBSET Subscriber : F = sender.failing \cup {call.to}
    BY <1>2, SenderFields, CallFields
  <2>2. PICK d : d = sender'
    OBVIOUS
  <2>3. PICK a \in SenderState(n) : a = sender
    BY <1>2
  <2>4. d = GivingUp(a, F, D)
    BY <1>1, <2>1, <2>2, <2>3 DEF GivingUp
  <2>5. d \in SenderState(n) /\ d.phase = a.phase /\ d.batch = a.batch /\ d.todo = D
    BY <1>3, <2>4, SenderFails
  <2> QED
    BY <2>2, <2>3, <2>5
<1>7. BusTyped'
  BY <1>1, <1>2, <1>6 DEF BusIInv, BusTyped
<1>8. TransitTyped'
  BY <1>1, TransitKept DEF BusIInv
<1>9. CallOrder' /\ RequestOrder' /\ AwaitedPart'
  BY <1>1, <1>4, OrdersKept DEF BusIInv
<1>10. DueTyped' /\ DueTopic'
  BY <1>1, <1>4, <1>6 DEF BusIInv, DueTyped, DueTopic
<1>11. Served'
  <2>1. SUFFICES ASSUME sender.phase = "deliver", NEW o \in due',
                        o.msg \in Elements(sender.batch[o.topic])
                 PROVE  o.msg \in Got(o) \/ <<o.topic, o.to>> \in D
    BY <1>1, <1>6 DEF Served, Got
  <2>2. o \in due /\ o.to # call.to
    BY <1>4, <2>1
  <2>3. o.msg \in Got(o) \/ <<o.topic, o.to>> \in sender.todo
    BY <2>1, <2>2 DEF BusIInv, Served
  <2> QED
    BY <1>5, <2>2, <2>3
<1>12. BatchOrder'
  BY <1>1, <1>4, <1>6 DEF BusIInv, BatchOrder, Got, Earlier
<1>13. BusInv'
  BY <1>1, <1>4 DEF BusIInv, BusInv, KeptUntilDelivered, SentOrder
<1> QED
  BY <1>7, <1>8, <1>9, <1>10, <1>11, <1>12, <1>13 DEF BusIInv

(* The first message of a request is delivered: the earlier ones were. *)
LEMMA PutMessageKeeps ==
    ASSUME BusIInv, NEW c \in incoming, PutMessage(c)
    PROVE  BusIInv'
<1>1. /\ UNCHANGED <<bus, sender, call, due, counts, checked, subscribing>> /\ c.rest # <<>>
      /\ backlog' = [backlog EXCEPT ![c.to] = @ + 1]
      /\ delivered' = [delivered EXCEPT ![c.to] = Append(delivered[c.to], Head(c.rest))]
      /\ incoming' = (incoming \ {c}) \cup
            (IF Len(c.rest) > 1 \/ Awaited(c) THEN {[c EXCEPT !.rest = Tail(@)]} ELSE {})
  BY DEF PutMessage, callerVars, threadVars
<1>2. PICK n \in Nat : n = counts.sent
  BY Facts
<1>3. c \in RequestState(n) /\ c.no <= counts.invokes
  BY <1>2 DEF BusIInv, TransitTyped
<1>4. PICK r \in Sorted(n) : r = c.rest /\ r # <<>>
  BY <1>1, <1>3, RequestFields
<1>5. PICK h : h = Head(r)
  OBVIOUS
<1>6. PICK u : u = Tail(r)
  OBVIOUS
<1>7. /\ h \in 0 .. n /\ u \in Sorted(n) /\ Elements(r) = {h} \cup Elements(u)
      /\ \A m \in Elements(r) : h <= m
  BY <1>4, <1>5, <1>6, FirstOfRest
<1>8. PICK s \in Subscriber : s = c.to
  BY <1>3, RequestFields
<1>9. PICK d : d = [c EXCEPT !.rest = u]
  OBVIOUS
<1>10. d \in RequestState(n) /\ d.no = c.no /\ d.to = s /\ d.rest = u
  BY <1>3, <1>7, <1>8, <1>9, RequestGoesOn
<1>11. incoming' \subseteq (incoming \ {c}) \cup {d}
  BY <1>1, <1>4, <1>6, <1>9
<1>12. /\ delivered' \in [Subscriber -> Seq(0 .. n)]
       /\ Elements(delivered'[s]) = Elements(delivered[s]) \cup {h}
       /\ \A q \in Subscriber : q # s => delivered'[q] = delivered[q]
  <2>1. delivered \in [Subscriber -> Seq(0 .. n)]
    BY <1>2 DEF BusIInv, TransitTyped
  <2>2. PICK S : S = 0 .. n
    OBVIOUS
  <2>3. PICK q \in Seq(S) : q = delivered[s]
    BY <2>1, <2>2
  <2>4. PICK x \in S : x = h
    BY <1>7, <2>2
  <2>5. Append(q, x) \in Seq(S) /\ Elements(Append(q, x)) = Elements(q) \cup {x}
    BY ElementsAppended
  <2>6. PICK a \in Seq(S) : a = Append(q, x) /\ Elements(a) = Elements(q) \cup {x}
    BY <2>5
  <2>7. delivered' = [delivered EXCEPT ![s] = a]
    BY <1>1, <1>4, <1>5, <1>8, <2>3, <2>4, <2>6
  <2> QED
    BY <2>1, <2>2, <2>3, <2>4, <2>6, <2>7
<1>13. \A q \in Subscriber : Elements(delivered[q]) \subseteq Elements(delivered'[q])
  BY <1>12
<1>14. \A o \in due : o.to \in Subscriber /\ Got(o) \subseteq Elements(delivered'[o.to])
                      /\ Got(o)' = Elements(delivered'[o.to]) /\ o.msg \in Nat
  <2>1. SUFFICES ASSUME NEW o \in due
                 PROVE  /\ o.to \in Subscriber /\ Got(o) \subseteq Elements(delivered'[o.to])
                        /\ Got(o)' = Elements(delivered'[o.to]) /\ o.msg \in Nat
    OBVIOUS
  <2>2. o.to \in Subscriber /\ o.msg \in 0 .. n
    BY <1>2, Facts
  <2>3. Got(o) = Elements(delivered[o.to]) /\ Got(o)' = Elements(delivered'[o.to])
    BY DEF Got
  <2> QED
    BY <1>13, <2>2, <2>3
<1>15. BusTyped'
  BY <1>1 DEF BusIInv, BusTyped
<1>16. TransitTyped'
  <2>1. backlog' \in [Subscriber -> Nat]
    <3>1. backlog' = [backlog EXCEPT ![s] = backlog[s] + 1]
      BY <1>1, <1>8
    <3> QED
      BY <3>1 DEF BusIInv, TransitTyped
  <2>2. \A e \in incoming' : e \in RequestState(n) /\ e.no <= counts.invokes
    BY <1>2, <1>3, <1>10, <1>11 DEF BusIInv, TransitTyped
  <2> QED
    BY <1>1, <1>2, <1>12, <2>1, <2>2 DEF BusIInv, TransitTyped
<1>17. DueTyped' /\ DueTopic'
  BY <1>1 DEF BusIInv, DueTyped, DueTopic
<1>18. Served'
  BY <1>1, <1>14 DEF BusIInv, Served
<1>19. BatchOrder'
  BY <1>1, <1>14 DEF BusIInv, BatchOrder, Earlier
<1>20. CallOrder'
  BY <1>1, <1>14 DEF BusIInv, CallOrder, Earlier
<1>21. RequestOrder'
  <2>1. SUFFICES ASSUME NEW e \in incoming', NEW o \in due, NEW p \in due, Earlier(o, p), p.to = e.to,
                        p.msg \in Elements(e.rest)
                 PROVE  o.msg \in Elements(delivered'[o.to]) \cup Elements(e.rest)
    BY <1>1, <1>14 DEF RequestOrder, Earlier
  <2>2. CASE e \in incoming
    BY <1>14, <2>1, <2>2 DEF BusIInv, RequestOrder
  <2>3. CASE e = d
    <3>1. p.msg \in Elements(c.rest) /\ p.to = c.to /\ o.to = s
      BY <1>4, <1>7, <1>8, <1>10, <2>1, <2>3 DEF Earlier
    <3>2. o.msg \in Got(o) \cup Elements(c.rest)
      BY <2>1, <3>1 DEF BusIInv, RequestOrder
    <3> QED
      BY <1>4, <1>7, <1>10, <1>12, <1>14, <2>3, <3>1, <3>2
  <2> QED
    BY <1>11, <2>1, <2>2, <2>3
<1>22. AwaitedPart'
  <2>1. SUFFICES ASSUME NEW e \in incoming', Awaited(e)
                 PROVE  /\ e.to = call.to
                        /\ Elements(Head(call.parts)) \subseteq Elements(delivered'[e.to]) \cup Elements(e.rest)
    BY <1>1 DEF AwaitedPart, Awaited
  <2>2. CASE e \in incoming
    <3>1. e.to \in Subscriber
      BY <2>2, RequestFields DEF BusIInv, TransitTyped
    <3> QED
      BY <1>13, <2>1, <2>2, <3>1 DEF BusIInv, AwaitedPart
  <2>3. CASE e = d
    <3>1. Awaited(c)
      BY <1>10, <2>1, <2>3 DEF Awaited
    <3>2. /\ c.to = call.to
          /\ Elements(Head(call.parts)) \subseteq Elements(delivered[c.to]) \cup Elements(c.rest)
      BY <3>1 DEF BusIInv, AwaitedPart
    <3> QED
      BY <1>4, <1>7, <1>8, <1>10, <1>12, <2>3, <3>2
  <2> QED
    BY <1>11, <2>1, <2>2, <2>3
<1>23. BusInv'
  <2>1. KeptUntilDelivered'
    BY <1>1, <1>14 DEF BusIInv, BusInv, KeptUntilDelivered, Got
  <2>2. SentOrder'
    <3>1. SUFFICES ASSUME NEW o \in due, NEW p \in due, Earlier(o, p), p.msg \in Elements(delivered'[p.to])
                   PROVE  o.msg \in Elements(delivered'[o.to])
      BY <1>1 DEF SentOrder, Earlier
    <3>2. CASE p.msg \in Elements(delivered[p.to])
      BY <1>14, <3>1, <3>2 DEF BusIInv, BusInv, SentOrder, Earlier, Got
    <3>3. CASE p.msg \notin Elements(delivered[p.to])
      <4>1. p.to = s /\ p.msg = h
        BY <1>12, <1>14, <3>1, <3>3
      <4>2. o.msg \in Got(o) \cup Elements(r)
        BY <1>4, <1>7, <1>8, <3>1, <4>1 DEF BusIInv, RequestOrder
      <4>3. o.msg \notin Elements(r)
        <5>1. o.msg \in Nat /\ p.msg \in Nat /\ o.msg < p.msg
          BY <1>14, <3>1 DEF Earlier
        <5> QED
          BY <1>7, <4>1, <5>1
      <4> QED
        BY <1>14, <4>2, <4>3
    <3> QED
      BY <3>2, <3>3
  <2> QED
    BY <2>1, <2>2 DEF BusInv
<1> QED
  BY <1>15, <1>16, <1>17, <1>18, <1>19, <1>20, <1>21, <1>22, <1>23 DEF BusIInv

LEMMA ConsumeKeeps ==
    ASSUME BusIInv, NEW s \in Subscriber, ConsumeMessage(s)
    PROVE  BusIInv'
<1>1. /\ UNCHANGED <<bus, sender, call, incoming, delivered, due, counts, checked, subscribing>>
      /\ backlog[s] > 0 /\ backlog' = [backlog EXCEPT ![s] = @ - 1]
  BY DEF ConsumeMessage, callerVars, threadVars
<1>2. backlog' \in [Subscriber -> Nat]
  BY <1>1 DEF BusIInv, TransitTyped
<1>3. BusTyped' /\ TransitTyped' /\ DueTyped' /\ DueTopic' /\ AwaitedPart'
  BY <1>1, <1>2 DEF BusIInv, BusTyped, TransitTyped, DueTyped, DueTopic, AwaitedPart, Awaited
<1>4. Served' /\ BatchOrder' /\ CallOrder' /\ RequestOrder' /\ BusInv'
  BY <1>1 DEF BusIInv, Served, BatchOrder, CallOrder, RequestOrder, Got, Earlier, BusInv,
              KeptUntilDelivered, SentOrder
<1> QED
  BY <1>3, <1>4 DEF BusIInv

-----------------------------------------------------------------------------
LEMMA BusBegins == BusInit => BusIInv
<1> SUFFICES ASSUME BusInit PROVE BusIInv
  OBVIOUS
<1>1. /\ bus = EmptyBus /\ checked = None /\ subscribing = None /\ sender = Thread("stopped")
      /\ call = None /\ incoming = {} /\ due = {}
      /\ backlog = [s \in Subscriber |-> 0] /\ delivered = [s \in Subscriber |-> <<>>]
      /\ counts = [sent |-> 0, invokes |-> 0, rounds |-> 0]
  BY DEF BusInit
<1>2. bus \in BusState(0) /\ sender \in SenderState(0) /\ sender.phase = "stopped" /\ counts.sent = 0
  BY <1>1, EmptyBusState, ThreadState DEF Phase
<1>3. BusTyped
  BY <1>1, <1>2 DEF BusTyped
<1>4. TransitTyped
  BY <1>1, <1>2 DEF TransitTyped
<1>5. DueTyped /\ DueTopic /\ AwaitedPart /\ RequestOrder /\ CallOrder /\ BusInv
  BY <1>1 DEF DueTyped, DueTopic, AwaitedPart, RequestOrder, CallOrder, BusInv, KeptUntilDelivered, SentOrder
<1>6. Served /\ BatchOrder
  BY <1>2 DEF Served, BatchOrder
<1> QED
  BY <1>3, <1>4, <1>5, <1>6 DEF BusIInv

LEMMA BusStutters ==
    ASSUME BusIInv, UNCHANGED busVars
    PROVE  BusIInv'
<1>1. UNCHANGED <<bus, sender, call, incoming, backlog, delivered, due, counts, checked, subscribing>>
  BY DEF busVars
<1>2. BusTyped' /\ TransitTyped' /\ DueTyped' /\ DueTopic' /\ AwaitedPart'
  BY <1>1 DEF BusIInv, BusTyped, TransitTyped, DueTyped, DueTopic, AwaitedPart, Awaited
<1>3. Served' /\ BatchOrder' /\ CallOrder' /\ RequestOrder' /\ BusInv'
  BY <1>1 DEF BusIInv, Served, BatchOrder, CallOrder, RequestOrder, Got, Earlier, BusInv,
              KeptUntilDelivered, SentOrder
<1> QED
  BY <1>2, <1>3 DEF BusIInv

(* A message is pending until everyone it is owed to has it, and reaches   *)
(* each queue after the earlier ones, for any topics, subscribers,         *)
(* messages, limits and retries, crashes and restarts over each storage.   *)
THEOREM BusIsKept == BusSpec => []BusInv
<1>1. ASSUME BusIInv, [BusNext]_busVars
      PROVE  BusIInv'
  <2>1. CASE \E k \in {"memory", "sqlite"} : StartBus(k)
    BY <1>1, <2>1, StartBusKeeps
  <2>2. CASE CrashBus
    BY <1>1, <2>2, CrashBusKeeps
  <2>3. CASE RemoveTopic
    BY <1>1, <2>3, RemoveTopicKeeps
  <2>4. CASE Subscribe
    BY <1>1, <2>4, SubscribeKeeps
  <2>5. CASE Sending
    <3>1. CASE ReadStats \/ PrintStats
      BY <1>1, <3>1, StatsKeep
    <3>2. CASE Collect
      BY <1>1, <3>2, CollectKeeps
    <3>3. CASE RemoveMessages
      BY <1>1, <3>3, RemoveMessagesKeeps
    <3>4. CASE UnsubscribeMany
      BY <1>1, <3>4, UnsubscribeManyKeeps
    <3>5. CASE \E t \in Topic, s \in Subscriber : Deliver(t, s)
      BY <1>1, <3>5, DeliverKeeps
    <3>6. CASE \E arrives \in BOOLEAN : InvokeSubscriber(arrives)
      BY <1>1, <3>6, InvokeKeeps
    <3>7. CASE \E c \in incoming : Acknowledged(c)
      BY <1>1, <3>7, AcknowledgedKeeps
    <3>8. CASE Retry
      BY <1>1, <3>8, RetryKeeps
    <3>9. CASE Fail
      BY <1>1, <3>9, FailKeeps
    <3> QED
      BY <2>5, <3>1, <3>2, <3>3, <3>4, <3>5, <3>6, <3>7, <3>8, <3>9 DEF Sending
  <2>6. CASE \E t \in Topic : AddTopic(t) \/ CheckTopic(t)
    BY <1>1, <2>6, AddTopicKeeps
  <2>7. CASE \E t \in Topic : SendMessage(t)
    BY <1>1, <2>7, SendMessageKeeps
  <2>8. CASE \E t \in Topic, s \in Subscriber : BeginSubscribe(t, s)
    BY <1>1, <2>8, BeginSubscribeKeeps
  <2>9. CASE \E t \in Topic, s \in Subscriber : Unsubscribe(t, s)
    BY <1>1, <2>9, UnsubscribeKeeps
  <2>10. CASE \E c \in incoming : PutMessage(c)
    BY <1>1, <2>10, PutMessageKeeps
  <2>11. CASE \E s \in Subscriber : ConsumeMessage(s)
    BY <1>1, <2>11, ConsumeKeeps
  <2>12. CASE UNCHANGED busVars
    BY <1>1, <2>12, BusStutters
  <2> QED
    BY <1>1, <2>1, <2>2, <2>3, <2>4, <2>5, <2>6, <2>7, <2>8, <2>9, <2>10, <2>11, <2>12 DEF BusNext
<1>2. BusIInv => BusInv
  BY DEF BusIInv
<1> QED
  BY <1>1, <1>2, BusBegins, PTL DEF BusSpec

-----------------------------------------------------------------------------
(* Values in the serializers: Serializing. *)

(* What the values to send are made of. *)
OuterKind == {"list", "tuple", "dict", "set", "object"}
ValueKind == OuterKind \cup SpecialKind \cup {"base"}
ValueClass == CoreClass \cup ErrorClass \cup OtherClass \cup {ExceptionWrapper, None}
ValueNode == {x \in [kind : ValueKind, class : ValueClass] : x.kind # "object" => x.class = None}

(* An exception's wrapper is in no object and holds one object. *)
NoWrapper(v) == \A i \in DOMAIN v : v[i].class # ExceptionWrapper \/ v[i].kind # "object"
NestedWell(v) ==
    /\ v \in Seq(ValueNode) /\ Len(v) > 0
    /\ \A i \in DOMAIN v : i < Len(v) => v[i].kind \in OuterKind
    /\ \A i, k \in DOMAIN v :
        v[i].kind = "object" /\ v[i].class = ExceptionWrapper /\ v[k].kind = "object" => k = i \/ k = i + 1

LEMMA ValueNodes ==
    ASSUME NEW k \in ValueKind, NEW c \in ValueClass, k # "object" => c = None
    PROVE  Node(k, c) \in ValueNode /\ Node(k, c).kind = k /\ Node(k, c).class = c
  BY DEF ValueNode, Node

(* One node around a value. *)
LEMMA PutAround ==
    ASSUME NEW v, NestedWell(v), NEW x \in ValueNode, x.kind \in OuterKind,
           x.kind = "object" => x.class # ExceptionWrapper /\ NoWrapper(v)
    PROVE  NestedWell(<<x>> \o v)
<1> DEFINE w == <<x>> \o v
<1>1. v \in Seq(ValueNode) /\ Len(v) \in Nat /\ Len(v) > 0
  BY DEF NestedWell
<1>2. /\ w \in Seq(ValueNode) /\ Len(w) = Len(v) + 1 /\ w[1] = x
      /\ \A i \in DOMAIN w : i # 1 => i - 1 \in DOMAIN v /\ w[i] = v[i - 1]
  BY <1>1
<1>3. Len(w) > 0 /\ DOMAIN w = 1 .. Len(w) /\ DOMAIN v = 1 .. Len(v)
  BY <1>1, <1>2
<1> HIDE DEF w
<1>4. ASSUME NEW i \in DOMAIN w, i < Len(w)
      PROVE  w[i].kind \in OuterKind
  <2>1. CASE i = 1
    BY <2>1, <1>2
  <2>2. CASE i # 1
    BY <2>2, <1>1, <1>2, <1>3, <1>4 DEF NestedWell
  <2> QED
    BY <2>1, <2>2
<1>5. ASSUME NEW i \in DOMAIN w, NEW k \in DOMAIN w,
             w[i].kind = "object", w[i].class = ExceptionWrapper, w[k].kind = "object"
      PROVE  k = i \/ k = i + 1
  <2>1. CASE i = 1
    BY <2>1, <1>2, <1>3, <1>5
  <2>2. CASE i # 1 /\ k = 1
    BY <2>2, <1>2, <1>5 DEF NoWrapper
  <2>3. CASE i # 1 /\ k # 1
    BY <2>3, <1>1, <1>2, <1>3, <1>5 DEF NestedWell
  <2> QED
    BY <2>1, <2>2, <2>3
<1> QED
  BY <1>2, <1>3, <1>4, <1>5 DEF NestedWell, w

LEMMA FlatValues ==
    ASSUME NEW v \in Flat
    PROVE  NestedWell(v) /\ NoWrapper(v)
<1>1. ASSUME NEW x \in ValueNode, x.kind \in SpecialKind \cup {"base"}, v = <<x>>
      PROVE  NestedWell(v) /\ NoWrapper(v)
  <2>1. v \in Seq(ValueNode) /\ Len(v) = 1 /\ DOMAIN v = {1} /\ v[1] = x
    BY <1>1
  <2>2. x.kind # "object"
    BY <1>1 DEF SpecialKind
  <2> QED
    BY <2>1, <2>2 DEF NestedWell, NoWrapper
<1>2. Base \in ValueNode /\ Base.kind = "base"
  BY ValueNodes DEF Base, ValueKind, ValueClass
<1>3. CASE v = <<Base>>
  BY <1>1, <1>2, <1>3
<1>4. CASE \E k \in SpecialKind : v = <<Node(k, None)>>
  <2>1. PICK k \in SpecialKind : v = <<Node(k, None)>>
    BY <1>4
  <2>2. Node(k, None) \in ValueNode /\ Node(k, None).kind = k
    BY <2>1, ValueNodes DEF ValueKind, ValueClass
  <2> QED
    BY <1>1, <2>1, <2>2
<1>5. CASE \E c \in CoreClass \cup ErrorClass \cup OtherClass : v = <<Object(c), Base>>
  <2>1. PICK c \in CoreClass \cup ErrorClass \cup OtherClass : v = <<Object(c), Base>>
    BY <1>5
  <2>2. /\ Object(c) \in ValueNode /\ Object(c).kind = "object" /\ Object(c).class = c
        /\ c # ExceptionWrapper
    BY <2>1, ValueNodes, ClassAssumption DEF ValueKind, ValueClass, OuterKind, Object
  <2>3. PICK x \in ValueNode : x = Object(c)
    BY <2>2
  <2>4. PICK b \in ValueNode : b = Base /\ b.kind = "base"
    BY <1>2
  <2>5. v \in Seq(ValueNode) /\ Len(v) = 2 /\ DOMAIN v = 1 .. 2 /\ v[1] = x /\ v[2] = b
    BY <2>1, <2>3, <2>4
  <2>6. x.kind \in OuterKind
    BY <2>2, <2>3 DEF OuterKind
  <2> QED
    BY <2>2, <2>3, <2>4, <2>5, <2>6 DEF NestedWell, NoWrapper
<1> QED
  BY <1>3, <1>4, <1>5 DEF Flat

(* Containers of such values are such values. *)
LEMMA ContainerValues ==
    ASSUME NEW V, \A v \in V : NestedWell(v), NEW w \in Containers(V)
    PROVE  NestedWell(w)
<1>1. PICK k \in {"list", "tuple", "dict"}, v \in V : w = <<Node(k, None)>> \o v
  BY DEF Containers
<1>2. k \in OuterKind /\ k \in ValueKind /\ k # "object" /\ None \in ValueClass
  BY <1>1 DEF OuterKind, ValueKind, ValueClass
<1>3. Node(k, None) \in ValueNode /\ Node(k, None).kind = k
  BY <1>2, ValueNodes
<1>4. PICK x \in ValueNode : x = Node(k, None) /\ x.kind = k
  BY <1>3
<1> QED
  BY <1>1, <1>2, <1>4, PutAround

LEMMA ObjectNodes ==
    ASSUME NEW c \in CoreClass \cup ErrorClass \cup OtherClass \cup {ExceptionWrapper}
    PROVE  Object(c) \in ValueNode /\ Object(c).kind = "object" /\ Object(c).class = c
  BY ValueNodes DEF ValueKind, ValueClass, OuterKind, Object

LEMMA NestedValues ==
    ASSUME NEW w \in Nested
    PROVE  NestedWell(w)
<1>1. CASE w \in Flat
  BY <1>1, FlatValues
<1>2. CASE w \in Containers(Flat)
  BY <1>2, FlatValues, ContainerValues
<1>3. CASE w = <<Node("set", None), Base>>
  <2>1. Node("set", None) \in ValueNode /\ Node("set", None).kind = "set"
    BY ValueNodes DEF ValueKind, ValueClass, OuterKind
  <2>2. PICK x \in ValueNode : x = Node("set", None) /\ x.kind = "set"
    BY <2>1
  <2>3. Base \in ValueNode /\ Base.kind = "base"
    BY ValueNodes DEF Base, ValueKind, ValueClass
  <2>4. PICK b \in ValueNode : b = Base /\ b.kind = "base"
    BY <2>3
  <2>5. w \in Seq(ValueNode) /\ Len(w) = 2 /\ DOMAIN w = 1 .. 2 /\ w[1] = x /\ w[2] = b
    BY <1>3, <2>2, <2>4
  <2> QED
    BY <2>2, <2>4, <2>5 DEF NestedWell, OuterKind
<1>4. CASE \E c \in ErrorClass \cup OtherClass, v \in Flat : w = <<Object(c)>> \o v
  <2>1. PICK c \in ErrorClass \cup OtherClass, v \in Flat : w = <<Object(c)>> \o v
    BY <1>4
  <2>2. PICK x \in ValueNode : x = Object(c) /\ x.kind = "object" /\ x.class = c
    BY <2>1, ObjectNodes
  <2>3. x.kind \in OuterKind /\ x.class # ExceptionWrapper
    BY <2>1, <2>2, ClassAssumption DEF OuterKind
  <2> QED
    BY <2>1, <2>2, <2>3, FlatValues, PutAround
<1>5. CASE \E c \in ErrorClass : w = <<Object(ExceptionWrapper), Object(c), Base>>
  <2>1. PICK c \in ErrorClass : w = <<Object(ExceptionWrapper), Object(c), Base>>
    BY <1>5
  <2>2. PICK x \in ValueNode : x = Object(ExceptionWrapper) /\ x.kind = "object"
    BY ObjectNodes
  <2>3. PICK y \in ValueNode : y = Object(c) /\ y.kind = "object" /\ y.class # ExceptionWrapper
    BY <2>1, ObjectNodes, ClassAssumption
  <2>4. Base \in ValueNode /\ Base.kind = "base"
    BY ValueNodes DEF Base, ValueKind, ValueClass
  <2>5. PICK b \in ValueNode : b = Base /\ b.kind = "base"
    BY <2>4
  <2>6. w \in Seq(ValueNode) /\ Len(w) = 3 /\ DOMAIN w = 1 .. 3 /\ w[1] = x /\ w[2] = y /\ w[3] = b
    BY <2>1, <2>2, <2>3, <2>5
  <2>7. \A i \in DOMAIN w : i = 1 \/ i = 2 \/ i = 3
    BY <2>6
  <2> QED
    BY <2>2, <2>3, <2>5, <2>6, <2>7 DEF NestedWell, OuterKind
<1> QED
  BY <1>1, <1>2, <1>3, <1>4, <1>5 DEF Nested

LEMMA PayloadValues ==
    ASSUME NEW w \in Payload
    PROVE  NestedWell(w)
  BY NestedValues, ContainerValues DEF Payload

(* What a serializer makes of a node.                                      *)
LEMMA KindsKept ==
    ASSUME NEW s \in ByName, NEW x \in ValueNode, x.kind # "object", NEW k, k = KindOf(s, x)
    PROVE  /\ k \notin {"object", "failure", "tagged"}
           /\ k = "ext" <=> s = "msgpack" /\ x.kind \in {"complex", "date"}
           /\ x.kind \in OuterKind => k \in ContainerKinds
           /\ k # "ext" => \/ k = x.kind
                           \/ x.kind \in {"set", "tuple"} /\ k = "list"
                           \/ x.kind \in {"uuid", "date"} /\ k = "text"
<1>1. x.kind \in {"list", "tuple", "dict", "set", "uuid", "complex", "date", "base"}
  BY DEF ValueNode, ValueKind, OuterKind, SpecialKind
<1>2. k = IF x.kind \in DOMAIN AsOther(s) THEN AsOther(s)[x.kind] ELSE x.kind
  BY DEF KindOf, IsObject, IsA
<1>3. CASE s = "msgpack"
  BY <1>1, <1>2, <1>3 DEF AsOther, OuterKind, ContainerKinds
<1>4. CASE s = "json"
  BY <1>1, <1>2, <1>4 DEF AsOther, OuterKind, ContainerKinds
<1>5. CASE s = "serpent"
  BY <1>1, <1>2, <1>5 DEF AsOther, OuterKind, ContainerKinds
<1>6. CASE s = "marshal"
  BY <1>1, <1>2, <1>6 DEF AsOther, OuterKind, ContainerKinds
<1> QED
  BY <1>3, <1>4, <1>5, <1>6 DEF ByName

(* An object becomes a dict with its class's name, or a plain one. *)
LEMMA ObjectDumped ==
    ASSUME NEW s \in ByName, NEW x \in ValueNode, x.kind = "object"
    PROVE  NodeDumped(s, x) = IF x.class \in untagged THEN Node("dict", None) ELSE Node("tagged", x.class)
  BY DEF NodeDumped, KindOf, IsObject, IsA

LEMMA OtherDumped ==
    ASSUME NEW s \in ByName, NEW x \in ValueNode, x.kind # "object"
    PROVE  NodeDumped(s, x) = IF KindOf(s, x) = "ext" THEN Node("ext", x.kind) ELSE Node(KindOf(s, x), None)
<1>1. PICK k : k = KindOf(s, x)
  OBVIOUS
<1>2. k # "tagged"
  BY <1>1, KindsKept
<1>3. NodeDumped(s, x) = Node(k, CASE k = "tagged" -> x.class [] k = "ext" -> x.kind [] OTHER -> None)
  BY <1>1 DEF NodeDumped
<1> QED
  BY <1>1, <1>2, <1>3

(* A node of another kind is as it was, loosely. *)
LEMMA SameLoosely ==
    ASSUME NEW x \in ValueNode, x.class = None, NEW k,
           \/ k = x.kind
           \/ x.kind \in {"set", "tuple"} /\ k = "list"
           \/ x.kind \in {"uuid", "date"} /\ k = "text"
    PROVE  NodeLoosely(Node(k, None)) = NodeLoosely(x)
<1>1. x = [kind |-> x.kind, class |-> None]
  BY DEF ValueNode
<1>2. ASSUME NEW l
      PROVE  NodeLoosely([kind |-> l, class |-> None]) =
                [kind |-> CASE l \in {"set", "tuple"} -> "list" [] l \in {"uuid", "date"} -> "text"
                            [] OTHER -> l,
                 class |-> None]
  BY DEF NodeLoosely
<1>3. PICK l : l = x.kind
  OBVIOUS
<1>4. NodeLoosely(x) = NodeLoosely([kind |-> l, class |-> None])
  BY <1>1, <1>3
<1>5. NodeLoosely(Node(k, None)) = NodeLoosely([kind |-> k, class |-> None])
  BY DEF Node
<1>6. CASE k = l
  BY <1>4, <1>5, <1>6
<1>7. CASE l \in {"set", "tuple"} /\ k = "list"
  BY <1>2, <1>4, <1>5, <1>7
<1>8. CASE l \in {"uuid", "date"} /\ k = "text"
  BY <1>2, <1>4, <1>5, <1>8
<1> QED
  BY <1>3, <1>6, <1>7, <1>8

(* dict_to_class makes an object of a known class or fails. *)
LEMMA CreatedOrFailed ==
    ASSUME NEW c
    PROVE  \/ Created(Node("tagged", c)) = Node("object", c) /\ c \in IsKnown
           \/ Created(Node("tagged", c)).kind = "failure"
  BY DEF Created, Node, Object, Failure, IsKnown

LEMMA KnownCreated ==
    ASSUME NEW c \in IsKnown
    PROVE  Created(Node("tagged", c)) = Node("object", c)
  BY ClassAssumption DEF Created, Node, Object, Failure, IsKnown

(* What arrives of a value: of its node i. *)
Brought(s, v, way, i) ==
    IF s = "msgpack" THEN NodeHooked(NodeDumped(s, v[i]), way) ELSE Recreated(Dumped(s, v))[i]

LEMMA LoadedNodes ==
    ASSUME NEW s \in ByName, NEW v, NestedWell(v), NEW way, NEW has
    PROVE  /\ \/ \E c : Loaded(s, v, way, has) = <<Failure(c)>>
              \/ /\ Loaded(s, v, way, has) = [i \in DOMAIN v |-> Brought(s, v, way, i)]
                 /\ \A i \in DOMAIN v : Brought(s, v, way, i).kind # "failure"
           /\ Dumpable(s, v) /\ (\A i \in DOMAIN v : Brought(s, v, way, i).kind # "failure") =>
                Loaded(s, v, way, has) = [i \in DOMAIN v |-> Brought(s, v, way, i)]
<1> DEFINE R == IF s = "msgpack" THEN Hooked(Dumped(s, v), way) ELSE Recreated(Dumped(s, v))
           F == \E i \in DOMAIN R : R[i].kind = "failure"
<1>1. s \notin Pickling
  BY DEF ByName, Pickling
<1>2. Dumped(s, v) = [i \in DOMAIN v |-> NodeDumped(s, v[i])]
  BY DEF Dumped
<1>3. R = [i \in DOMAIN v |-> Brought(s, v, way, i)]
  <2>1. CASE s = "msgpack"
    BY <1>2, <2>1 DEF Hooked, Brought
  <2>2. CASE s # "msgpack"
    BY <1>2, <2>2 DEF Recreated, Brought
  <2> QED
    BY <2>1, <2>2
<1>4. Loaded(s, v, way, has) =
        IF ~Dumpable(s, v) THEN <<Failure("ValueError")>> ELSE IF F THEN <<Failure("SerializeError")>> ELSE R
  BY <1>1 DEF Loaded, SomeIn, IsA
<1> HIDE DEF R
<1>5. DOMAIN R = DOMAIN v /\ \A i \in DOMAIN v : R[i] = Brought(s, v, way, i)
  BY <1>3
<1>6. CASE ~Dumpable(s, v)
  BY <1>4, <1>6
<1>7. CASE Dumpable(s, v) /\ F
  <2>1. \E i \in DOMAIN v : Brought(s, v, way, i).kind = "failure"
    BY <1>5, <1>7
  <2>2. Loaded(s, v, way, has) = <<Failure("SerializeError")>>
    BY <1>4, <1>7
  <2> QED
    BY <2>1, <2>2
<1>8. CASE Dumpable(s, v) /\ ~F
  BY <1>3, <1>4, <1>5, <1>8
<1> QED
  BY <1>6, <1>7, <1>8

(* The node of an object arrives as an object of a known class, fails, or  *)
(* stays a dict; of other nodes no objects come.                           *)
LEMMA BroughtKnown ==
    ASSUME NEW s \in ByName, NEW v, NestedWell(v), NEW way, NEW i \in DOMAIN v
    PROVE  LET b == Brought(s, v, way, i) IN b.kind = "object" => b.class \in IsKnown
<1>1. PICK x \in ValueNode : x = v[i]
  BY DEF NestedWell
<1>2. PICK d : d = NodeDumped(s, x)
  OBVIOUS
<1>3. /\ d.kind # "object"
      /\ d.kind = "tagged" => d = Node("tagged", d.class)
      /\ d.kind = "ext" => d.class # "object"
  <2>1. CASE x.kind = "object"
    BY <1>2, <2>1, ObjectDumped DEF Node
  <2>2. CASE x.kind # "object"
    <3>1. PICK k : k = KindOf(s, x)
      OBVIOUS
    <3>2. d = IF k = "ext" THEN Node("ext", x.kind) ELSE Node(k, None)
      BY <1>2, <2>2, <3>1, OtherDumped
    <3>3. k \notin {"object", "failure", "tagged"}
      BY <2>2, <3>1, KindsKept
    <3>4. d.kind = k /\ (k = "ext" => d.class = x.kind)
      BY <3>2 DEF Node
    <3> QED
      BY <2>2, <3>3, <3>4
  <2> QED
    BY <2>1, <2>2
<1>4. d.kind = "tagged" /\ Created(d).kind = "object" => Created(d).class \in IsKnown
  <2>1. SUFFICES ASSUME d.kind = "tagged" PROVE Created(d).kind = "object" => Created(d).class \in IsKnown
    OBVIOUS
  <2>2. PICK c : c = d.class /\ d = Node("tagged", c)
    BY <1>3, <2>1
  <2>3. CASE Created(d) = Node("object", c) /\ c \in IsKnown
    BY <2>3 DEF Node
  <2>4. CASE Created(d).kind = "failure"
    BY <2>4
  <2> QED
    BY <2>2, <2>3, <2>4, CreatedOrFailed
<1>5. CASE s = "msgpack"
  <2>1. Brought(s, v, way, i) = NodeHooked(d, way)
    BY <1>1, <1>2, <1>5 DEF Brought
  <2>2. CASE d.kind = "tagged"
    BY <1>4, <2>1, <2>2 DEF NodeHooked, IsA
  <2>3. CASE d.kind = "ext" /\ way = "result"
    <3>1. NodeHooked(d, way) = Node(d.class, None)
      BY <2>3 DEF NodeHooked, IsA
    <3> QED
      BY <1>3, <2>1, <2>3, <3>1 DEF Node
  <2>4. CASE d.kind # "tagged" /\ ~(d.kind = "ext" /\ way = "result")
    BY <1>3, <2>1, <2>4 DEF NodeHooked, IsA
  <2> QED
    BY <2>2, <2>3, <2>4
<1>6. CASE s # "msgpack"
  <2>1. i \in DOMAIN Dumped(s, v) /\ Dumped(s, v)[i] = d
    BY <1>1, <1>2 DEF Dumped
  <2>2. \/ Brought(s, v, way, i) = Created(d) /\ d.kind = "tagged"
        \/ Brought(s, v, way, i) = d
    BY <1>6, <2>1 DEF Brought, Recreated, IsA
  <2> QED
    BY <1>3, <1>4, <2>2
<1> QED
  BY <1>5, <1>6

(* The objects that recreate_classes finds: those in containers only, and  *)
(* the exception in a wrapper.                                             *)
LEMMA ObjectsFound ==
    ASSUME NEW s \in ByName, NEW v, NestedWell(v), NEW i \in DOMAIN v, v[i].kind = "object",
           ~HoldsObject(v), ~SomeIn(Plain, v)
    PROVE  Reached(Dumped(s, v), i) \/ InWrapper(Dumped(s, v), i)
<1> DEFINE w == Dumped(s, v)
<1>1. v \in Seq(ValueNode) /\ DOMAIN v = 1 .. Len(v) /\ Len(v) \in Nat
  BY DEF NestedWell
<1>2. DOMAIN w = DOMAIN v /\ \A j \in DOMAIN v : w[j] = NodeDumped(s, v[j])
  BY DEF Dumped
<1> HIDE DEF w
<1>3. ASSUME NEW j \in 1 .. i - 1, v[j].kind # "object"
      PROVE  w[j].kind \in ContainerKinds
  <2>1. j \in DOMAIN v /\ j < Len(v)
    BY <1>1
  <2>2. PICK x \in ValueNode : x = v[j]
    BY <1>1, <2>1
  <2>3. x.kind \in OuterKind /\ x.kind # "object"
    BY <1>3, <2>1, <2>2 DEF NestedWell
  <2>4. PICK k : k = KindOf(s, x)
    OBVIOUS
  <2>5. k \in ContainerKinds /\ k # "ext"
    BY <2>3, <2>4, KindsKept DEF OuterKind
  <2>6. w[j] = Node(k, None)
    BY <1>2, <2>1, <2>2, <2>3, <2>4, <2>5, OtherDumped
  <2> QED
    BY <2>5, <2>6 DEF Node
<1>4. ASSUME NEW j \in 1 .. i - 1, v[j].kind = "object"
      PROVE  v[j].class = ExceptionWrapper /\ i = j + 1
  <2>1. j \in DOMAIN v /\ j < i
    BY <1>1
  <2>2. v[j].class = ExceptionWrapper
    BY <1>4, <2>1 DEF HoldsObject, IsObject, IsA
  <2> QED
    BY <1>1, <1>4, <2>1, <2>2 DEF NestedWell
<1>5. CASE \A j \in 1 .. i - 1 : v[j].kind # "object"
  BY <1>3, <1>5 DEF Reached, IsA, w
<1>6. CASE \E j \in 1 .. i - 1 : v[j].kind = "object"
  <2>1. PICK j \in 1 .. i - 1 : v[j].kind = "object"
    BY <1>6
  <2>2. v[j].class = ExceptionWrapper /\ i = j + 1 /\ j \in DOMAIN v /\ j = i - 1 /\ i > 1
    BY <1>1, <1>4, <2>1
  <2>3. \A k \in 1 .. j - 1 : v[k].kind # "object" /\ k \in 1 .. i - 1
    BY <1>1, <1>4, <2>2
  <2>4. Reached(w, j)
    BY <1>3, <2>3 DEF Reached, IsA
  <2>5. PICK x \in ValueNode : x = v[j]
    BY <1>1, <2>2
  <2>6. x.class \notin untagged
    BY <2>1, <2>2, <2>5 DEF SomeIn, Plain, IsObject, IsA
  <2>7. w[j] = Node("tagged", ExceptionWrapper)
    BY <1>2, <2>1, <2>2, <2>5, <2>6, ObjectDumped
  <2> QED
    BY <2>2, <2>4, <2>7 DEF InWrapper, w
<1> QED
  BY <1>5, <1>6

(* Where the serializer can bring a value, each of its nodes is back. *)
LEMMA BroughtBack ==
    ASSUME NEW s \in ByName, NEW v, NestedWell(v), NEW way \in {"argument", "result"}, NEW i \in DOMAIN v,
           ~HoldsObject(v), ~SomeIn(Unknown, v), ~SomeIn(Plain, v),
           s = "msgpack" /\ way = "argument" => ~SomeIn(Ext, v)
    PROVE  /\ NodeLoosely(Brought(s, v, way, i)) = NodeLoosely(v[i])
           /\ Brought(s, v, way, i).kind # "failure"
<1>1. PICK x \in ValueNode : x = v[i]
  BY DEF NestedWell
<1>2. PICK b : b = Brought(s, v, way, i)
  OBVIOUS
<1>3. i \in DOMAIN Dumped(s, v) /\ Dumped(s, v)[i] = NodeDumped(s, x)
  BY <1>1 DEF Dumped
<1>4. CASE x.kind = "object"
  <2>1. PICK c : c = x.class /\ x = Node("object", c)
    BY <1>4 DEF ValueNode, Node
  <2>2. c \in IsKnown /\ c \notin untagged
    BY <1>1, <1>4, <2>1 DEF SomeIn, Unknown, Plain, IsObject, IsA
  <2>3. NodeDumped(s, x) = Node("tagged", c)
    BY <1>4, <2>1, <2>2, ObjectDumped
  <2>4. Created(Node("tagged", c)) = x
    BY <2>1, <2>2, KnownCreated
  <2>5. Node("tagged", c).kind = "tagged"
    BY DEF Node
  <2>6. b = x
    <3>1. CASE s = "msgpack"
      BY <1>1, <1>2, <2>3, <2>4, <2>5, <3>1 DEF Brought, NodeHooked, IsA
    <3>2. CASE s # "msgpack"
      <4>1. Reached(Dumped(s, v), i) \/ InWrapper(Dumped(s, v), i)
        BY <1>1, <1>4, ObjectsFound
      <4>2. Recreated(Dumped(s, v))[i] = Created(Node("tagged", c))
        BY <1>3, <2>3, <2>5, <4>1 DEF Recreated, IsA
      <4> QED
        BY <1>2, <2>4, <3>2, <4>2 DEF Brought
    <3> QED
      BY <3>1, <3>2
  <2> QED
    BY <1>1, <1>2, <1>4, <2>6
<1>5. CASE x.kind # "object"
  <2>1. x.class = None /\ x = Node(x.kind, None)
    BY <1>5 DEF ValueNode, Node
  <2>2. PICK k : k = KindOf(s, x)
    OBVIOUS
  <2>3. CASE k = "ext"
    <3>1. s = "msgpack" /\ x.kind \in {"complex", "date"}
      BY <1>5, <2>2, <2>3, KindsKept
    <3>2. way = "result"
      BY <1>1, <3>1 DEF SomeIn, Ext, IsA
    <3>3. NodeDumped(s, x) = Node("ext", x.kind)
      BY <1>5, <2>2, <2>3, OtherDumped
    <3>4. NodeHooked(Node("ext", x.kind), way) = Node(x.kind, None)
      BY <3>2 DEF NodeHooked, IsA, Node
    <3>5. b = x
      BY <1>1, <1>2, <2>1, <3>1, <3>3, <3>4 DEF Brought
    <3> QED
      BY <1>1, <1>2, <3>1, <3>5
  <2>4. CASE k # "ext"
    <3>1. /\ k \notin {"object", "failure", "tagged"}
          /\ \/ k = x.kind
             \/ x.kind \in {"set", "tuple"} /\ k = "list"
             \/ x.kind \in {"uuid", "date"} /\ k = "text"
      BY <1>5, <2>2, <2>4, KindsKept
    <3>2. NodeDumped(s, x) = Node(k, None)
      BY <1>5, <2>2, <2>4, OtherDumped
    <3>3. Node(k, None).kind = k
      BY DEF Node
    <3>4. b = Node(k, None)
      <4>1. CASE s = "msgpack"
        BY <1>1, <1>2, <2>4, <3>1, <3>2, <3>3, <4>1 DEF Brought, NodeHooked, IsA
      <4>2. CASE s # "msgpack"
        BY <1>2, <1>3, <3>1, <3>2, <3>3, <4>2 DEF Brought, Recreated, IsA
      <4> QED
        BY <4>1, <4>2
    <3>5. NodeLoosely(Node(k, None)) = NodeLoosely(x)
      BY <2>1, <3>1, SameLoosely
    <3> QED
      BY <1>1, <1>2, <3>1, <3>3, <3>4, <3>5
  <2> QED
    BY <2>3, <2>4
<1> QED
  BY <1>4, <1>5

(* A value comes back, loosely. *)
LEMMA ValueBack ==
    ASSUME NEW t, NestedWell(t.value), t.way \in {"argument", "result"}, t.has \in BOOLEAN,
           NEW s \in Serializer, Bringable(s, t)
    PROVE  Loosely(Loaded(s, t.value, t.way, t.has)) = Loosely(t.value)
<1>1. PICK v : v = t.value
  OBVIOUS
<1>2. PICK way : way = t.way
  OBVIOUS
<1>3. CASE s \in Pickling
  <2>1. t.has \/ s # "pickle"
    BY <1>3 DEF Bringable
  <2>2. Loaded(s, v, way, t.has) = v
    BY <1>3, <2>1 DEF Loaded, Unpickled, SomeIn
  <2> QED
    BY <1>1, <1>2, <2>2
<1>4. CASE s \notin Pickling
  <2>1. s \in ByName
    BY <1>4 DEF Serializer
  <2>2. /\ Dumpable(s, v) /\ ~HoldsObject(v) /\ ~SomeIn(Unknown, v) /\ ~SomeIn(Plain, v)
        /\ s = "msgpack" /\ way = "argument" => ~SomeIn(Ext, v)
    BY <1>1, <1>2, <1>4 DEF Bringable
  <2>3. \A i \in DOMAIN v : /\ NodeLoosely(Brought(s, v, way, i)) = NodeLoosely(v[i])
                           /\ Brought(s, v, way, i).kind # "failure"
    BY <1>1, <1>2, <2>1, <2>2, BroughtBack
  <2>4. Loaded(s, v, way, t.has) = [i \in DOMAIN v |-> Brought(s, v, way, i)]
    BY <1>1, <2>1, <2>2, <2>3, LoadedNodes
  <2>5. Loosely([i \in DOMAIN v |-> Brought(s, v, way, i)]) = Loosely(v)
    BY <2>3 DEF Loosely
  <2> QED
    BY <1>1, <1>2, <2>4, <2>5
<1> QED
  BY <1>3, <1>4

(* Nothing that arrives is of a class that is not known. *)
LEMMA KnownArrive ==
    ASSUME NEW s \in ByName, NEW v, NestedWell(v), NEW way, NEW has
    PROVE  ~SomeIn(Unknown, Loaded(s, v, way, has))
<1>1. CASE \E c : Loaded(s, v, way, has) = <<Failure(c)>>
  <2>1. PICK c : Loaded(s, v, way, has) = <<Failure(c)>>
    BY <1>1
  <2>2. ~IsObject(Failure(c))
    BY DEF Failure, Node, IsObject, IsA
  <2>3. \A i \in DOMAIN <<Failure(c)>> : <<Failure(c)>>[i] = Failure(c)
    OBVIOUS
  <2> QED
    BY <2>1, <2>2, <2>3 DEF SomeIn, Unknown
<1>2. CASE Loaded(s, v, way, has) = [i \in DOMAIN v |-> Brought(s, v, way, i)]
  BY <1>2, BroughtKnown DEF SomeIn, Unknown, IsObject, IsA
<1> QED
  BY <1>1, <1>2, LoadedNodes

(* What arrives of an object is an object of its class or a failure. *)
LEMMA ObjectArrives ==
    ASSUME NEW s \in ByName, NEW v, NestedWell(v), NEW way, NEW has,
           v[1].kind = "object", v[1].class \notin untagged,
           NEW r, r = Loaded(s, v, way, has)
    PROVE  r[1].kind = "failure" \/ (r[1].kind = "object" /\ r[1].class = v[1].class)
<1>1. 1 \in DOMAIN v
  BY DEF NestedWell
<1>2. PICK x \in ValueNode : x = v[1]
  BY <1>1 DEF NestedWell
<1>3. CASE \E c : Loaded(s, v, way, has) = <<Failure(c)>>
  <2>1. PICK c : r = <<Failure(c)>>
    BY <1>3
  <2>2. r[1] = Failure(c)
    BY <2>1
  <2> QED
    BY <2>2 DEF Failure, Node
<1>4. CASE Loaded(s, v, way, has) = [i \in DOMAIN v |-> Brought(s, v, way, i)]
  <2>1. r[1] = Brought(s, v, way, 1)
    BY <1>1, <1>4
  <2>2. PICK c : c = x.class
    OBVIOUS
  <2>3. NodeDumped(s, x) = Node("tagged", c)
    BY <1>2, <2>2, ObjectDumped
  <2>4. Node("tagged", c).kind = "tagged"
    BY DEF Node
  <2>5. r[1] = Created(Node("tagged", c))
    <3>1. CASE s = "msgpack"
      BY <1>2, <2>1, <2>3, <2>4, <3>1 DEF Brought, NodeHooked, IsA
    <3>2. CASE s # "msgpack"
      <4>1. 1 \in DOMAIN Dumped(s, v) /\ Dumped(s, v)[1] = NodeDumped(s, x)
        BY <1>1, <1>2 DEF Dumped
      <4>2. Reached(Dumped(s, v), 1)
        BY DEF Reached
      <4>3. Recreated(Dumped(s, v))[1] = Created(Node("tagged", c))
        BY <2>3, <2>4, <4>1, <4>2 DEF Recreated, IsA
      <4> QED
        BY <2>1, <3>2, <4>3 DEF Brought
    <3> QED
      BY <3>1, <3>2
  <2>6. CASE Created(Node("tagged", c)) = Node("object", c)
    BY <1>2, <2>2, <2>5, <2>6 DEF Node
  <2>7. CASE Created(Node("tagged", c)).kind = "failure"
    BY <2>5, <2>7
  <2> QED
    BY <2>6, <2>7, CreatedOrFailed
<1> QED
  BY <1>3, <1>4, LoadedNodes

LEMMA ReplacedError ==
    ASSUME NEW v, v = <<Object("Pyro4.errors.PyroError"), Base>>
    PROVE  NestedWell(v) /\ v[1].kind = "object" /\ v[1].class = "Pyro4.errors.PyroError"
<1>1. PICK c : c = "Pyro4.errors.PyroError"
  OBVIOUS
<1>2. c \in ErrorClass /\ c # ExceptionWrapper
  BY <1>1, ClassAssumption DEF ErrorClass
<1>3. PICK x \in ValueNode : x = Object(c) /\ x.kind = "object" /\ x.class = c
  BY <1>2, ObjectNodes
<1>4. Base \in ValueNode /\ Base.kind = "base"
  BY ValueNodes DEF Base, ValueKind, ValueClass
<1>5. PICK b \in ValueNode : b = Base /\ b.kind = "base"
  BY <1>4
<1>6. v \in Seq(ValueNode) /\ Len(v) = 2 /\ DOMAIN v = 1 .. 2 /\ v[1] = x /\ v[2] = b
  BY <1>1, <1>3, <1>5
<1> QED
  BY <1>1, <1>2, <1>3, <1>5, <1>6 DEF NestedWell, OuterKind

(* The invariant: what has arrived is what the serializers make of a value *)
(* that was sent, with the classes that are registered now.                *)

Sent(t) ==
    /\ t.value \in Payload /\ t.way \in {"argument", "result"} /\ t.has \in BOOLEAN
    /\ \A s \in Serializer : t.results[s] = Loaded(s, t.value, t.way, t.has)
Raised(t) ==
    /\ t.value \in Nested /\ t.value[1].kind = "object" /\ t.way = "raised"
    /\ \A s \in Serializer : t.results[s] = Response(s, t.value, t.has)
SerializingIInv ==
    /\ untagged \subseteq Registrable
    /\ transfer # None => Sent(transfer) \/ Raised(transfer)

LEMMA NothingSent == SerializingInit => SerializingIInv
  BY DEF SerializingInit, SerializingIInv

(* The same classes are registered: the same arrives. *)
LEMMA SameDumped ==
    ASSUME untagged' = untagged, NEW s, NEW v
    PROVE  Dumped(s, v)' = Dumped(s, v)
<1>1. ASSUME NEW x
      PROVE  KindOf(s, x)' = KindOf(s, x)
  BY DEF KindOf
<1>2. ASSUME NEW x
      PROVE  NodeDumped(s, x)' = NodeDumped(s, x)
  <2>1. KindOf(s, x)' = KindOf(s, x)
    BY <1>1
  <2> QED
    BY <2>1 DEF NodeDumped
<1>3. \A i \in DOMAIN v : NodeDumped(s, v[i])' = NodeDumped(s, v[i])
  BY <1>2
<1> QED
  BY <1>3 DEF Dumped

LEMMA SameCreated ==
    ASSUME creators' = creators, NEW w, NEW way
    PROVE  Recreated(w)' = Recreated(w) /\ Hooked(w, way)' = Hooked(w, way)
<1>1. ASSUME NEW x
      PROVE  Created(x)' = Created(x)
  BY DEF Created
<1>2. ASSUME NEW x
      PROVE  NodeHooked(x, way)' = NodeHooked(x, way)
  <2>1. Created(x)' = Created(x)
    BY <1>1
  <2> QED
    BY <2>1 DEF NodeHooked
<1>3. \A i \in DOMAIN w : Created(w[i])' = Created(w[i]) /\ NodeHooked(w[i], way)' = NodeHooked(w[i], way)
  BY <1>1, <1>2
<1>4. Recreated(w)' = Recreated(w)
  BY <1>3 DEF Recreated
<1>5. Hooked(w, way)' = Hooked(w, way)
  BY <1>3 DEF Hooked
<1> QED
  BY <1>4, <1>5

LEMMA SameArrives ==
    ASSUME untagged' = untagged, creators' = creators, NEW s, NEW v, NEW way, NEW has
    PROVE  /\ Loaded(s, v, way, has)' = Loaded(s, v, way, has)
           /\ Response(s, v, has)' = Response(s, v, has)
<1>1. ASSUME NEW u, NEW y
      PROVE  Loaded(s, u, y, has)' = Loaded(s, u, y, has)
  <2>1. Dumped(s, u)' = Dumped(s, u)
    BY SameDumped
  <2>2. PICK w : w = Dumped(s, u)
    OBVIOUS
  <2>3. Recreated(w)' = Recreated(w) /\ Hooked(w, y)' = Hooked(w, y)
    BY SameCreated
  <2>4. Recreated(Dumped(s, u))' = Recreated(Dumped(s, u)) /\ Hooked(Dumped(s, u), y)' = Hooked(Dumped(s, u), y)
    BY <2>1, <2>2, <2>3
  <2> DEFINE In(r) == IF s \in Pickling THEN Unpickled(s, u, has)
                      ELSE IF ~Dumpable(s, u) THEN <<Failure("ValueError")>>
                      ELSE IF \E i \in DOMAIN r : r[i].kind = "failure" THEN <<Failure("SerializeError")>> ELSE r
  <2>5. Loaded(s, u, y, has) = In(IF s = "msgpack" THEN Hooked(Dumped(s, u), y) ELSE Recreated(Dumped(s, u)))
    BY DEF Loaded, SomeIn, IsA
  <2>6. Loaded(s, u, y, has)' =
            In(IF s = "msgpack" THEN Hooked(Dumped(s, u), y)' ELSE Recreated(Dumped(s, u))')
    BY DEF Loaded, SomeIn, IsA
  <2> HIDE DEF In
  <2> QED
    BY <2>4, <2>5, <2>6
<1>2. Loaded(s, v, way, has)' = Loaded(s, v, way, has)
  BY <1>1
<1>3. Response(s, v, has)' = Response(s, v, has)
  BY <1>1 DEF Response
<1> QED
  BY <1>2, <1>3

LEMMA ArrivalsKnown ==
    ASSUME SerializingIInv, [SerializingNext]_serializingVars
    PROVE  SerializingIInv'
<1>1. CASE UNCHANGED serializingVars
  <2>1. untagged' = untagged /\ creators' = creators /\ transfer' = transfer
    BY <1>1 DEF serializingVars
  <2>2. CASE transfer = None
    BY <2>1, <2>2 DEF SerializingIInv
  <2>3. CASE transfer # None /\ Sent(transfer)
    <3>1. Sent(transfer)'
      BY <2>1, <2>3, SameArrives DEF Sent
    <3> QED
      BY <2>1, <3>1 DEF SerializingIInv
  <2>4. CASE transfer # None /\ Raised(transfer)
    <3>1. Raised(transfer)'
      BY <2>1, <2>4, SameArrives DEF Raised
    <3> QED
      BY <2>1, <3>1 DEF SerializingIInv
  <2> QED
    BY <2>2, <2>3, <2>4 DEF SerializingIInv
<1>2. ASSUME transfer = None, NEW c \in Registrable,
             \/ RegisterClassToDict(c) \/ UnregisterClassToDict(c)
             \/ RegisterDictToClass(c) \/ UnregisterDictToClass(c)
      PROVE  SerializingIInv'
  BY <1>2 DEF SerializingIInv, RegisterClassToDict, UnregisterClassToDict, RegisterDictToClass,
              UnregisterDictToClass
<1>3. ASSUME NEW v \in Payload, NEW way \in {"argument", "result"}, NEW has \in BOOLEAN, Transfer(v, way, has)
      PROVE  SerializingIInv'
  <2>1. /\ untagged' = untagged /\ creators' = creators
        /\ transfer' = [value |-> v, way |-> way, has |-> has,
                        results |-> [s \in Serializer |-> Loaded(s, v, way, has)]]
    BY <1>3 DEF Transfer, Arrives
  <2>2. /\ transfer'.value = v /\ transfer'.way = way /\ transfer'.has = has
        /\ \A s \in Serializer : transfer'.results[s] = Loaded(s, v, way, has)
    BY <2>1
  <2>3. \A s \in Serializer : transfer'.results[s] = Loaded(s, v, way, has)'
    BY <2>1, <2>2, SameArrives
  <2>4. Sent(transfer)'
    BY <2>2, <2>3 DEF Sent
  <2> QED
    BY <2>1, <2>4 DEF SerializingIInv
<1>4. ASSUME NEW e \in Nested, NEW has \in BOOLEAN, IsObject(e[1]), Raise(e, has)
      PROVE  SerializingIInv'
  <2>1. /\ untagged' = untagged /\ creators' = creators
        /\ transfer' = [value |-> e, way |-> "raised", has |-> has,
                        results |-> [s \in Serializer |-> Response(s, e, has)]]
    BY <1>4 DEF Raise, Arrives
  <2>2. /\ transfer'.value = e /\ transfer'.way = "raised" /\ transfer'.has = has
        /\ \A s \in Serializer : transfer'.results[s] = Response(s, e, has)
    BY <2>1
  <2>3. \A s \in Serializer : transfer'.results[s] = Response(s, e, has)'
    BY <2>1, <2>2, SameArrives
  <2>4. Raised(transfer)'
    BY <1>4, <2>2, <2>3 DEF Raised, IsObject, IsA
  <2> QED
    BY <2>1, <2>4 DEF SerializingIInv
<1> QED
  BY <1>1, <1>2, <1>3, <1>4 DEF SerializingNext

LEMMA ArrivalsCorrect ==
    ASSUME SerializingIInv
    PROVE  SerializingInv
<1>1. CASE transfer = None
  BY <1>1 DEF SerializingInv, RoundTrip, OnlyKnown
<1>2. CASE transfer # None /\ Sent(transfer)
  <2>1. NestedWell(transfer.value) /\ transfer.way # "raised"
    BY <1>2, PayloadValues DEF Sent
  <2>2. RoundTrip
    <3>1. SUFFICES ASSUME NEW s \in Serializer, Bringable(s, transfer)
                   PROVE  Loosely(transfer.results[s]) = Loosely(transfer.value)
      BY DEF RoundTrip
    <3>2. Loosely(Loaded(s, transfer.value, transfer.way, transfer.has)) = Loosely(transfer.value)
      BY <1>2, <2>1, <3>1, ValueBack DEF Sent
    <3>3. transfer.results[s] = Loaded(s, transfer.value, transfer.way, transfer.has)
      BY <1>2 DEF Sent
    <3> QED
      BY <3>2, <3>3
  <2>3. OnlyKnown
    <3>1. SUFFICES ASSUME NEW s \in ByName PROVE ~SomeIn(Unknown, transfer.results[s])
      BY <2>1 DEF OnlyKnown
    <3>2. transfer.results[s] = Loaded(s, transfer.value, transfer.way, transfer.has)
      BY <1>2 DEF Sent, Serializer
    <3>3. PICK v : v = transfer.value
      OBVIOUS
    <3>4. PICK way, has : way = transfer.way /\ has = transfer.has
      OBVIOUS
    <3>5. ~SomeIn(Unknown, Loaded(s, v, way, has))
      BY <2>1, <3>3, KnownArrive
    <3> QED
      BY <3>2, <3>3, <3>4, <3>5
  <2> QED
    BY <2>2, <2>3 DEF SerializingInv
<1>3. CASE transfer # None /\ Raised(transfer)
  <2>1. PICK e \in Nested : e = transfer.value /\ e[1].kind = "object" /\ transfer.way = "raised"
    BY <1>3 DEF Raised
  <2>2. RoundTrip
    BY <2>1 DEF RoundTrip
  <2>3. OnlyKnown
    <3>1. SUFFICES ASSUME NEW s \in ByName, NEW r, r = transfer.results[s]
                   PROVE  /\ ~SomeIn(Unknown, r)
                          /\ e[1].class \notin untagged =>
                                \/ r[1].kind = "failure"
                                \/ r[1].kind = "object" /\ r[1].class \in {e[1].class, "Pyro4.errors.PyroError"}
      BY <2>1 DEF OnlyKnown
    <3>2. PICK has : has = transfer.has
      OBVIOUS
    <3>3. PICK m : m = IF Dumpable(s, e) THEN e ELSE <<Object("Pyro4.errors.PyroError"), Base>>
      OBVIOUS
    <3>4. r = Loaded(s, m, "result", has)
      BY <1>3, <2>1, <3>1, <3>2, <3>3 DEF Raised, Response, Serializer
    <3>5. /\ NestedWell(m) /\ m[1].kind = "object"
          /\ m[1].class \in {e[1].class, "Pyro4.errors.PyroError"}
          /\ e[1].class \notin untagged => m[1].class \notin untagged
      <4>1. CASE m = e
        BY <2>1, <4>1, NestedValues
      <4>2. CASE m = <<Object("Pyro4.errors.PyroError"), Base>>
        BY <4>2, ReplacedError, ClassAssumption DEF SerializingIInv
      <4> QED
        BY <3>3, <4>1, <4>2
    <3>6. ~SomeIn(Unknown, r)
      BY <3>4, <3>5, KnownArrive
    <3>7. CASE e[1].class \notin untagged
      <4>1. r[1].kind = "failure" \/ (r[1].kind = "object" /\ r[1].class = m[1].class)
        BY <3>4, <3>5, <3>7, ObjectArrives
      <4> QED
        BY <3>5, <3>6, <4>1
    <3> QED
      BY <3>6, <3>7
  <2> QED
    BY <2>2, <2>3 DEF SerializingInv
<1> QED
  BY <1>1, <1>2, <1>3 DEF SerializingIInv

(* The serializers bring back what they can, loosely, and make no object   *)
(* of a class that is not known (util lines 269-760, core lines            *)
(* 1562-1590): any classes, registrations, values and receivers.           *)
THEOREM ValuesArrive == SerializingSpec => []SerializingInv
<1>1. SerializingInit => SerializingIInv
  BY NothingSent
<1>2. SerializingIInv /\ [SerializingNext]_serializingVars => SerializingIInv'
  BY ArrivalsKnown
<1>3. SerializingIInv => SerializingInv
  BY ArrivalsCorrect
<1> QED
  BY <1>1, <1>2, <1>3, PTL DEF SerializingSpec

=============================================================================
