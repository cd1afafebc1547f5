----------------------------- MODULE ThreadPool -----------------------------
(***************************************************************************)
(* The job pool of the threaded socket server: socketserver/threadpool.py. *)
(*                                                                         *)
(* Three kinds of threads meet in it, and it holds no lock (Pool creates   *)
(* count_lock and never takes it):                                         *)
(*   - the server's request loop, the only caller of Pool.process;         *)
(*   - the workers, each in Worker.run and, at the end of a job, in        *)
(*     Pool.notify_done;                                                   *)
(*   - the threads in Closer, which call Pool.close.                       *)
(*                                                                         *)
(* A step is what the interpreter does without a thread switch that        *)
(* matters: one read or one write of an attribute, one operation on a set, *)
(* one Event operation.  close() only sleeps and makes timed joins after   *)
(* its last write, so those waits are no steps.                            *)
(***************************************************************************)
EXTENDS Values, Naturals, FiniteSets

CONSTANTS
    Worker,     \* the thread objects; one that ended and is forgotten is used again
    Job,        \* the jobs; one that has ended may be offered again
    Closer,     \* the threads that call close()
    SIZE,       \* config.THREADPOOL_SIZE
    SIZE_MIN    \* config.THREADPOOL_SIZE_MIN

ASSUME SizeAssumption ==
    /\ SIZE \in Nat /\ SIZE_MIN \in Nat
    /\ 1 <= SIZE_MIN /\ SIZE_MIN <= SIZE

ASSUME WorkerAssumption == IsFiniteSet(Worker) /\ SIZE_MIN <= Cardinality(Worker)

ASSUME NoneAssumption == None \notin Job /\ None \notin Worker

VARIABLES
    idle, busy, closed,          \* Pool.idle, Pool.busy, Pool.closed
    job, event,                  \* Worker.job, Worker.job_available
    wpc, running,                \* where a worker is, and the job it is calling
    apc, offered, picked, count, \* where process() is; its job, worker, len(busy)
    cpc, todo, target,           \* where close() is; its list, the worker it stops
    status                       \* history: what has become of each job

poolVars   == <<idle, busy, closed>>
workerVars == <<job, event, wpc, running>>
procVars   == <<apc, offered, picked, count>>
closeVars  == <<cpc, todo, target>>
vars == <<poolVars, workerVars, procVars, closeVars, status>>

WorkerPc == {"unborn", "wait", "clear", "test", "call", "run", "reset", "member",
             "remove", "closed?", "count", "add", "poison", "signal", "dead"}
ProcPc   == {"ready", "idle?", "pop", "count", "compare", "add", "assign", "signal",
             "crashed"}
ClosePc  == {"start", "listBusy", "stopBusy", "listIdle", "stopIdle", "swapIdle",
             "swapBusy", "end"}

TypeOK ==
    /\ idle \subseteq Worker /\ busy \subseteq Worker /\ closed \in BOOLEAN
    /\ job \in [Worker -> Job \cup {None}] /\ event \in [Worker -> BOOLEAN]
    /\ wpc \in [Worker -> WorkerPc] /\ running \in [Worker -> Job \cup {None}]
    /\ apc \in ProcPc /\ offered \in Job \cup {None}
    /\ picked \in Worker \cup {None} /\ count \in Nat
    /\ cpc \in [Closer -> ClosePc] /\ todo \in [Closer -> SUBSET Worker]
    /\ target \in [Closer -> Worker \cup {None}]
    /\ status \in [Job -> {"free", "offered", "queued", "running"}]

-----------------------------------------------------------------------------
(* Pool.__init__: SIZE_MIN fresh workers, started, all idle. *)
Init ==
    /\ idle \in SUBSET Worker /\ Cardinality(idle) = SIZE_MIN
    /\ busy = {} /\ closed = FALSE
    /\ job = [w \in Worker |-> None] /\ event = [w \in Worker |-> FALSE]
    /\ wpc = [w \in Worker |-> IF w \in idle THEN "wait" ELSE "unborn"]
    /\ running = [w \in Worker |-> None]
    /\ apc = "ready" /\ offered = None /\ picked = None /\ count = 0
    /\ cpc = [c \in Closer |-> "start"] /\ todo = [c \in Closer |-> {}]
    /\ target = [c \in Closer |-> None]
    /\ status = [j \in Job |-> "free"]

-----------------------------------------------------------------------------
(* Pool.process(job), called by the request loop. *)

(* The first test: a closed pool raises PoolError and the job is refused. *)
Offer(j) ==
    /\ apc = "ready" /\ status[j] = "free" /\ ~closed
    /\ apc' = "idle?" /\ offered' = j
    /\ status' = [status EXCEPT ![j] = "offered"]
    /\ UNCHANGED <<poolVars, workerVars, picked, count, closeVars>>

TestIdle ==
    /\ apc = "idle?"
    /\ apc' = IF idle # {} THEN "pop" ELSE "count"
    /\ UNCHANGED <<poolVars, workerVars, offered, picked, count, closeVars, status>>

PopIdle ==
    /\ apc = "pop"
    /\ \E w \in idle : idle' = idle \ {w} /\ picked' = w
    /\ apc' = "add"
    /\ UNCHANGED <<busy, closed, workerVars, offered, count, closeVars, status>>

(* close() swapped the set since the test: pop() raises KeyError, which    *)
(* neither events() nor loop() catches, so the request loop ends.          *)
PopEmpty ==
    /\ apc = "pop" /\ idle = {}
    /\ apc' = "crashed" /\ offered' = None
    /\ status' = [status EXCEPT ![offered] = "free"]
    /\ UNCHANGED <<poolVars, workerVars, picked, count, closeVars>>

(* num_workers() reads len(busy) first ... *)
CountBusy ==
    /\ apc = "count"
    /\ count' = Cardinality(busy) /\ apc' = "compare"
    /\ UNCHANGED <<poolVars, workerVars, offered, picked, closeVars, status>>

(* ... and len(idle) afterwards. *)
HasRoom == count + Cardinality(idle) < SIZE

(* An ended thread that nothing refers to stands for a new Thread object. *)
Fresh(w) ==
    \/ wpc[w] = "unborn"
    \/ /\ wpc[w] = "dead" /\ w \notin idle \cup busy
       /\ \A c \in Closer : w \notin todo[c] /\ target[c] # w

SpawnWorker ==
    /\ apc = "compare" /\ HasRoom
    /\ \E w \in Worker :
        /\ Fresh(w)
        /\ wpc' = [wpc EXCEPT ![w] = "wait"] /\ picked' = w
        /\ job' = [job EXCEPT ![w] = None] /\ event' = [event EXCEPT ![w] = FALSE]
    /\ apc' = "add" /\ count' = 0
    /\ UNCHANGED <<poolVars, running, offered, closeVars, status>>

(* NoFreeWorkersError: the caller denies the connection. *)
Deny ==
    /\ apc = "compare" /\ ~HasRoom
    /\ apc' = "ready" /\ offered' = None /\ count' = 0
    /\ status' = [status EXCEPT ![offered] = "free"]
    /\ UNCHANGED <<poolVars, workerVars, picked, closeVars>>

(* Mutant: the job is counted as busy in place of its worker. *)
AddBusyOfJob ==
    /\ apc = "add"
    /\ busy' = busy \cup {offered} /\ apc' = "assign"
    /\ UNCHANGED <<idle, closed, workerVars, offered, picked, count, closeVars, status>>

(* Mutant: the worker is not counted as busy. *)
AddBusyForgotten ==
    /\ apc = "add" /\ apc' = "assign"
    /\ UNCHANGED <<poolVars, workerVars, offered, picked, count, closeVars, status>>

AddBusy ==
    /\ apc = "add"
    /\ busy' = busy \cup {picked} /\ apc' = "assign"
    /\ UNCHANGED <<idle, closed, workerVars, offered, picked, count, closeVars, status>>

(* Worker.process(job): the attribute first, the event second. *)
AssignJob ==
    /\ apc = "assign"
    /\ job' = [job EXCEPT ![picked] = offered]
    /\ status' = [status EXCEPT ![offered] = "queued"]
    /\ apc' = "signal"
    /\ UNCHANGED <<poolVars, event, wpc, running, offered, picked, count, closeVars>>

(* Mutant: the event is not set. *)
SignalJobForgotten ==
    /\ apc = "signal"
    /\ apc' = "ready" /\ offered' = None /\ picked' = None
    /\ UNCHANGED <<poolVars, workerVars, count, closeVars, status>>

SignalJob ==
    /\ apc = "signal"
    /\ event' = [event EXCEPT ![picked] = TRUE]
    /\ apc' = "ready" /\ offered' = None /\ picked' = None
    /\ UNCHANGED <<poolVars, job, wpc, running, count, closeVars, status>>

Process ==
    \/ TestIdle \/ PopIdle \/ PopEmpty \/ CountBusy \/ SpawnWorker \/ Deny
    \/ AddBusy \/ AssignJob \/ SignalJob

-----------------------------------------------------------------------------
(* Worker.run *)

Goto(w, from, to) == wpc[w] = from /\ wpc' = [wpc EXCEPT ![w] = to]

WaitEvent(w) ==
    /\ event[w] /\ Goto(w, "wait", "clear")
    /\ UNCHANGED <<poolVars, job, event, running, procVars, closeVars, status>>

(* Mutant: the event stays set. *)
ClearEventForgotten(w) ==
    /\ Goto(w, "clear", "test")
    /\ UNCHANGED <<poolVars, job, event, running, procVars, closeVars, status>>

ClearEvent(w) ==
    /\ Goto(w, "clear", "test")
    /\ event' = [event EXCEPT ![w] = FALSE]
    /\ UNCHANGED <<poolVars, job, running, procVars, closeVars, status>>

(* `if self.job is None: break`: the thread ends. *)
TestJob(w) ==
    /\ Goto(w, "test", IF job[w] = None THEN "dead" ELSE "call")
    /\ UNCHANGED <<poolVars, job, event, running, procVars, closeVars, status>>

(* self.job() reads the attribute again; if close() has erased it since,   *)
(* calling None is a TypeError that the except clause logs.                *)
CallJob(w) ==
    /\ Goto(w, "call", IF job[w] = None THEN "reset" ELSE "run")
    /\ running' = [running EXCEPT ![w] = job[w]]
    /\ status' = [j \in Job |-> IF j = job[w] THEN "running" ELSE status[j]]
    /\ UNCHANGED <<poolVars, job, event, procVars, closeVars>>

(* The job returns or raises; an exception is logged and dropped. *)
EndJob(w) ==
    /\ Goto(w, "run", "reset")
    /\ status' = [j \in Job |-> IF j = running[w] THEN "free" ELSE status[j]]
    /\ running' = [running EXCEPT ![w] = None]
    /\ UNCHANGED <<poolVars, job, event, procVars, closeVars>>

(* Mutant: the finished job is not forgotten. *)
ResetJobForgotten(w) ==
    /\ Goto(w, "reset", "member")
    /\ UNCHANGED <<poolVars, job, event, running, procVars, closeVars, status>>

ResetJob(w) ==
    /\ Goto(w, "reset", "member")
    /\ job' = [job EXCEPT ![w] = None]
    /\ UNCHANGED <<poolVars, event, running, procVars, closeVars, status>>

-----------------------------------------------------------------------------
(* Pool.notify_done(worker), called by the worker itself. *)

TestMember(w) ==
    /\ Goto(w, "member", IF w \in busy THEN "remove" ELSE "closed?")
    /\ UNCHANGED <<poolVars, job, event, running, procVars, closeVars, status>>

(* Mutant: the worker stays counted as busy. *)
RemoveBusyForgotten(w) ==
    /\ Goto(w, "remove", "closed?")
    /\ UNCHANGED <<poolVars, job, event, running, procVars, closeVars, status>>

(* If close() swapped the set in between, remove() raises KeyError outside *)
(* any try block and the thread ends.                                      *)
RemoveBusy(w) ==
    /\ Goto(w, "remove", IF w \in busy THEN "closed?" ELSE "dead")
    /\ busy' = busy \ {w}
    /\ UNCHANGED <<idle, closed, job, event, running, procVars, closeVars, status>>

TestClosed(w) ==
    /\ Goto(w, "closed?", IF closed THEN "poison" ELSE "count")
    /\ UNCHANGED <<poolVars, job, event, running, procVars, closeVars, status>>

(* Mutant: one idle worker too few is enough to end. *)
CountIdleOffByOne(w) ==
    /\ Goto(w, "count", IF Cardinality(idle) + 1 >= SIZE_MIN THEN "poison" ELSE "add")
    /\ UNCHANGED <<poolVars, job, event, running, procVars, closeVars, status>>

CountIdle(w) ==
    /\ Goto(w, "count", IF Cardinality(idle) >= SIZE_MIN THEN "poison" ELSE "add")
    /\ UNCHANGED <<poolVars, job, event, running, procVars, closeVars, status>>

AddIdle(w) ==
    /\ Goto(w, "add", "wait")
    /\ idle' = idle \cup {w}
    /\ UNCHANGED <<busy, closed, job, event, running, procVars, closeVars, status>>

(* worker.process(None): the worker tells itself to end. *)
PoisonSelf(w) ==
    /\ Goto(w, "poison", "signal")
    /\ job' = [job EXCEPT ![w] = None]
    /\ UNCHANGED <<poolVars, event, running, procVars, closeVars, status>>

(* Mutant: the worker clears its job without waking itself. *)
SignalSelfForgotten(w) ==
    /\ Goto(w, "signal", "wait")
    /\ UNCHANGED <<poolVars, job, event, running, procVars, closeVars, status>>

SignalSelf(w) ==
    /\ Goto(w, "signal", "wait")
    /\ event' = [event EXCEPT ![w] = TRUE]
    /\ UNCHANGED <<poolVars, job, running, procVars, closeVars, status>>

WorkerStep(w) ==
    \/ WaitEvent(w) \/ ClearEvent(w) \/ TestJob(w) \/ CallJob(w) \/ ResetJob(w)
    \/ TestMember(w) \/ RemoveBusy(w) \/ TestClosed(w) \/ CountIdle(w)
    \/ AddIdle(w) \/ PoisonSelf(w) \/ SignalSelf(w)

-----------------------------------------------------------------------------
(* Pool.close() *)

CloseGoto(c, from, to) == cpc[c] = from /\ cpc' = [cpc EXCEPT ![c] = to]

CloseTest(c) ==
    /\ CloseGoto(c, "start", IF closed THEN "end" ELSE "listBusy")
    /\ UNCHANGED <<poolVars, workerVars, procVars, todo, target, status>>

CloseListBusy(c) ==
    /\ CloseGoto(c, "listBusy", "stopBusy")
    /\ todo' = [todo EXCEPT ![c] = busy]
    /\ UNCHANGED <<poolVars, workerVars, procVars, target, status>>

(* w.process(None) for the workers of the list: attribute first ... *)
StopWorker(c) ==
    /\ cpc[c] \in {"stopBusy", "stopIdle"} /\ target[c] = None
    /\ \E w \in todo[c] :
        /\ target' = [target EXCEPT ![c] = w]
        /\ todo' = [todo EXCEPT ![c] = @ \ {w}]
        /\ job' = [job EXCEPT ![w] = None]
    /\ UNCHANGED <<poolVars, event, wpc, running, procVars, cpc, status>>

(* ... event second. *)
StopSignal(c) ==
    /\ cpc[c] \in {"stopBusy", "stopIdle"} /\ target[c] # None
    /\ event' = [event EXCEPT ![target[c]] = TRUE]
    /\ target' = [target EXCEPT ![c] = None]
    /\ UNCHANGED <<poolVars, job, wpc, running, procVars, cpc, todo, status>>

CloseListIdle(c) ==
    /\ todo[c] = {} /\ target[c] = None /\ CloseGoto(c, "stopBusy", "stopIdle")
    /\ todo' = [todo EXCEPT ![c] = idle]
    /\ UNCHANGED <<poolVars, workerVars, procVars, target, status>>

CloseMark(c) ==
    /\ todo[c] = {} /\ target[c] = None /\ CloseGoto(c, "stopIdle", "swapIdle")
    /\ closed' = TRUE
    /\ UNCHANGED <<idle, busy, workerVars, procVars, todo, target, status>>

CloseSwapIdle(c) ==
    /\ CloseGoto(c, "swapIdle", "swapBusy")
    /\ idle' = {}
    /\ UNCHANGED <<busy, closed, workerVars, procVars, todo, target, status>>

CloseSwapBusy(c) ==
    /\ CloseGoto(c, "swapBusy", "end")
    /\ busy' = {}
    /\ UNCHANGED <<idle, closed, workerVars, procVars, todo, target, status>>

CloseStep(c) ==
    \/ CloseListBusy(c) \/ StopWorker(c) \/ StopSignal(c) \/ CloseListIdle(c)
    \/ CloseMark(c) \/ CloseSwapIdle(c) \/ CloseSwapBusy(c)

-----------------------------------------------------------------------------
Next ==
    \/ \E j \in Job : Offer(j)
    \/ Process
    \/ \E w \in Worker : WorkerStep(w) \/ EndJob(w)
    \/ \E c \in Closer : CloseTest(c) \/ CloseStep(c)

(* Threads are scheduled.  Nothing obliges a client to connect (Offer), a  *)
(* job to end (EndJob: it lasts as long as its connection) or anyone to    *)
(* call close (CloseTest).                                                 *)
Fairness ==
    /\ WF_vars(Process)
    /\ \A w \in Worker : WF_vars(WorkerStep(w))
    /\ \A c \in Closer : WF_vars(CloseStep(c))

Spec == Init /\ [][Next]_vars /\ Fairness

-----------------------------------------------------------------------------
(* Properties *)

Closing == closed \/ \E c \in Closer : cpc[c] # "start"

(* A worker that is idle waits with nothing to do, so that the job which   *)
(* process() is about to give it is the next thing it reads.  A worker     *)
(* that has been told to end must therefore never be found in idle         *)
(* (notify_done lines 128-131, process line 112).                          *)
IdleReady ==
    ~Closing =>
        \A w \in idle : wpc[w] = "wait" /\ ~event[w] /\ job[w] = None

(* As long as nobody closes the pool, a job that process() has handed over *)
(* is held by a worker that is counted as busy and will still read it: the *)
(* worker resets its job attribute at the end of the previous job (line    *)
(* 47) and clears its event (line 40) without ever losing the next one.    *)
WillRead(w) ==
    \/ wpc[w] \in {"clear", "test", "call"}
    \/ wpc[w] = "wait" /\ (event[w] \/ (apc = "signal" /\ picked = w))

JobKept ==
    ~Closing =>
        \A j \in Job : status[j] = "queued" =>
            \E w \in busy : job[w] = j /\ WillRead(w)

(* No job is ever with two workers, so it is not called twice: not even    *)
(* while close() writes the same attributes and sets the same events.      *)
Has(w, j) ==
    \/ running[w] = j
    \/ job[w] = j /\ wpc[w] \in {"wait", "clear", "test", "call"}

OneWorkerPerJob ==
    \A v, w \in Worker : \A j \in Job : Has(v, j) /\ Has(w, j) => v = w

(* The two sets of the pool never share a worker, in spite of the swap in  *)
(* close(): otherwise a running worker could be popped and given a second  *)
(* job (process lines 112-119, notify_done lines 123-131).                 *)
Disjoint == idle \cap busy = {}

(* Whatever process(), notify_done and close() do at the same time,        *)
(* without a lock: the sets share no worker, no job is with two, an idle   *)
(* worker is ready, and a job that was handed over stays with a worker     *)
(* that will read it.                                                      *)
PoolInv == TypeOK /\ Disjoint /\ OneWorkerPerJob /\ IdleReady /\ JobKept

(* The pool does not shrink below its minimum, although a worker decides   *)
(* to end on a length it has read before process() popped another idle     *)
(* worker (notify_done line 128): the workers that are idle, busy, picked  *)
(* or on their way back number at least SIZE_MIN.                          *)
Stands(w) ==
    w \in idle \cup busy \/ w = picked \/ wpc[w] \in {"closed?", "count", "add"}

Standing == {w \in Worker : Stands(w)}

MinimumKept == ~Closing => Cardinality(Standing) >= SIZE_MIN

(* A job that was handed over is called sooner or later, however many      *)
(* workers finish around it, unless the pool is being closed.              *)
QueuedIsCalled ==
    \A j \in Job : status[j] = "queued" ~> (status[j] = "running" \/ Closing)

(* A worker that decides to end does end, although close() may write to it *)
(* at the same time (notify_done lines 126 and 129, run line 42).          *)
SurplusEnds == \A w \in Worker : wpc[w] = "poison" ~> wpc[w] = "dead"

=============================================================================
