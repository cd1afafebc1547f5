------------------------------- MODULE Serving -------------------------------
(***************************************************************************)
(* Programs that serve objects, from their start to their end:             *)
(* naming.startNSloop, Daemon.serveSimple and the echo server's main, each *)
(* in a process of one machine, or for the echo server's own name server   *)
(* in a thread.  What a program has opened when a step fails stays open or *)
(* is closed as its code says; the end of a whole process is left out.     *)
(***************************************************************************)
EXTENDS Values, Naturals

CONSTANTS
    Program,        \* processes and threads
    Setup,          \* of a name server: [ip: the version of its address, local: is that
                    \* 127.x or ::1, with: does the program use NameServerDaemon in a with
                    \* statement, clean: NS_AUTOCLEAN "off", "short" or "on",
                    \* bchost: its broadcast server's address, "", "v4" or "v6"]
    MaxRuns         \* bound: programs that are run

ProgramKind == {"nameserver", "serveSimple", "echoserver"}
ProgramStep ==
    {"wait", "storage", "socket", "register", "name", "cleaner", "broadcast", "bcthread", "loop",
     "close", "storageclose", "stop", "join", "bcclose", "failed", "ended"}
ProgramState ==
    [kind : ProgramKind, setup : Setup \cup {None}, by : Program \cup {None}, at : ProgramStep]

ASSUME ServingAssumption ==
    /\ None \notin ProgramState \cup Program \cup Setup
    /\ Setup \subseteq [ip : {4, 6}, local : BOOLEAN, with : BOOLEAN,
                        clean : {"off", "short", "on"}, bchost : {"", "v4", "v6"}]

VARIABLES
    runs,       \* programs run so far
    prog,       \* of each: [kind: "nameserver", "serveSimple" or "echoserver", setup,
                \* by: who runs it in a thread, at], or None
    holds,      \* what it has open: "storage", "socket", "cleaner", "bcsocket", "bcthread"
    object,     \* is its object in its daemon?
    names,      \* the name server's table: the process that a name leads to, or None
    cleaning    \* the cleaner thread of each: "runs", "asked" to stop, or "ended"

servingVars == <<runs, prog, holds, object, names, cleaning>>

ServingInit ==
    /\ runs = 0 /\ prog = [p \in Program |-> None] /\ holds = [p \in Program |-> {}]
    /\ object = [p \in Program |-> FALSE] /\ names = None
    /\ cleaning = [p \in Program |-> "ended"]

IsAt(p, at) == prog[p] # None /\ prog[p].at = at
GoTo(p, at) == prog' = [prog EXCEPT ![p].at = at]

Opens(p, what, at) == holds' = [holds EXCEPT ![p] = @ \cup {what}] /\ GoTo(p, at)

(* An exception before the loop: only serveSimple's with statement closes. *)
Fails(p) ==
    GoTo(p, IF prog[p].kind = "serveSimple" /\ "socket" \in holds[p] THEN "close" ELSE "failed")

NameServers == {q \in Program : prog[q] # None /\ prog[q].kind = "nameserver"}

FirstStep(kind) == IF kind = "nameserver" THEN "storage" ELSE "socket"

Free(q) == prog[q] = None /\ q = CHOOSE r \in Program : prog[r] = None

(* A process is started. *)
RunProgram(p, kind, setup) ==
    /\ Free(p) /\ runs < MaxRuns /\ runs' = runs + 1
    /\ prog' = [prog EXCEPT
           ![p] = [kind |-> kind, setup |-> setup, by |-> None, at |-> FirstStep(kind)]]
    /\ UNCHANGED <<holds, object, names, cleaning>>

RunNameServer(p, setup) == RunProgram(p, "nameserver", setup)
RunServer(p) == RunProgram(p, "serveSimple", None)
RunEchoServer(p) == RunProgram(p, "echoserver", None)

(* startNameServer: an echo server runs its own in a thread and waits.     *)
RunWithNameServer(p, q, setup) ==
    /\ Free(p) /\ p # q /\ prog[q] = None /\ ~setup.with
    /\ runs < MaxRuns /\ runs' = runs + 1
    /\ prog' = [prog EXCEPT
           ![p] = [kind |-> "echoserver", setup |-> None, by |-> None, at |-> "wait"],
           ![q] = [kind |-> "nameserver", setup |-> setup, by |-> p, at |-> "storage"]]
    /\ UNCHANGED <<holds, object, names, cleaning>>

(* started is set when startNS has returned.  If that fails the echo       *)
(* server waits forever.                                                   *)
Started(p) ==
    /\ IsAt(p, "wait") /\ \E q \in NameServers : prog[q].by = p /\ prog[q].at \in {"bcthread", "loop"}
    /\ GoTo(p, "socket")
    /\ UNCHANGED <<runs, holds, object, names, cleaning>>

-----------------------------------------------------------------------------
(* NameServerDaemon, Daemon: the storage first, then the socket.  The port *)
(* of the name server is fixed, those of the others are free ones.         *)
OpenStorage(p) ==
    /\ IsAt(p, "storage") /\ Opens(p, "storage", "socket")
    /\ UNCHANGED <<runs, object, names, cleaning>>

PortInUse(p) == prog[p].kind = "nameserver" /\ \E q \in NameServers : "socket" \in holds[q]

OpenSocket(p) ==
    /\ IsAt(p, "socket")
    /\ IF PortInUse(p) THEN Fails(p) /\ UNCHANGED holds ELSE Opens(p, "socket", "register")
    /\ UNCHANGED <<runs, object, names, cleaning>>

AfterRegister(p) == IF prog[p].kind = "nameserver" THEN "cleaner" ELSE "name"

(* Mutant: the name is told before the object can be found. *)
RegisterLater(p) ==
    /\ IsAt(p, "register") /\ GoTo(p, AfterRegister(p))
    /\ UNCHANGED <<runs, object, holds, names, cleaning>>

RegisterServed(p) ==
    /\ IsAt(p, "register") /\ object' = [object EXCEPT ![p] = TRUE] /\ GoTo(p, AfterRegister(p))
    /\ UNCHANGED <<runs, holds, names, cleaning>>

(* A positive NS_AUTOCLEAN less than 3 is an error. *)
StartCleaner(p) ==
    /\ IsAt(p, "cleaner")
    /\ CASE prog[p].setup.clean = "off" -> GoTo(p, "broadcast") /\ UNCHANGED <<holds, cleaning>>
         [] prog[p].setup.clean = "short" -> Fails(p) /\ UNCHANGED <<holds, cleaning>>
         [] prog[p].setup.clean = "on" -> /\ Opens(p, "cleaner", "broadcast")
                                    /\ cleaning' = [cleaning EXCEPT ![p] = "runs"]
    /\ UNCHANGED <<runs, object, names>>

(* startNSloop: none for IPv6 and for localhost.  startNS: only "127.". *)
LoopBroadcasts(setup) == setup.ip = 4 /\ ~setup.local
ThreadBroadcasts(setup) == ~(setup.ip = 4 /\ setup.local)

Broadcasts(p) ==
    IF prog[p].setup.with THEN FALSE
    ELSE IF prog[p].by = None THEN LoopBroadcasts(prog[p].setup) ELSE ThreadBroadcasts(prog[p].setup)

(* BroadcastServer: an address of the name server's version, in four parts *)
(* if that is IPv6.                                                        *)
BroadcastAddress(setup) ==
    [host |-> IF setup.bchost = "" /\ setup.ip = 6 THEN "v6" ELSE setup.bchost,
     parts |-> IF setup.ip = 6 THEN 4 ELSE 2]

(* createBroadcastSocket: an IPv4 socket cannot be bound to four parts.    *)
BroadcastFamily(bind) ==
    CASE bind.host = "" -> 4
      [] bind.host = "v4" -> IF bind.parts = 4 THEN None ELSE 4
      [] bind.host = "v6" -> 6

(* The port may be shared; other errors of the socket are possible. *)
StartBroadcast(p) ==
    /\ IsAt(p, "broadcast")
    /\ \/ ~Broadcasts(p) /\ GoTo(p, "loop") /\ UNCHANGED holds
       \/ /\ Broadcasts(p) /\ BroadcastFamily(BroadcastAddress(prog[p].setup)) # None
          /\ Opens(p, "bcsocket", "bcthread")
       \/ Broadcasts(p) /\ Fails(p) /\ UNCHANGED holds
    /\ UNCHANGED <<runs, object, names, cleaning>>

RunInThread(p) ==
    /\ IsAt(p, "bcthread") /\ Opens(p, "bcthread", "loop")
    /\ UNCHANGED <<runs, object, names, cleaning>>

(* Locate the name server and register; or, without that option, not.      *)
TellName(p) ==
    /\ IF \E q \in NameServers : prog[q].at = "loop" THEN names' = p /\ GoTo(p, "loop")
       ELSE Fails(p) /\ UNCHANGED names
    /\ UNCHANGED <<runs, holds, object, cleaning>>

TellNobody(p) == GoTo(p, "loop") /\ UNCHANGED <<runs, holds, object, names, cleaning>>

(* serveSimple *)
RegisterName(p) ==
    IsAt(p, "name") /\ prog[p].kind = "serveSimple" /\ (TellName(p) \/ TellNobody(p))

(* With a name server of its own the echo server always registers.         *)
RegisterEcho(p) ==
    /\ IsAt(p, "name") /\ prog[p].kind = "echoserver"
    /\ \/ TellName(p)
       \/ TellNobody(p) /\ ~\E q \in NameServers : prog[q].by = p

-----------------------------------------------------------------------------
(* requestLoop, until a shutdown, the loop's condition or an exception.    *)
LeaveLoop(p, at) == GoTo(p, at) /\ UNCHANGED <<runs, holds, object, names, cleaning>>

(* startNSloop closes in any case, and the with statement of serveSimple;  *)
IsNsLoop(p) == IsAt(p, "loop") /\ p \in NameServers /\ prog[p].by = None
LeaveNsLoop(p) == IsNsLoop(p) /\ ~prog[p].setup.with /\ LeaveLoop(p, "close")
LeaveServer(p) == IsAt(p, "loop") /\ prog[p].kind = "serveSimple" /\ LeaveLoop(p, "close")

(* NameServerDaemon.__exit__ closes the socket last;                       *)
LeaveWith(p) == IsNsLoop(p) /\ prog[p].setup.with /\ LeaveLoop(p, "storageclose")

(* the echo server does not after an exception, and its own name server    *)
(* ends only so.                                                           *)
LeaveEchoLoop(p, raised) ==
    /\ IsAt(p, "loop") /\ prog[p].kind = "echoserver"
    /\ LeaveLoop(p, IF raised THEN "failed" ELSE "close")

LeaveThreadLoop(p) == IsAt(p, "loop") /\ prog[p].by # None /\ LeaveLoop(p, "failed")

(* Daemon.close; a name server's storage, in memory, goes with it. *)
CloseAll(p) ==
    /\ IsAt(p, "close") /\ holds' = [holds EXCEPT ![p] = @ \ {"socket"}]
    /\ GoTo(p, IF "storage" \in holds[p] THEN "storageclose" ELSE "ended")
    /\ UNCHANGED <<runs, object, names, cleaning>>

Afterwards(p) == IF prog[p].setup.with THEN "close" ELSE "bcclose"

CloseStorage(p) ==
    /\ IsAt(p, "storageclose") /\ holds' = [holds EXCEPT ![p] = @ \ {"storage"}]
    /\ names' = None
    /\ GoTo(p, IF "cleaner" \in holds[p] THEN "stop" ELSE Afterwards(p))
    /\ UNCHANGED <<runs, object, cleaning>>

StopCleaner(p) ==
    /\ IsAt(p, "stop") /\ cleaning' = [cleaning EXCEPT ![p] = "asked"] /\ GoTo(p, "join")
    /\ UNCHANGED <<runs, holds, object, names>>

(* The thread sees stop when it has slept and looked at all names.         *)
CleanerEnds(p) ==
    /\ cleaning[p] = "asked" /\ cleaning' = [cleaning EXCEPT ![p] = "ended"]
    /\ holds' = [holds EXCEPT ![p] = @ \ {"cleaner"}]
    /\ UNCHANGED <<runs, prog, object, names>>

(* Mutant: the thread is not waited for. *)
NotJoined(p) ==
    /\ IsAt(p, "join") /\ GoTo(p, Afterwards(p))
    /\ UNCHANGED <<runs, holds, object, names, cleaning>>

JoinCleaner(p) ==
    /\ IsAt(p, "join") /\ cleaning[p] = "ended" /\ GoTo(p, Afterwards(p))
    /\ UNCHANGED <<runs, holds, object, names, cleaning>>

(* BroadcastServer.close: the thread ends by itself.                       *)
CloseBroadcaster(p) ==
    /\ IsAt(p, "bcclose") /\ holds' = [holds EXCEPT ![p] = @ \ {"bcsocket"}] /\ GoTo(p, "ended")
    /\ UNCHANGED <<runs, object, names, cleaning>>

BroadcastThreadEnds(p) ==
    /\ "bcthread" \in holds[p] /\ "bcsocket" \notin holds[p]
    /\ holds' = [holds EXCEPT ![p] = @ \ {"bcthread"}]
    /\ UNCHANGED <<runs, prog, object, names, cleaning>>

ServingNext ==
    \E p \in Program :
        \/ RunServer(p) \/ RunEchoServer(p) \/ \E setup \in Setup : RunNameServer(p, setup)
        \/ \E q \in Program, setup \in Setup : RunWithNameServer(p, q, setup)
        \/ Started(p) \/ OpenStorage(p) \/ OpenSocket(p) \/ RegisterServed(p) \/ StartCleaner(p)
        \/ StartBroadcast(p) \/ RunInThread(p) \/ RegisterName(p)
        \/ RegisterEcho(p) \/ LeaveNsLoop(p) \/ LeaveWith(p) \/ LeaveServer(p) \/ LeaveThreadLoop(p)
        \/ \E raised \in BOOLEAN : LeaveEchoLoop(p, raised)
        \/ CloseAll(p) \/ CloseStorage(p) \/ StopCleaner(p) \/ CleanerEnds(p) \/ JoinCleaner(p)
        \/ CloseBroadcaster(p) \/ BroadcastThreadEnds(p)

ServingSpec == ServingInit /\ [][ServingNext]_servingVars

-----------------------------------------------------------------------------
(* Properties *)

(* A program that ends in order has closed what it opened, and the cleaner *)
(* thread that uses its storage has ended before it returns; a serveSimple *)
(* that fails on its way has closed its daemon (naming lines 284-292 and   *)
(* 500-506, core lines 1194-1223).                                         *)
EndedReleases ==
    \A p \in Program : prog[p] # None =>
        /\ prog[p].at = "ended" => holds[p] \subseteq {"bcthread"}
        /\ prog[p].kind = "serveSimple" /\ prog[p].at = "failed" => holds[p] = {}

(* A name that a program has registered leads to an object that is in its  *)
(* daemon, and to a daemon that listens until the program closes it.       *)
NamedIsServed ==
    names # None =>
        object[names] /\ (prog[names].at \in {"loop", "close"} => "socket" \in holds[names])

(* A program that has ended holds nothing, and what it has named while it  *)
(* runs is there to be called.                                             *)
ServingInv == EndedReleases /\ NamedIsServed
=============================================================================
