---------------------------- MODULE FlameServer ------------------------------
(***************************************************************************)
(* Flame (utils/flame.py): consoles whose output is caught by replacing    *)
(* sys.stdout of the whole server, and modules that clients send.  The     *)
(* server executes one call at a time ("multiplex") or each client's in a  *)
(* thread of its own.                                                      *)
(***************************************************************************)
EXTENDS Values, Naturals, Sequences

CONSTANTS
    FlameClient,        \* clients: each has a console, and sends modules
    Defined,            \* names that sources define
    MaxFlameCalls       \* bound: lines of consoles and modules that are sent

(* Modules "a" and "a.b". *)
ModulePath == {<<"a">>, <<"a", "b">>}
Real == <<"stdout">>

VARIABLES
    serving,    \* the server's type, or None
    calling,    \* each client's call: [step, ...]
    stdout,     \* sys.stdout: Real, or <<client, line>> for a StringIO
    written,    \* what is in each StringIO: lines as <<client, line>>
    shut,       \* those that are closed
    outputs,    \* history: [of, text] for each line whose push returned
    consoles,   \* the clients whose consoles are registered
    lineCount,  \* lines of each console so far
    modules,    \* sys.modules: a module's number for each path, 0 if there is none
    submodules, \* submodules that are attributes: [module, name, submodule]
    defines,    \* what sources have defined: <<module, name>>
    sends,      \* history: [path, name] of the modules whose source was executed
    fresh,      \* modules so far
    tries       \* lines and modules sent so far

consoleVars == <<stdout, written, shut, outputs, consoles, lineCount>>
sourceVars == <<modules, submodules, defines, sends, fresh>>
moduleVars == <<sourceVars, tries>>
flameVars == <<serving, calling, consoleVars, moduleVars>>

Done == [step |-> "none"]

FlameInit ==
    /\ serving = None /\ calling = [c \in FlameClient |-> Done]
    /\ stdout = Real /\ written = {} /\ shut = {} /\ outputs = {}
    /\ consoles = {} /\ lineCount = [c \in FlameClient |-> 0]
    /\ modules = [p \in ModulePath |-> 0] /\ submodules = {} /\ defines = {} /\ sends = <<>>
    /\ fresh = 0 /\ tries = 0

(* start: of a daemon with either server *)
StartFlame(k) ==
    /\ serving = None /\ serving' = k
    /\ UNCHANGED <<calling, consoleVars, moduleVars>>

MayCall(c) ==
    /\ serving # None /\ calling[c].step = "none"
    /\ serving = "multiplex" => \A d \in FlameClient : calling[d].step = "none"
At(c, step) == calling[c].step = step
Goto(c, step) == calling' = [calling EXCEPT ![c].step = step]

-----------------------------------------------------------------------------
(* Consoles *)

Console(c) ==
    /\ MayCall(c) /\ c \notin consoles /\ consoles' = consoles \cup {c}
    /\ UNCHANGED <<serving, calling, stdout, written, shut, outputs, lineCount, moduleVars>>

(* A call of a console that is not registered any more is refused. *)
Terminate(c) ==
    /\ MayCall(c) /\ c \in consoles /\ consoles' = consoles \ {c}
    /\ UNCHANGED <<serving, calling, stdout, written, shut, outputs, lineCount, moduleVars>>

Line(c) == <<c, lineCount[c]>>

(* push_and_get_output: stdout_save = sys.stdout *)
Push(c) ==
    /\ MayCall(c) /\ c \in consoles /\ tries < MaxFlameCalls /\ tries' = tries + 1
    /\ lineCount' = [lineCount EXCEPT ![c] = @ + 1]
    /\ calling' = [calling EXCEPT ![c] = [step |-> "swap", saved |-> stdout, output |-> {}]]
    /\ UNCHANGED <<serving, stdout, written, shut, outputs, consoles, sourceVars>>

Swap(c) ==
    /\ At(c, "swap") /\ stdout' = Line(c) /\ Goto(c, "push")
    /\ UNCHANGED <<serving, written, shut, outputs, consoles, lineCount, moduleVars>>

(* The line prints something, or raises an exception or SystemExit. *)
PrintLine(c) ==
    /\ At(c, "push")
    /\ written' = IF stdout = Real \/ stdout \in shut THEN written
                  ELSE written \cup {<<stdout, Line(c)>>}
    /\ \E step \in IF stdout \in shut THEN {"raise"} ELSE {"raise", "get"} : Goto(c, step)
    /\ UNCHANGED <<serving, stdout, shut, outputs, consoles, lineCount, moduleVars>>

GetValue(c) ==
    /\ At(c, "get")
    /\ IF stdout = Real \/ stdout \in shut THEN Goto(c, "raise")
       ELSE calling' = [calling EXCEPT ![c].step = "close",
                            ![c].output = {w[2] : w \in {v \in written : v[1] = stdout}}]
    /\ UNCHANGED <<serving, consoleVars, moduleVars>>

CloseValue(c) ==
    /\ At(c, "close") /\ shut' = shut \cup {stdout} /\ Goto(c, "return")
    /\ UNCHANGED <<serving, stdout, written, outputs, consoles, lineCount, moduleVars>>

(* Mutant: not in a finally clause *)
RestoreReturning(c) ==
    /\ calling[c].step \in {"return", "raise"}
    /\ stdout' = IF At(c, "return") THEN calling[c].saved ELSE stdout
    /\ outputs' = IF At(c, "return")
                  THEN outputs \cup {[of |-> Line(c), text |-> calling[c].output]} ELSE outputs
    /\ calling' = [calling EXCEPT ![c] = Done]
    /\ UNCHANGED <<serving, written, shut, consoles, lineCount, moduleVars>>

Restore(c) ==
    /\ calling[c].step \in {"return", "raise"} /\ stdout' = calling[c].saved
    /\ outputs' = IF At(c, "return")
                  THEN outputs \cup {[of |-> Line(c), text |-> calling[c].output]} ELSE outputs
    /\ calling' = [calling EXCEPT ![c] = Done]
    /\ UNCHANGED <<serving, written, shut, consoles, lineCount, moduleVars>>

-----------------------------------------------------------------------------
(* Modules: createModule *)

SendModule(c, path, name) ==
    /\ MayCall(c) /\ tries < MaxFlameCalls /\ tries' = tries + 1
    /\ calling' = [calling EXCEPT ![c] =
           [step |-> "look", path |-> path, name |-> name, depth |-> 1, module |-> 0]]
    /\ UNCHANGED <<serving, consoleVars, sourceVars>>

RealPath(c) == SubSeq(calling[c].path, 1, calling[c].depth)

(* Go on in this module: with the next component or with the source. *)
InModule(c, m) ==
    calling' = [calling EXCEPT ![c].module = m, ![c].depth = @ + 1,
                    ![c].step = IF calling[c].depth = Len(calling[c].path) THEN "exec" ELSE "look"]

(* Mutant: the parent of what follows is not the module that was found. *)
LookUpStaying(c) ==
    /\ At(c, "look")
    /\ IF modules[RealPath(c)] = 0 THEN Goto(c, "make")
       ELSE InModule(c, IF calling[c].depth = Len(calling[c].path) THEN modules[RealPath(c)]
                        ELSE calling[c].module)
    /\ UNCHANGED <<serving, consoleVars, moduleVars>>

LookUp(c) ==
    /\ At(c, "look")
    /\ IF modules[RealPath(c)] = 0 THEN Goto(c, "make") ELSE InModule(c, modules[RealPath(c)])
    /\ UNCHANGED <<serving, consoleVars, moduleVars>>

Attribute(m, name, sub) == [module |-> m, name |-> name, submodule |-> sub]

MakeModule(c) ==
    /\ At(c, "make") /\ fresh' = fresh + 1 /\ InModule(c, fresh')
    /\ modules' = [modules EXCEPT ![RealPath(c)] = fresh']
    /\ LET parent == calling[c].module  name == calling[c].path[calling[c].depth]
       IN submodules' = {x \in submodules : x.module # parent \/ x.name # name}
                        \cup {Attribute(parent, name, fresh')}
    /\ UNCHANGED <<serving, consoleVars, defines, sends, tries>>

(* The source is executed in the module, old or new; or fails. *)
ExecSource(c, fails) ==
    /\ At(c, "exec") /\ calling' = [calling EXCEPT ![c] = Done]
    /\ sends' = IF fails THEN sends
                ELSE Append(sends, [path |-> calling[c].path, name |-> calling[c].name])
    /\ defines' = IF fails THEN defines ELSE defines \cup {<<calling[c].module, calling[c].name>>}
    /\ UNCHANGED <<serving, consoleVars, modules, submodules, fresh, tries>>

(* invokeModule: a walk along attributes from the first component. *)
Traversed(path) ==
    IF Len(path) = 1 THEN {modules[path]}
    ELSE {x.submodule : x \in {y \in submodules : y.module = modules[<<path[1]>>] /\ y.name = path[2]}}

FlameNext ==
    \/ \E k \in {"thread", "multiplex"} : StartFlame(k)
    \/ \E c \in FlameClient :
        \/ Console(c) \/ Terminate(c) \/ Push(c) \/ Swap(c) \/ PrintLine(c) \/ GetValue(c)
        \/ CloseValue(c) \/ Restore(c) \/ LookUp(c) \/ MakeModule(c)
        \/ \E path \in ModulePath, name \in Defined : SendModule(c, path, name)
        \/ \E fails \in BOOLEAN : ExecSource(c, fails)

FlameSpec == FlameInit /\ [][FlameNext]_flameVars

-----------------------------------------------------------------------------
(* Properties *)

(* With a server that executes one call at a time a console gives what its *)
(* own line printed, and the server has its own stdout again, whatever the *)
(* line raised (lines 162-175).                                            *)
OutputOwn ==
    serving = "multiplex" =>
        /\ \A o \in outputs : o.text = {o.of}
        /\ (\A c \in FlameClient : At(c, "none")) => stdout = Real

(* And what was sent can be called: invokeModule, which walks along the    *)
(* attributes of the first module, finds all that was defined in it, after *)
(* whatever was sent and failed before (lines 260-299).                    *)
SentCallable ==
    serving = "multiplex" =>
        \A i \in DOMAIN sends :
            \E m \in Traversed(sends[i].path) : <<m, sends[i].name>> \in defines

(* Consoles get their own output, and modules that were sent are found,    *)
(* where calls are executed one at a time.                                 *)
FlameInv == OutputOwn /\ SentCallable
=============================================================================
