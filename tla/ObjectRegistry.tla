--------------------------- MODULE ObjectRegistry ---------------------------
(***************************************************************************)
(* The daemon's registry of Pyro objects and the instances it makes of     *)
(* registered classes: core.Daemon.register, unregister and _getInstance,  *)
(* with the part of handleRequest that finds the object of a call.         *)
(*                                                                         *)
(* Server threads register and unregister while the connections' workers   *)
(* look objects up; the registry has no lock, so a step is one operation   *)
(* on the dict or on an object's _pyroId.  A class gets its instances from *)
(* the daemon (mode "single", under create_single_instance_lock), from the *)
(* connection ("session") or for one call ("percall"); an "object" serves  *)
(* the calls itself.  The requests of a connection are handled one at a    *)
(* time, and its instance is found before a oneway call gets its thread.   *)
(***************************************************************************)
EXTENDS Values, Naturals

CONSTANTS
    Servant,    \* the classes and objects that are registered
    Mode,       \* their instance modes
    Sized,      \* classes whose instances may be false, such as an empty container
    Id,         \* object ids
    DaemonId,   \* constants.DAEMON_NAME
    TheDaemon,  \* the DaemonObject
    Startup,    \* what is registered by the main thread before the request loop runs
    Registrar,  \* threads that register and unregister
    Conn,       \* the clients' connections; one that is closed may be made anew
    MaxOps,     \* bound: registrations and removals
    MaxMade,    \* bound: instances of each class
    MaxEpoch    \* bound: how often each connection is made

(* An instance; a single one is everyone's, the others are made for a      *)
(* connection in one of its epochs.                                        *)
Instances == [class : Servant, nr : Nat, truth : BOOLEAN,
              owner : (Conn \X Nat) \cup {None}]

ASSUME ServantAssumption ==
    /\ Mode \in [Servant -> {"single", "session", "percall", "object"}]
    /\ Sized \subseteq Servant /\ TheDaemon \in Servant /\ Mode[TheDaemon] = "object"
    /\ DaemonId \in Id /\ None \notin Servant /\ None \notin Id \cup Conn \cup Instances
    /\ Startup \in [Id -> Servant \cup {None}] /\ Startup[DaemonId] = TheDaemon
    /\ \A i, j \in Id : Startup[i] = Startup[j] /\ Startup[i] # None => i = j
    /\ MaxOps \in Nat /\ MaxMade \in [Servant -> Nat] /\ MaxEpoch \in [Conn -> Nat]

VARIABLES
    objectsById, pyroId,     \* the registry; the attribute _pyroId
    single, session,         \* Daemon._pyroInstances; conn.pyroInstances
    lock,                    \* create_single_instance_lock: the connection that holds it
    rpc, subject, byId,      \* the registrars: step, servant (or None), id
    cpc, target, using,      \* the workers: step, servant found, what serves the call
    epoch, made, left,       \* connections made; instances made; operations left
    served                   \* history: what served the connection's last call of a session class

registry  == <<objectsById, pyroId, rpc, subject, byId, left>>
instances == <<single, session, lock, made>>
workers   == <<cpc, target, using, epoch, served>>
vars == <<registry, instances, workers>>

TypeOK ==
    /\ objectsById \in [Id -> Servant \cup {None}] /\ pyroId \in [Servant -> Id \cup {None}]
    /\ single \in [Servant -> Instances \cup {None}]
    /\ session \in [Conn -> [Servant -> Instances \cup {None}]]
    /\ served \in [Conn -> [Servant -> Instances \cup {None}]]
    /\ lock \in Conn \cup {None}
    /\ rpc \in [Registrar -> {"idle", "id?", "setId", "store", "known?", "delete", "forget"}]
    /\ subject \in [Registrar -> Servant \cup {None}]
    /\ byId \in [Registrar -> Id \cup {None}]
    /\ cpc \in [Conn -> {"closed", "idle", "lock", "get", "create", "store", "run"}]
    /\ target \in [Conn -> Servant \cup {None}]
    /\ using \in [Conn -> Instances \cup {None}]
    /\ \A c \in Conn : using[c] # None => using[c].class = target[c]
    /\ epoch \in [Conn -> Nat] /\ left \in 0 .. MaxOps
    /\ made \in [Servant -> Nat] /\ \A o \in Servant : made[o] <= MaxMade[o]

NoInstances == [o \in Servant |-> None]

(* Daemon.__init__ registers the daemon's own object, and the main thread  *)
(* some classes before the request loop runs.                              *)
Init ==
    /\ objectsById = Startup
    /\ pyroId = [o \in Servant |-> IF \E i \in Id : Startup[i] = o
                                   THEN CHOOSE i \in Id : Startup[i] = o ELSE None]
    /\ single = NoInstances /\ session = [c \in Conn |-> NoInstances] /\ lock = None
    /\ rpc = [r \in Registrar |-> "idle"] /\ subject = [r \in Registrar |-> None]
    /\ byId = [r \in Registrar |-> None]
    /\ cpc = [c \in Conn |-> "closed"] /\ target = [c \in Conn |-> None]
    /\ using = [c \in Conn |-> None] /\ epoch = [c \in Conn |-> 0]
    /\ made = [o \in Servant |-> 0] /\ left = MaxOps
    /\ served = [c \in Conn |-> NoInstances]

-----------------------------------------------------------------------------
(* Daemon.register and unregister *)

Registers(r, from, to) ==
    /\ rpc[r] = from /\ rpc' = [rpc EXCEPT ![r] = to]
    /\ subject' = [subject EXCEPT ![r] = IF to = "idle" THEN None ELSE @]
    /\ byId' = [byId EXCEPT ![r] = IF to = "idle" THEN None ELSE @]

Starts(r, o, i, to) ==
    /\ left > 0 /\ left' = left - 1
    /\ rpc[r] = "idle" /\ rpc' = [rpc EXCEPT ![r] = to]
    /\ subject' = [subject EXCEPT ![r] = o] /\ byId' = [byId EXCEPT ![r] = i]
    /\ UNCHANGED <<objectsById, pyroId, instances, workers>>

(* Without force an object that has a _pyroId is refused ... *)
Register(r, o, i) == pyroId[o] = None /\ Starts(r, o, i, "id?")

RegisterForced(r, o, i) == Starts(r, o, i, "setId")

(* ... and so is an id that is in use. *)
TestId(r) ==
    /\ Registers(r, "id?", IF objectsById[byId[r]] = None THEN "setId" ELSE "idle")
    /\ UNCHANGED <<objectsById, pyroId, left, instances, workers>>

SetId(r) ==
    /\ Registers(r, "setId", "store")
    /\ pyroId' = [pyroId EXCEPT ![subject[r]] = byId[r]]
    /\ UNCHANGED <<objectsById, left, instances, workers>>

(* The key is read from the object again; it may be gone (AttributeError). *)
StoreObject(r) ==
    /\ Registers(r, "store", "idle")
    /\ objectsById' = [i \in Id |-> IF i = pyroId[subject[r]] THEN subject[r]
                                    ELSE objectsById[i]]
    /\ UNCHANGED <<pyroId, left, instances, workers>>

(* The daemon's own object stays. *)
UnregisterObject(r, o) == pyroId[o] \notin {None, DaemonId} /\ Starts(r, o, pyroId[o], "known?")

UnregisterId(r, i) == i # DaemonId /\ Starts(r, None, i, "known?")

TestKnown(r) ==
    /\ Registers(r, "known?", IF objectsById[byId[r]] = None THEN "idle" ELSE "delete")
    /\ UNCHANGED <<objectsById, pyroId, left, instances, workers>>

(* The entry may be gone by now: KeyError out of unregister. *)
DeleteEntry(r) ==
    /\ Registers(r, "delete",
                 IF objectsById[byId[r]] # None /\ subject[r] # None THEN "forget" ELSE "idle")
    /\ objectsById' = [objectsById EXCEPT ![byId[r]] = None]
    /\ UNCHANGED <<pyroId, left, instances, workers>>

(* del objectOrId._pyroId, only if the object itself was given. *)
ForgetId(r) ==
    /\ Registers(r, "forget", "idle")
    /\ pyroId' = [pyroId EXCEPT ![subject[r]] = None]
    /\ UNCHANGED <<objectsById, left, instances, workers>>

RegistrarSteps(r) ==
    TestId(r) \/ SetId(r) \/ StoreObject(r) \/ TestKnown(r) \/ DeleteEntry(r) \/ ForgetId(r)

-----------------------------------------------------------------------------
(* A connection, and the requests on it. *)

Handles(c, from, to) == cpc[c] = from /\ cpc' = [cpc EXCEPT ![c] = to]

(* SocketConnection.__init__: no session instances. *)
Connect(c) ==
    /\ epoch[c] < MaxEpoch[c] /\ Handles(c, "closed", "idle")
    /\ epoch' = [epoch EXCEPT ![c] = @ + 1]
    /\ session' = [session EXCEPT ![c] = NoInstances]
    /\ served' = [served EXCEPT ![c] = NoInstances]
    /\ UNCHANGED <<registry, single, lock, made, target, using>>

(* SocketConnection.close releases the session instances. *)
Close(c) ==
    /\ Handles(c, "idle", "closed")
    /\ session' = [session EXCEPT ![c] = NoInstances]
    /\ UNCHANGED <<registry, single, lock, made, target, using, epoch, served>>

(* _getInstance decides by the class's instance mode. *)
NextStep(o) ==
    CASE Mode[o] = "object"  -> "run"
      [] Mode[o] = "single"  -> "lock"
      [] Mode[o] = "session" -> "get"
      [] Mode[o] = "percall" -> "create"

(* handleRequest finds the object; an unknown id is answered with an error. *)
Request(c, i) ==
    /\ objectsById[i] # None /\ Handles(c, "idle", NextStep(objectsById[i]))
    /\ target' = [target EXCEPT ![c] = objectsById[i]]
    /\ UNCHANGED <<registry, instances, using, epoch, served>>

(* Mutant: under the lock the instance is not looked up again. *)
TakeLockUntested(c) ==
    /\ lock = None
    /\ Handles(c, "lock", "create")
    /\ lock' = c
    /\ UNCHANGED <<registry, single, session, made, target, using, epoch, served>>

TakeLock(c) ==
    /\ lock = None /\ Handles(c, "lock", "get")
    /\ lock' = c
    /\ UNCHANGED <<registry, single, session, made, target, using, epoch, served>>

Unlocked(c) == IF lock = c THEN None ELSE lock

Known(c) ==
    IF Mode[target[c]] = "single" THEN single[target[c]] ELSE session[c][target[c]]

(* `if not instance`: none, or one that is false. *)
Usable(x) == x # None /\ x.truth

GetInstance(c) ==
    /\ Handles(c, "get", "run") /\ Usable(Known(c))
    /\ using' = [using EXCEPT ![c] = Known(c)] /\ lock' = Unlocked(c)
    /\ UNCHANGED <<registry, single, session, made, target, epoch, served>>

MissInstance(c) ==
    /\ Handles(c, "get", "create") /\ ~Usable(Known(c))
    /\ UNCHANGED <<registry, instances, target, using, epoch, served>>

OwnerOf(o, c) == IF Mode[o] = "single" THEN None ELSE <<c, epoch[c]>>

Creates(c, class) ==
    LET o == target[c] IN
    /\ cpc[c] = "create" /\ made[o] < MaxMade[o]
    /\ Handles(c, "create", IF Mode[o] = "percall" THEN "run" ELSE "store")
    /\ made' = [made EXCEPT ![o] = @ + 1]
    /\ \E truth \in BOOLEAN :
        /\ truth \/ o \in Sized
        /\ using' = [using EXCEPT ![c] = [class |-> class, nr |-> made'[o], truth |-> truth,
                                          owner |-> OwnerOf(o, c)]]
    /\ UNCHANGED <<registry, single, session, lock, target, epoch, served>>

(* Mutant: what the creator returns is not tested. *)
CreateInstanceUntested(c) == \E class \in Servant : Creates(c, class)

CreateInstance(c) == Creates(c, target[c])

(* Mutant: the lock is kept when the creator raises. *)
CreatorRaisesLocked(c) ==
    /\ Handles(c, "create", "idle")
    /\ target' = [target EXCEPT ![c] = None]
    /\ UNCHANGED <<registry, instances, using, epoch, served>>

(* The creator raises, or returns something else (TypeError): the call is  *)
(* answered with the exception.                                            *)
CreatorRaises(c) ==
    /\ Handles(c, "create", "idle")
    /\ target' = [target EXCEPT ![c] = None] /\ lock' = Unlocked(c)
    /\ UNCHANGED <<registry, single, session, made, using, epoch, served>>

(* Mutant: all connections share one dict of instances. *)
StoreSessionShared(c) ==
    session' = [d \in Conn |-> [session[d] EXCEPT ![target[c]] = using[c]]]

(* Mutant: the session's instance is not stored. *)
StoreSessionForgotten(c) == UNCHANGED session /\ cpc[c] = "store"

StoreSession(c) == session' = [session EXCEPT ![c][target[c]] = using[c]]

StoreInstance(c) ==
    /\ Handles(c, "store", "run")
    /\ IF Mode[target[c]] = "single"
       THEN single' = [single EXCEPT ![target[c]] = using[c]] /\ UNCHANGED session
       ELSE StoreSession(c) /\ UNCHANGED single
    /\ lock' = Unlocked(c)
    /\ UNCHANGED <<registry, made, target, using, epoch, served>>

(* The method has run and the call is answered. *)
Answer(c) ==
    /\ Handles(c, "run", "idle")
    /\ served' = IF Mode[target[c]] = "session"
                 THEN [served EXCEPT ![c][target[c]] = using[c]] ELSE served
    /\ target' = [target EXCEPT ![c] = None] /\ using' = [using EXCEPT ![c] = None]
    /\ UNCHANGED <<registry, instances, epoch>>

Serves(c) ==
    \/ TakeLock(c) \/ GetInstance(c) \/ MissInstance(c)
    \/ CreateInstance(c) \/ CreatorRaises(c) \/ StoreInstance(c) \/ Answer(c)

-----------------------------------------------------------------------------
Next ==
    \/ \E r \in Registrar :
        \/ RegistrarSteps(r)
        \/ \E o \in Servant \ {TheDaemon} :
            UnregisterObject(r, o) \/ \E i \in Id \ {DaemonId} : Register(r, o, i) \/ RegisterForced(r, o, i)
        \/ \E i \in Id : UnregisterId(r, i)
    \/ \E c \in Conn : Connect(c) \/ Close(c) \/ Serves(c) \/ \E i \in Id : Request(c, i)

Spec == Init /\ [][Next]_vars


-----------------------------------------------------------------------------
(* Properties *)

(* core.py:1537, "exactly one per daemon": however many connections make   *)
(* the first call at the same time, and however the class is removed or    *)
(* registered under another id meanwhile, one instance is made of a        *)
(* class with mode "single".  (Line 1540 takes an instance that is false   *)
(* for a missing one; Sized classes are left out.)                         *)
OneSingleInstance ==
    \A o \in Servant \ Sized : Mode[o] = "single" => made[o] <= 1

(* Within one connection all calls of a "session" class are served by the  *)
(* same instance, although its requests alternate between classes and the  *)
(* registry changes in between (lines 1546-1554).                          *)
SessionKept ==
    \A c \in Conn : cpc[c] = "run" /\ Mode[target[c]] = "session" =>
        LET last == served[c][target[c]]
        IN  Usable(last) => using[c] = last

(* An instance of a "session" class serves no other connection, nor the    *)
(* next connection of the same client (lines 1546-1554; socketutil.py:446  *)
(* and 476).                                                               *)
SessionPrivate ==
    \A c \in Conn : cpc[c] = "run" /\ Mode[target[c]] = "session" =>
        using[c].owner = <<c, epoch[c]>>

(* The lock is free unless its holder is at work on its instance: no call  *)
(* that ends, answered or with an exception of the creator, leaves the     *)
(* lock taken, and one call's end frees no other's (lines 1538-1544).      *)
LockReleased ==
    \A c \in Conn : lock = c <=> /\ cpc[c] \in {"get", "create", "store"}
                                /\ Mode[target[c]] = "single"

(* Calls of a class with instance mode single share one instance, because  *)
(* whoever makes it holds the lock, and gives it back on every path.       *)
InstanceInv == TypeOK /\ LockReleased /\ OneSingleInstance

(* Calls of a class with instance mode session get the instance of their   *)
(* connection, and no other connection's.                                  *)
SessionsApart == SessionPrivate /\ SessionKept
=============================================================================
