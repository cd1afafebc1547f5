------------------------------- MODULE ServerProofs -------------------------
(***************************************************************************)
(* Proofs about the parts of a server and of what its programs share, each *)
(* a behaviour of its own: a section has a part's inductive invariant,     *)
(* what its operations keep of it, and the theorem that its invariant      *)
(* holds in every state.                                                   *)
(***************************************************************************)
EXTENDS
    CallContext, Configuration, BlobMessage, Serving, HttpGateway,
    FlameServer, SslContext, ObjectRegistry, FiniteSetTheorems, SequenceTheorems, TLAPS

-----------------------------------------------------------------------------
(* The registry of objects and their instances: ObjectRegistry.            *)

(* What a worker knows of its call at each step. *)
CallInv ==
    \A c \in Conn :
        /\ cpc[c] \in {"lock", "get", "create", "store", "run"} => target[c] \in Servant
        /\ cpc[c] = "lock" => Mode[target[c]] = "single"
        /\ cpc[c] \in {"get", "store"} => Mode[target[c]] \in {"single", "session"}
        /\ cpc[c] = "create" => Mode[target[c]] # "object"
        /\ cpc[c] \in {"closed", "idle", "lock", "get", "create"} => using[c] = None
        /\ cpc[c] = "store" => using[c] # None
        /\ cpc[c] = "run" /\ Mode[target[c]] # "object" => using[c] # None

(* Instances are filed under their class. *)
FiledInv ==
    \A o \in Servant :
        /\ single[o] # None => single[o].class = o
        /\ \A c \in Conn : session[c][o] # None => session[c][o].class = o

Typed == TypeOK /\ CallInv /\ FiledInv

(* TypeOK is not inductive alone: what a worker files is typed because the *)
(* worker knows its class.                                                 *)
LEMMA TypedInvariant == Spec => []Typed
<1>1. Init => Typed
  BY ServantAssumption DEF Init, Typed, TypeOK, CallInv, FiledInv, NoInstances
<1>2. Typed /\ [Next]_vars => Typed'
  <2> SUFFICES ASSUME Typed, [Next]_vars PROVE Typed'
    OBVIOUS
  <2> USE ServantAssumption
  <2>1. ASSUME NEW r \in Registrar, TestId(r) PROVE Typed'
    BY <2>1 DEF TestId, Registers, instances, workers, Typed, TypeOK, CallInv, FiledInv, Instances
  <2>2. ASSUME NEW r \in Registrar, SetId(r) PROVE Typed'
    BY <2>2 DEF SetId, Registers, instances, workers, Typed, TypeOK, CallInv, FiledInv, Instances
  <2>3. ASSUME NEW r \in Registrar, StoreObject(r) PROVE Typed'
    BY <2>3 DEF StoreObject, Registers, instances, workers, Typed, TypeOK, CallInv, FiledInv, Instances
  <2>4. ASSUME NEW r \in Registrar, TestKnown(r) PROVE Typed'
    BY <2>4 DEF TestKnown, Registers, instances, workers, Typed, TypeOK, CallInv, FiledInv, Instances
  <2>5. ASSUME NEW r \in Registrar, DeleteEntry(r) PROVE Typed'
    BY <2>5 DEF DeleteEntry, Registers, instances, workers, Typed, TypeOK, CallInv, FiledInv, Instances
  <2>6. ASSUME NEW r \in Registrar, ForgetId(r) PROVE Typed'
    BY <2>6 DEF ForgetId, Registers, instances, workers, Typed, TypeOK, CallInv, FiledInv, Instances
  <2>7. ASSUME NEW r \in Registrar, NEW o \in Servant, UnregisterObject(r, o) PROVE Typed'
    BY <2>7 DEF UnregisterObject, Starts, instances, workers, Typed, TypeOK, CallInv, FiledInv, Instances
  <2>8. ASSUME NEW r \in Registrar, NEW i \in Id, UnregisterId(r, i) PROVE Typed'
    BY <2>8 DEF UnregisterId, Starts, instances, workers, Typed, TypeOK, CallInv, FiledInv, Instances
  <2>9. ASSUME NEW r \in Registrar, NEW o \in Servant, NEW i \in Id, Register(r, o, i) PROVE Typed'
    BY <2>9 DEF Register, Starts, instances, workers, Typed, TypeOK, CallInv, FiledInv, Instances
  <2>10. ASSUME NEW r \in Registrar, NEW o \in Servant, NEW i \in Id, RegisterForced(r, o, i) PROVE Typed'
    BY <2>10 DEF RegisterForced, Starts, instances, workers, Typed, TypeOK, CallInv, FiledInv, Instances
  <2>11. ASSUME NEW c \in Conn, Connect(c) PROVE Typed'
    BY <2>11 DEF Connect, Handles, NoInstances, registry, Typed, TypeOK, CallInv, FiledInv, Instances
  <2>12. ASSUME NEW c \in Conn, Close(c) PROVE Typed'
    BY <2>12 DEF Close, Handles, NoInstances, registry, Typed, TypeOK, CallInv, FiledInv, Instances
  <2>13. ASSUME NEW c \in Conn, TakeLock(c) PROVE Typed'
    BY <2>13 DEF TakeLock, Handles, registry, instances, Typed, TypeOK, CallInv, FiledInv, Instances
  <2>14. ASSUME NEW c \in Conn, GetInstance(c) PROVE Typed'
    BY <2>14 DEF GetInstance, Handles, Known, Usable, Unlocked, registry, instances, Typed, TypeOK, CallInv, FiledInv, Instances
  <2>15. ASSUME NEW c \in Conn, MissInstance(c) PROVE Typed'
    BY <2>15 DEF MissInstance, Handles, Known, Usable, registry, instances, Typed, TypeOK, CallInv, FiledInv, Instances
  <2>16. ASSUME NEW c \in Conn, CreateInstance(c) PROVE Typed'
    <3> DEFINE o == target[c]
               x(truth) == [class |-> o, nr |-> made'[o], truth |-> truth, owner |-> OwnerOf(o, c)]
    <3>1. /\ o \in Servant /\ cpc[c] = "create" /\ Mode[o] # "object"
          /\ UNCHANGED <<registry, single, session, lock, target, epoch, served>>
          /\ cpc' = [cpc EXCEPT ![c] = IF Mode[o] = "percall" THEN "run" ELSE "store"]
          /\ made' = [made EXCEPT ![o] = @ + 1] /\ made[o] < MaxMade[o]
      BY <2>16 DEF CreateInstance, Creates, Handles, Typed, CallInv
    <3>2. PICK truth \in BOOLEAN : using' = [using EXCEPT ![c] = x(truth)]
      BY <2>16 DEF CreateInstance, Creates
    <3>3. x(truth) \in Instances /\ x(truth).class = o /\ x(truth) # None
      BY <3>1 DEF Instances, OwnerOf, Typed, TypeOK
    <3> HIDE DEF x
    <3>4. TypeOK'
      BY <3>1, <3>2, <3>3 DEF Typed, TypeOK, registry
    <3>5. CallInv'
      BY <3>1, <3>2, <3>3 DEF Typed, TypeOK, CallInv
    <3>6. QED
      BY <3>1, <3>4, <3>5 DEF Typed, FiledInv
  <2>17. ASSUME NEW c \in Conn, CreatorRaises(c) PROVE Typed'
    BY <2>17 DEF CreatorRaises, Handles, Unlocked, registry, instances, Typed, TypeOK, CallInv, FiledInv, Instances
  <2>18. ASSUME NEW c \in Conn, StoreInstance(c) PROVE Typed'
    <3> DEFINE o == target[c]
    <3>1. /\ o \in Servant /\ cpc[c] = "store" /\ Mode[o] \in {"single", "session"}
          /\ using[c] \in Instances /\ using[c].class = o /\ using[c] # None
          /\ UNCHANGED <<registry, made, target, using, epoch, served>>
          /\ cpc' = [cpc EXCEPT ![c] = "run"] /\ lock' = Unlocked(c)
      BY <2>18 DEF StoreInstance, Handles, Typed, TypeOK, CallInv
    <3>2. \/ single' = [single EXCEPT ![o] = using[c]] /\ UNCHANGED session
          \/ session' = [session EXCEPT ![c][o] = using[c]] /\ UNCHANGED single
      BY <2>18 DEF StoreInstance, StoreSession
    <3>3. single \in [Servant -> Instances \cup {None}] /\ session \in [Conn -> [Servant -> Instances \cup {None}]]
      BY DEF Typed, TypeOK
    <3> DEFINE x == using[c]
    <3> HIDE DEF o, x
    <3>4. single' \in [Servant -> Instances \cup {None}]
      BY <3>1, <3>2, <3>3 DEF x
    <3>5. session' \in [Conn -> [Servant -> Instances \cup {None}]]
      <4>1. [session[c] EXCEPT ![o] = x] \in [Servant -> Instances \cup {None}]
        BY <3>1, <3>3 DEF x
      <4>2. CASE session' = [session EXCEPT ![c][o] = using[c]]
        BY <3>3, <4>1, <4>2 DEF x
      <4>3. QED
        BY <3>2, <3>3, <4>2
    <3> USE DEF o
    <3>6. TypeOK'
      BY <3>1, <3>4, <3>5 DEF Typed, TypeOK, registry, Unlocked
    <3>7. CallInv'
      BY <3>1 DEF Typed, TypeOK, CallInv
    <3>8. FiledInv'
      <4>1. \A a \in Servant : single'[a] # None => single'[a].class = a
        BY <3>1, <3>2, <3>3 DEF Typed, FiledInv
      <4>2. \A a \in Servant, d \in Conn : session'[d][a] # None => session'[d][a].class = a
        BY <3>1, <3>2, <3>3 DEF Typed, FiledInv
      <4>3. QED
        BY <4>1, <4>2 DEF FiledInv
    <3>9. QED
      BY <3>6, <3>7, <3>8 DEF Typed
  <2>19. ASSUME NEW c \in Conn, Answer(c) PROVE Typed'
    BY <2>19 DEF Answer, Handles, registry, instances, Typed, TypeOK, CallInv, FiledInv, Instances
  <2>20. ASSUME NEW c \in Conn, NEW i \in Id, Request(c, i) PROVE Typed'
    BY <2>20 DEF Request, Handles, NextStep, registry, instances, Typed, TypeOK, CallInv, FiledInv, Instances
  <2>21. ASSUME UNCHANGED vars PROVE Typed'
    BY <2>21 DEF vars, registry, instances, workers, Typed, TypeOK, CallInv, FiledInv, Instances
  <2>22. QED
    BY <2>1, <2>2, <2>3, <2>4, <2>5, <2>6, <2>7, <2>8, <2>9, <2>10, <2>11, <2>12, <2>13, <2>14, <2>15, <2>16, <2>17, <2>18, <2>19, <2>20, <2>21 DEF Next, RegistrarSteps, Serves
<1>3. QED
  BY <1>1, <1>2, PTL DEF Spec

-----------------------------------------------------------------------------
(* A step of a registering thread, and a stuttering one, leave instances   *)
(* and calls as they are.                                                  *)
Apart == UNCHANGED <<instances, workers>>

LEMMA StepIsOneOf ==
  ASSUME [Next]_vars
  PROVE  \/ Apart
         \/ \E c \in Conn : Connect(c) \/ Close(c) \/ Serves(c) \/ \E i \in Id : Request(c, i)
<1>1. CASE \E r \in Registrar : RegistrarSteps(r)
  BY <1>1 DEF Apart, RegistrarSteps, TestId, SetId, StoreObject, TestKnown, DeleteEntry, ForgetId
<1>2. CASE \E r \in Registrar, o \in Servant : UnregisterObject(r, o)
  BY <1>2 DEF Apart, UnregisterObject, Starts
<1>3. CASE \E r \in Registrar, o \in Servant, i \in Id : Register(r, o, i) \/ RegisterForced(r, o, i)
  BY <1>3 DEF Apart, Register, RegisterForced, Starts
<1>4. CASE \E r \in Registrar, i \in Id : UnregisterId(r, i)
  BY <1>4 DEF Apart, UnregisterId, Starts
<1>5. CASE UNCHANGED vars
  BY <1>5 DEF Apart, vars
<1>6. QED
  BY <1>1, <1>2, <1>3, <1>4, <1>5 DEF Next

(* Every step of a call keeps the lock with a worker that is on it.        *)
LEMMA LockStep == ASSUME Typed, Typed', LockReleased, [Next]_vars PROVE LockReleased'
<1>1. CASE Apart
  BY <1>1 DEF Apart, instances, workers, LockReleased
<1>2. ASSUME NEW c \in Conn, Connect(c) PROVE LockReleased'
  BY <1>2, ServantAssumption DEF Connect, Handles, NoInstances, registry, instances, Typed, TypeOK, CallInv, LockReleased
<1>3. ASSUME NEW c \in Conn, Close(c) PROVE LockReleased'
  BY <1>3, ServantAssumption DEF Close, Handles, NoInstances, registry, instances, Typed, TypeOK, CallInv, LockReleased
<1>4. ASSUME NEW c \in Conn, TakeLock(c) PROVE LockReleased'
  BY <1>4, ServantAssumption DEF TakeLock, Handles, registry, instances, Typed, TypeOK, CallInv, LockReleased
<1>5. ASSUME NEW c \in Conn, GetInstance(c) PROVE LockReleased'
  BY <1>5, ServantAssumption DEF GetInstance, Handles, Known, Usable, Unlocked, registry, instances, Typed, TypeOK, CallInv, LockReleased
<1>6. ASSUME NEW c \in Conn, MissInstance(c) PROVE LockReleased'
  BY <1>6, ServantAssumption DEF MissInstance, Handles, Known, Usable, registry, instances, Typed, TypeOK, CallInv, LockReleased
<1>7. ASSUME NEW c \in Conn, CreateInstance(c) PROVE LockReleased'
  BY <1>7, ServantAssumption DEF CreateInstance, Handles, Creates, OwnerOf, registry, instances, Typed, TypeOK, CallInv, LockReleased
<1>8. ASSUME NEW c \in Conn, CreatorRaises(c) PROVE LockReleased'
  BY <1>8, ServantAssumption DEF CreatorRaises, Handles, Unlocked, registry, instances, Typed, TypeOK, CallInv, LockReleased
<1>9. ASSUME NEW c \in Conn, StoreInstance(c) PROVE LockReleased'
  BY <1>9, ServantAssumption DEF StoreInstance, Handles, StoreSession, Unlocked, registry, instances, Typed, TypeOK, CallInv, LockReleased
<1>10. ASSUME NEW c \in Conn, Answer(c) PROVE LockReleased'
  BY <1>10, ServantAssumption DEF Answer, Handles, registry, instances, Typed, TypeOK, CallInv, LockReleased
<1>11. ASSUME NEW c \in Conn, NEW i \in Id, Request(c, i) PROVE LockReleased'
  BY <1>11, ServantAssumption DEF Request, Handles, NextStep, registry, instances, Typed, TypeOK, CallInv, LockReleased
<1>12. QED
  BY StepIsOneOf, <1>1, <1>2, <1>3, <1>4, <1>5, <1>6, <1>7, <1>8, <1>9, <1>10, <1>11 DEF Serves

(* core.py:1538-1544: the holder of the lock is at work on its instance,   *)
(* and whoever has left is not the holder.                                 *)
THEOREM LockIsReleased == Spec => []LockReleased
<1>1. Init => LockReleased
  BY ServantAssumption DEF Init, LockReleased
<1>2. LockReleased /\ Typed /\ Typed' /\ [Next]_vars => LockReleased'
  BY LockStep
<1>3. QED
  BY <1>1, <1>2, TypedInvariant, PTL DEF Spec

(* The life of a single instance: none is made; one is made and its maker  *)
(* is about to file it; it is filed, and nobody makes another.             *)
Unmade(o) ==
    /\ made[o] = 0 /\ single[o] = None
    /\ \A c \in Conn : ~(cpc[c] = "store" /\ target[c] = o)
Making(o) ==
    /\ made[o] = 1 /\ single[o] = None
    /\ \E c \in Conn : cpc[c] = "store" /\ target[c] = o /\ using[c].truth
Filed(o) ==
    /\ made[o] = 1 /\ single[o] # None /\ single[o].truth
    /\ \A c \in Conn : ~(cpc[c] \in {"create", "store"} /\ target[c] = o)

SingleInv ==
    \A o \in Servant \ Sized : Mode[o] = "single" => Unmade(o) \/ Making(o) \/ Filed(o)

(* A single instance goes from unmade to making to filed, and stays.       *)
LEMMA SingleStep == ASSUME Typed, Typed', LockReleased, SingleInv, [Next]_vars PROVE SingleInv'
<1>1. CASE Apart
  BY <1>1 DEF Apart, instances, workers, SingleInv, Unmade, Making, Filed, LockReleased
<1>2. ASSUME NEW c \in Conn, Connect(c) PROVE SingleInv'
  BY <1>2, ServantAssumption DEF Connect, Handles, NoInstances, registry, instances, Typed, TypeOK, CallInv, SingleInv, Unmade, Making, Filed, LockReleased
<1>3. ASSUME NEW c \in Conn, Close(c) PROVE SingleInv'
  BY <1>3, ServantAssumption DEF Close, Handles, NoInstances, registry, instances, Typed, TypeOK, CallInv, SingleInv, Unmade, Making, Filed, LockReleased
<1>4. ASSUME NEW c \in Conn, TakeLock(c) PROVE SingleInv'
  BY <1>4, ServantAssumption DEF TakeLock, Handles, registry, instances, Typed, TypeOK, CallInv, SingleInv, Unmade, Making, Filed, LockReleased
<1>5. ASSUME NEW c \in Conn, GetInstance(c) PROVE SingleInv'
  BY <1>5, ServantAssumption DEF GetInstance, Handles, Known, Usable, Unlocked, registry, instances, Typed, TypeOK, CallInv, SingleInv, Unmade, Making, Filed, LockReleased
<1>6. ASSUME NEW c \in Conn, MissInstance(c) PROVE SingleInv'
  BY <1>6, ServantAssumption DEF MissInstance, Handles, Known, Usable, registry, instances, Typed, TypeOK, CallInv, SingleInv, Unmade, Making, Filed, LockReleased
<1>7. ASSUME NEW c \in Conn, CreateInstance(c) PROVE SingleInv'
  BY <1>7, ServantAssumption DEF CreateInstance, Handles, Creates, OwnerOf, registry, instances, Typed, TypeOK, CallInv, SingleInv, Unmade, Making, Filed, LockReleased
<1>8. ASSUME NEW c \in Conn, CreatorRaises(c) PROVE SingleInv'
  BY <1>8, ServantAssumption DEF CreatorRaises, Handles, Unlocked, registry, instances, Typed, TypeOK, CallInv, SingleInv, Unmade, Making, Filed, LockReleased
<1>9. ASSUME NEW c \in Conn, StoreInstance(c) PROVE SingleInv'
  BY <1>9, ServantAssumption DEF StoreInstance, Handles, StoreSession, Unlocked, registry, instances, Typed, TypeOK, CallInv, SingleInv, Unmade, Making, Filed, LockReleased
<1>10. ASSUME NEW c \in Conn, Answer(c) PROVE SingleInv'
  BY <1>10, ServantAssumption DEF Answer, Handles, registry, instances, Typed, TypeOK, CallInv, SingleInv, Unmade, Making, Filed, LockReleased
<1>11. ASSUME NEW c \in Conn, NEW i \in Id, Request(c, i) PROVE SingleInv'
  BY <1>11, ServantAssumption DEF Request, Handles, NextStep, registry, instances, Typed, TypeOK, CallInv, SingleInv, Unmade, Making, Filed, LockReleased
<1>12. QED
  BY StepIsOneOf, <1>1, <1>2, <1>3, <1>4, <1>5, <1>6, <1>7, <1>8, <1>9, <1>10, <1>11 DEF Serves

(* core.py:1537, "exactly one per daemon": of a class with instance mode   *)
(* "single" one instance is made, whoever calls it first and whatever is   *)
(* registered meanwhile.                                                   *)
THEOREM SingleInstance == Spec => []OneSingleInstance
<1>1. Init => SingleInv
  BY ServantAssumption DEF Init, SingleInv, Unmade, NoInstances
<1>2. SingleInv /\ LockReleased /\ Typed /\ Typed' /\ [Next]_vars => SingleInv'
  BY SingleStep
<1>3. SingleInv => OneSingleInstance
  BY DEF SingleInv, Unmade, Making, Filed, OneSingleInstance
<1>4. QED
  BY <1>1, <1>2, <1>3, TypedInvariant, LockIsReleased, PTL DEF Spec

(* A connection's session instances were made for it, in this epoch; the   *)
(* last one that served it is still filed, unless it is false; and a call  *)
(* that is past the lookup is served by the one that is filed.             *)
SessionInv ==
    \A c \in Conn, o \in Servant : Mode[o] = "session" =>
        /\ session[c][o] # None => session[c][o].owner = <<c, epoch[c]>>
        /\ cpc[c] # "closed" /\ Usable(served[c][o]) => session[c][o] = served[c][o]
        /\ cpc[c] \in {"create", "store"} /\ target[c] = o => ~Usable(session[c][o])
        /\ cpc[c] \in {"store", "run"} /\ target[c] = o => using[c].owner = <<c, epoch[c]>>
        /\ cpc[c] = "run" /\ target[c] = o => using[c] = session[c][o]

(* Only a connection's own calls file its session instances.               *)
LEMMA SessionStep == ASSUME Typed, Typed', SessionInv, [Next]_vars PROVE SessionInv'
<1>1. CASE Apart
  BY <1>1 DEF Apart, instances, workers, SessionInv, Usable
<1>2. ASSUME NEW c \in Conn, Connect(c) PROVE SessionInv'
  BY <1>2, ServantAssumption DEF Connect, Handles, NoInstances, registry, instances, Typed, TypeOK, CallInv, SessionInv, Usable
<1>3. ASSUME NEW c \in Conn, Close(c) PROVE SessionInv'
  BY <1>3, ServantAssumption DEF Close, Handles, NoInstances, registry, instances, Typed, TypeOK, CallInv, SessionInv, Usable
<1>4. ASSUME NEW c \in Conn, TakeLock(c) PROVE SessionInv'
  BY <1>4, ServantAssumption DEF TakeLock, Handles, registry, instances, Typed, TypeOK, CallInv, SessionInv, Usable
<1>5. ASSUME NEW c \in Conn, GetInstance(c) PROVE SessionInv'
  BY <1>5, ServantAssumption DEF GetInstance, Handles, Known, Usable, Unlocked, registry, instances, Typed, TypeOK, CallInv, SessionInv, Usable
<1>6. ASSUME NEW c \in Conn, MissInstance(c) PROVE SessionInv'
  BY <1>6, ServantAssumption DEF MissInstance, Handles, Known, Usable, registry, instances, Typed, TypeOK, CallInv, SessionInv, Usable
<1>7. ASSUME NEW c \in Conn, CreateInstance(c) PROVE SessionInv'
  BY <1>7, ServantAssumption DEF CreateInstance, Handles, Creates, OwnerOf, registry, instances, Typed, TypeOK, CallInv, SessionInv, Usable
<1>8. ASSUME NEW c \in Conn, CreatorRaises(c) PROVE SessionInv'
  BY <1>8, ServantAssumption DEF CreatorRaises, Handles, Unlocked, registry, instances, Typed, TypeOK, CallInv, SessionInv, Usable
<1>9. ASSUME NEW c \in Conn, StoreInstance(c) PROVE SessionInv'
  BY <1>9, ServantAssumption DEF StoreInstance, Handles, StoreSession, Unlocked, registry, instances, Typed, TypeOK, CallInv, SessionInv, Usable
<1>10. ASSUME NEW c \in Conn, Answer(c) PROVE SessionInv'
  BY <1>10, ServantAssumption DEF Answer, Handles, registry, instances, Typed, TypeOK, CallInv, SessionInv, Usable
<1>11. ASSUME NEW c \in Conn, NEW i \in Id, Request(c, i) PROVE SessionInv'
  BY <1>11, ServantAssumption DEF Request, Handles, NextStep, registry, instances, Typed, TypeOK, CallInv, SessionInv, Usable
<1>12. QED
  BY StepIsOneOf, <1>1, <1>2, <1>3, <1>4, <1>5, <1>6, <1>7, <1>8, <1>9, <1>10, <1>11 DEF Serves

(* core.py:1546-1554, socketutil.py:446 and 476: a session instance serves *)
(* one connection, and not the next one of the same client.                *)
THEOREM SessionIsPrivate == Spec => []SessionPrivate
<1>1. Init => SessionInv
  BY ServantAssumption DEF Init, SessionInv, NoInstances, Usable
<1>2. SessionInv /\ Typed /\ Typed' /\ [Next]_vars => SessionInv'
  BY SessionStep
<1>3. SessionInv /\ Typed => SessionPrivate
  BY DEF SessionInv, SessionPrivate, Typed, CallInv
<1>4. QED
  BY <1>1, <1>2, <1>3, TypedInvariant, PTL DEF Spec

(* core.py:1546-1554: a connection's calls of a session class are served   *)
(* by one instance.                                                        *)
THEOREM SessionIsKept == Spec => []SessionKept
<1>1. Init => SessionInv
  BY ServantAssumption DEF Init, SessionInv, NoInstances, Usable
<1>2. SessionInv /\ Typed /\ Typed' /\ [Next]_vars => SessionInv'
  BY SessionStep
<1>3. SessionInv /\ Typed => SessionKept
  BY DEF SessionInv, SessionKept, Typed, CallInv
<1>4. QED
  BY <1>1, <1>2, <1>3, TypedInvariant, PTL DEF Spec

(* TypeOK, which needs what the workers know of their calls and that       *)
(* instances are filed under their class.                                  *)
THEOREM TypeCorrect == Spec => []TypeOK
  BY TypedInvariant, PTL DEF Typed

(* For any classes and connections: one instance of each class with mode   *)
(* single, made by the holder of the lock, which gives it back.            *)
THEOREM InstancesAreShared == Spec => []InstanceInv
<1>1. TypeOK /\ LockReleased /\ OneSingleInstance => InstanceInv
  BY DEF InstanceInv
<1> QED
  BY <1>1, TypeCorrect, LockIsReleased, SingleInstance, PTL

(* For any classes and connections: the instances of a session stay with   *)
(* their connection, and serve all its calls.                              *)
THEOREM SessionsAreApart == Spec => []SessionsApart
<1>1. SessionPrivate /\ SessionKept => SessionsApart
  BY DEF SessionsApart
<1> QED
  BY <1>1, SessionIsPrivate, SessionIsKept, PTL

-----------------------------------------------------------------------------
(* Call contexts: CallContext. *)

ThreadContext ==
    [client : Peer \cup {None}, corr : Nat, given : SUBSET Nat, made : Nat, notes : SUBSET Nat]

ContextTyped ==
    /\ requests \in Nat
    /\ Server \in DOMAIN context /\ DOMAIN context \subseteq 0 .. requests
    /\ context \in [DOMAIN context -> ThreadContext]

(* A thread that executes the program's code has the context of its own    *)
(* request.                                                                *)
ThreadOwn(t) ==
    /\ context[t].corr = RequestOf(t) /\ context[t].given \subseteq {RequestOf(t)}
    /\ context[t].client \in Peer

(* The annotations that the server thread has: those of the call that it   *)
(* executes, or of one that left them.                                     *)
NotesOwn == \A n \in context[Server].notes : n \in leaving \/ (running # None /\ n = requests)

ThreadsOwn ==
    /\ \A t \in Executing : ThreadOwn(t)
    /\ Oneways \subseteq leaving
    /\ NotesOwn

ClientsOpen ==
    \A t \in DOMAIN context :
        context[t].client \in Peer => connection[context[t].client] \notin {"new", "gone"}

(* While the resources of a connection are being closed, those that calls  *)
(* have tracked are closed or will be seen; before and after that they are *)
(* closed or tracked still.                                                *)
Owing(c) ==
    /\ connection[c] = "new" => owed[c] = {}
    /\ connection[c] # "gone" => owed[c] \subseteq tracked[c] \cup released
    /\ connection[c] = "closing" => owed[c] \subseteq unseen \cup released
    /\ connection[c] = "gone" => owed[c] \subseteq released

ResourcesOwed ==
    /\ connection \in [Peer -> {"new", "open", "closing", "closed", "gone"}]
    /\ tracked \in [Peer -> SUBSET Resource] /\ owed \in [Peer -> SUBSET Resource]
    /\ \A c \in Peer : Owing(c)
    /\ \A c, d \in Closing : c = d

ContextIInv == ContextTyped /\ ThreadsOwn /\ ClientsOpen /\ ResourcesOwed /\ ReplyOwn /\ NestedOwn

(* Steps that begin no request leave the threads what is theirs. *)
LEMMA ThreadsKeep ==
    ASSUME ContextTyped, ThreadsOwn, UNCHANGED <<requests, leaving>>, running' \in {running, None},
           Server \in DOMAIN context', DOMAIN context' \subseteq DOMAIN context,
           context' \in [DOMAIN context' -> ThreadContext],
           \A u \in DOMAIN context' :
                /\ context'[u].corr = context[u].corr /\ context'[u].client = context[u].client
                /\ context'[u].given \subseteq context[u].given,
           \A n \in context'[Server].notes : n \in leaving \/ (running' # None /\ n = requests)
    PROVE  ContextTyped' /\ ThreadsOwn'
<1>1. ContextTyped'
  BY DEF ContextTyped
<1>2. Executing' \subseteq Executing /\ Executing' \subseteq DOMAIN context'
  BY DEF Executing, Oneways, Server
<1>3. ASSUME NEW t \in Executing' PROVE ThreadOwn(t)'
  <2>1. ThreadOwn(t) /\ t \in DOMAIN context'
    BY <1>2, <1>3 DEF ThreadsOwn
  <2>2. QED
    BY <2>1 DEF ThreadOwn, RequestOf, Server
<1>4. Oneways' \subseteq leaving'
  BY DEF ThreadsOwn, Oneways, Server
<1>5. NotesOwn'
  BY DEF NotesOwn, Server
<1>6. QED
  BY <1>1, <1>3, <1>4, <1>5 DEF ThreadsOwn

(* One thread's context changes, but not whose call it is. *)
LEMMA ContextKeeps ==
    ASSUME ContextTyped, ThreadsOwn, UNCHANGED <<requests, leaving, running>>,
           NEW t \in DOMAIN context, NEW s \in ThreadContext,
           s.client = context[t].client, s.corr = context[t].corr,
           s.given \subseteq context[t].given,
           t = Server => \A n \in s.notes : n \in leaving \/ (running # None /\ n = requests),
           context' = [context EXCEPT ![t] = s]
    PROVE  /\ ContextTyped' /\ ThreadsOwn'
           /\ DOMAIN context' = DOMAIN context
           /\ \A u \in DOMAIN context : context'[u].client = context[u].client
<1>1. DOMAIN context' = DOMAIN context /\ context'[t] = s
  BY DEF ContextTyped
<1>2. \A u \in DOMAIN context : u # t => context'[u] = context[u]
  BY DEF ContextTyped
<1>3. context' \in [DOMAIN context' -> ThreadContext]
  BY <1>1 DEF ContextTyped
<1>4. \A u \in DOMAIN context' :
          /\ context'[u].corr = context[u].corr /\ context'[u].client = context[u].client
          /\ context'[u].given \subseteq context[u].given
  BY <1>1, <1>2
<1>5. \A n \in context'[Server].notes : n \in leaving \/ (running' # None /\ n = requests)
  <2>1. CASE t = Server
    BY <1>1, <2>1
  <2>2. CASE t # Server
    BY <1>2, <2>2 DEF ThreadsOwn, NotesOwn, ContextTyped
  <2>3. QED
    BY <2>1, <2>2
<1>6. ContextTyped' /\ ThreadsOwn'
  BY <1>1, <1>3, <1>4, <1>5, ThreadsKeep DEF ContextTyped
<1>7. QED
  BY <1>1, <1>4, <1>6

(* Steps that do not touch connections and resources. *)
LEMMA ResourcesKeep ==
    ASSUME ResourcesOwed, UNCHANGED <<connection, tracked, unseen, released, owed>>
    PROVE  ResourcesOwed'
  BY DEF ResourcesOwed, Owing, Closing

(* A thread that still runs for a client does so when connections stay as  *)
(* they are.                                                               *)
LEMMA ClientsKeep ==
    ASSUME ClientsOpen, UNCHANGED connection, DOMAIN context' \subseteq DOMAIN context,
           \A u \in DOMAIN context' : context'[u].client = context[u].client
    PROVE  ClientsOpen'
  BY DEF ClientsOpen

(* A request comes: what it leaves alone, and what it begins. *)
LEMMA RequestComes ==
    ASSUME ContextTyped, ThreadsOwn, running = None, requests' = requests + 1,
           leaving \subseteq leaving',
           context' \in [DOMAIN context' -> ThreadContext],
           DOMAIN context' \in {DOMAIN context, DOMAIN context \cup {requests'}},
           \A t \in Oneways : context'[t] = context[t],
           context'[Server].notes = context[Server].notes,
           running' # None =>
                /\ context'[Server].corr = requests' /\ context'[Server].given = {requests'}
                /\ context'[Server].client \in Peer,
           requests' \in DOMAIN context' =>
                /\ context'[requests'].corr = requests' /\ context'[requests'].given = {requests'}
                /\ context'[requests'].client \in Peer /\ requests' \in leaving'
    PROVE  ContextTyped' /\ ThreadsOwn'
<1>1. requests \in Nat /\ requests' \in Nat /\ requests' # Server /\ requests' \notin DOMAIN context
      /\ Server \in DOMAIN context
  BY DEF ContextTyped, Server
<1>2. DOMAIN context' \subseteq 0 .. requests' /\ Server \in DOMAIN context'
  BY <1>1 DEF ContextTyped
<1>3. ContextTyped'
  BY <1>1, <1>2 DEF ContextTyped, Server
<1>4. \A t \in Oneways' : t \in Oneways \/ (t = requests' /\ requests' \in DOMAIN context')
  BY DEF Oneways, Server
<1>5. ASSUME NEW t \in Executing' PROVE ThreadOwn(t)'
  <2>1. CASE t \in Oneways
    <3>1. ThreadOwn(t) /\ t # Server
      BY <2>1 DEF ThreadsOwn, Executing, Oneways
    <3>2. QED
      BY <2>1, <3>1 DEF ThreadOwn, RequestOf, Server
  <2>2. CASE t = Server /\ running' # None
    BY <2>2 DEF ThreadOwn, RequestOf, Server
  <2>3. CASE t = requests' /\ requests' \in DOMAIN context'
    BY <1>1, <2>3 DEF ThreadOwn, RequestOf, Server
  <2>4. t \in Oneways' \/ (t = Server /\ running' # None)
    BY <1>5 DEF Executing, Server
  <2>5. QED
    BY <1>4, <2>1, <2>2, <2>3, <2>4
<1>6. Oneways' \subseteq leaving'
  BY <1>4 DEF ThreadsOwn
<1>7. NotesOwn'
  <2>1. \A n \in context[Server].notes : n \in leaving
    BY DEF ThreadsOwn, NotesOwn
  <2>2. QED
    BY <2>1 DEF NotesOwn, Server
<1>8. QED
  BY <1>3, <1>5, <1>6, <1>7 DEF ThreadsOwn

(* A new connection, or a ping: the server thread takes the peer as its    *)
(* client.                                                                 *)
LEMMA Greets ==
    ASSUME ContextIInv, NEW c \in Peer, Handshake(c) \/ Ping(c)
    PROVE  ContextIInv'
<1> DEFINE s == [context[Server] EXCEPT !.corr = requests']
<1>1. /\ running = None /\ Closing = {} /\ requests' = requests + 1 /\ leaving' = leaving
      /\ context' = [context EXCEPT ![Server] = s]
      /\ running' = running /\ UNCHANGED <<tracked, unseen, released, owed>>
      /\ lastSent'.kind \in {"handshake", "ping"}
      /\ connection[c] \in {"new", "open"}
      /\ connection' = [connection EXCEPT ![c] = "open"] \/ connection' = connection
  BY DEF Handshake, Ping, Arrive, Idle, Reply, trackVars
<1>2. context[Server] \in ThreadContext /\ requests' \in Nat
  BY <1>1 DEF ContextIInv, ContextTyped
<1>3. /\ s \in ThreadContext /\ s.notes = context[Server].notes /\ s.client = context[Server].client
  BY <1>2 DEF ThreadContext
<1>4. /\ DOMAIN context' = DOMAIN context /\ context'[Server] = s
      /\ \A t \in DOMAIN context : t # Server => context'[t] = context[t]
  BY <1>1 DEF ContextIInv, ContextTyped
<1> HIDE DEF s
<1>5. ContextTyped' /\ ThreadsOwn'
  <2>1. context' \in [DOMAIN context' -> ThreadContext]
    BY <1>1, <1>3, <1>4 DEF ContextIInv, ContextTyped
  <2>2. requests' \notin DOMAIN context'
    BY <1>1, <1>4 DEF ContextIInv, ContextTyped
  <2>3. \A t \in Oneways : context'[t] = context[t]
    BY <1>4 DEF Oneways
  <2>4. QED
    BY <1>1, <1>3, <1>4, <2>1, <2>2, <2>3, RequestComes DEF ContextIInv
<1>6. \A t \in DOMAIN context' : context'[t].client = context[t].client
  BY <1>3, <1>4
<1>7. \A d \in Peer : connection'[d] = connection[d] \/ (d = c /\ connection'[d] = "open")
  BY <1>1 DEF ContextIInv, ResourcesOwed
<1>8. ClientsOpen'
  BY <1>4, <1>6, <1>7 DEF ContextIInv, ClientsOpen
<1>9. ResourcesOwed'
  <2>1. connection' \in [Peer -> {"new", "open", "closing", "closed", "gone"}]
    BY <1>1 DEF ContextIInv, ResourcesOwed
  <2>2. \A d \in Peer : Owing(d)'
    BY <1>1, <1>7 DEF ContextIInv, ResourcesOwed, Owing
  <2>3. \A d, e \in Closing' : d = e
    BY <1>1, <1>7 DEF Closing
  <2>4. QED
    BY <1>1, <2>1, <2>2, <2>3 DEF ContextIInv, ResourcesOwed
<1>10. ReplyOwn' /\ NestedOwn'
  BY <1>1 DEF ReplyOwn, NestedOwn
<1>11. QED
  BY <1>5, <1>8, <1>9, <1>10 DEF ContextIInv

(* A refused handshake closes the connection and what is tracked on it. *)
LEMMA Denies ==
    ASSUME ContextIInv, NEW c \in Peer, Deny(c)
    PROVE  ContextIInv'
<1>1. /\ running = None /\ Closing = {} /\ requests' = requests + 1 /\ leaving' = leaving
      /\ running' = running /\ UNCHANGED <<context, tracked, unseen, released, owed>>
      /\ lastSent'.kind = "denied" /\ connection[c] = "new"
      /\ connection' = [connection EXCEPT ![c] = "closing"]
  BY DEF Deny, Arrive, Idle, Reply, trackVars
<1>2. ContextTyped' /\ ThreadsOwn'
  <2>1. requests' \notin DOMAIN context'
    BY <1>1 DEF ContextIInv, ContextTyped
  <2>2. QED
    BY <1>1, <2>1, RequestComes DEF ContextIInv, ContextTyped
<1>3. \A d \in Peer : IF d = c THEN connection'[d] = "closing" ELSE connection'[d] = connection[d]
  BY <1>1 DEF ContextIInv, ResourcesOwed
<1>4. ClientsOpen'
  BY <1>1, <1>3 DEF ContextIInv, ClientsOpen
<1>5. ResourcesOwed'
  <2>1. connection' \in [Peer -> {"new", "open", "closing", "closed", "gone"}]
    BY <1>1 DEF ContextIInv, ResourcesOwed
  <2>2. \A d \in Peer : Owing(d)'
    BY <1>1, <1>3 DEF ContextIInv, ResourcesOwed, Owing
  <2>3. \A d, e \in Closing' : d = e
    BY <1>1, <1>3 DEF Closing
  <2>4. QED
    BY <1>1, <2>1, <2>2, <2>3 DEF ContextIInv, ResourcesOwed
<1>6. ReplyOwn' /\ NestedOwn'
  BY <1>1 DEF ReplyOwn, NestedOwn
<1>7. QED
  BY <1>2, <1>4, <1>5, <1>6 DEF ContextIInv

(* What current_context becomes when a request is dispatched to its server *)
(* thread.                                                                 *)
LEMMA CalledByTyped ==
    ASSUME ContextTyped, NEW c \in Peer, requests' = requests + 1
    PROVE  /\ CalledBy(c) \in ThreadContext /\ CalledBy(c).client = c
           /\ CalledBy(c).corr = requests' /\ CalledBy(c).given = {requests'}
           /\ CalledBy(c).notes = context[Server].notes
<1>1. context[Server] \in ThreadContext /\ requests' \in Nat
  BY DEF ContextTyped
<1>2. QED
  BY <1>1 DEF CalledBy, ThreadContext

(* A request is dispatched, in the server's thread or in one of its own. *)
LEMMA Invokes ==
    ASSUME ContextIInv, NEW c \in Peer, NEW oneway \in BOOLEAN,
           InvokeMethod(c, oneway) \/ InvokeThreaded(c)
    PROVE  ContextIInv'
<1>1. PICK s : s = CalledBy(c)
  OBVIOUS
<1>2. /\ running = None /\ requests' = requests + 1 /\ leaving \subseteq leaving'
      /\ lastSent' = None /\ connection[c] = "open"
      /\ UNCHANGED <<connection, tracked, unseen, released, owed>>
      /\ \/ context' = [context EXCEPT ![Server] = s]
         \/ /\ context' = [t \in DOMAIN context \cup {requests'} |->
                             IF t \in {Server, requests'} THEN s ELSE context[t]]
            /\ requests' \in leaving' /\ running' = None
  BY <1>1 DEF InvokeMethod, InvokeThreaded, Arrive, Idle, SendsNothing, trackVars
<1>3. /\ s \in ThreadContext /\ s.client = c /\ s.corr = requests' /\ s.given = {requests'}
      /\ s.notes = context[Server].notes
  BY <1>1, <1>2, CalledByTyped DEF ContextIInv
<1>4. /\ requests' \in Nat /\ requests' \notin DOMAIN context /\ requests' # Server
      /\ Server \in DOMAIN context
  BY <1>2 DEF ContextIInv, ContextTyped, Server
<1>5. /\ context' \in [DOMAIN context' -> ThreadContext]
      /\ DOMAIN context' \in {DOMAIN context, DOMAIN context \cup {requests'}}
      /\ context'[Server] = s
      /\ \A t \in DOMAIN context : t # Server => context'[t] = context[t]
      /\ requests' \in DOMAIN context' =>
            context'[requests'] = s /\ requests' \in leaving'
  <2>1. CASE context' = [context EXCEPT ![Server] = s]
    BY <1>3, <1>4, <2>1 DEF ContextIInv, ContextTyped
  <2>2. CASE /\ context' = [t \in DOMAIN context \cup {requests'} |->
                             IF t \in {Server, requests'} THEN s ELSE context[t]]
            /\ requests' \in leaving' /\ running' = None
    BY <1>3, <1>4, <2>2 DEF ContextIInv, ContextTyped
  <2>3. QED
    BY <1>2, <2>1, <2>2
<1>6. ContextTyped' /\ ThreadsOwn'
  <2>1. \A t \in Oneways : context'[t] = context[t]
    BY <1>5 DEF Oneways
  <2>2. QED
    BY <1>2, <1>3, <1>5, <2>1, RequestComes DEF ContextIInv
<1>7. ClientsOpen'
  BY <1>2, <1>3, <1>4, <1>5 DEF ContextIInv, ClientsOpen
<1>8. ResourcesOwed'
  BY <1>2, ResourcesKeep DEF ContextIInv
<1>9. ReplyOwn' /\ NestedOwn'
  BY <1>2 DEF ReplyOwn, NestedOwn
<1>10. QED
  BY <1>6, <1>7, <1>8, <1>9 DEF ContextIInv

(* The thread of a oneway call ends, and its context with it. *)
LEMMA OnewayEnds ==
    ASSUME ContextIInv, NEW t \in Oneways, EndOneway(t)
    PROVE  ContextIInv'
<1>1. /\ DOMAIN context' = DOMAIN context \ {t} /\ lastSent' = None
      /\ \A u \in DOMAIN context' : context'[u] = context[u]
      /\ UNCHANGED <<running, requests, leaving, connection, tracked, unseen, released, owed>>
      /\ context' = [u \in DOMAIN context \ {t} |-> context[u]]
  BY DEF EndOneway, SendsNothing, trackVars
<1>2. Server \in DOMAIN context' /\ context' \in [DOMAIN context' -> ThreadContext]
  BY <1>1 DEF ContextIInv, ContextTyped, Oneways
<1>3. ContextTyped' /\ ThreadsOwn'
  <2>1. \A n \in context'[Server].notes : n \in leaving \/ (running' # None /\ n = requests)
    BY <1>1, <1>2 DEF ContextIInv, ThreadsOwn, NotesOwn
  <2>2. QED
    BY <1>1, <1>2, <2>1, ThreadsKeep DEF ContextIInv
<1>4. ClientsOpen' /\ ResourcesOwed'
  BY <1>1, ClientsKeep, ResourcesKeep DEF ContextIInv
<1>5. ReplyOwn' /\ NestedOwn'
  BY <1>1 DEF ReplyOwn, NestedOwn
<1>6. QED
  BY <1>3, <1>4, <1>5 DEF ContextIInv

(* A reply leaves with the context of its call. *)
LEMMA Replies ==
    ASSUME ContextIInv, Replied
    PROVE  ContextIInv'
<1> DEFINE s == [context[Server] EXCEPT !.made = RequestOf(Server), !.notes = {}]
<1>1. /\ running # None /\ running' = None
      /\ UNCHANGED <<requests, connection, tracked, unseen, released, owed, leaving>>
      /\ lastSent' = [kind |-> "result", request |-> requests, corr |-> context[Server].corr,
                       notes |-> context[Server].notes]
      /\ context' = [context EXCEPT ![Server] = s]
  BY DEF Replied, Ended, Reply, NewDict, trackVars
<1>2. ThreadOwn(Server) /\ RequestOf(Server) = requests
  BY <1>1 DEF ContextIInv, ThreadsOwn, Executing, RequestOf
<1>3. context[Server] \in ThreadContext /\ requests \in Nat
  BY DEF ContextIInv, ContextTyped
<1>4. /\ s \in ThreadContext /\ s.notes = {} /\ s.client = context[Server].client
      /\ s.corr = context[Server].corr /\ s.given = context[Server].given
  BY <1>2, <1>3 DEF ThreadContext
<1>5. /\ DOMAIN context' = DOMAIN context /\ context'[Server] = s
      /\ \A u \in DOMAIN context : u # Server => context'[u] = context[u]
  BY <1>1 DEF ContextIInv, ContextTyped
<1> HIDE DEF s
<1>6. ContextTyped' /\ ThreadsOwn'
  <2>1. context' \in [DOMAIN context' -> ThreadContext] /\ Server \in DOMAIN context'
    BY <1>1, <1>4, <1>5 DEF ContextIInv, ContextTyped
  <2>2. \A u \in DOMAIN context' :
          /\ context'[u].corr = context[u].corr /\ context'[u].client = context[u].client
          /\ context'[u].given \subseteq context[u].given
    BY <1>4, <1>5
  <2>3. context'[Server].notes = {}
    BY <1>4, <1>5
  <2>4. QED
    BY <1>1, <1>5, <2>1, <2>2, <2>3, ThreadsKeep DEF ContextIInv
<1>7. ClientsOpen' /\ ResourcesOwed'
  <2>1. \A u \in DOMAIN context' : context'[u].client = context[u].client
    BY <1>4, <1>5
  <2>2. QED
    BY <1>1, <1>5, <2>1, ClientsKeep, ResourcesKeep DEF ContextIInv
<1>8. ReplyOwn'
  <2>1. \A n \in context[Server].notes : n = requests \/ n \in leaving
    BY DEF ContextIInv, ThreadsOwn, NotesOwn
  <2>2. context[Server].corr = requests
    BY <1>2 DEF ThreadOwn
  <2>3. QED
    BY <1>1, <2>1, <2>2 DEF ReplyOwn
<1>9. NestedOwn'
  BY <1>1 DEF NestedOwn
<1>10. QED
  BY <1>6, <1>7, <1>8, <1>9 DEF ContextIInv

(* A call that is not answered, because its client has gone or wants no    *)
(* reply.                                                                  *)
LEMMA GoesUnanswered ==
    ASSUME ContextIInv, Unanswered
    PROVE  ContextIInv'
<1>1. /\ running' = None /\ leaving' = leaving \cup {requests} /\ lastSent' = None
      /\ UNCHANGED <<requests, context, connection, tracked, unseen, released, owed>>
  BY DEF Unanswered, Ended, SendsNothing, trackVars
<1>2. ContextTyped' /\ ThreadsOwn'
  <2>1. Executing' \subseteq Executing
    BY <1>1 DEF Executing, Oneways
  <2>2. \A t \in Executing' : ThreadOwn(t)'
    BY <1>1, <2>1 DEF ContextIInv, ThreadsOwn, ThreadOwn, RequestOf
  <2>3. QED
    BY <1>1, <2>2 DEF ContextIInv, ContextTyped, ThreadsOwn, NotesOwn, Oneways
<1>3. ClientsOpen' /\ ResourcesOwed'
  BY <1>1, ClientsKeep, ResourcesKeep DEF ContextIInv
<1>4. ReplyOwn' /\ NestedOwn'
  BY <1>1 DEF ReplyOwn, NestedOwn
<1>5. QED
  BY <1>2, <1>3, <1>4 DEF ContextIInv

(* What the program's code does. *)
LEMMA ProgramThread ==
    ASSUME ContextIInv, NEW t \in Executing
    PROVE  /\ t \in DOMAIN context /\ context[t] \in ThreadContext /\ ThreadOwn(t)
           /\ RequestOf(t) \in Nat
           /\ RequestOf(t) \in leaving \/ (running # None /\ RequestOf(t) = requests)
           /\ t = Server => running # None /\ RequestOf(t) = requests
<1>1. t \in DOMAIN context /\ ThreadOwn(t)
  BY DEF ContextIInv, ContextTyped, ThreadsOwn, Executing, Oneways
<1>2. t \in Oneways => RequestOf(t) = t /\ t \in leaving /\ t # Server
  BY DEF ContextIInv, ThreadsOwn, Oneways, RequestOf
<1>3. t \notin Oneways => t = Server /\ running # None /\ RequestOf(t) = requests
  BY DEF Executing, RequestOf
<1>4. context[t] \in ThreadContext /\ requests \in Nat /\ t \in Nat
  BY <1>1 DEF ContextIInv, ContextTyped
<1>5. QED
  BY <1>1, <1>2, <1>3, <1>4

(* A program adds a response annotation to what there is. *)
LEMMA Annotates ==
    ASSUME ContextIInv, NEW t \in Executing, Annotate(t)
    PROVE  ContextIInv'
<1>1. /\ lastSent' = None /\ UNCHANGED <<running, requests, leaving, connection, tracked,
         unseen, released, owed>>
      /\ context' = [u \in DOMAIN context |->
                    IF context[u].made = context[t].made
                    THEN [context[u] EXCEPT !.notes = context[u].notes \cup {RequestOf(t)}]
                    ELSE context[u]]
  BY DEF Annotate, Uses, ByProgram, SendsNothing, releaseVars
<1>2. RequestOf(t) \in Nat /\ (RequestOf(t) \in leaving \/ (running # None /\
      RequestOf(t) = requests))
  BY ProgramThread
<1>3. DOMAIN context' = DOMAIN context
  BY <1>1
<1>4. ASSUME NEW u \in DOMAIN context
      PROVE  /\ context'[u] \in ThreadContext
             /\ context'[u].corr = context[u].corr /\ context'[u].client = context[u].client
             /\ context'[u].given = context[u].given
             /\ context'[u].notes \subseteq context[u].notes \cup {RequestOf(t)}
  <2>1. context[u] \in ThreadContext
    BY DEF ContextIInv, ContextTyped
  <2>2. CASE context'[u] = context[u]
    BY <2>1, <2>2
  <2>3. CASE context'[u] = [context[u] EXCEPT !.notes = context[u].notes \cup {RequestOf(t)}]
    BY <1>2, <2>1, <2>3 DEF ThreadContext
  <2>4. QED
    BY <1>1, <2>2, <2>3
<1>5. ContextTyped' /\ ThreadsOwn'
  <2>1. Server \in DOMAIN context' /\ context' \in [DOMAIN context' -> ThreadContext]
    BY <1>1, <1>3, <1>4 DEF ContextIInv, ContextTyped
  <2>2. \A n \in context'[Server].notes : n \in leaving \/ (running # None /\ n = requests)
    BY <1>2, <1>3, <1>4, <2>1 DEF ContextIInv, ThreadsOwn, NotesOwn
  <2>3. QED
    BY <1>1, <1>3, <1>4, <2>1, <2>2, ThreadsKeep DEF ContextIInv
<1>6. ClientsOpen' /\ ResourcesOwed'
  BY <1>1, <1>3, <1>4, ClientsKeep, ResourcesKeep DEF ContextIInv
<1>7. ReplyOwn' /\ NestedOwn'
  BY <1>1 DEF ReplyOwn, NestedOwn
<1>8. QED
  BY <1>5, <1>6, <1>7 DEF ContextIInv

(* What a program assigns are its own notes or none. *)
LEMMA ProgramNotes ==
    ASSUME ContextIInv, NEW t \in Executing, NEW notes \in {{}, {RequestOf(t)}}
    PROVE  /\ notes \in SUBSET Nat
           /\ t = Server => \A n \in notes : n \in leaving \/ (running # None /\ n = requests)
  BY ProgramThread

(* A program assigns its response annotations. *)
LEMMA SetsNotes ==
    ASSUME ContextIInv, NEW t \in Executing, SetNotes(t)
    PROVE  ContextIInv'
<1>1. PICK notes \in {{}, {RequestOf(t)}} : NewDict(t, notes)
  BY DEF SetNotes
<1>2. /\ lastSent' = None
      /\ UNCHANGED <<running, requests, leaving, connection, tracked, unseen, released, owed>>
  BY DEF SetNotes, Uses, ByProgram, SendsNothing, releaseVars
<1>3. /\ t \in DOMAIN context /\ context[t] \in ThreadContext /\ RequestOf(t) \in Nat
      /\ notes \in SUBSET Nat /\ ContextTyped /\ ThreadsOwn
      /\ t = Server => \A n \in notes : n \in leaving \/ (running # None /\ n = requests)
  BY ProgramThread, ProgramNotes DEF ContextIInv
<1> DEFINE s == [context[t] EXCEPT !.made = RequestOf(t), !.notes = notes]
<1>4. context' = [context EXCEPT ![t] = s]
  BY <1>1, <1>3 DEF ContextTyped, NewDict
<1>5. /\ s \in ThreadContext /\ s.client = context[t].client /\ s.corr = context[t].corr
      /\ s.given \subseteq context[t].given /\ s.notes = notes
  BY <1>3 DEF ThreadContext
<1> HIDE DEF s
<1>6. /\ ContextTyped' /\ ThreadsOwn' /\ DOMAIN context' = DOMAIN context
      /\ \A u \in DOMAIN context : context'[u].client = context[u].client
  BY <1>2, <1>3, <1>4, <1>5, ContextKeeps
<1>7. ClientsOpen' /\ ResourcesOwed'
  BY <1>2, <1>6, ClientsKeep, ResourcesKeep DEF ContextIInv
<1>8. ReplyOwn' /\ NestedOwn'
  BY <1>2 DEF ReplyOwn, NestedOwn
<1>9. QED
  BY <1>6, <1>7, <1>8 DEF ContextIInv

(* A method calls another server with the context it has. *)
LEMMA CallsNested ==
    ASSUME ContextIInv, NEW t \in Executing, NestedCall(t)
    PROVE  ContextIInv'
<1>1. PICK notes \in {{}, {RequestOf(t)}} : 
        context' = [context EXCEPT ![t].given = {}, ![t].made = RequestOf(t), ![t].notes = notes]
  BY DEF NestedCall
<1>2. /\ lastSent' = [kind |-> "nested", request |-> RequestOf(t), corr |-> context[t].corr,
                       notes |-> context[t].given]
      /\ UNCHANGED <<running, requests, leaving, connection, tracked, unseen, released, owed>>
  BY DEF NestedCall, ByProgram, releaseVars
<1>3. /\ t \in DOMAIN context /\ context[t] \in ThreadContext /\ RequestOf(t) \in Nat
      /\ notes \in SUBSET Nat /\ ContextTyped /\ ThreadsOwn
      /\ t = Server => \A n \in notes : n \in leaving \/ (running # None /\ n = requests)
  BY ProgramThread, ProgramNotes DEF ContextIInv
<1> DEFINE s == [context[t] EXCEPT !.given = {}, !.made = RequestOf(t), !.notes = notes]
<1>4. context' = [context EXCEPT ![t] = s]
  BY <1>1, <1>3 DEF ContextTyped
<1>5. /\ s \in ThreadContext /\ s.client = context[t].client /\ s.corr = context[t].corr
      /\ s.given \subseteq context[t].given /\ s.notes = notes
  BY <1>3 DEF ThreadContext
<1> HIDE DEF s
<1>6. /\ ContextTyped' /\ ThreadsOwn' /\ DOMAIN context' = DOMAIN context
      /\ \A u \in DOMAIN context : context'[u].client = context[u].client
  BY <1>2, <1>3, <1>4, <1>5, ContextKeeps
<1>7. ClientsOpen' /\ ResourcesOwed'
  BY <1>2, <1>6, ClientsKeep, ResourcesKeep DEF ContextIInv
<1>8. ReplyOwn'
  BY <1>2 DEF ReplyOwn
<1>9. NestedOwn'
  BY <1>2, ProgramThread DEF NestedOwn, ThreadOwn
<1>10. QED
  BY <1>6, <1>7, <1>8, <1>9 DEF ContextIInv

(* A method tracks or untracks a resource on its connection. *)
LEMMA Tracks ==
    ASSUME ContextIInv, NEW t \in Executing, NEW r \in Resource,
           TrackResource(t, r) \/ UntrackResource(t, r)
    PROVE  ContextIInv'
<1>1. PICK c \in Peer : c = context[t].client /\ connection[c] \notin {"new", "gone"}
  BY ProgramThread DEF ThreadOwn, ContextIInv, ClientsOpen
<1>2. /\ lastSent' = None
      /\ UNCHANGED <<context, running, requests, leaving, connection, unseen, released>>
      /\ \/ /\ tracked' = [tracked EXCEPT ![c] = tracked[c] \cup {r}]
            /\ owed' = IF c \in Closing THEN owed ELSE [owed EXCEPT ![c] = owed[c] \cup {r}]
         \/ /\ tracked' = [tracked EXCEPT ![c] = tracked[c] \ {r}]
            /\ owed' = [owed EXCEPT ![c] = owed[c] \ {r}]
  BY <1>1 DEF TrackResource, UntrackResource, Uses, ByProgram, SendsNothing, releaseVars
<1>3. ContextTyped' /\ ThreadsOwn'
  BY <1>2, ThreadsKeep DEF ContextIInv, ContextTyped, ThreadsOwn, NotesOwn
<1>4. ClientsOpen'
  BY <1>2, ClientsKeep DEF ContextIInv
<1>5. ResourcesOwed'
  <2>1. tracked' \in [Peer -> SUBSET Resource] /\ owed' \in [Peer -> SUBSET Resource]
    BY <1>2 DEF ContextIInv, ResourcesOwed
  <2>2. \A d \in Peer : Owing(d)'
    <3>1. \A d \in Peer : d # c => Owing(d)'
      BY <1>2 DEF ContextIInv, ResourcesOwed, Owing
    <3>2. Owing(c)'
      <4>1. Owing(c) /\ (c \in Closing <=> connection[c] = "closing")
        BY DEF ContextIInv, ResourcesOwed, Closing
      <4>2. CASE owed'[c] \subseteq owed[c] /\ owed'[c] \subseteq tracked'[c] \cup released
        BY <1>1, <1>2, <4>1, <4>2 DEF Owing
      <4>3. CASE /\ connection[c] # "closing" /\ tracked'[c] = tracked[c] \cup {r}
                 /\ owed'[c] = owed[c] \cup {r}
        BY <1>1, <1>2, <4>1, <4>3 DEF Owing
      <4>4. QED
        BY <1>1, <1>2, <4>1, <4>2, <4>3 DEF ContextIInv, ResourcesOwed, Owing
    <3>3. QED
      BY <3>1, <3>2
  <2>3. QED
    BY <1>2, <2>1, <2>2 DEF ContextIInv, ResourcesOwed, Closing
<1>6. ReplyOwn' /\ NestedOwn'
  BY <1>2 DEF ReplyOwn, NestedOwn
<1>7. QED
  BY <1>3, <1>4, <1>5, <1>6 DEF ContextIInv

(* Connections are closed. *)
LEMMA Closes ==
    ASSUME ContextIInv, NEW c \in Peer,
           \/ BeginClose(c) \/ CloseFailed(c) \/ Closed(c) \/ Finalise(c)
           \/ \E r \in Resource : CloseResource(c, r)
    PROVE  ContextIInv'
<1>1. /\ lastSent' = None /\ UNCHANGED <<context, running, requests, leaving, owed>>
  BY DEF BeginClose, CloseFailed, Closed, Finalise, CloseResource, SendsNothing, callVars
<1>2. ContextTyped' /\ ThreadsOwn'
  BY <1>1, ThreadsKeep DEF ContextIInv, ContextTyped, ThreadsOwn, NotesOwn
<1>3. /\ connection \in [Peer -> {"new", "open", "closing", "closed", "gone"}]
      /\ tracked \in [Peer -> SUBSET Resource] /\ owed \in [Peer -> SUBSET Resource]
      /\ \A d \in Peer : Owing(d)
      /\ \A d, e \in Peer : connection[d] = "closing" /\ connection[e] = "closing" => d = e
  BY DEF ContextIInv, ResourcesOwed, Closing
<1>4. CASE BeginClose(c)
  <2>1. /\ \A d \in Peer : connection[d] # "closing"
        /\ connection[c] = "open" /\ connection' = [connection EXCEPT ![c] = "closing"]
        /\ unseen' = tracked[c] /\ UNCHANGED <<tracked, released>>
    BY <1>4 DEF BeginClose, Idle, Closing
  <2>2. ClientsOpen'
    BY <1>1, <1>3, <2>1 DEF ContextIInv, ClientsOpen
  <2>3. \A d \in Peer : Owing(d)'
    BY <1>1, <1>3, <2>1 DEF Owing
  <2>4. ResourcesOwed'
    BY <1>1, <1>3, <2>1, <2>3 DEF ResourcesOwed, Closing
  <2>5. QED
    BY <1>1, <1>2, <2>2, <2>4 DEF ContextIInv, ReplyOwn, NestedOwn
<1>5. CASE CloseFailed(c) \/ Closed(c)
  <2>1. /\ connection[c] = "closing" /\ connection' = [connection EXCEPT ![c] = "closed"]
        /\ released' = released
        /\ \/ tracked' = tracked
           \/ unseen = {} /\ tracked' = [tracked EXCEPT ![c] = {}]
    BY <1>5 DEF CloseFailed, Closed, Closing
  <2>2. ClientsOpen'
    BY <1>1, <1>3, <2>1 DEF ContextIInv, ClientsOpen
  <2>3. \A d \in Peer : Owing(d)'
    BY <1>1, <1>3, <2>1 DEF Owing
  <2>4. ResourcesOwed'
    BY <1>1, <1>3, <2>1, <2>3 DEF ResourcesOwed, Closing
  <2>5. QED
    BY <1>1, <1>2, <2>2, <2>4 DEF ContextIInv, ReplyOwn, NestedOwn
<1>6. CASE Finalise(c)
  <2>1. /\ connection[c] = "closed" /\ \A t \in DOMAIN context : context[t].client # c
        /\ connection' = [connection EXCEPT ![c] = "gone"] /\ unseen' = unseen
        /\ released' = released \cup tracked[c] /\ tracked' = [tracked EXCEPT ![c] = {}]
    BY <1>6 DEF Finalise
  <2>2. ClientsOpen'
    BY <1>1, <1>3, <2>1 DEF ContextIInv, ClientsOpen
  <2>3. \A d \in Peer : Owing(d)'
    BY <1>1, <1>3, <2>1 DEF Owing
  <2>4. ResourcesOwed'
    BY <1>1, <1>3, <2>1, <2>3 DEF ResourcesOwed, Closing
  <2>5. QED
    BY <1>1, <1>2, <2>2, <2>4 DEF ContextIInv, ReplyOwn, NestedOwn
<1>7. ASSUME NEW r \in Resource, CloseResource(c, r) PROVE ContextIInv'
  <2>1. /\ connection' = connection /\ tracked' = tracked
        /\ released' = released \cup {r} /\ unseen' = unseen \ {r}
    BY <1>7 DEF CloseResource
  <2>2. ClientsOpen'
    BY <1>1, <2>1, ClientsKeep DEF ContextIInv
  <2>3. \A d \in Peer : Owing(d)'
    BY <1>1, <1>3, <2>1 DEF Owing
  <2>4. ResourcesOwed'
    BY <1>1, <1>3, <2>1, <2>3 DEF ResourcesOwed, Closing
  <2>5. QED
    BY <1>1, <1>2, <2>2, <2>4 DEF ContextIInv, ReplyOwn, NestedOwn
<1>8. QED
  BY <1>4, <1>5, <1>6, <1>7

(* Every step of the call contexts keeps the invariant. *)
LEMMA ContextNextKeeps == ContextIInv /\ [ContextNext]_contextVars => ContextIInv'
<1> SUFFICES ASSUME ContextIInv, [ContextNext]_contextVars PROVE ContextIInv'
  OBVIOUS
<1>1. CASE UNCHANGED contextVars
  <2>1. UNCHANGED <<context, running, requests, leaving, lastSent, connection, tracked,
        unseen, released, owed>>
    BY <1>1 DEF contextVars
  <2>2. ContextTyped' /\ ThreadsOwn'
    BY <2>1, ThreadsKeep DEF ContextIInv, ContextTyped, ThreadsOwn, NotesOwn
  <2>3. ClientsOpen' /\ ResourcesOwed'
    BY <2>1, ClientsKeep, ResourcesKeep DEF ContextIInv
  <2>4. ReplyOwn' /\ NestedOwn'
    BY <2>1 DEF ContextIInv, ReplyOwn, NestedOwn
  <2>5. QED
    BY <2>2, <2>3, <2>4 DEF ContextIInv
<1>2. ASSUME NEW c \in Peer, Handshake(c) \/ Deny(c) \/ Ping(c) PROVE ContextIInv'
  BY <1>2, Greets, Denies
<1>3. ASSUME NEW c \in Peer, InvokeThreaded(c) \/ \E oneway \in BOOLEAN : InvokeMethod(c, oneway)
      PROVE  ContextIInv'
  <2>1. CASE InvokeThreaded(c)
    <3>1. TRUE \in BOOLEAN
      OBVIOUS
    <3>2. QED
      BY <2>1, <3>1, Invokes
  <2>2. QED
    BY <1>3, <2>1, Invokes
<1>4. ASSUME NEW c \in Peer,
             \/ BeginClose(c) \/ CloseFailed(c) \/ Closed(c) \/ Finalise(c)
             \/ \E r \in Resource : CloseResource(c, r)
      PROVE  ContextIInv'
  BY <1>4, Closes
<1>5. CASE Replied \/ Unanswered
  BY <1>5, Replies, GoesUnanswered
<1>6. ASSUME NEW t \in Oneways, EndOneway(t) PROVE ContextIInv'
  BY <1>6, OnewayEnds
<1>7. ASSUME NEW t \in Executing,
             \/ Annotate(t) \/ SetNotes(t) \/ NestedCall(t)
             \/ \E r \in Resource : TrackResource(t, r) \/ UntrackResource(t, r)
      PROVE  ContextIInv'
  BY <1>7, Annotates, SetsNotes, CallsNested, Tracks
<1>8. QED
  BY <1>1, <1>2, <1>3, <1>4, <1>5, <1>6, <1>7 DEF ContextNext

(* ContextInv for any connections, resources and requests. *)
THEOREM ContextsAreOwn == ContextSpec => []ContextInv
<1>1. ContextInit => ContextIInv
  <2> SUFFICES ASSUME ContextInit PROVE ContextIInv
    OBVIOUS
  <2>1. ContextTyped
    BY DEF ContextInit, ContextTyped, ThreadContext, Server
  <2>2. ThreadsOwn /\ ClientsOpen
    BY ContextAssumption DEF ContextInit, ThreadsOwn, Executing, Oneways, NotesOwn,
       ClientsOpen, Server
  <2>3. ResourcesOwed
    BY DEF ContextInit, ResourcesOwed, Owing, Closing
  <2>4. QED
    BY <2>1, <2>2, <2>3 DEF ContextInit, ContextIInv, ReplyOwn, NestedOwn
<1>2. ContextIInv => ContextInv
  BY DEF ContextIInv, ContextInv, ResourcesOwed, Owing, TrackedClosed
<1>3. QED
  BY <1>1, <1>2, ContextNextKeeps, PTL DEF ContextSpec

-----------------------------------------------------------------------------
(* Serialized blobs: BlobMessage. *)

(* A message says what the first blob did, and the proxy whose bytes are   *)
(* in it said truly whether they are compressed.                           *)
MessageTrue(m) ==
    /\ m \in BlobMessages
    /\ m.BLBI.info = original.info /\ m.bytes.data = original.data
    /\ m.flag = m.bytes.compressed /\ {m.serializer, m.bytes.by} \subseteq used

BlobTrue(b) ==
    /\ b = [info |-> b.info, data |-> b.data, message |-> b.message]
    /\ b.info = original.info
    /\ IF b.message = None THEN b.data = original.data ELSE MessageTrue(b.message)

BlobIInv ==
    /\ blob \in [Holder -> {blob[h] : h \in Holder}]
    /\ original # None => original \in Wrapped
    /\ original = None => flying = None /\ taken = None /\ \A h \in Holder : blob[h] = None
    /\ \A h \in Holder : blob[h] # None => BlobTrue(blob[h])
    /\ flying # None => MessageTrue(flying.message)
    /\ used \subseteq BlobSerializer
    /\ taken # None /\ (\E k \in BlobSerializer \ {"json"} : used \subseteq {k}) =>
        taken.value = original.data

(* Neither a blob nor a message is None. *)
LEMMA BlobNone == None \notin Wrapped /\ None \notin BlobMessages
  BY BlobAssumption

(* The first blob is made. *)
LEMMA BlobMade ==
    ASSUME BlobIInv, NEW h \in Holder, NEW info \in BlobInfo, NEW data \in BlobData,
           MakeBlob(h, info, data)
    PROVE  BlobIInv'
<1> DEFINE b == [info |-> info, data |-> data, message |-> None]
<1>1. /\ original = None /\ original' = [info |-> info, data |-> data] /\
         flying = None /\ taken = None
      /\ \A g \in Holder : blob[g] = None
      /\ blob' = [blob EXCEPT ![h] = b] /\ UNCHANGED <<taken, flying, used>>
  BY DEF MakeBlob, BlobIInv
<1>2. original' \in Wrapped
  BY <1>1 DEF Wrapped
<1>3. BlobTrue(b)'
  BY <1>1 DEF BlobTrue
<1>4. /\ blob'[h] = b /\ \A g \in Holder : g # h => blob'[g] = None
      /\ blob' \in [Holder -> {blob'[g] : g \in Holder}]
  BY <1>1 DEF BlobIInv
<1> HIDE DEF b
<1>5. \A g \in Holder : blob'[g] # None => BlobTrue(blob[g])'
  BY <1>3, <1>4
<1>6. QED
  BY <1>1, <1>2, <1>4, <1>5, BlobNone DEF BlobIInv

(* A call takes a blob along: its bytes are made, or those it came with    *)
(* are sent on.                                                            *)
LEMMA BlobCalled ==
    ASSUME BlobIInv, NEW h \in Holder, NEW to \in Holder, NEW k \in BlobSerializer,
           NEW compression \in BOOLEAN, CallWithBlob(h, to, k, compression)
    PROVE  BlobIInv'
<1>b. PICK b : b = blob[h]
  OBVIOUS
<1>m. PICK m : m = BlobMessageOf(b, k, to, compression)
  OBVIOUS
<1>1. /\ b # None /\ flying = None /\ flying' = [to |-> to, message |-> m]
      /\ used' = used \cup {k} /\ UNCHANGED <<blob, taken, original>>
  BY <1>b, <1>m DEF CallWithBlob
<1>2. BlobTrue(b) /\ original \in Wrapped
  BY <1>b, <1>1 DEF BlobIInv
<1>3. m \in BlobMessages /\ MessageTrue(m)'
  <2>1. CASE b.message # None
    <3>1. MessageTrue(b.message)
      BY <1>2, <2>1 DEF BlobTrue
    <3>2. m = [serializer |-> k, flag |-> b.message.flag, bytes |-> b.message.bytes,
               BLBI |-> [info |-> b.info, object |-> to]]
      BY <1>m, <2>1 DEF BlobMessageOf
    <3>3. b.message.flag \in BOOLEAN /\ b.message.bytes \in BlobBytes /\ b.info \in BlobInfo
      BY <1>2, <3>1 DEF MessageTrue, BlobMessages, BlobTrue, Wrapped
    <3>4. m \in BlobMessages
      BY <3>2, <3>3 DEF BlobMessages
    <3>5. QED
      BY <1>1, <1>2, <3>1, <3>2, <3>4 DEF MessageTrue, BlobTrue
  <2>2. CASE b.message = None
    <3>1. b.data = original.data /\ b.info = original.info /\ b.data \in BlobData /\
          b.info \in BlobInfo
      BY <1>2, <2>2 DEF BlobTrue, Wrapped
    <3> DEFINE c == (compression /\ b.data = "long")
    <3>2. m = [serializer |-> k, flag |-> c,
               bytes |-> [by |-> k, object |-> to, data |-> b.data, compressed |-> c],
               BLBI |-> [info |-> b.info, object |-> to]]
      BY <1>m, <2>2 DEF BlobMessageOf, SerializeCall
    <3>3. c \in BOOLEAN
      OBVIOUS
    <3> HIDE DEF c
    <3>4. [by |-> k, object |-> to, data |-> b.data, compressed |-> c] \in BlobBytes
      BY <3>1, <3>3 DEF BlobBytes
    <3>5. m \in BlobMessages
      BY <3>1, <3>2, <3>3, <3>4 DEF BlobMessages
    <3>6. QED
      BY <1>1, <3>1, <3>2, <3>5 DEF MessageTrue
  <2>3. QED
    BY <2>1, <2>2
<1>4. \A g \in Holder : blob'[g] # None => BlobTrue(blob[g])'
  BY <1>1 DEF BlobIInv, BlobTrue, MessageTrue
<1>5. QED
  <2>1. flying'.message = m
    BY <1>1
  <2>2. original' # None
    BY <1>1, <1>2, BlobNone
  <2>3. used' \subseteq BlobSerializer /\ \A j : used' \subseteq {j} => used \subseteq {j}
    BY <1>1 DEF BlobIInv
  <2>4. QED
    BY <1>1, <1>3, <1>4, <2>1, <2>2, <2>3 DEF BlobIInv

(* A message with a blob arrives, or is refused. *)
LEMMA BlobReceived ==
    ASSUME BlobIInv, NEW accepted, ReceiveBlob(accepted)
    PROVE  BlobIInv'
<1>m. PICK m : m = flying.message
  OBVIOUS
<1>1. MessageTrue(m) /\ flying' = None /\ UNCHANGED <<taken, original, used>>
  BY <1>m DEF ReceiveBlob, BlobIInv
<1>2. m.BLBI.object \in Holder /\ m # None /\ original # None
  BY <1>1, BlobNone DEF MessageTrue, BlobMessages, BlobIInv, ReceiveBlob
<1>3. BlobTrue(BlobOf(m))'
  BY <1>1, <1>2 DEF BlobOf, BlobTrue, MessageTrue
<1>4. blob' = blob \/ blob' = [blob EXCEPT ![m.BLBI.object] = BlobOf(m)]
  BY <1>m DEF ReceiveBlob
<1>5. \A g \in Holder : blob'[g] # None => BlobTrue(blob[g])'
  <2>1. \A g \in Holder : blob'[g] = blob[g] \/ blob'[g] = BlobOf(m)
    BY <1>2, <1>4 DEF BlobIInv
  <2>2. \A g \in Holder : blob[g] # None /\ blob'[g] = blob[g] => BlobTrue(blob[g])'
    <3>1. SUFFICES ASSUME NEW g \in Holder, blob[g] # None, blob'[g] = blob[g]
                   PROVE  BlobTrue(blob[g])'
      OBVIOUS
    <3>2. BlobTrue(blob[g])
      BY <3>1 DEF BlobIInv
    <3>3. QED
      BY <1>1, <3>1, <3>2 DEF BlobTrue, MessageTrue
  <2>3. QED
    BY <1>3, <2>1, <2>2
<1>6. blob' \in [Holder -> {blob'[g] : g \in Holder}]
  BY <1>2, <1>4 DEF BlobIInv
<1>7. QED
  BY <1>1, <1>2, <1>5, <1>6 DEF BlobIInv

(* A holder takes the data out of its blob. *)
LEMMA BlobTaken ==
    ASSUME BlobIInv, NEW h \in Holder, TakeData(h)
    PROVE  BlobIInv'
<1> DEFINE b == blob[h]
<1>1. /\ b # None /\ taken' = [of |-> h, value |-> Deserialized(b)] /\ BlobTrue(b)
      /\ original # None /\ UNCHANGED <<blob, flying, original, used>>
  BY DEF TakeData, BlobIInv
<1>2. ASSUME NEW k \in BlobSerializer \ {"json"}, used \subseteq {k}
      PROVE  Deserialized(b) = original.data
  <2>1. CASE b.message = None
    BY <1>1, <2>1 DEF BlobTrue, Deserialized
  <2>2. CASE b.message # None
    <3>1. MessageTrue(b.message)
      BY <1>1, <2>2 DEF BlobTrue
    <3>2. b.message.serializer = k /\ b.message.bytes.by = k
      BY <1>2, <3>1 DEF MessageTrue
    <3>3. QED
      BY <1>2, <2>2, <3>1, <3>2 DEF MessageTrue, Deserialized, Readable
  <2>3. QED
    BY <2>1, <2>2
<1>3. taken'.value = Deserialized(b)
  BY <1>1
<1>4. \A g \in Holder : blob'[g] # None => BlobTrue(blob[g])'
  BY <1>1 DEF BlobIInv, BlobTrue, MessageTrue
<1>5. flying' # None => MessageTrue(flying.message)'
  BY <1>1 DEF BlobIInv, MessageTrue
<1>6. QED
  BY <1>1, <1>2, <1>3, <1>4, <1>5 DEF BlobIInv

(* Every step of the blobs keeps the invariant. *)
LEMMA BlobNextKeeps == BlobIInv /\ [BlobNext]_blobVars => BlobIInv'
<1> SUFFICES ASSUME BlobIInv, [BlobNext]_blobVars PROVE BlobIInv'
  OBVIOUS
<1>1. CASE UNCHANGED blobVars
  <2>1. \A b : BlobTrue(b)' = BlobTrue(b)
    BY <1>1 DEF blobVars, BlobTrue, MessageTrue
  <2>2. (flying # None => MessageTrue(flying.message))' = (flying # None =>
        MessageTrue(flying.message))
    BY <1>1 DEF blobVars, MessageTrue
  <2>3. QED
    BY <1>1, <2>1, <2>2 DEF blobVars, BlobIInv
<1>2. QED
  BY <1>1, BlobMade, BlobCalled, BlobReceived, BlobTaken DEF BlobNext

(* BlobKept for any servers and serializers and any number of hops. *)
THEOREM BlobsAreKept == BlobSpec => []BlobKept
<1>1. BlobInit => BlobIInv
  BY DEF BlobInit, BlobIInv
<1>2. BlobIInv => BlobKept
  BY DEF BlobIInv, BlobKept, BlobTrue
<1>3. QED
  BY <1>1, <1>2, BlobNextKeeps, PTL DEF BlobSpec

-----------------------------------------------------------------------------
(* Programs that serve: Serving. *)

Holding == {"storage", "socket", "cleaner", "bcsocket", "bcthread"}

ServingTyped ==
    /\ prog \in [Program -> ProgramState \cup {None}]
    /\ holds \in [Program -> SUBSET Holding]
    /\ object \in [Program -> BOOLEAN]
    /\ cleaning \in [Program -> {"runs", "asked", "ended"}]

(* What a server and an echo server hold at each step, *)
ServerHolds(x, h) ==
    /\ x.by = None
    /\ x.at \in {"wait", "socket", "register", "name", "loop", "close", "failed", "ended"}
    /\ x.at \in {"wait", "socket", "ended"} => h = {}
    /\ x.at \in {"register", "name", "loop", "close"} => h = {"socket"}
    /\ x.kind = "serveSimple" /\ x.at = "failed" => h = {}

(* and a name server, until its loop, *)
NameServerOpens(x, h) ==
    /\ x.at = "storage" => h = {}
    /\ x.at = "socket" => h = {"storage"}
    /\ x.at \in {"register", "cleaner"} => h = {"storage", "socket"}
    /\ x.at \in {"broadcast", "bcthread", "loop"} => "storage" \in h
    /\ x.setup.with => /\ "bcsocket" \notin h /\ "bcthread" \notin h
                       /\ x.at # "bcthread" /\ x.by = None

(* and after it; with a with statement the socket is closed last. *)
NameServerCloses(x, h) ==
    /\ x.at = "close" => IF x.setup.with THEN "storage" \notin h /\ "cleaner" \notin h
                         ELSE "storage" \in h
    /\ x.at \in {"storageclose", "stop", "join", "bcclose", "ended"} /\ ~x.setup.with =>
            "socket" \notin h
    /\ x.at \in {"stop", "join", "bcclose", "ended"} => "storage" \notin h
    /\ x.at \in {"bcclose", "ended"} => "cleaner" \notin h
    /\ x.at = "bcclose" => ~x.setup.with
    /\ x.at = "ended" => "bcsocket" \notin h /\ "socket" \notin h

NameServerHolds(x, h) ==
    /\ x.setup \in Setup /\ x.at \notin {"wait", "name"}
    /\ NameServerOpens(x, h) /\ NameServerCloses(x, h)

(* A program's state, what it holds, its cleaner, and its object. *)
Right(x, h, c, o) ==
    /\ c = "ended" => "cleaner" \notin h
    /\ x = None => h = {} /\ c = "ended"
    /\ x # None /\ x.kind = "nameserver" => NameServerHolds(x, h)
    /\ x # None /\ x.kind # "nameserver" => ServerHolds(x, h) /\ (x.at = "name" => o)

ProgramsRight == \A p \in Program : Right(prog[p], holds[p], cleaning[p], object[p])

NamesRight ==
    names # None =>
        /\ names \in Program /\ object[names]
        /\ prog[names] # None /\ prog[names].kind # "nameserver"

ServingIInv == ServingTyped /\ ProgramsRight /\ NamesRight

(* None is no program, no setup and no state of a program. *)
LEMMA StatesAreNotNone == None \notin ProgramState /\ None \notin Program /\ None \notin Setup
  BY ServingAssumption

(* The fields of a name server's setup. *)
LEMMA SetupTyped ==
    ASSUME NEW setup \in Setup
    PROVE  setup.with \in BOOLEAN /\ setup.clean \in {"off", "short", "on"}
  BY ServingAssumption

(* The inductive invariant implies the one of the run. *)
LEMMA ServingIInvImplies == ServingIInv => ServingInv
<1> SUFFICES ASSUME ServingIInv PROVE ServingInv
  OBVIOUS
<1>1. EndedReleases
  <2>1. ASSUME NEW p \in Program, prog[p] # None
        PROVE  /\ prog[p].at = "ended" => holds[p] \subseteq {"bcthread"}
               /\ prog[p].kind = "serveSimple" /\ prog[p].at = "failed" => holds[p] = {}
    <3>1. Right(prog[p], holds[p], cleaning[p], object[p]) /\ holds[p] \subseteq Holding
      BY DEF ServingIInv, ServingTyped, ProgramsRight
    <3>2. CASE prog[p].kind = "nameserver"
      <4>1. NameServerCloses(prog[p], holds[p])
        BY <2>1, <3>1, <3>2 DEF Right, NameServerHolds
      <4>2. QED
        BY <3>1, <3>2, <4>1 DEF NameServerCloses, Holding
    <3>3. CASE prog[p].kind # "nameserver"
      BY <2>1, <3>1, <3>3 DEF Right, ServerHolds
    <3>4. QED
      BY <3>2, <3>3
  <2>2. QED
    BY <2>1 DEF EndedReleases
<1>2. NamedIsServed
  <2>1. ASSUME names # None PROVE object[names] /\ ServerHolds(prog[names], holds[names])
    BY <2>1 DEF ServingIInv, NamesRight, ProgramsRight, Right
  <2>2. QED
    BY <2>1 DEF NamedIsServed, ServerHolds
<1>3. QED
  BY <1>1, <1>2 DEF ServingInv

(* A step of one program. *)
OnlyOf(p) ==
    /\ prog' = [prog EXCEPT ![p] = prog'[p]] /\ prog'[p] \in ProgramState
    /\ holds' = [holds EXCEPT ![p] = holds'[p]] /\ holds'[p] \in SUBSET Holding
    /\ cleaning' = [cleaning EXCEPT ![p] = cleaning'[p]]
    /\ cleaning'[p] \in {"runs", "asked", "ended"}
    /\ object' = [object EXCEPT ![p] = object'[p]] /\ object'[p] \in BOOLEAN
    /\ object[p] => object'[p]

(* A step of one program keeps what is right of the others, and of the     *)
(* name unless that is taken off the table.                                *)
LEMMA OneGoesOn ==
    ASSUME ServingIInv, NEW p \in Program, OnlyOf(p),
           Right(prog'[p], holds'[p], cleaning'[p], object'[p]),
           names = p => prog'[p].kind # "nameserver",
           \/ names' = None
           \/ names' = names
           \/ names' = p /\ object'[p] /\ prog'[p].kind # "nameserver"
    PROVE  ServingIInv'
<1>1. /\ prog' \in [Program -> ProgramState \cup {None}]
      /\ \A q \in Program : q # p => prog'[q] = prog[q]
  BY DEF ServingIInv, ServingTyped, OnlyOf
<1>2. /\ holds' \in [Program -> SUBSET Holding]
      /\ \A q \in Program : q # p => holds'[q] = holds[q]
  BY DEF ServingIInv, ServingTyped, OnlyOf
<1>3. /\ cleaning' \in [Program -> {"runs", "asked", "ended"}]
      /\ \A q \in Program : q # p => cleaning'[q] = cleaning[q]
  BY DEF ServingIInv, ServingTyped, OnlyOf
<1>4. /\ object' \in [Program -> BOOLEAN]
      /\ \A q \in Program : q # p => object'[q] = object[q]
  BY DEF ServingIInv, ServingTyped, OnlyOf
<1>5. ServingTyped'
  BY <1>1, <1>2, <1>3, <1>4 DEF ServingTyped
<1>6. ProgramsRight'
  <2>1. ASSUME NEW q \in Program PROVE Right(prog'[q], holds'[q], cleaning'[q], object'[q])
    <3>1. CASE q = p
      BY <3>1
    <3>2. CASE q # p
      BY <1>1, <1>2, <1>3, <1>4, <3>2 DEF ServingIInv, ProgramsRight
    <3>3. QED
      BY <3>1, <3>2
  <2>2. QED
    BY <2>1 DEF ProgramsRight, Right, NameServerHolds, NameServerOpens, NameServerCloses,
       ServerHolds
<1>7. NamesRight'
  <2>1. prog'[p] # None
    BY StatesAreNotNone DEF OnlyOf
  <2>2. CASE names' = p /\ object'[p] /\ prog'[p].kind # "nameserver"
    BY <2>1, <2>2 DEF NamesRight
  <2>3. CASE names' = names /\ names # None
    <3>1. names \in Program /\ object[names] /\ prog[names] # None
          /\ prog[names].kind # "nameserver"
      BY <2>3 DEF ServingIInv, NamesRight
    <3>2. CASE names = p
      BY <2>1, <2>3, <3>1, <3>2 DEF NamesRight, OnlyOf
    <3>3. CASE names # p
      BY <1>1, <1>4, <2>3, <3>1, <3>3 DEF NamesRight
    <3>4. QED
      BY <3>2, <3>3
  <2>4. CASE names' = None
    BY <2>4 DEF NamesRight
  <2>5. QED
    BY <2>2, <2>3, <2>4
<1>8. QED
  BY <1>5, <1>6, <1>7 DEF ServingIInv

(* What is right of a program before its step, *)
LEMMA RightBefore ==
    ASSUME ServingIInv, NEW p \in Program, prog[p] # None
    PROVE  /\ Right(prog[p], holds[p], cleaning[p], object[p])
           /\ prog[p] \in ProgramState /\ prog[p].kind \in ProgramKind
           /\ holds[p] \in SUBSET Holding /\ object[p] \in BOOLEAN
           /\ cleaning[p] \in {"runs", "asked", "ended"}
           /\ prog[p].kind = "nameserver" =>
                /\ prog[p].setup \in Setup /\ prog[p].setup.with \in BOOLEAN
                /\ prog[p].setup.clean \in {"off", "short", "on"}
<1>1. prog[p] \in ProgramState
  BY DEF ServingIInv, ServingTyped
<1>2. prog[p].kind \in ProgramKind
  BY <1>1 DEF ProgramState
<1>3. Right(prog[p], holds[p], cleaning[p], object[p])
  BY DEF ServingIInv, ProgramsRight
<1>4. prog[p].kind = "nameserver" => prog[p].setup \in Setup
  BY <1>3 DEF Right, NameServerHolds
<1>5. QED
  BY <1>1, <1>2, <1>3, <1>4, SetupTyped DEF ServingIInv, ServingTyped

(* and what a step that is not its own leaves alone. *)
LEMMA NothingNew ==
    ASSUME ServingIInv, NEW p \in Program
    PROVE  /\ holds = [holds EXCEPT ![p] = holds[p]] /\ object = [object EXCEPT ![p] = object[p]]
           /\ cleaning = [cleaning EXCEPT ![p] = cleaning[p]]
           /\ prog = [prog EXCEPT ![p] = prog[p]]
  BY DEF ServingIInv, ServingTyped

(* Most steps of a program move it on, and change what it holds, *)
MovesOn(p, at, h, c, o) ==
    /\ prog[p] # None /\ GoTo(p, at) /\ holds' = [holds EXCEPT ![p] = h]
    /\ cleaning' = [cleaning EXCEPT ![p] = c] /\ object' = [object EXCEPT ![p] = o]
    /\ at \in ProgramStep /\ h \in SUBSET Holding /\ c \in {"runs", "asked", "ended"}
    /\ o \in BOOLEAN /\ (object[p] => o)
    /\ names' = None \/ names' = names \/ (names' = p /\ o /\ prog[p].kind # "nameserver")

(* and nothing else of its state. *)
Moved(x, y, at) ==
    /\ y \in ProgramState /\ y # None
    /\ y.at = at /\ y.kind = x.kind /\ y.setup = x.setup /\ y.by = x.by

(* A step of one program to the next place of its code keeps the invariant *)
(* if it is right of whatever state differs from the old one in that place *)
(* only.                                                                   *)
LEMMA Moves ==
    ASSUME ServingIInv, NEW p \in Program, NEW at, NEW h, NEW c, NEW o,
           MovesOn(p, at, h, c, o),
           \A x : Moved(prog[p], x, at) => Right(x, h, c, o)
    PROVE  ServingIInv'
<1>1. PICK x : x = [prog[p] EXCEPT !.at = at]
  OBVIOUS
<1>2. prog[p] \in ProgramState /\ at \in ProgramStep
  BY DEF ServingIInv, ServingTyped, MovesOn
<1>3. /\ x \in ProgramState
      /\ x.at = at /\ x.kind = prog[p].kind /\ x.setup = prog[p].setup /\ x.by = prog[p].by
  BY <1>1, <1>2 DEF ProgramState
<1>4. Right(x, h, c, o)
  BY <1>3, StatesAreNotNone DEF Moved
<1>5. prog' = [prog EXCEPT ![p] = x]
  BY <1>1 DEF MovesOn, GoTo, ServingIInv, ServingTyped
<1>6. prog'[p] = x /\ holds'[p] = h /\ cleaning'[p] = c /\ object'[p] = o
  BY <1>5 DEF MovesOn, ServingIInv, ServingTyped
<1>7. OnlyOf(p)
  BY <1>3, <1>5, <1>6 DEF MovesOn, OnlyOf
<1>8. names = p => x.kind # "nameserver"
  BY <1>3, StatesAreNotNone DEF MovesOn, ServingIInv, NamesRight
<1>9. \/ names' = None
      \/ names' = names
      \/ names' = p /\ object'[p] /\ prog'[p].kind # "nameserver"
  BY <1>3, <1>6 DEF MovesOn
<1>10. QED
  BY <1>4, <1>6, <1>7, <1>8, <1>9, OneGoesOn

(* A program is started. *)
LEMMA RunKeeps ==
    ASSUME ServingIInv, NEW p \in Program, NEW kind \in ProgramKind,
           NEW setup \in Setup \cup {None}, kind = "nameserver" => setup \in Setup,
           RunProgram(p, kind, setup)
    PROVE  ServingIInv'
<1>1. PICK x : x = [kind |-> kind, setup |-> setup, by |-> None, at |-> FirstStep(kind)]
  OBVIOUS
<1>2. /\ x \in ProgramState /\ x.kind = kind /\ x.setup = setup /\ x.by = None
      /\ x.at = FirstStep(kind)
  BY <1>1 DEF ProgramState, FirstStep, ProgramStep
<1>3. prog[p] = None /\ prog' = [prog EXCEPT ![p] = x]
  BY <1>1 DEF RunProgram, Free
<1>4. holds[p] = {} /\ cleaning[p] = "ended" /\ object[p] \in BOOLEAN
  BY <1>3 DEF ServingIInv, ServingTyped, ProgramsRight, Right
<1>5. x # None /\ names # p
  BY <1>2, <1>3, StatesAreNotNone DEF ServingIInv, NamesRight
<1>6. Right(x, {}, "ended", object[p])
  <2>1. CASE kind = "nameserver"
    BY <1>2, <1>5, <2>1 DEF Right, NameServerHolds, NameServerOpens, NameServerCloses, FirstStep
  <2>2. CASE kind # "nameserver"
    BY <1>2, <1>5, <2>2 DEF Right, ServerHolds, FirstStep
  <2>3. QED
    BY <2>1, <2>2
<1>7. /\ prog'[p] = x /\ holds'[p] = {} /\ cleaning'[p] = "ended" /\ object'[p] = object[p]
      /\ prog' = [prog EXCEPT ![p] = prog'[p]] /\ names' = names
  BY <1>3, <1>4 DEF RunProgram, ServingIInv, ServingTyped
<1>8. /\ holds' = [holds EXCEPT ![p] = holds'[p]] /\ object' = [object EXCEPT ![p] = object'[p]]
      /\ cleaning' = [cleaning EXCEPT ![p] = cleaning'[p]]
  BY <1>4, <1>7, NothingNew DEF RunProgram
<1>9. OnlyOf(p)
  BY <1>2, <1>4, <1>7, <1>8 DEF OnlyOf
<1>10. QED
  BY <1>5, <1>6, <1>7, <1>9, OneGoesOn

(* The echo server goes on when its name server is ready. *)
LEMMA StartedKeeps ==
    ASSUME ServingIInv, NEW p \in Program, Started(p)
    PROVE  ServingIInv'
<1>1. prog[p] # None /\ prog[p].at = "wait"
  BY DEF Started, IsAt
<1>2. MovesOn(p, "socket", holds[p], cleaning[p], object[p])
  BY <1>1, RightBefore, NothingNew
     DEF MovesOn, Holding, ProgramStep, Started, IsAt
<1>3. ASSUME NEW x, Moved(prog[p], x, "socket") PROVE Right(x, holds[p], cleaning[p], object[p])
  <2>1. CASE prog[p].kind = "nameserver"
    BY <1>1, <1>3, <2>1, RightBefore
       DEF Moved, Right, NameServerHolds, NameServerOpens, NameServerCloses
  <2>2. CASE prog[p].kind # "nameserver"
    BY <1>1, <1>3, <2>2, RightBefore DEF Moved, Right, ServerHolds, ProgramKind
  <2>3. QED
    BY <2>1, <2>2
<1>4. QED
  BY <1>2, <1>3, Moves

(* A name server opens its storage, *)
LEMMA OpenStorageKeeps ==
    ASSUME ServingIInv, NEW p \in Program, OpenStorage(p)
    PROVE  ServingIInv'
<1>1. prog[p] # None /\ prog[p].at = "storage"
  BY DEF OpenStorage, IsAt, Opens
<1>2. MovesOn(p, "socket", holds[p] \cup {"storage"}, cleaning[p], object[p])
  BY <1>1, RightBefore, NothingNew
     DEF MovesOn, Holding, ProgramStep, OpenStorage, IsAt, Opens
<1>3. ASSUME NEW x, Moved(prog[p], x, "socket")
      PROVE  Right(x, holds[p] \cup {"storage"}, cleaning[p], object[p])
  <2>1. CASE prog[p].kind = "nameserver"
    BY <1>1, <1>3, <2>1, RightBefore
       DEF Moved, Right, NameServerHolds, NameServerOpens, NameServerCloses
  <2>2. CASE prog[p].kind # "nameserver"
    BY <1>1, <1>3, <2>2, RightBefore DEF Moved, Right, ServerHolds, ProgramKind
  <2>3. QED
    BY <2>1, <2>2
<1>4. QED
  BY <1>2, <1>3, Moves

(* A program fails on its way: serveSimple closes a daemon that it has. *)
LEMMA FailsKeeps ==
    ASSUME ServingIInv, NEW p \in Program, prog[p] # None, Fails(p),
           prog[p].at \in {"socket", "cleaner", "broadcast", "name"},
           UNCHANGED <<holds, object, names, cleaning>>
    PROVE  ServingIInv'
<1>0. PICK at \in ProgramStep : at = IF prog[p].kind = "serveSimple" /\
           "socket" \in holds[p] THEN "close" ELSE "failed"
  BY DEF ProgramStep
<1>1. prog[p] # None /\ prog[p].at \in {"socket", "cleaner", "broadcast", "name"}
  BY DEF Fails
<1>2. MovesOn(p, at, holds[p], cleaning[p], object[p])
  BY <1>0, <1>1, RightBefore, NothingNew
     DEF MovesOn, Holding, Fails
<1>3. ASSUME NEW x, Moved(prog[p], x, at) PROVE Right(x, holds[p], cleaning[p], object[p])
  <2>1. CASE prog[p].kind = "nameserver"
    BY <1>0, <1>1, <1>3, <2>1, RightBefore
       DEF Moved, Right, NameServerHolds, NameServerOpens, NameServerCloses
  <2>2. CASE prog[p].kind # "nameserver"
    BY <1>0, <1>1, <1>3, <2>2, RightBefore DEF Moved, Right, ServerHolds, ProgramKind
  <2>3. QED
    BY <2>1, <2>2
<1>4. QED
  BY <1>2, <1>3, Moves

(* A socket is opened on a port that is free; *)
LEMMA OpenSocketKeepsFree ==
    ASSUME ServingIInv, NEW p \in Program, OpenSocket(p), ~PortInUse(p)
    PROVE  ServingIInv'
<1>1. prog[p] # None /\ prog[p].at = "socket"
  BY DEF OpenSocket, IsAt, Opens
<1>2. MovesOn(p, "register", holds[p] \cup {"socket"}, cleaning[p], object[p])
  BY <1>1, RightBefore, NothingNew
     DEF MovesOn, Holding, ProgramStep, OpenSocket, IsAt, Opens
<1>3. ASSUME NEW x, Moved(prog[p], x, "register")
      PROVE  Right(x, holds[p] \cup {"socket"}, cleaning[p], object[p])
  <2>1. CASE prog[p].kind = "nameserver"
    BY <1>1, <1>3, <2>1, RightBefore
       DEF Moved, Right, NameServerHolds, NameServerOpens, NameServerCloses
  <2>2. CASE prog[p].kind # "nameserver"
    BY <1>1, <1>3, <2>2, RightBefore DEF Moved, Right, ServerHolds, ProgramKind
  <2>3. QED
    BY <2>1, <2>2
<1>4. QED
  BY <1>2, <1>3, Moves

(* or that fails. *)
LEMMA OpenSocketKeeps ==
    ASSUME ServingIInv, NEW p \in Program, OpenSocket(p)
    PROVE  ServingIInv'
<1>1. CASE PortInUse(p)
  BY <1>1, FailsKeeps DEF OpenSocket, IsAt
<1>2. CASE ~(PortInUse(p))
  BY <1>2, OpenSocketKeepsFree DEF OpenSocket, IsAt
<1>3. QED
  BY <1>1, <1>2

(* The object is registered in its daemon. *)
LEMMA RegisterServedKeeps ==
    ASSUME ServingIInv, NEW p \in Program, RegisterServed(p)
    PROVE  ServingIInv'
<1>0. PICK at \in ProgramStep : at = IF prog[p].kind = "nameserver" THEN "cleaner" ELSE "name"
  BY DEF ProgramStep
<1>1. prog[p] # None /\ prog[p].at = "register"
  BY DEF RegisterServed, IsAt, AfterRegister
<1>2. MovesOn(p, at, holds[p], cleaning[p], TRUE)
  BY <1>0, <1>1, RightBefore, NothingNew
     DEF MovesOn, Holding, RegisterServed, IsAt, AfterRegister
<1>3. ASSUME NEW x, Moved(prog[p], x, at) PROVE Right(x, holds[p], cleaning[p], TRUE)
  <2>1. CASE prog[p].kind = "nameserver"
    BY <1>0, <1>1, <1>3, <2>1, RightBefore
       DEF Moved, Right, NameServerHolds, NameServerOpens, NameServerCloses
  <2>2. CASE prog[p].kind # "nameserver"
    BY <1>0, <1>1, <1>3, <2>2, RightBefore DEF Moved, Right, ServerHolds, ProgramKind
  <2>3. QED
    BY <2>1, <2>2
<1>4. QED
  BY <1>2, <1>3, Moves

(* There is no cleaner, *)
LEMMA CleanerOffKeeps ==
    ASSUME ServingIInv, NEW p \in Program, StartCleaner(p), prog[p].setup.clean = "off"
    PROVE  ServingIInv'
<1>1. prog[p] # None /\ prog[p].at = "cleaner"
  BY DEF StartCleaner, IsAt
<1>2. MovesOn(p, "broadcast", holds[p], cleaning[p], object[p])
  BY <1>1, RightBefore, NothingNew
     DEF MovesOn, Holding, ProgramStep, StartCleaner, IsAt
<1>3. ASSUME NEW x, Moved(prog[p], x, "broadcast") PROVE Right(x, holds[p], cleaning[p], object[p])
  <2>1. CASE prog[p].kind = "nameserver"
    BY <1>1, <1>3, <2>1, RightBefore
       DEF Moved, Right, NameServerHolds, NameServerOpens, NameServerCloses
  <2>2. CASE prog[p].kind # "nameserver"
    BY <1>1, <1>3, <2>2, RightBefore DEF Moved, Right, ServerHolds, ProgramKind
  <2>3. QED
    BY <2>1, <2>2
<1>4. QED
  BY <1>2, <1>3, Moves

(* or it is started, *)
LEMMA CleanerOnKeeps ==
    ASSUME ServingIInv, NEW p \in Program, StartCleaner(p), prog[p].setup.clean = "on"
    PROVE  ServingIInv'
<1>1. prog[p] # None /\ prog[p].at = "cleaner"
  BY DEF StartCleaner, IsAt, Opens
<1>2. MovesOn(p, "broadcast", holds[p] \cup {"cleaner"}, "runs", object[p])
  BY <1>1, RightBefore, NothingNew
     DEF MovesOn, Holding, ProgramStep, StartCleaner, IsAt, Opens
<1>3. ASSUME NEW x, Moved(prog[p], x, "broadcast")
      PROVE  Right(x, holds[p] \cup {"cleaner"}, "runs", object[p])
  <2>1. CASE prog[p].kind = "nameserver"
    BY <1>1, <1>3, <2>1, RightBefore
       DEF Moved, Right, NameServerHolds, NameServerOpens, NameServerCloses
  <2>2. CASE prog[p].kind # "nameserver"
    BY <1>1, <1>3, <2>2, RightBefore DEF Moved, Right, ServerHolds, ProgramKind
  <2>3. QED
    BY <2>1, <2>2
<1>4. QED
  BY <1>2, <1>3, Moves

(* or its interval is an error. *)
LEMMA StartCleanerKeeps ==
    ASSUME ServingIInv, NEW p \in Program, StartCleaner(p)
    PROVE  ServingIInv'
<1>1. prog[p] # None /\ prog[p].at = "cleaner"
  BY DEF StartCleaner, IsAt
<1>2. prog[p].setup.clean \in {"off", "short", "on"}
  BY <1>1, RightBefore, SetupTyped DEF Right, NameServerHolds, ServerHolds
<1>3. CASE prog[p].setup.clean = "short"
  BY <1>1, <1>3, FailsKeeps DEF StartCleaner
<1>4. QED
  BY <1>2, <1>3, CleanerOffKeeps, CleanerOnKeeps

(* There is no broadcast server, *)
LEMMA NoBroadcastKeeps ==
    ASSUME ServingIInv, NEW p \in Program, prog[p] # None, prog[p].at = "broadcast",
           GoTo(p, "loop"),
           UNCHANGED <<holds, object, names, cleaning>>
    PROVE  ServingIInv'
<1>1. prog[p] # None /\ prog[p].at = "broadcast"
  OBVIOUS
<1>2. MovesOn(p, "loop", holds[p], cleaning[p], object[p])
  BY <1>1, RightBefore, NothingNew
     DEF MovesOn, Holding, ProgramStep
<1>3. ASSUME NEW x, Moved(prog[p], x, "loop") PROVE Right(x, holds[p], cleaning[p], object[p])
  <2>1. CASE prog[p].kind = "nameserver"
    BY <1>1, <1>3, <2>1, RightBefore
       DEF Moved, Right, NameServerHolds, NameServerOpens, NameServerCloses
  <2>2. CASE prog[p].kind # "nameserver"
    BY <1>1, <1>3, <2>2, RightBefore DEF Moved, Right, ServerHolds, ProgramKind
  <2>3. QED
    BY <2>1, <2>2
<1>4. QED
  BY <1>2, <1>3, Moves

(* or its socket is opened, never in a with statement, *)
LEMMA BroadcastKeeps ==
    ASSUME ServingIInv, NEW p \in Program, prog[p] # None, prog[p].at = "broadcast",
           Broadcasts(p), Opens(p, "bcsocket", "bcthread"), UNCHANGED <<object, names, cleaning>>
    PROVE  ServingIInv'
<1>1. prog[p] # None /\ prog[p].at = "broadcast" /\ (prog[p].setup.with = FALSE)
  BY DEF Opens, Broadcasts
<1>2. MovesOn(p, "bcthread", holds[p] \cup {"bcsocket"}, cleaning[p], object[p])
  BY <1>1, RightBefore, NothingNew
     DEF MovesOn, Holding, ProgramStep, Opens, Broadcasts
<1>3. ASSUME NEW x, Moved(prog[p], x, "bcthread")
      PROVE  Right(x, holds[p] \cup {"bcsocket"}, cleaning[p], object[p])
  <2>1. CASE prog[p].kind = "nameserver"
    BY <1>1, <1>3, <2>1, RightBefore
       DEF Moved, Right, NameServerHolds, NameServerOpens, NameServerCloses
  <2>2. CASE prog[p].kind # "nameserver"
    BY <1>1, <1>3, <2>2, RightBefore DEF Moved, Right, ServerHolds, ProgramKind
  <2>3. QED
    BY <2>1, <2>2
<1>4. QED
  BY <1>2, <1>3, Moves

(* or that fails. *)
LEMMA StartBroadcastKeeps ==
    ASSUME ServingIInv, NEW p \in Program, StartBroadcast(p)
    PROVE  ServingIInv'
<1>1. prog[p] # None /\ prog[p].at = "broadcast" /\ UNCHANGED <<object, names, cleaning>>
  BY DEF StartBroadcast, IsAt
<1>2. CASE GoTo(p, "loop") /\ UNCHANGED holds
  BY <1>1, <1>2, NoBroadcastKeeps
<1>3. CASE Broadcasts(p) /\ Opens(p, "bcsocket", "bcthread")
  BY <1>1, <1>3, BroadcastKeeps
<1>4. CASE Fails(p) /\ UNCHANGED holds
  BY <1>1, <1>4, FailsKeeps
<1>5. QED
  BY <1>2, <1>3, <1>4 DEF StartBroadcast

(* The broadcast server runs in a thread. *)
LEMMA RunInThreadKeeps ==
    ASSUME ServingIInv, NEW p \in Program, RunInThread(p)
    PROVE  ServingIInv'
<1>1. prog[p] # None /\ prog[p].at = "bcthread"
  BY DEF RunInThread, IsAt, Opens
<1>2. MovesOn(p, "loop", holds[p] \cup {"bcthread"}, cleaning[p], object[p])
  BY <1>1, RightBefore, NothingNew
     DEF MovesOn, Holding, ProgramStep, RunInThread, IsAt, Opens
<1>3. ASSUME NEW x, Moved(prog[p], x, "loop")
      PROVE  Right(x, holds[p] \cup {"bcthread"}, cleaning[p], object[p])
  <2>1. CASE prog[p].kind = "nameserver"
    BY <1>1, <1>3, <2>1, RightBefore
       DEF Moved, Right, NameServerHolds, NameServerOpens, NameServerCloses
  <2>2. CASE prog[p].kind # "nameserver"
    BY <1>1, <1>3, <2>2, RightBefore DEF Moved, Right, ServerHolds, ProgramKind
  <2>3. QED
    BY <2>1, <2>2
<1>4. QED
  BY <1>2, <1>3, Moves

(* The name server is told the name of an object that is registered, *)
LEMMA ToldKeeps ==
    ASSUME ServingIInv, NEW p \in Program, prog[p] # None, prog[p].at = "name", GoTo(p, "loop"),
           names' = p, UNCHANGED <<holds, object, cleaning>>
    PROVE  ServingIInv'
<1>1. prog[p] # None /\ prog[p].at = "name"
  OBVIOUS
<1>2. MovesOn(p, "loop", holds[p], cleaning[p], object[p])
  BY <1>1, RightBefore, NothingNew
     DEF MovesOn, Holding, ProgramStep, Right, ServerHolds, NameServerHolds
<1>3. ASSUME NEW x, Moved(prog[p], x, "loop") PROVE Right(x, holds[p], cleaning[p], object[p])
  <2>1. CASE prog[p].kind = "nameserver"
    BY <1>1, <1>3, <2>1, RightBefore
       DEF Moved, Right, NameServerHolds, NameServerOpens, NameServerCloses
  <2>2. CASE prog[p].kind # "nameserver"
    BY <1>1, <1>3, <2>2, RightBefore DEF Moved, Right, ServerHolds, ProgramKind
  <2>3. QED
    BY <2>1, <2>2
<1>4. QED
  BY <1>2, <1>3, Moves

(* or not, by option, *)
LEMMA NotToldKeeps ==
    ASSUME ServingIInv, NEW p \in Program, prog[p] # None, prog[p].at = "name", TellNobody(p)
    PROVE  ServingIInv'
<1>1. prog[p] # None /\ prog[p].at = "name"
  BY DEF TellNobody
<1>2. MovesOn(p, "loop", holds[p], cleaning[p], object[p])
  BY <1>1, RightBefore, NothingNew
     DEF MovesOn, Holding, ProgramStep, TellNobody
<1>3. ASSUME NEW x, Moved(prog[p], x, "loop") PROVE Right(x, holds[p], cleaning[p], object[p])
  <2>1. CASE prog[p].kind = "nameserver"
    BY <1>1, <1>3, <2>1, RightBefore
       DEF Moved, Right, NameServerHolds, NameServerOpens, NameServerCloses
  <2>2. CASE prog[p].kind # "nameserver"
    BY <1>1, <1>3, <2>2, RightBefore DEF Moved, Right, ServerHolds, ProgramKind
  <2>3. QED
    BY <2>1, <2>2
<1>4. QED
  BY <1>2, <1>3, Moves

(* or cannot be found. *)
LEMMA TellNameKeeps ==
    ASSUME ServingIInv, NEW p \in Program, prog[p] # None, prog[p].at = "name", TellName(p)
    PROVE  ServingIInv'
<1>1. CASE names' = p /\ GoTo(p, "loop")
  BY <1>1, ToldKeeps DEF TellName
<1>2. CASE Fails(p) /\ UNCHANGED names
  BY <1>2, FailsKeeps DEF TellName
<1>3. QED
  BY <1>1, <1>2 DEF TellName

(* In serveSimple and in the echo server. *)
LEMMA RegisterNameKeeps ==
    ASSUME ServingIInv, NEW p \in Program, RegisterName(p) \/ RegisterEcho(p)
    PROVE  ServingIInv'
<1>1. prog[p] # None /\ prog[p].at = "name" /\ (TellName(p) \/ TellNobody(p))
  BY DEF RegisterName, RegisterEcho, IsAt
<1>2. QED
  BY <1>1, TellNameKeeps, NotToldKeeps

(* The loop ends: of a name server, *)
LEMMA LeaveNsLoopKeeps ==
    ASSUME ServingIInv, NEW p \in Program, LeaveNsLoop(p)
    PROVE  ServingIInv'
<1>1. prog[p] # None /\ prog[p].at = "loop" /\ prog[p].kind = "nameserver" /\ ~prog[p].setup.with
  BY DEF LeaveNsLoop, IsNsLoop, NameServers, IsAt, LeaveLoop
<1>2. MovesOn(p, "close", holds[p], cleaning[p], object[p])
  BY <1>1, RightBefore, NothingNew
     DEF MovesOn, Holding, ProgramStep, LeaveNsLoop, IsNsLoop, NameServers, IsAt, LeaveLoop
<1>3. ASSUME NEW x, Moved(prog[p], x, "close") PROVE Right(x, holds[p], cleaning[p], object[p])
  <2>1. CASE prog[p].kind = "nameserver"
    BY <1>1, <1>3, <2>1, RightBefore
       DEF Moved, Right, NameServerHolds, NameServerOpens, NameServerCloses
  <2>2. CASE prog[p].kind # "nameserver"
    BY <1>1, <1>3, <2>2, RightBefore DEF Moved, Right, ServerHolds, ProgramKind
  <2>3. QED
    BY <2>1, <2>2
<1>4. QED
  BY <1>2, <1>3, Moves

(* of one in a with statement, *)
LEMMA LeaveWithKeeps ==
    ASSUME ServingIInv, NEW p \in Program, LeaveWith(p)
    PROVE  ServingIInv'
<1>1. prog[p] # None /\ prog[p].at = "loop" /\ prog[p].kind = "nameserver" /\ prog[p].setup.with
  BY DEF LeaveWith, IsNsLoop, NameServers, IsAt, LeaveLoop
<1>2. MovesOn(p, "storageclose", holds[p], cleaning[p], object[p])
  BY <1>1, RightBefore, NothingNew
     DEF MovesOn, Holding, ProgramStep, LeaveWith, IsNsLoop, NameServers, IsAt, LeaveLoop
<1>3. ASSUME NEW x, Moved(prog[p], x, "storageclose")
      PROVE  Right(x, holds[p], cleaning[p], object[p])
  <2>1. CASE prog[p].kind = "nameserver"
    BY <1>1, <1>3, <2>1, RightBefore
       DEF Moved, Right, NameServerHolds, NameServerOpens, NameServerCloses
  <2>2. CASE prog[p].kind # "nameserver"
    BY <1>1, <1>3, <2>2, RightBefore DEF Moved, Right, ServerHolds, ProgramKind
  <2>3. QED
    BY <2>1, <2>2
<1>4. QED
  BY <1>2, <1>3, Moves

(* of serveSimple, *)
LEMMA LeaveServerKeeps ==
    ASSUME ServingIInv, NEW p \in Program, LeaveServer(p)
    PROVE  ServingIInv'
<1>1. prog[p] # None /\ prog[p].at = "loop" /\ prog[p].kind = "serveSimple"
  BY DEF LeaveServer, IsAt, LeaveLoop
<1>2. MovesOn(p, "close", holds[p], cleaning[p], object[p])
  BY <1>1, RightBefore, NothingNew
     DEF MovesOn, Holding, ProgramStep, LeaveServer, IsAt, LeaveLoop
<1>3. ASSUME NEW x, Moved(prog[p], x, "close") PROVE Right(x, holds[p], cleaning[p], object[p])
  <2>1. CASE prog[p].kind = "nameserver"
    BY <1>1, <1>3, <2>1, RightBefore
       DEF Moved, Right, NameServerHolds, NameServerOpens, NameServerCloses
  <2>2. CASE prog[p].kind # "nameserver"
    BY <1>1, <1>3, <2>2, RightBefore DEF Moved, Right, ServerHolds, ProgramKind
  <2>3. QED
    BY <2>1, <2>2
<1>4. QED
  BY <1>2, <1>3, Moves

(* of the echo server, in order or not, *)
LEMMA LeaveEchoLoopKeeps ==
    ASSUME ServingIInv, NEW p \in Program, NEW raised \in BOOLEAN, LeaveEchoLoop(p, raised)
    PROVE  ServingIInv'
<1>0. PICK at \in ProgramStep : at = IF raised THEN "failed" ELSE "close"
  BY DEF ProgramStep
<1>1. prog[p] # None /\ prog[p].at = "loop" /\ prog[p].kind = "echoserver"
  BY DEF LeaveEchoLoop, IsAt, LeaveLoop
<1>2. MovesOn(p, at, holds[p], cleaning[p], object[p])
  BY <1>0, <1>1, RightBefore, NothingNew
     DEF MovesOn, Holding, LeaveEchoLoop, IsAt, LeaveLoop
<1>3. ASSUME NEW x, Moved(prog[p], x, at) PROVE Right(x, holds[p], cleaning[p], object[p])
  <2>1. CASE prog[p].kind = "nameserver"
    BY <1>0, <1>1, <1>3, <2>1, RightBefore
       DEF Moved, Right, NameServerHolds, NameServerOpens, NameServerCloses
  <2>2. CASE prog[p].kind # "nameserver"
    BY <1>0, <1>1, <1>3, <2>2, RightBefore DEF Moved, Right, ServerHolds, ProgramKind
  <2>3. QED
    BY <2>1, <2>2
<1>4. QED
  BY <1>2, <1>3, Moves

(* and of its name server in a thread. *)
LEMMA LeaveThreadLoopKeeps ==
    ASSUME ServingIInv, NEW p \in Program, LeaveThreadLoop(p)
    PROVE  ServingIInv'
<1>1. prog[p] # None /\ prog[p].at = "loop" /\ prog[p].by # None
  BY DEF LeaveThreadLoop, IsAt, LeaveLoop
<1>2. MovesOn(p, "failed", holds[p], cleaning[p], object[p])
  BY <1>1, RightBefore, NothingNew
     DEF MovesOn, Holding, ProgramStep, LeaveThreadLoop, IsAt, LeaveLoop
<1>3. ASSUME NEW x, Moved(prog[p], x, "failed") PROVE Right(x, holds[p], cleaning[p], object[p])
  <2>1. CASE prog[p].kind = "nameserver"
    BY <1>1, <1>3, <2>1, RightBefore
       DEF Moved, Right, NameServerHolds, NameServerOpens, NameServerCloses
  <2>2. CASE prog[p].kind # "nameserver"
    BY <1>1, <1>3, <2>2, RightBefore DEF Moved, Right, ServerHolds, ProgramKind
  <2>3. QED
    BY <2>1, <2>2
<1>4. QED
  BY <1>2, <1>3, Moves

(* A daemon closes its socket. *)
LEMMA CloseAllKeeps ==
    ASSUME ServingIInv, NEW p \in Program, CloseAll(p)
    PROVE  ServingIInv'
<1>0. PICK at \in ProgramStep : at = IF "storage" \in holds[p] THEN "storageclose" ELSE "ended"
  BY DEF ProgramStep
<1>1. prog[p] # None /\ prog[p].at = "close"
  BY DEF CloseAll, IsAt
<1>2. MovesOn(p, at, holds[p] \ {"socket"}, cleaning[p], object[p])
  BY <1>0, <1>1, RightBefore, NothingNew
     DEF MovesOn, Holding, CloseAll, IsAt
<1>3. ASSUME NEW x, Moved(prog[p], x, at)
      PROVE  Right(x, holds[p] \ {"socket"}, cleaning[p], object[p])
  <2>1. CASE prog[p].kind = "nameserver"
    BY <1>0, <1>1, <1>3, <2>1, RightBefore
       DEF Moved, Right, NameServerHolds, NameServerOpens, NameServerCloses
  <2>2. CASE prog[p].kind # "nameserver"
    BY <1>0, <1>1, <1>3, <2>2, RightBefore DEF Moved, Right, ServerHolds, ProgramKind
  <2>3. QED
    BY <2>1, <2>2
<1>4. QED
  BY <1>2, <1>3, Moves

(* A name server closes its storage, and the names are gone. *)
LEMMA CloseStorageKeeps ==
    ASSUME ServingIInv, NEW p \in Program, CloseStorage(p)
    PROVE  ServingIInv'
<1>0. PICK at \in ProgramStep : at = IF "cleaner" \in holds[p] THEN "stop"
          ELSE IF prog[p].setup.with THEN "close" ELSE "bcclose"
  BY DEF ProgramStep
<1>1. prog[p] # None /\ prog[p].at = "storageclose"
  BY DEF CloseStorage, Afterwards, IsAt
<1>2. MovesOn(p, at, holds[p] \ {"storage"}, cleaning[p], object[p])
  BY <1>0, <1>1, RightBefore, NothingNew
     DEF MovesOn, Holding, CloseStorage, Afterwards, IsAt
<1>3. ASSUME NEW x, Moved(prog[p], x, at)
      PROVE  Right(x, holds[p] \ {"storage"}, cleaning[p], object[p])
  <2>1. CASE prog[p].kind = "nameserver"
    BY <1>0, <1>1, <1>3, <2>1, RightBefore
       DEF Moved, Right, NameServerHolds, NameServerOpens, NameServerCloses
  <2>2. CASE prog[p].kind # "nameserver"
    BY <1>0, <1>1, <1>3, <2>2, RightBefore DEF Moved, Right, ServerHolds, ProgramKind
  <2>3. QED
    BY <2>1, <2>2
<1>4. QED
  BY <1>2, <1>3, Moves

(* It asks its cleaner to stop *)
LEMMA StopCleanerKeeps ==
    ASSUME ServingIInv, NEW p \in Program, StopCleaner(p)
    PROVE  ServingIInv'
<1>1. prog[p] # None /\ prog[p].at = "stop"
  BY DEF StopCleaner, IsAt
<1>2. MovesOn(p, "join", holds[p], "asked", object[p])
  BY <1>1, RightBefore, NothingNew
     DEF MovesOn, Holding, ProgramStep, StopCleaner, IsAt
<1>3. ASSUME NEW x, Moved(prog[p], x, "join") PROVE Right(x, holds[p], "asked", object[p])
  <2>1. CASE prog[p].kind = "nameserver"
    BY <1>1, <1>3, <2>1, RightBefore
       DEF Moved, Right, NameServerHolds, NameServerOpens, NameServerCloses
  <2>2. CASE prog[p].kind # "nameserver"
    BY <1>1, <1>3, <2>2, RightBefore DEF Moved, Right, ServerHolds, ProgramKind
  <2>3. QED
    BY <2>1, <2>2
<1>4. QED
  BY <1>2, <1>3, Moves

(* and waits for its end. *)
LEMMA JoinCleanerKeeps ==
    ASSUME ServingIInv, NEW p \in Program, JoinCleaner(p)
    PROVE  ServingIInv'
<1>0. PICK at \in ProgramStep : at = IF prog[p].setup.with THEN "close" ELSE "bcclose"
  BY DEF ProgramStep
<1>1. prog[p] # None /\ prog[p].at = "join" /\ cleaning[p] = "ended"
  BY DEF JoinCleaner, Afterwards, IsAt
<1>2. MovesOn(p, at, holds[p], cleaning[p], object[p])
  BY <1>0, <1>1, RightBefore, NothingNew
     DEF MovesOn, Holding, JoinCleaner, Afterwards, IsAt
<1>3. ASSUME NEW x, Moved(prog[p], x, at) PROVE Right(x, holds[p], cleaning[p], object[p])
  <2>1. CASE prog[p].kind = "nameserver"
    BY <1>0, <1>1, <1>3, <2>1, RightBefore
       DEF Moved, Right, NameServerHolds, NameServerOpens, NameServerCloses
  <2>2. CASE prog[p].kind # "nameserver"
    BY <1>0, <1>1, <1>3, <2>2, RightBefore DEF Moved, Right, ServerHolds, ProgramKind
  <2>3. QED
    BY <2>1, <2>2
<1>4. QED
  BY <1>2, <1>3, Moves

(* It closes the broadcast server. *)
LEMMA CloseBroadcasterKeeps ==
    ASSUME ServingIInv, NEW p \in Program, CloseBroadcaster(p)
    PROVE  ServingIInv'
<1>1. prog[p] # None /\ prog[p].at = "bcclose"
  BY DEF CloseBroadcaster, IsAt
<1>2. MovesOn(p, "ended", holds[p] \ {"bcsocket"}, cleaning[p], object[p])
  BY <1>1, RightBefore, NothingNew
     DEF MovesOn, Holding, ProgramStep, CloseBroadcaster, IsAt
<1>3. ASSUME NEW x, Moved(prog[p], x, "ended")
      PROVE  Right(x, holds[p] \ {"bcsocket"}, cleaning[p], object[p])
  <2>1. CASE prog[p].kind = "nameserver"
    BY <1>1, <1>3, <2>1, RightBefore
       DEF Moved, Right, NameServerHolds, NameServerOpens, NameServerCloses
  <2>2. CASE prog[p].kind # "nameserver"
    BY <1>1, <1>3, <2>2, RightBefore DEF Moved, Right, ServerHolds, ProgramKind
  <2>3. QED
    BY <2>1, <2>2
<1>4. QED
  BY <1>2, <1>3, Moves

(* The cleaner ends when it was asked to. *)
LEMMA CleanerEndsKeeps ==
    ASSUME ServingIInv, NEW p \in Program, CleanerEnds(p)
    PROVE  ServingIInv'
<1>1. /\ holds' = [holds EXCEPT ![p] = holds[p] \ {"cleaner"}] /\ cleaning[p] = "asked"
      /\ prog' = prog /\ object' = object /\ names' = names
  BY DEF CleanerEnds
<1>2. prog[p] # None
  BY <1>1 DEF ServingIInv, ServingTyped, ProgramsRight, Right
<1>3. /\ Right(prog[p], holds[p], cleaning[p], object[p]) /\ prog[p].kind \in ProgramKind
      /\ prog[p] \in ProgramState /\ holds[p] \ {"cleaner"} \in SUBSET Holding
      /\ cleaning[p] \in {"runs", "asked", "ended"} /\ object[p] \in BOOLEAN
  BY <1>2, RightBefore DEF Holding
<1>4. cleaning' = [cleaning EXCEPT ![p] = "ended"]
  BY NothingNew DEF CleanerEnds
<1>5. /\ prog'[p] = prog[p] /\ holds'[p] = holds[p] \ {"cleaner"} /\ cleaning'[p] = "ended"
      /\ object'[p] = object[p]
  BY <1>1, <1>4 DEF ServingIInv, ServingTyped
<1>6. OnlyOf(p)
  BY <1>1, <1>3, <1>4, <1>5, NothingNew DEF OnlyOf
<1>7. names = p => prog'[p].kind # "nameserver"
  BY <1>5, StatesAreNotNone DEF ServingIInv, NamesRight
<1>8. Right(prog[p], holds[p] \ {"cleaner"}, "ended", object[p])
  <2>1. CASE prog[p].kind = "nameserver"
    <3>1. NameServerHolds(prog[p], holds[p]) /\ (cleaning[p] = "ended" => "cleaner" \notin holds[p])
      BY <1>2, <1>3, <2>1 DEF Right
    <3>2. NameServerHolds(prog[p], holds[p] \ {"cleaner"})
      BY <1>1, <3>1 DEF NameServerHolds, NameServerOpens, NameServerCloses
    <3>3. QED
      BY <1>2, <2>1, <3>1, <3>2 DEF Right
  <2>2. CASE prog[p].kind # "nameserver"
    BY <1>1, <1>2, <1>3, <2>2 DEF Right, ServerHolds
  <2>3. QED
    BY <2>1, <2>2
<1>9. QED
  BY <1>1, <1>5, <1>6, <1>7, <1>8, OneGoesOn

(* The broadcast server's thread ends when its socket is closed. *)
LEMMA BroadcastThreadEndsKeeps ==
    ASSUME ServingIInv, NEW p \in Program, BroadcastThreadEnds(p)
    PROVE  ServingIInv'
<1>1. /\ holds' = [holds EXCEPT ![p] = holds[p] \ {"bcthread"}] /\ "bcthread" \in holds[p]
      /\ prog' = prog /\ object' = object /\ names' = names
  BY DEF BroadcastThreadEnds
<1>2. prog[p] # None
  BY <1>1 DEF ServingIInv, ServingTyped, ProgramsRight, Right
<1>3. /\ Right(prog[p], holds[p], cleaning[p], object[p]) /\ prog[p].kind \in ProgramKind
      /\ prog[p] \in ProgramState /\ holds[p] \ {"bcthread"} \in SUBSET Holding
      /\ cleaning[p] \in {"runs", "asked", "ended"} /\ object[p] \in BOOLEAN
  BY <1>2, RightBefore DEF Holding
<1>4. cleaning' = [cleaning EXCEPT ![p] = cleaning[p]]
  BY NothingNew DEF BroadcastThreadEnds
<1>5. /\ prog'[p] = prog[p] /\ holds'[p] = holds[p] \ {"bcthread"} /\ cleaning'[p] = cleaning[p]
      /\ object'[p] = object[p]
  BY <1>1, <1>4 DEF ServingIInv, ServingTyped
<1>6. OnlyOf(p)
  BY <1>1, <1>3, <1>4, <1>5, NothingNew DEF OnlyOf
<1>7. names = p => prog'[p].kind # "nameserver"
  BY <1>5, StatesAreNotNone DEF ServingIInv, NamesRight
<1>8. Right(prog[p], holds[p] \ {"bcthread"}, cleaning[p], object[p])
  <2>1. CASE prog[p].kind = "nameserver"
    <3>1. NameServerHolds(prog[p], holds[p]) /\ (cleaning[p] = "ended" => "cleaner" \notin holds[p])
      BY <1>2, <1>3, <2>1 DEF Right
    <3>2. NameServerHolds(prog[p], holds[p] \ {"bcthread"})
      BY <1>1, <3>1 DEF NameServerHolds, NameServerOpens, NameServerCloses
    <3>3. QED
      BY <1>2, <2>1, <3>1, <3>2 DEF Right
  <2>2. CASE prog[p].kind # "nameserver"
    BY <1>1, <1>2, <1>3, <2>2 DEF Right, ServerHolds
  <2>3. QED
    BY <2>1, <2>2
<1>9. QED
  BY <1>1, <1>5, <1>6, <1>7, <1>8, OneGoesOn

(* An echo server and its own name server are run at once. *)
LEMMA RunBothKeeps ==
    ASSUME ServingIInv, NEW p \in Program, NEW q \in Program, NEW setup \in Setup,
           RunWithNameServer(p, q, setup)
    PROVE  ServingIInv'
<1>1. PICK x : x = [kind |-> "echoserver", setup |-> None, by |-> None, at |-> "wait"]
  OBVIOUS
<1>2. PICK y : y = [kind |-> "nameserver", setup |-> setup, by |-> p, at |-> "storage"]
  OBVIOUS
<1>3. x \in ProgramState /\ x.kind = "echoserver" /\ x.by = None /\ x.at = "wait"
  BY <1>1 DEF ProgramState, ProgramKind, ProgramStep
<1>4. y \in ProgramState /\ y.kind = "nameserver" /\ y.setup = setup /\ y.at = "storage"
  BY <1>2 DEF ProgramState, ProgramKind, ProgramStep
<1>5. /\ p # q /\ prog[p] = None /\ prog[q] = None /\ ~setup.with
      /\ prog' = [prog EXCEPT ![p] = x, ![q] = y] /\ UNCHANGED <<holds, object, names, cleaning>>
  BY <1>1, <1>2 DEF RunWithNameServer, Free
<1>6. /\ prog' \in [Program -> ProgramState \cup {None}] /\ prog'[p] = x /\ prog'[q] = y
      /\ \A r \in Program : r # p /\ r # q => prog'[r] = prog[r]
  BY <1>3, <1>4, <1>5 DEF ServingIInv, ServingTyped
<1>7. x # None /\ y # None
  BY <1>3, <1>4, StatesAreNotNone
<1>8. ServingTyped'
  BY <1>5, <1>6 DEF ServingIInv, ServingTyped
<1>9. ProgramsRight'
  <2>1. ASSUME NEW r \in Program PROVE Right(prog'[r], holds'[r], cleaning'[r], object'[r])
    <3>1. Right(prog[r], holds[r], cleaning[r], object[r])
      BY DEF ServingIInv, ProgramsRight
    <3>2. CASE r = p
      BY <1>3, <1>5, <1>6, <1>7, <3>1, <3>2 DEF Right, ServerHolds
    <3>3. CASE r = q
      BY <1>4, <1>5, <1>6, <1>7, <3>1, <3>3
         DEF Right, NameServerHolds, NameServerOpens, NameServerCloses
    <3>4. CASE r # p /\ r # q
      BY <1>5, <1>6, <3>1, <3>4
    <3>5. QED
      BY <3>2, <3>3, <3>4
  <2>2. QED
    BY <1>5, <2>1
       DEF ProgramsRight, Right, NameServerHolds, NameServerOpens, NameServerCloses, ServerHolds
<1>10. NamesRight'
  BY <1>5, <1>6 DEF ServingIInv, NamesRight
<1>11. QED
  BY <1>8, <1>9, <1>10 DEF ServingIInv

(* Every step of the programs keeps the invariant. *)
LEMMA ServingNextKeeps == ServingIInv /\ [ServingNext]_servingVars => ServingIInv'
<1>1. ASSUME ServingIInv, ServingNext PROVE ServingIInv'
  <2>1. PICK p \in Program :
        \/ RunServer(p) \/ RunEchoServer(p) \/ \E setup \in Setup : RunNameServer(p, setup)
        \/ \E q \in Program, setup \in Setup : RunWithNameServer(p, q, setup)
        \/ Started(p) \/ OpenStorage(p) \/ OpenSocket(p) \/ RegisterServed(p) \/ StartCleaner(p)
        \/ StartBroadcast(p) \/ RunInThread(p) \/ RegisterName(p)
        \/ RegisterEcho(p) \/ LeaveNsLoop(p) \/ LeaveWith(p) \/ LeaveServer(p) \/ LeaveThreadLoop(p)
        \/ \E raised \in BOOLEAN : LeaveEchoLoop(p, raised)
        \/ CloseAll(p) \/ CloseStorage(p) \/ StopCleaner(p) \/ CleanerEnds(p) \/ JoinCleaner(p)
        \/ CloseBroadcaster(p) \/ BroadcastThreadEnds(p)
    BY <1>1 DEF ServingNext
  <2>2. CASE RunServer(p) \/ RunEchoServer(p)
    BY <1>1, <2>2, RunKeeps DEF RunServer, RunEchoServer, ProgramKind
  <2>3. CASE \E setup \in Setup : RunNameServer(p, setup)
    BY <1>1, <2>3, RunKeeps DEF RunNameServer, ProgramKind
  <2>4. CASE \E q \in Program, setup \in Setup : RunWithNameServer(p, q, setup)
    BY <1>1, <2>4, RunBothKeeps
  <2>5. CASE Started(p) \/ OpenStorage(p) \/ OpenSocket(p) \/ RegisterServed(p) \/ StartCleaner(p)
    BY <1>1, <2>5, StartedKeeps, OpenStorageKeeps, OpenSocketKeeps, RegisterServedKeeps,
       StartCleanerKeeps
  <2>6. CASE StartBroadcast(p) \/ RunInThread(p) \/ RegisterName(p) \/ RegisterEcho(p)
    BY <1>1, <2>6, StartBroadcastKeeps, RunInThreadKeeps, RegisterNameKeeps
  <2>7. CASE LeaveNsLoop(p) \/ LeaveWith(p) \/ LeaveServer(p) \/ LeaveThreadLoop(p)
    BY <1>1, <2>7, LeaveNsLoopKeeps, LeaveWithKeeps, LeaveServerKeeps, LeaveThreadLoopKeeps
  <2>8. CASE \E raised \in BOOLEAN : LeaveEchoLoop(p, raised)
    BY <1>1, <2>8, LeaveEchoLoopKeeps
  <2>9. CASE CloseAll(p) \/ CloseStorage(p) \/ StopCleaner(p)
    BY <1>1, <2>9, CloseAllKeeps, CloseStorageKeeps, StopCleanerKeeps
  <2>10. CASE CleanerEnds(p) \/ JoinCleaner(p) \/ CloseBroadcaster(p) \/ BroadcastThreadEnds(p)
    BY <1>1, <2>10, CleanerEndsKeeps, JoinCleanerKeeps, CloseBroadcasterKeeps,
       BroadcastThreadEndsKeeps
  <2>11. QED
    BY <2>1, <2>2, <2>3, <2>4, <2>5, <2>6, <2>7, <2>8, <2>9, <2>10
<1>2. ASSUME ServingIInv, UNCHANGED servingVars PROVE ServingIInv'
  BY <1>2
     DEF servingVars, ServingIInv, ServingTyped, ProgramsRight, NamesRight, Right,
         NameServerHolds, NameServerOpens, NameServerCloses, ServerHolds
<1>3. QED
  BY <1>1, <1>2

(* ServingInv for any programs and name server setups: what a program      *)
(* holds is known at each place of its code, and a name is told only after *)
(* its object is registered (naming lines 284-292 and 500-506, core lines  *)
(* 1194-1223).                                                             *)
THEOREM ProgramsCleanUp == ServingSpec => []ServingInv
<1>1. ServingInit => ServingIInv
  BY StatesAreNotNone
     DEF ServingInit, ServingIInv, ServingTyped, ProgramsRight, NamesRight, Right, Holding
<1>2. QED
  BY <1>1, ServingNextKeeps, ServingIInvImplies, PTL DEF ServingSpec

-----------------------------------------------------------------------------
(* The HTTP gateway: HttpGateway. *)

GatewayRequest ==
    [path : {"/pyro/", "/pyro/name/method"}, header : Key, key : Key, query : BOOLEAN,
     name : Names \cup {None}, method : {None, "$meta", "attr", "run"}]

GatewayTyped ==
    /\ ns # None => ns \in [at : NsPlace, no : Nat]
    /\ nameserver # None => nameserver \in [at : NsPlace, conn : Nat \cup {None}]
    /\ http # None => http \in [request : GatewayRequest, given : Key,
                                phase : {"check", "locate", "homepage", "lookup", "call"}]
    /\ http # None /\ http.phase \in {"homepage", "lookup"} =>
            nameserver \in [at : NsPlace, conn : Nat \cup {None}]
    /\ many \in [ns : Nat, http : Nat]
    /\ many.http = 0 => http = None /\ invoked = {}

(* A request that is past the check, and not for the homepage, may go on. *)
Let(h) ==
    /\ h.request.name \in Exposable
    /\ gatewayKey => h.given = "right" /\ h.request.key = None

LetThrough ==
    http # None =>
        /\ http.phase = "locate" /\ http.request.path # "/pyro/" => Let(http)
        /\ http.phase \in {"lookup", "call"} => Let(http)

(* The way to a name server that runs, from a connection that there was. *)
OnTheWay ==
    /\ nsSteady => ns # None
    /\ http # None => responded = None
    /\ http # None /\ had /\ nsSteady =>
        /\ http.phase = "check" => nameserver # None /\ nameserver.conn # None
        /\ http.phase = "locate" => nameserver = None \/ nameserver.conn # None
        /\ http.phase = "lookup" => Alive

GatewayIInv == GatewayTyped /\ LetThrough /\ OnTheWay /\ GatewayInv

(* The requests are as the gateway takes them. *)
LEMMA RequestsTyped == HttpRequest \subseteq GatewayRequest
  BY DEF HttpRequest, GatewayRequest, Key

(* A response ends a request. *)
LEMMA Responds ==
    ASSUME GatewayIInv, NEW code, NEW why, http # None, Respond(code, why),
           UNCHANGED <<gatewayKey, ns, invoked, had, many>>, nsSteady' => nsSteady,
           nameserver' # None => nameserver' \in [at : NsPlace, conn : Nat \cup {None}],
           had /\ nsSteady' =>
                why \notin {"NamingError", "CommunicationError", "ConnectionClosedError"}
    PROVE  GatewayIInv'
<1>1. http' = None /\ responded' = [code |-> code, why |-> why]
  BY DEF Respond
<1>2. GatewayTyped' /\ LetThrough' /\ OnTheWay'
  BY <1>1 DEF GatewayIInv, GatewayTyped, LetThrough, OnTheWay
<1>3. GatewayInv'
  <2>1. OnlyExposedCalled'
    BY DEF GatewayIInv, GatewayInv, OnlyExposedCalled
  <2>2. LostConnectionHidden'
    BY <1>1 DEF LostConnectionHidden
  <2>3. QED
    BY <2>1, <2>2 DEF GatewayInv
<1>4. QED
  BY <1>2, <1>3 DEF GatewayIInv

(* What is called and what was responded stays. *)
LEMMA GatewayKeeps ==
    ASSUME GatewayInv, UNCHANGED <<gatewayKey, responded, invoked, had>>, nsSteady' => nsSteady
    PROVE  GatewayInv'
  BY DEF GatewayInv, OnlyExposedCalled, LostConnectionHidden

(* A name server starts or stops. *)
LEMMA NameServerRuns ==
    ASSUME GatewayIInv, (\E p \in NsPlace : StartNameServer(p)) \/ StopNameServer
    PROVE  GatewayIInv'
<1>1. CASE StopNameServer
  <2>1. /\ ns' = None /\ nsSteady' = FALSE
        /\ UNCHANGED <<gatewayKey, nameserver, http, responded, invoked, had, many>>
    BY <1>1 DEF StopNameServer
  <2>2. GatewayTyped' /\ LetThrough' /\ OnTheWay'
    BY <2>1 DEF GatewayIInv, GatewayTyped, LetThrough, Let, OnTheWay
  <2>3. QED
    BY <2>1, <2>2, GatewayKeeps DEF GatewayIInv
<1>2. ASSUME NEW p \in NsPlace, StartNameServer(p) PROVE GatewayIInv'
  <2>1. /\ ns = None /\ ns' = [at |-> p, no |-> many'.ns]
        /\ many' = [many EXCEPT !.ns = many.ns + 1]
        /\ UNCHANGED <<gatewayKey, nameserver, http, responded, invoked, had, nsSteady>>
    BY <1>2 DEF StartNameServer
  <2>2. many' \in [ns : Nat, http : Nat] /\ many'.http = many.http /\ many'.ns \in Nat
    BY <2>1 DEF GatewayIInv, GatewayTyped
  <2>3. ns' \in [at : NsPlace, no : Nat]
    BY <2>1, <2>2
  <2>4. GatewayTyped'
    BY <2>1, <2>2, <2>3 DEF GatewayIInv, GatewayTyped
  <2>5. LetThrough' /\ OnTheWay'
    BY <2>1 DEF GatewayIInv, LetThrough, Let, OnTheWay
  <2>6. QED
    BY <2>1, <2>4, <2>5, GatewayKeeps DEF GatewayIInv
<1>3. QED
  BY <1>1, <1>2

(* The options of the command line are set. *)
LEMMA OptionsSet ==
    ASSUME GatewayIInv, MainOptions
    PROVE  GatewayIInv'
<1>1. /\ http = None /\ invoked = {}
      /\ UNCHANGED <<ns, nameserver, http, responded, invoked, had, nsSteady, many>>
  BY DEF MainOptions, GatewayIInv, GatewayTyped
<1>2. QED
  BY <1>1 DEF GatewayIInv, GatewayTyped, LetThrough, OnTheWay, GatewayInv, OnlyExposedCalled,
              LostConnectionHidden

(* A request arrives. *)
LEMMA RequestBegins ==
    ASSUME GatewayIInv, http = None, NEW r \in HttpRequest, BeginRequest(r)
    PROVE  GatewayIInv'
<1>1. /\ many' = [many EXCEPT !.http = many.http + 1]
      /\ http' = [request |-> r, phase |-> "check", given |-> None] /\ responded' = None
      /\ had' = (nameserver # None /\ nameserver.conn # None) /\ nsSteady' = (ns # None)
      /\ UNCHANGED <<gatewayKey, ns, nameserver, invoked>>
  BY DEF BeginRequest
<1>2. many' \in [ns : Nat, http : Nat] /\ many'.http # 0
  BY <1>1 DEF GatewayIInv, GatewayTyped
<1>3. /\ http'.phase = "check"
      /\ http' \in [request : GatewayRequest, given : Key,
                    phase : {"check", "locate", "homepage", "lookup", "call"}]
  BY <1>1, RequestsTyped DEF Key
<1>4. GatewayTyped'
  BY <1>1, <1>2, <1>3 DEF GatewayIInv, GatewayTyped
<1>5. LetThrough' /\ OnTheWay'
  BY <1>1, <1>3 DEF LetThrough, OnTheWay
<1>6. GatewayInv'
  BY <1>1 DEF GatewayIInv, GatewayInv, OnlyExposedCalled, LostConnectionHidden
<1>7. QED
  BY <1>4, <1>5, <1>6 DEF GatewayIInv

(* A request goes on to another phase. *)
LEMMA PageGoesOn ==
    ASSUME GatewayIInv, http # None, NEW stage \in {"locate", "homepage", "lookup", "call"},
           http' = [http EXCEPT !.phase = stage],
           UNCHANGED <<kept, responded>>,
           nameserver' # None => nameserver' \in [at : NsPlace, conn : Nat \cup {None}],
           stage \in {"homepage", "lookup"} =>
                nameserver' \in [at : NsPlace, conn : Nat \cup {None}],
           stage \in {"lookup", "call"} \/ (stage = "locate" /\ http.request.path # "/pyro/")
                => Let(http),
           had /\ nsSteady /\ stage = "locate" => nameserver' = None \/ nameserver'.conn # None,
           had /\ nsSteady /\ stage = "lookup" => Alive'
    PROVE  GatewayIInv'
<1>1. /\ http' \in [request : GatewayRequest, given : Key,
                    phase : {"check", "locate", "homepage", "lookup", "call"}]
      /\ http'.phase = stage /\ http'.request = http.request /\ http'.given = http.given
  BY DEF GatewayIInv, GatewayTyped
<1>2. UNCHANGED <<gatewayKey, ns, invoked, had, nsSteady, many, responded>>
  BY DEF kept
<1>3. GatewayTyped'
  BY <1>1, <1>2 DEF GatewayIInv, GatewayTyped
<1>4. LetThrough'
  BY <1>1, <1>2 DEF LetThrough, Let
<1>5. OnTheWay'
  BY <1>1, <1>2 DEF GatewayIInv, OnTheWay
<1>6. QED
  BY <1>2, <1>3, <1>4, <1>5, GatewayKeeps DEF GatewayIInv

(* Its path and its key are looked at. *)
LEMMA Checks ==
    ASSUME GatewayIInv, CheckRequest
    PROVE  GatewayIInv'
<1>1. http # None /\ http.phase = "check" /\ UNCHANGED <<kept, nameserver>>
  BY DEF CheckRequest
<1>2. UNCHANGED <<gatewayKey, ns, invoked, had, nsSteady, many>>
  BY <1>1 DEF kept
<1>3. http \in [request : GatewayRequest, given : Key,
                phase : {"check", "locate", "homepage", "lookup", "call"}]
  BY <1>1 DEF GatewayIInv, GatewayTyped
<1>4. CASE http.request.path = "/pyro/"
  <2>1. http' = [http EXCEPT !.phase = "locate"] /\ UNCHANGED responded
    BY <1>4 DEF CheckRequest, Phase
  <2>2. had /\ nsSteady => nameserver'.conn # None
    BY <1>1 DEF GatewayIInv, OnTheWay
  <2>3. QED
    BY <1>1, <1>4, <2>1, <2>2, PageGoesOn DEF GatewayIInv, GatewayTyped
<1>5. CASE Respond(403, "key") \/ Respond(403, "name")
  BY <1>1, <1>2, <1>5, Responds DEF GatewayIInv, GatewayTyped
<1>6. CASE /\ http.request.path # "/pyro/"
           /\ ~(gatewayKey /\ KeyGiven(http.request) # "right")
           /\ ~(http.request.name \notin Exposable)
  <2>1. PICK key : key = IF gatewayKey THEN None ELSE http.request.key
    OBVIOUS
  <2>2. PICK r : r = [http.request EXCEPT !.key = key]
    OBVIOUS
  <2>3. http.request \in GatewayRequest /\ key \in Key
    BY <1>3, <2>1 DEF GatewayRequest, Key
  <2>4. /\ r \in GatewayRequest /\ r.path = http.request.path /\ r.name = http.request.name
        /\ r.key = key
    BY <2>2, <2>3 DEF GatewayRequest
  <2>5. KeyGiven(http.request) \in Key
    BY <2>3 DEF GatewayRequest, KeyGiven
  <2>6. /\ http' = [http EXCEPT !.phase = "locate", !.request = r,
                     !.given = KeyGiven(http.request)]
        /\ UNCHANGED responded
    BY <1>6, <2>1, <2>2, <1>3 DEF CheckRequest
  <2>7. /\ http' \in [request : GatewayRequest, given : Key,
                      phase : {"check", "locate", "homepage", "lookup", "call"}]
        /\ http'.phase = "locate" /\ http'.request = r /\ http'.given = KeyGiven(http.request)
    BY <1>3, <2>4, <2>5, <2>6
  <2>8. GatewayTyped'
    BY <1>1, <1>2, <2>7 DEF GatewayIInv, GatewayTyped
  <2>9. LetThrough'
    BY <1>2, <1>6, <2>1, <2>4, <2>7 DEF LetThrough, Let
  <2>10. OnTheWay'
    BY <1>1, <1>2, <2>6, <2>7 DEF GatewayIInv, OnTheWay
  <2>11. QED
    BY <1>2, <2>6, <2>8, <2>9, <2>10, GatewayKeeps DEF GatewayIInv
<1>7. QED
  BY <1>4, <1>5, <1>6 DEF CheckRequest

(* The name server is located, or the connection to it is used or lost. *)
LEMMA Locates ==
    ASSUME GatewayIInv, LocateNameServer \/ PingNameServer \/ ConnectionLost \/ CannotConnect
    PROVE  GatewayIInv'
<1>1. /\ http # None /\ http.phase = "locate" /\ UNCHANGED kept
      /\ UNCHANGED <<gatewayKey, ns, invoked, had, nsSteady, many>>
  BY DEF LocateNameServer, PingNameServer, ConnectionLost, CannotConnect, Locating, kept
<1>2. CASE LocateNameServer
  <2>1. CASE ns = None
    <3>1. Respond(500, "NamingError") /\ UNCHANGED nameserver /\ ~nsSteady
      BY <1>2, <2>1 DEF LocateNameServer, GatewayIInv, OnTheWay
    <3>2. QED
      BY <1>1, <3>1, Responds DEF GatewayIInv, GatewayTyped
  <2>2. CASE ns # None
    <3>1. nameserver' = [at |-> ns.at, conn |-> ns.no] /\ UNCHANGED <<http, responded>>
      BY <1>2, <2>2 DEF LocateNameServer
    <3>2. /\ nameserver' \in [at : NsPlace, conn : Nat \cup {None}]
          /\ nameserver'.conn # None
      BY <2>2, <3>1, GatewayAssumption DEF GatewayIInv, GatewayTyped
    <3>3. GatewayTyped' /\ LetThrough'
      BY <1>1, <3>1, <3>2 DEF GatewayIInv, GatewayTyped, LetThrough, Let
    <3>4. OnTheWay'
      BY <1>1, <3>1, <3>2 DEF GatewayIInv, OnTheWay
    <3>5. QED
      BY <1>1, <3>1, <3>3, <3>4, GatewayKeeps DEF GatewayIInv
  <2>3. QED
    BY <2>1, <2>2
<1>3. CASE PingNameServer
  <2>1. /\ nameserver # None /\ ns # None
        /\ nameserver' = [nameserver EXCEPT !.conn = ns.no] /\ Located
    BY <1>3 DEF PingNameServer, Alive, CanConnect
  <2>2. nameserver' \in [at : NsPlace, conn : Nat \cup {None}] /\ nameserver'.conn = ns.no
    BY <2>1 DEF GatewayIInv, GatewayTyped
  <2>3. PICK stage \in {"homepage", "lookup"} :
            /\ http' = [http EXCEPT !.phase = stage] /\ UNCHANGED responded
            /\ stage = "lookup" => http.request.path # "/pyro/"
    BY <2>1 DEF Located, Phase
  <2>4. stage = "lookup" => Let(http)
    BY <1>1, <2>3 DEF GatewayIInv, LetThrough
  <2>5. Alive'
    BY <1>1, <2>1, <2>2 DEF Alive
  <2>6. QED
    BY <1>1, <2>2, <2>3, <2>4, <2>5, PageGoesOn
<1>4. CASE ConnectionLost
  <2>1. nameserver' = None /\ UNCHANGED <<http, responded>>
    BY <1>4 DEF ConnectionLost
  <2>2. GatewayTyped' /\ LetThrough' /\ OnTheWay'
    BY <1>1, <2>1 DEF GatewayIInv, GatewayTyped, LetThrough, Let, OnTheWay
  <2>3. QED
    BY <1>1, <2>1, <2>2, GatewayKeeps DEF GatewayIInv
<1>5. CASE CannotConnect
  <2>1. Respond(500, "CommunicationError") /\ UNCHANGED nameserver /\ ~(had /\ nsSteady)
    BY <1>1, <1>5 DEF CannotConnect, GatewayIInv, OnTheWay
  <2>2. QED
    BY <1>1, <2>1, Responds DEF GatewayIInv, GatewayTyped
<1>6. QED
  BY <1>2, <1>3, <1>4, <1>5

(* A proxy without its connection stays the proxy it was. *)
LEMMA Disconnects ==
    ASSUME nameserver \in [at : NsPlace, conn : Nat \cup {None}]
    PROVE  [nameserver EXCEPT !.conn = None] \in [at : NsPlace, conn : Nat \cup {None}]
  BY DEF GatewayIInv, GatewayTyped

(* The name server answers too late. *)
LEMMA TimesOut ==
    ASSUME GatewayIInv, NameServerTimeout
    PROVE  GatewayIInv'
<1>1. /\ http # None /\ nameserver' = [nameserver EXCEPT !.conn = None] /\ nameserver # None
      /\ Respond(500, "TimeoutError") /\ UNCHANGED <<gatewayKey, ns, invoked, had, many>>
      /\ nsSteady' = FALSE
  BY DEF NameServerTimeout
<1>2. QED
  BY <1>1, Disconnects, Responds DEF GatewayIInv, GatewayTyped

(* The page of all names is made. *)
LEMMA Lists ==
    ASSUME GatewayIInv, Homepage
    PROVE  GatewayIInv'
<1>1. /\ http # None /\ http.phase = "homepage" /\ Respond(200, "homepage")
      /\ nameserver' \in {nameserver, [nameserver EXCEPT !.conn = None]} /\ UNCHANGED kept
  BY DEF Homepage
<1>2. nameserver' \in [at : NsPlace, conn : Nat \cup {None}]
  BY <1>1, Disconnects DEF GatewayIInv, GatewayTyped
<1>3. QED
  BY <1>1, <1>2, Responds DEF kept

(* The object is looked up. *)
LEMMA LooksUp ==
    ASSUME GatewayIInv, NEW registered \in BOOLEAN, Lookup(registered)
    PROVE  GatewayIInv'
<1>1. /\ http # None /\ http.phase = "lookup" /\ UNCHANGED kept
      /\ nameserver' \in {nameserver, [nameserver EXCEPT !.conn = None]}
  BY DEF Lookup
<1>2. nameserver' \in [at : NsPlace, conn : Nat \cup {None}]
  BY <1>1, Disconnects DEF GatewayIInv, GatewayTyped
<1>3. CASE Respond(500, "ConnectionClosedError") /\ ~Alive
  BY <1>1, <1>2, <1>3, Responds DEF kept, GatewayIInv, OnTheWay
<1>4. CASE Respond(500, "NamingError: unknown name")
  <2>1. "NamingError: unknown name" \notin
            {"NamingError", "CommunicationError", "ConnectionClosedError"}
    OBVIOUS
  <2>2. UNCHANGED <<gatewayKey, ns, invoked, had, nsSteady, many>>
    BY <1>1 DEF kept
  <2>3. QED
    BY <1>1, <1>2, <1>4, <2>1, <2>2, Responds
<1>5. CASE Phase("call")
  <2>1. Let(http)
    BY <1>1 DEF GatewayIInv, LetThrough
  <2>2. QED
    BY <1>1, <1>2, <1>5, <2>1, PageGoesOn DEF Phase
<1>6. QED
  BY <1>3, <1>4, <1>5 DEF Lookup

(* The object is called. *)
LEMMA CallsThrough ==
    ASSUME GatewayIInv, NEW outcome \in {"unreachable", "result", "exception", "no reply"},
           CallObject(outcome)
    PROVE  GatewayIInv'
<1> DEFINE call == [http |-> many.http, given |-> http.given, key |-> http.request.key,
                    name |-> http.request.name]
<1>1. /\ http # None /\ http.phase = "call" /\ invoked' \in {invoked, invoked \cup {call}}
      /\ UNCHANGED <<gatewayKey, ns, nameserver, had, nsSteady, many>>
  BY DEF CallObject
<1>2. \/ Respond(500, "error") \/ Respond(200, "object") \/ Respond(500, outcome)
  BY DEF CallObject
<1>3. PICK code, why :
        /\ http' = None /\ responded' = [code |-> code, why |-> why]
        /\ why \notin {"NamingError", "CommunicationError", "ConnectionClosedError"}
  <2>1. /\ "error" \notin {"NamingError", "CommunicationError", "ConnectionClosedError"}
        /\ "object" \notin {"NamingError", "CommunicationError", "ConnectionClosedError"}
        /\ outcome \notin {"NamingError", "CommunicationError", "ConnectionClosedError"}
    OBVIOUS
  <2>2. QED
    BY <1>2, <2>1 DEF Respond
<1>4. GatewayTyped' /\ LetThrough' /\ OnTheWay'
  <2>1. many.http # 0
    BY <1>1 DEF GatewayIInv, GatewayTyped
  <2>2. GatewayTyped'
    BY <1>1, <1>3, <2>1 DEF GatewayIInv, GatewayTyped
  <2>3. LetThrough' /\ OnTheWay'
    BY <1>1, <1>3 DEF GatewayIInv, LetThrough, OnTheWay
  <2>4. QED
    BY <2>2, <2>3
<1>5. OnlyExposedCalled'
  <2>1. Let(http)
    BY <1>1 DEF GatewayIInv, LetThrough
  <2>2. call.name \in Exposable /\ (gatewayKey => call.given = "right" /\ call.key = None)
    BY <2>1 DEF Let
  <2> HIDE DEF call
  <2>3. QED
    BY <1>1, <2>2 DEF GatewayIInv, GatewayInv, OnlyExposedCalled
<1>6. LostConnectionHidden'
  BY <1>3 DEF LostConnectionHidden
<1>7. QED
  BY <1>4, <1>5, <1>6 DEF GatewayIInv, GatewayInv

(* A request is refused. *)
LEMMA Refuses ==
    ASSUME GatewayIInv, Refuse
    PROVE  GatewayIInv'
<1>1. PICK code \in {302, 404, 405} : Respond(code, "not for the gateway")
  BY DEF Refuse
<1>2. http # None /\ UNCHANGED <<gatewayKey, ns, nameserver, invoked, had, nsSteady, many>>
  BY DEF Refuse, kept
<1>3. "not for the gateway" \notin
            {"NamingError", "CommunicationError", "ConnectionClosedError"}
  OBVIOUS
<1>4. PICK why : Respond(code, why)
            /\ why \notin {"NamingError", "CommunicationError", "ConnectionClosedError"}
  BY <1>1, <1>3
<1>5. nameserver' # None => nameserver' \in [at : NsPlace, conn : Nat \cup {None}]
  BY <1>2 DEF GatewayIInv, GatewayTyped
<1>6. QED
  BY <1>2, <1>4, <1>5, Responds

(* Every step of the gateway keeps the invariant. *)
LEMMA GatewayNextKeeps == GatewayIInv /\ [GatewayNext]_gatewayVars => GatewayIInv'
<1> SUFFICES ASSUME GatewayIInv, [GatewayNext]_gatewayVars PROVE GatewayIInv'
  OBVIOUS
<1>1. CASE UNCHANGED gatewayVars
  <2>1. UNCHANGED <<gatewayKey, ns, nameserver, http, responded, invoked, had, nsSteady, many>>
    BY <1>1 DEF gatewayVars
  <2>2. GatewayTyped' /\ LetThrough' /\ OnTheWay'
    BY <2>1 DEF GatewayIInv, GatewayTyped, LetThrough, Let, OnTheWay, Alive
  <2>3. QED
    BY <2>1, <2>2, GatewayKeeps DEF GatewayIInv
<1>2. CASE \/ (\E p \in NsPlace : StartNameServer(p)) \/ StopNameServer \/ MainOptions
           \/ LocateNameServer \/ PingNameServer \/ ConnectionLost \/ CannotConnect
           \/ CheckRequest \/ NameServerTimeout \/ Homepage
  BY <1>2, NameServerRuns, OptionsSet, Locates, Checks, TimesOut, Lists
<1>3. ASSUME http = None, NEW r \in HttpRequest, BeginRequest(r) PROVE GatewayIInv'
  BY <1>3, RequestBegins
<1>4. CASE Refuse
  BY <1>4, Refuses
<1>5. ASSUME NEW registered \in BOOLEAN, Lookup(registered) PROVE GatewayIInv'
  BY <1>5, LooksUp
<1>6. ASSUME NEW outcome \in {"unreachable", "result", "exception", "no reply"},
             CallObject(outcome)
      PROVE  GatewayIInv'
  BY <1>6, CallsThrough
<1>7. QED
  BY <1>1, <1>2, <1>3, <1>4, <1>5, <1>6 DEF GatewayNext

(* GatewayInv for any names, keys and places of the name server: a request *)
(* goes on to a call only when its key was compared and its name matched,  *)
(* and a lost connection is followed by another lookup of the name server  *)
(* (httpgateway lines 43-53 and 201-261).                                  *)
THEOREM OnlyTheExposedIsCalled == GatewaySpec => []GatewayInv
<1>1. GatewayInit => GatewayIInv
  BY DEF GatewayInit, GatewayIInv, GatewayTyped, LetThrough, OnTheWay, GatewayInv,
         OnlyExposedCalled, LostConnectionHidden
<1>2. GatewayIInv => GatewayInv
  BY DEF GatewayIInv
<1>3. QED
  BY <1>1, <1>2, GatewayNextKeeps, PTL DEF GatewaySpec

-----------------------------------------------------------------------------
(* Consoles and modules of Flame: FlameServer.                             *)

(* The paths of "a" and "a.b". *)
Top == <<"a">>
Sub == <<"a", "b">>

(* The calls of push_and_get_output and of createModule. *)
ConsoleCall(step, output) == [step |-> step, saved |-> Real, output |-> output]
ModuleCall(step, path, name, depth, m) ==
    [step |-> step, path |-> path, name |-> name, depth |-> depth, module |-> m]

(* Every client has a call and a number of lines. *)
FlameTyped ==
    /\ DOMAIN calling = FlameClient /\ DOMAIN lineCount = FlameClient

(* A call of a console: what it has caught and will restore. *)
ConsoleOwn(c) ==
    /\ calling[c].step \in {"swap", "push", "get", "close", "return", "raise"}
    /\ calling[c] = ConsoleCall(calling[c].step, calling[c].output)
    /\ At(c, "swap") => stdout = Real
    /\ ~At(c, "swap") => stdout = Line(c)
    /\ At(c, "get") => <<Line(c), Line(c)>> \in written
    /\ calling[c].step \in {"close", "return"} => calling[c].output = {Line(c)}

(* A call that brings a module: where it is on the path. *)
ModuleOwn(c) ==
    /\ calling[c].step \in {"look", "make", "exec"} /\ stdout = Real
    /\ calling[c] = ModuleCall(calling[c].step, calling[c].path, calling[c].name,
                               calling[c].depth, calling[c].module)
    /\ calling[c].path \in ModulePath /\ calling[c].name \in Defined
    /\ At(c, "exec") => modules[calling[c].path] # 0 /\ calling[c].module = modules[calling[c].path]
    /\ ~At(c, "exec") =>
         \/ calling[c].depth = 1 /\ calling[c].module = 0
         \/ /\ calling[c].depth = 2 /\ calling[c].path = Sub
            /\ modules[Top] # 0 /\ calling[c].module = modules[Top]
    /\ At(c, "make") => modules[RealPath(c)] = 0

CallOwn(c) == calling[c] = Done \/ ConsoleOwn(c) \/ ModuleOwn(c)

(* Calls are executed one at a time, and leave stdout as they found it. *)
CallsAlone ==
    /\ \A c, d \in FlameClient : c # d => calling[c] = Done \/ calling[d] = Done
    /\ \A c \in FlameClient : CallOwn(c)
    /\ (\A c \in FlameClient : calling[c] = Done) => stdout = Real

(* What is caught, and what was given to callers, is of the own line.       *)
OutputsOwn ==
    /\ \A w \in written : w[1] = w[2]
    /\ \A o \in outputs : o.text = {o.of}

(* Modules are never made twice, and a submodule is an attribute of its    *)
(* parent.                                                                 *)
ModulesLinked ==
    /\ modules \in [ModulePath -> Nat] /\ fresh \in Nat
    /\ modules[Sub] # 0 =>
         modules[Top] # 0 /\ Attribute(modules[Top], Sub[2], modules[Sub]) \in submodules

(* What was sent is defined in the module of its path.                      *)
SendsDefined ==
    /\ sends \in Seq([path : ModulePath, name : Defined])
    /\ \A i \in DOMAIN sends :
         /\ modules[sends[i].path] # 0
         /\ <<modules[sends[i].path], sends[i].name>> \in defines

(* The state of a server that executes one call at a time.                  *)
Alone == CallsAlone /\ OutputsOwn /\ ModulesLinked /\ SendsDefined

FlameIInv == FlameTyped /\ (serving \in {None, "multiplex"} => Alone)

(* The paths that there are.                                               *)
LEMMA PathsAre ==
    /\ Top \in ModulePath /\ Sub \in ModulePath /\ Len(Top) = 1 /\ Len(Sub) = 2 /\ Top # Sub
    /\ <<Sub[1]>> = Top
    /\ \A p \in ModulePath : p = Top \/ p = Sub
  BY DEF Top, Sub, ModulePath

(* A path as far as its first and its second component.                    *)
LEMMA PathPrefixes == SubSeq(Top, 1, 1) = Top /\ SubSeq(Sub, 1, 1) = Top /\ SubSeq(Sub, 1, 2) = Sub
<1>1. PICK S : S = {"a", "b"}
  OBVIOUS
<1>2. Top \in Seq(S) /\ Sub \in Seq(S) /\ Len(Top) = 1 /\ Len(Sub) = 2 /\ Top[1] = Sub[1]
  BY <1>1 DEF Top, Sub
<1>3. SubSeq(Top, 1, 1) = Top
  BY <1>2, SubSeqFull
<1>4. SubSeq(Sub, 1, 2) = Sub
  BY <1>2, SubSeqFull
<1>5. SubSeq(Sub, 1, 1) = Top
  <2>1. Sub[1] \in S
    BY <1>2
  <2>2. \A i \in 1 .. 1 : Sub[i] \in S
    BY <2>1
  <2>3. /\ SubSeq(Sub, 1, 1) \in Seq(S) /\ Len(SubSeq(Sub, 1, 1)) = IF 1 <= 1 THEN 1 - 1 + 1 ELSE 0
        /\ \A i \in 1 .. 1 - 1 + 1 : SubSeq(Sub, 1, 1)[i] = Sub[1 + i - 1]
    BY ONLY <2>2, SubSeqProperties
  <2>4. PICK t : t = SubSeq(Sub, 1, 1)
    OBVIOUS
  <2>5. t \in Seq(S) /\ Len(t) = 1 /\ t[1] = Sub[1]
    BY <2>3, <2>4
  <2>6. t = Top
    BY <1>2, <2>5, SeqEqual
  <2>7. QED
    BY <2>4, <2>6
<1>6. QED
  BY <1>3, <1>4, <1>5

(* What a console's line prints into is not the server's own stdout.       *)
LEMMA LineIsNotReal == ASSUME NEW c PROVE Line(c) # Real
<1>1. Len(Line(c)) = 2 /\ Len(Real) = 1
  BY DEF Line, Real
<1>2. QED
  BY <1>1

(* The fields of a console's call.                                         *)
LEMMA ConsoleFields ==
    ASSUME NEW s, NEW o
    PROVE  /\ ConsoleCall(s, o).step = s /\ ConsoleCall(s, o).output = o
           /\ ConsoleCall(s, o).saved = Real
  BY DEF ConsoleCall

(* A console's call in its next step.                                      *)
LEMMA ConsoleTurns ==
    ASSUME NEW s, NEW o, NEW t
    PROVE  [ConsoleCall(s, o) EXCEPT !.step = t] = ConsoleCall(t, o)
  BY DEF ConsoleCall

(* The fields of a call that brings a module.                              *)
LEMMA ModuleFields ==
    ASSUME NEW s, NEW p, NEW n, NEW d, NEW m
    PROVE  /\ ModuleCall(s, p, n, d, m).step = s /\ ModuleCall(s, p, n, d, m).path = p
           /\ ModuleCall(s, p, n, d, m).name = n /\ ModuleCall(s, p, n, d, m).depth = d
           /\ ModuleCall(s, p, n, d, m).module = m
  BY DEF ModuleCall

(* Such a call in its next step.                                           *)
LEMMA ModuleTurns ==
    ASSUME NEW s, NEW p, NEW n, NEW d, NEW m, NEW t
    PROVE  [ModuleCall(s, p, n, d, m) EXCEPT !.step = t] = ModuleCall(t, p, n, d, m)
  BY DEF ModuleCall

(* A client that is in a call has a step to do.                            *)
LEMMA StepsDiffer ==
    ASSUME NEW c
    PROVE  /\ calling[c] = Done => calling[c].step = "none"
           /\ ConsoleOwn(c) => calling[c].step # "none" /\ calling[c] # Done
           /\ ModuleOwn(c) => calling[c].step # "none" /\ calling[c] # Done
  BY DEF Done, ConsoleOwn, ModuleOwn

(* The others wait while one is called. *)
LEMMA OthersWait ==
    ASSUME CallsAlone, NEW c \in FlameClient, ~At(c, "none")
    PROVE  \A d \in FlameClient : d # c => calling[d] = Done
<1>1. calling[c] # Done
  BY StepsDiffer DEF At
<1>2. QED
  BY <1>1 DEF CallsAlone

(* Whoever may call finds all clients waiting.                             *)
LEMMA AllWait ==
    ASSUME CallsAlone, NEW c \in FlameClient, MayCall(c), serving \in {None, "multiplex"}
    PROVE  \A d \in FlameClient : calling[d] = Done
<1>1. \A d \in FlameClient : calling[d].step = "none"
  BY DEF MayCall
<1>2. QED
  BY <1>1, StepsDiffer DEF CallsAlone, CallOwn

(* What one step of a client leaves of the calls. *)
LEMMA CallsKeep ==
    ASSUME NEW c \in FlameClient, \A d \in FlameClient : d # c => calling'[d] = Done,
           CallOwn(c)', calling'[c] = Done => stdout' = Real
    PROVE  CallsAlone'
<1>1. \A d, e \in FlameClient : d # e => calling'[d] = Done \/ calling'[e] = Done
  OBVIOUS
<1>2. ASSUME NEW d \in FlameClient PROVE CallOwn(d)'
  <2>1. CASE d = c
    BY <2>1
  <2>2. CASE d # c
    BY <2>2 DEF CallOwn
  <2>3. QED
    BY <2>1, <2>2
<1>3. QED
  BY <1>1, <1>2 DEF CallsAlone

(* What is kept while calls, modules and output stay.                      *)
LEMMA AloneKept ==
    ASSUME Alone, UNCHANGED <<calling, stdout, written, outputs, lineCount, modules, submodules,
                              defines, sends, fresh>>
    PROVE  Alone'
<1>1. \A d : CallOwn(d)' <=> CallOwn(d)
  BY DEF CallOwn, ConsoleOwn, ModuleOwn, At, Line, RealPath
<1>2. CallsAlone'
  BY <1>1 DEF CallsAlone, Alone
<1>3. QED
  BY <1>2 DEF Alone, OutputsOwn, ModulesLinked, SendsDefined

(* Consoles come and go.                                                   *)
LEMMA ConsolesStart ==
    ASSUME Alone, NEW c, Console(c) \/ Terminate(c)
    PROVE  Alone'
  BY AloneKept DEF Console, Terminate, moduleVars, sourceVars

(* Steps of consoles leave modules alone.                                  *)
LEMMA SourcesKeep ==
    ASSUME OutputsOwn, ModulesLinked, SendsDefined,
           UNCHANGED <<modules, submodules, defines, sends, fresh>>
    PROVE  ModulesLinked' /\ SendsDefined'
  BY DEF ModulesLinked, SendsDefined

(* A line finds the server's own stdout.                                   *)
LEMMA PushKeeps ==
    ASSUME FlameTyped, Alone, serving \in {None, "multiplex"}, NEW c \in FlameClient, Push(c)
    PROVE  Alone'
<1>1. \A d \in FlameClient : calling[d] = Done
  BY AllWait DEF Alone, Push
<1>2. stdout = Real /\ stdout' = Real
  BY <1>1 DEF Alone, CallsAlone, Push
<1>3. calling'[c] = ConsoleCall("swap", {}) /\ \A d \in FlameClient : d # c => calling'[d] = Done
  BY <1>1, <1>2 DEF Push, FlameTyped, ConsoleCall
<1>4. ConsoleOwn(c)' /\ calling'[c] # Done
  <2>1. calling'[c].step = "swap" /\ calling'[c].output = {}
    BY <1>3, ConsoleFields
  <2>2. QED
    BY <1>2, <1>3, <2>1 DEF ConsoleOwn, At, Done
<1>5. CallsAlone'
  BY <1>3, <1>4, CallsKeep DEF CallOwn
<1>6. ModulesLinked' /\ SendsDefined'
  BY SourcesKeep DEF Alone, Push, sourceVars
<1>7. QED
  BY <1>5, <1>6 DEF Alone, OutputsOwn, Push

(* A console's call goes on. *)
LEMMA ConsoleStep ==
    ASSUME FlameTyped, Alone, NEW c \in FlameClient, ~At(c, "none"),
           NEW s \in {"swap", "push", "get", "close", "return", "raise"}, NEW o,
           calling' = [calling EXCEPT ![c] = ConsoleCall(s, o)],
           stdout' = IF s = "swap" THEN Real ELSE Line(c)',
           s = "get" => <<Line(c)', Line(c)'>> \in written',
           s \in {"close", "return"} => o = {Line(c)'},
           UNCHANGED <<outputs, modules, submodules, defines, sends, fresh>>,
           \A w \in written' : w[1] = w[2]
    PROVE  Alone'
<1>1. calling'[c] = ConsoleCall(s, o) /\ \A d \in FlameClient : d # c => calling'[d] = Done
  BY OthersWait DEF Alone, FlameTyped
<1>2. ConsoleOwn(c)' /\ calling'[c] # Done
  <2>1. calling'[c].step = s /\ calling'[c].output = o
    BY <1>1, ConsoleFields
  <2>2. QED
    BY <1>1, <2>1 DEF ConsoleOwn, At, Done
<1>3. CallsAlone'
  BY <1>1, <1>2, CallsKeep DEF CallOwn
<1>4. ModulesLinked' /\ SendsDefined'
  BY SourcesKeep DEF Alone
<1>5. QED
  BY <1>3, <1>4 DEF Alone, OutputsOwn

(* The call of a client in a step of a console. *)
LEMMA ConsoleCalled ==
    ASSUME FlameTyped, Alone, NEW c \in FlameClient,
           calling[c].step \in {"swap", "push", "get", "close", "return", "raise"}
    PROVE  /\ ConsoleOwn(c)
           /\ \A s : [calling EXCEPT ![c].step = s]
                     = [calling EXCEPT ![c] = ConsoleCall(s, calling[c].output)]
<1>1. ConsoleOwn(c)
  BY DEF Alone, CallsAlone, CallOwn, ModuleOwn, Done
<1>2. PICK o : o = calling[c].output
  OBVIOUS
<1>3. PICK t : t = calling[c].step
  OBVIOUS
<1>4. calling[c] = ConsoleCall(t, o)
  BY <1>1, <1>2, <1>3 DEF ConsoleOwn
<1>5. ASSUME NEW s PROVE [calling EXCEPT ![c].step = s] = [calling EXCEPT ![c] = ConsoleCall(s, o)]
  <2>1. [ConsoleCall(t, o) EXCEPT !.step = s] = ConsoleCall(s, o)
    BY ConsoleTurns
  <2>2. [calling[c] EXCEPT !.step = s] = ConsoleCall(s, o)
    BY <1>4, <2>1
  <2>3. QED
    BY <2>2
<1>6. QED
  BY <1>1, <1>2, <1>5

(* A call that has read what was caught.                                   *)
LEMMA ConsoleReads ==
    ASSUME FlameTyped, Alone, NEW c \in FlameClient, At(c, "get"), NEW o,
           calling' = [calling EXCEPT ![c].step = "close", ![c].output = o]
    PROVE  calling' = [calling EXCEPT ![c] = ConsoleCall("close", o)]
<1>1. ConsoleOwn(c)
  BY ConsoleCalled DEF At
<1>2. PICK p : p = calling[c].output
  OBVIOUS
<1>3. calling[c] = ConsoleCall("get", p)
  BY <1>1, <1>2 DEF ConsoleOwn, At
<1>4. [[calling[c] EXCEPT !.step = "close"] EXCEPT !.output = o] = ConsoleCall("close", o)
  <2>1. [ConsoleCall("get", p) EXCEPT !.step = "close"] = ConsoleCall("close", p)
    BY ConsoleTurns
  <2>2. [ConsoleCall("close", p) EXCEPT !.output = o] = ConsoleCall("close", o)
    BY DEF ConsoleCall
  <2>3. QED
    BY <1>3, <2>1, <2>2
<1>5. QED
  BY <1>4 DEF FlameTyped

(* stdout becomes what the line prints into.                               *)
LEMMA SwapKeeps ==
    ASSUME FlameTyped, Alone, NEW c \in FlameClient, Swap(c)
    PROVE  Alone'
<1>1. ConsoleOwn(c) /\ ~At(c, "none")
  BY ConsoleCalled DEF Swap, At
<1>2. calling' = [calling EXCEPT ![c] = ConsoleCall("push", calling[c].output)]
  BY ConsoleCalled DEF Swap, At, Goto
<1>3. stdout' = Line(c)' /\ UNCHANGED <<written, outputs, modules, submodules, defines, sends, fresh>>
  BY DEF Swap, Line, moduleVars, sourceVars
<1>4. QED
  BY <1>1, <1>2, <1>3, ConsoleStep DEF Alone, OutputsOwn

(* What is caught is of this line.                                         *)
LEMMA PrintKeeps ==
    ASSUME FlameTyped, Alone, NEW c \in FlameClient, PrintLine(c)
    PROVE  Alone'
<1>1. ConsoleOwn(c) /\ At(c, "push") /\ ~At(c, "none") /\ stdout = Line(c) /\ stdout # Real
  BY ConsoleCalled, LineIsNotReal DEF PrintLine, At, ConsoleOwn
<1>2. UNCHANGED <<stdout, outputs, modules, submodules, defines, sends, fresh>> /\ Line(c)' = Line(c)
  BY DEF PrintLine, Line, moduleVars, sourceVars
<1>3. \A w \in written' : w[1] = w[2]
  BY <1>1 DEF PrintLine, Alone, OutputsOwn
<1>4. PICK s \in IF stdout \in shut THEN {"raise"} ELSE {"raise", "get"} : Goto(c, s)
  BY DEF PrintLine
<1>5. calling' = [calling EXCEPT ![c] = ConsoleCall(s, calling[c].output)]
  BY <1>1, <1>4, ConsoleCalled DEF At, Goto
<1>6. s = "get" => <<Line(c)', Line(c)'>> \in written'
  BY <1>1, <1>2, <1>4 DEF PrintLine
<1>7. QED
  BY <1>1, <1>2, <1>3, <1>4, <1>5, <1>6, ConsoleStep

(* The caller gets what is of its line, and no other.                      *)
LEMMA GetKeeps ==
    ASSUME FlameTyped, Alone, NEW c \in FlameClient, GetValue(c)
    PROVE  Alone'
<1>1. ConsoleOwn(c) /\ At(c, "get") /\ ~At(c, "none") /\ stdout = Line(c)
      /\ <<Line(c), Line(c)>> \in written
  BY ConsoleCalled DEF GetValue, At, ConsoleOwn
<1>2. UNCHANGED <<stdout, written, outputs, modules, submodules, defines, sends, fresh>>
      /\ Line(c)' = Line(c)
  BY DEF GetValue, Line, consoleVars, moduleVars, sourceVars
<1>3. CASE stdout = Real \/ stdout \in shut
  <2>1. calling' = [calling EXCEPT ![c] = ConsoleCall("raise", calling[c].output)]
    BY <1>1, <1>3, ConsoleCalled DEF GetValue, At, Goto
  <2>2. QED
    BY <1>1, <1>2, <2>1, ConsoleStep DEF Alone, OutputsOwn
<1>4. CASE ~(stdout = Real \/ stdout \in shut)
  <2>1. PICK o : o = {w[2] : w \in {v \in written : v[1] = stdout}}
    OBVIOUS
  <2>2. calling' = [calling EXCEPT ![c] = ConsoleCall("close", o)]
    BY <1>1, <1>4, <2>1, ConsoleReads DEF GetValue
  <2>3. o = {Line(c)}
    BY <1>1, <2>1 DEF Alone, OutputsOwn
  <2>4. QED
    BY <1>1, <1>2, <2>2, <2>3, ConsoleStep DEF Alone, OutputsOwn
<1>5. QED
  BY <1>3, <1>4

(* The StringIO is closed, and still stdout.                               *)
LEMMA CloseKeeps ==
    ASSUME FlameTyped, Alone, NEW c \in FlameClient, CloseValue(c)
    PROVE  Alone'
<1>1. ConsoleOwn(c) /\ ~At(c, "none") /\ stdout = Line(c) /\ calling[c].output = {Line(c)}
  BY ConsoleCalled DEF CloseValue, At, ConsoleOwn
<1>2. calling' = [calling EXCEPT ![c] = ConsoleCall("return", calling[c].output)]
  BY ConsoleCalled DEF CloseValue, At, Goto
<1>3. Line(c)' = Line(c)
      /\ UNCHANGED <<stdout, written, outputs, modules, submodules, defines, sends, fresh>>
  BY DEF CloseValue, Line, moduleVars, sourceVars
<1>4. QED
  BY <1>1, <1>2, <1>3, ConsoleStep DEF Alone, OutputsOwn

(* stdout is again what it was before, with and without an exception.      *)
LEMMA RestoreKeeps ==
    ASSUME FlameTyped, Alone, NEW c \in FlameClient, Restore(c)
    PROVE  Alone'
<1>1. ConsoleOwn(c) /\ ~At(c, "none")
  BY ConsoleCalled DEF Restore, At
<1>2. calling[c].saved = Real
  <2>1. PICK t : t = calling[c].step
    OBVIOUS
  <2>2. PICK o : o = calling[c].output
    OBVIOUS
  <2>3. calling[c] = ConsoleCall(t, o)
    BY <1>1, <2>1, <2>2 DEF ConsoleOwn
  <2>4. QED
    BY <2>3, ConsoleFields
<1>3. stdout' = Real /\ calling'[c] = Done /\ \A d \in FlameClient : d # c => calling'[d] = Done
  BY <1>1, <1>2, OthersWait DEF Restore, Alone, FlameTyped
<1>4. CallsAlone'
  BY <1>3, CallsKeep DEF CallOwn
<1>5. OutputsOwn'
  BY <1>1 DEF Restore, ConsoleOwn, Alone, OutputsOwn, At
<1>6. ModulesLinked' /\ SendsDefined'
  BY SourcesKeep DEF Alone, Restore, moduleVars, sourceVars
<1>7. QED
  BY <1>4, <1>5, <1>6 DEF Alone

(* A call that brings a module begins or goes on. *)
LEMMA ModuleStep ==
    ASSUME FlameTyped, NEW c \in FlameClient,
           \A d \in FlameClient : d # c => calling[d] = Done,
           NEW s \in {"look", "make", "exec"}, NEW p \in ModulePath, NEW n \in Defined, NEW h, NEW m,
           calling' = [calling EXCEPT ![c] = ModuleCall(s, p, n, h, m)], stdout' = Real,
           s = "exec" => modules'[p] # 0 /\ m = modules'[p],
           s # "exec" => \/ h = 1 /\ m = 0
                         \/ h = 2 /\ p = Sub /\ modules'[Top] # 0 /\ m = modules'[Top],
           s = "make" => modules'[SubSeq(p, 1, h)] = 0
    PROVE  CallsAlone'
<1>1. calling'[c] = ModuleCall(s, p, n, h, m) /\ \A d \in FlameClient : d # c => calling'[d] = Done
  BY DEF FlameTyped
<1>2. /\ calling'[c].step = s /\ calling'[c].path = p /\ calling'[c].name = n
      /\ calling'[c].depth = h /\ calling'[c].module = m
  BY <1>1, ModuleFields
<1>3. ModuleOwn(c)'
  BY <1>1, <1>2 DEF ModuleOwn, At, RealPath
<1>4. calling'[c] # Done
  BY <1>2 DEF Done
<1>5. QED
  BY <1>1, <1>3, <1>4, CallsKeep DEF CallOwn

(* A source is sent: its path is walked from the start.                    *)
LEMMA SourceSent ==
    ASSUME FlameTyped, Alone, serving \in {None, "multiplex"}, NEW c \in FlameClient,
           NEW path \in ModulePath, NEW name \in Defined, SendModule(c, path, name)
    PROVE  Alone'
<1>1. \A d \in FlameClient : calling[d] = Done
  BY AllWait DEF Alone, SendModule
<1>2. stdout = Real /\ stdout' = Real
  BY <1>1 DEF Alone, CallsAlone, SendModule, consoleVars
<1>3. calling' = [calling EXCEPT ![c] = ModuleCall("look", path, name, 1, 0)]
  BY DEF SendModule, ModuleCall
<1>4. CallsAlone'
  BY <1>1, <1>2, <1>3, ModuleStep
<1>5. UNCHANGED <<written, outputs, modules, submodules, defines, sends, fresh>>
  BY DEF SendModule, consoleVars, sourceVars
<1>6. QED
  BY <1>4, <1>5, SourcesKeep DEF Alone, OutputsOwn

(* The call of a client in a step of createModule. *)
LEMMA ModuleCalled ==
    ASSUME FlameTyped, Alone, NEW c \in FlameClient, calling[c].step \in {"look", "make", "exec"}
    PROVE  /\ ModuleOwn(c) /\ ~At(c, "none")
           /\ \A d \in FlameClient : d # c => calling[d] = Done
<1>1. ~At(c, "none")
  BY DEF At
<1>2. ~ConsoleOwn(c)
  BY DEF ConsoleOwn
<1>3. calling[c] # Done
  BY DEF Done
<1>4. ModuleOwn(c)
  BY <1>2, <1>3 DEF Alone, CallsAlone, CallOwn
<1>5. QED
  BY <1>1, <1>4, OthersWait DEF Alone

(* A walk stays where it is, with another step.                            *)
LEMMA ModuleGoes ==
    ASSUME FlameTyped, NEW c \in FlameClient, ModuleOwn(c), NEW s, Goto(c, s)
    PROVE  calling' = [calling EXCEPT ![c] = ModuleCall(s, calling[c].path, calling[c].name,
                                                        calling[c].depth, calling[c].module)]
<1>1. PICK t : t = calling[c].step
  OBVIOUS
<1>2. PICK p : p = calling[c].path
  OBVIOUS
<1>3. PICK n : n = calling[c].name
  OBVIOUS
<1>4. PICK h : h = calling[c].depth
  OBVIOUS
<1>5. PICK m : m = calling[c].module
  OBVIOUS
<1>6. calling[c] = ModuleCall(t, p, n, h, m)
  BY <1>1, <1>2, <1>3, <1>4, <1>5 DEF ModuleOwn
<1>7. [ModuleCall(t, p, n, h, m) EXCEPT !.step = s] = ModuleCall(s, p, n, h, m)
  BY ModuleTurns
<1>8. [calling[c] EXCEPT !.step = s] = ModuleCall(s, p, n, h, m)
  BY <1>6, <1>7
<1>9. QED
  BY <1>2, <1>3, <1>4, <1>5, <1>8 DEF Goto

(* A walk goes on in a module.                                             *)
LEMMA ModuleEnters ==
    ASSUME FlameTyped, NEW c \in FlameClient, ModuleOwn(c), NEW m, InModule(c, m)
    PROVE  calling' = [calling EXCEPT ![c] =
               ModuleCall(IF calling[c].depth = Len(calling[c].path) THEN "exec" ELSE "look",
                          calling[c].path, calling[c].name, calling[c].depth + 1, m)]
<1>1. PICK t : t = calling[c].step
  OBVIOUS
<1>2. PICK p : p = calling[c].path
  OBVIOUS
<1>3. PICK n : n = calling[c].name
  OBVIOUS
<1>4. PICK h : h = calling[c].depth
  OBVIOUS
<1>5. PICK k : k = calling[c].module
  OBVIOUS
<1>6. calling[c] = ModuleCall(t, p, n, h, k)
  BY <1>1, <1>2, <1>3, <1>4, <1>5 DEF ModuleOwn
<1>7. PICK s : s = IF calling[c].depth = Len(calling[c].path) THEN "exec" ELSE "look"
  OBVIOUS
<1>8. [[[calling[c] EXCEPT !.module = m] EXCEPT !.depth = h + 1] EXCEPT !.step = s]
      = ModuleCall(s, p, n, h + 1, m)
  <2>1. [ModuleCall(t, p, n, h, k) EXCEPT !.module = m] = ModuleCall(t, p, n, h, m)
    BY DEF ModuleCall
  <2>2. [ModuleCall(t, p, n, h, m) EXCEPT !.depth = h + 1] = ModuleCall(t, p, n, h + 1, m)
    BY DEF ModuleCall
  <2>3. [ModuleCall(t, p, n, h + 1, m) EXCEPT !.step = s] = ModuleCall(s, p, n, h + 1, m)
    BY DEF ModuleCall
  <2>4. QED
    BY <1>6, <2>1, <2>2, <2>3
<1>9. calling' = [calling EXCEPT ![c].module = m, ![c].depth = h + 1, ![c].step = s]
  BY <1>4, <1>6, <1>7, ModuleFields DEF InModule, FlameTyped
<1>10. calling' = [calling EXCEPT ![c] = ModuleCall(s, p, n, h + 1, m)]
  BY <1>8, <1>9 DEF FlameTyped
<1>11. QED
  BY <1>2, <1>3, <1>4, <1>7, <1>10

(* The path of a call as far as it has come. *)
LEMMA OnPath ==
    ASSUME NEW c, ModuleOwn(c), ~At(c, "exec")
    PROVE  /\ RealPath(c) \in ModulePath
           /\ calling[c].depth = 1 => RealPath(c) = Top
           /\ calling[c].depth = 2 => RealPath(c) = Sub
           /\ calling[c].depth = Len(calling[c].path) => RealPath(c) = calling[c].path
           /\ calling[c].depth # Len(calling[c].path) => calling[c].depth = 1 /\ calling[c].path = Sub
  BY PathsAre, PathPrefixes DEF ModuleOwn, RealPath

(* A module that is there is the parent of what follows.                   *)
LEMMA LookUpKeeps ==
    ASSUME FlameTyped, Alone, NEW c \in FlameClient, LookUp(c)
    PROVE  Alone'
<1>1. ModuleOwn(c) /\ At(c, "look") /\ ~At(c, "exec")
      /\ \A d \in FlameClient : d # c => calling[d] = Done
  BY ModuleCalled DEF LookUp, At
<1>2. stdout' = Real
      /\ UNCHANGED <<written, outputs, modules, submodules, defines, sends, fresh>>
  BY <1>1 DEF LookUp, ModuleOwn, consoleVars, moduleVars, sourceVars
<1>3. calling[c].path \in ModulePath
  BY <1>1 DEF ModuleOwn
<1>p. PICK p \in ModulePath : p = calling[c].path
  BY <1>3
<1>n. PICK n \in Defined : n = calling[c].name
  BY <1>1 DEF ModuleOwn
<1>q. PICK q \in ModulePath : q = RealPath(c)
  BY <1>1, OnPath
<1>h. PICK h : h = calling[c].depth
  OBVIOUS
<1>4. CallsAlone'
  <2>1. CASE modules[RealPath(c)] = 0
    <3>1. Goto(c, "make")
      BY <2>1 DEF LookUp
    <3>2. QED
      BY <1>1, <1>2, <1>3, <2>1, <3>1, ModuleGoes, ModuleStep DEF ModuleOwn, RealPath
  <2>2. CASE modules[RealPath(c)] # 0
    <3>1. InModule(c, modules[RealPath(c)])
      BY <2>2 DEF LookUp
    <3>2. CASE calling[c].depth = Len(calling[c].path)
      <4>1. q = p
        BY <1>1, <1>p, <1>q, <3>2, OnPath
      <4>2. PICK m : m = modules[q]
        OBVIOUS
      <4>3. calling' = [calling EXCEPT ![c] = ModuleCall("exec", p, n, h + 1, m)]
        BY <1>1, <1>p, <1>n, <1>q, <1>h, <3>1, <3>2, <4>2, ModuleEnters
      <4>4. m = modules'[p] /\ modules'[p] # 0
        BY <1>2, <1>q, <2>2, <4>1, <4>2
      <4>5. QED
        BY <1>1, <1>2, <4>3, <4>4, ModuleStep
    <3>3. CASE calling[c].depth # Len(calling[c].path)
      <4>1. h = 1 /\ p = Sub /\ q = Top
        BY <1>1, <1>p, <1>q, <1>h, <3>3, OnPath
      <4>2. PICK m : m = modules[q]
        OBVIOUS
      <4>3. calling' = [calling EXCEPT ![c] = ModuleCall("look", p, n, 2, m)]
        <5>1. calling' = [calling EXCEPT ![c] = ModuleCall("look", p, n, h + 1, m)]
          BY <1>1, <1>p, <1>n, <1>q, <1>h, <3>1, <3>3, <4>2, ModuleEnters
        <5>2. h + 1 = 2
          BY <4>1
        <5>3. QED
          BY <5>1, <5>2
      <4>4. p = Sub /\ m = modules'[Top] /\ modules'[Top] # 0
        BY <1>2, <1>q, <2>2, <4>1, <4>2
      <4>5. QED
        BY <1>1, <1>2, <4>3, <4>4, ModuleStep
    <3>4. QED
      BY <3>2, <3>3
  <2>3. QED
    BY <2>1, <2>2
<1>5. QED
  BY <1>2, <1>4, SourcesKeep DEF Alone, OutputsOwn

(* What was sent is in the module of its path.                             *)
LEMMA SentAre ==
    ASSUME SendsDefined, NEW i \in DOMAIN sends
    PROVE  /\ sends[i].path \in ModulePath /\ modules[sends[i].path] # 0
           /\ <<modules[sends[i].path], sends[i].name>> \in defines
<1>1. PICK s : s = sends[i]
  OBVIOUS
<1>2. s \in [path : ModulePath, name : Defined]
  <2>1. PICK S : S = [path : ModulePath, name : Defined]
    OBVIOUS
  <2>2. sends \in Seq(S)
    BY <2>1 DEF SendsDefined
  <2>3. s \in S
    BY <1>1, <2>2
  <2>4. QED
    BY <2>1, <2>3
<1>3. s.path \in ModulePath
  BY <1>2
<1>4. QED
  BY <1>1, <1>3 DEF SendsDefined

(* A module that is made replaces none, and its parent knows it.           *)
LEMMA MakeKeeps ==
    ASSUME FlameTyped, Alone, NEW c \in FlameClient, MakeModule(c)
    PROVE  Alone'
<1>1. ModuleOwn(c) /\ At(c, "make") /\ ~At(c, "exec")
      /\ \A d \in FlameClient : d # c => calling[d] = Done
  BY ModuleCalled DEF MakeModule, At
<1>2. stdout' = Real /\ UNCHANGED <<written, outputs, defines, sends>>
  BY <1>1 DEF MakeModule, ModuleOwn, consoleVars
<1>3. PICK q \in ModulePath : q = RealPath(c)
  BY <1>1, OnPath
<1>4. modules[q] = 0 /\ fresh \in Nat /\ fresh' # 0 /\ fresh' \in Nat
  BY <1>1, <1>3 DEF ModuleOwn, MakeModule, Alone, ModulesLinked
<1>5. modules' = [modules EXCEPT ![q] = fresh'] /\ modules \in [ModulePath -> Nat]
  BY <1>3 DEF MakeModule, Alone, ModulesLinked
<1>6. modules'[q] = fresh' /\ \A p \in ModulePath : p # q => modules'[p] = modules[p]
  BY <1>5
<1>7. CallsAlone'
  <2>1. PICK m : m = fresh'
    OBVIOUS
  <2>goes. InModule(c, m)
    BY <2>1 DEF MakeModule
  <2>p. PICK p \in ModulePath : p = calling[c].path
    BY <1>1 DEF ModuleOwn
  <2>n. PICK n \in Defined : n = calling[c].name
    BY <1>1 DEF ModuleOwn
  <2>h. PICK h : h = calling[c].depth
    OBVIOUS
  <2>m. m = modules'[q] /\ m # 0
    BY <1>4, <1>6, <2>1
  <2>2. CASE calling[c].depth = Len(calling[c].path)
    <3>1. q = p
      BY <1>1, <1>3, <2>p, <2>2, OnPath
    <3>2. calling' = [calling EXCEPT ![c] = ModuleCall("exec", p, n, h + 1, m)]
      BY <1>1, <2>goes, <2>p, <2>n, <2>h, <2>2, ModuleEnters
    <3>3. QED
      BY <1>1, <1>2, <2>m, <3>1, <3>2, ModuleStep
  <2>3. CASE calling[c].depth # Len(calling[c].path)
    <3>1. h = 1 /\ p = Sub /\ q = Top
      BY <1>1, <1>3, <2>p, <2>h, <2>3, OnPath
    <3>2. calling' = [calling EXCEPT ![c] = ModuleCall("look", p, n, 2, m)]
      <4>1. calling' = [calling EXCEPT ![c] = ModuleCall("look", p, n, h + 1, m)]
        BY <1>1, <2>goes, <2>p, <2>n, <2>h, <2>3, ModuleEnters
      <4>2. h + 1 = 2
        BY <3>1
      <4>3. QED
        BY <4>1, <4>2
    <3>3. QED
      BY <1>1, <1>2, <2>m, <3>1, <3>2, ModuleStep
  <2>4. QED
    BY <2>2, <2>3
<1>8. ModulesLinked'
  <2>1. modules' \in [ModulePath -> Nat]
    BY <1>4, <1>5
  <2>2. CASE q = Top
    BY <1>4, <1>6, <2>1, <2>2, PathsAre DEF Alone, ModulesLinked
  <2>3. CASE q = Sub
    <3>1. calling[c].depth = 2 /\ calling[c].path = Sub /\ modules[Top] # 0
          /\ calling[c].module = modules[Top]
      BY <1>1, <1>3, <2>3, OnPath, PathsAre DEF ModuleOwn
    <3>2. Attribute(modules[Top], Sub[2], fresh') \in submodules'
      BY <3>1 DEF MakeModule
    <3>3. QED
      BY <1>4, <1>6, <2>1, <2>3, <3>1, <3>2, PathsAre DEF ModulesLinked
  <2>4. QED
    BY <2>2, <2>3, PathsAre
<1>9. SendsDefined'
  <2>1. ASSUME NEW i \in DOMAIN sends'
        PROVE  /\ modules'[sends'[i].path] # 0
               /\ <<modules'[sends'[i].path], sends'[i].name>> \in defines'
    <3>1. PICK p : p = sends[i].path
      OBVIOUS
    <3>2. p \in ModulePath /\ modules[p] # 0 /\ <<modules[p], sends[i].name>> \in defines
      BY <1>2, <2>1, <3>1, SentAre DEF Alone
    <3>3. modules'[p] = modules[p]
      BY <1>4, <1>6, <3>2
    <3>4. QED
      BY <1>2, <3>1, <3>2, <3>3
  <2>2. QED
    BY <1>2, <2>1 DEF Alone, SendsDefined
<1>10. QED
  BY <1>2, <1>7, <1>8, <1>9 DEF Alone, OutputsOwn

(* The source is executed in the module of its path.                       *)
LEMMA ExecKeeps ==
    ASSUME FlameTyped, Alone, NEW c \in FlameClient, NEW fails \in BOOLEAN, ExecSource(c, fails)
    PROVE  Alone'
<1>1. ModuleOwn(c) /\ At(c, "exec") /\ \A d \in FlameClient : d # c => calling[d] = Done
  BY ModuleCalled DEF ExecSource, At
<1>2. stdout' = Real /\ UNCHANGED <<written, outputs, modules, submodules, fresh>>
  BY <1>1 DEF ExecSource, ModuleOwn, consoleVars
<1>3. calling'[c] = Done /\ \A d \in FlameClient : d # c => calling'[d] = Done
  BY <1>1 DEF ExecSource, FlameTyped
<1>4. CallsAlone'
  BY <1>2, <1>3, CallsKeep DEF CallOwn
<1>5. SendsDefined'
  <2>1. CASE fails
    BY <1>2, <2>1 DEF ExecSource, Alone, SendsDefined
  <2>2. CASE ~fails
    <3>1. PICK p \in ModulePath : p = calling[c].path
      BY <1>1 DEF ModuleOwn
    <3>2. PICK n \in Defined : n = calling[c].name
      BY <1>1 DEF ModuleOwn
    <3>3. modules[p] # 0 /\ calling[c].module = modules[p]
      BY <1>1, <3>1 DEF ModuleOwn
    <3>4. PICK s : s = [path |-> p, name |-> n]
      OBVIOUS
    <3>5. s \in [path : ModulePath, name : Defined] /\ s.path = p /\ s.name = n
      BY <3>4
    <3>6. sends' = Append(sends, s) /\ defines' = defines \cup {<<modules[p], n>>}
      BY <2>2, <3>1, <3>2, <3>3, <3>4 DEF ExecSource
    <3>7. sends \in Seq([path : ModulePath, name : Defined])
      BY DEF Alone, SendsDefined
    <3>8. ASSUME NEW i \in DOMAIN sends'
          PROVE  /\ modules'[sends'[i].path] # 0
                 /\ <<modules'[sends'[i].path], sends'[i].name>> \in defines'
      <4>1. CASE i \in DOMAIN sends
        <5>1. sends'[i] = sends[i]
          BY <3>5, <3>6, <3>7, <4>1
        <5>2. QED
          BY <1>2, <3>6, <4>1, <5>1, SentAre DEF Alone
      <4>2. CASE i \notin DOMAIN sends
        <5>1. sends'[i] = s
          BY <3>5, <3>6, <3>7, <3>8, <4>2
        <5>2. QED
          BY <1>2, <3>3, <3>5, <3>6, <5>1
      <4>3. QED
        BY <4>1, <4>2
    <3>9. sends' \in Seq([path : ModulePath, name : Defined])
      BY <3>5, <3>6, <3>7
    <3>10. QED
      BY <3>8, <3>9 DEF SendsDefined
  <2>3. QED
    BY <2>1, <2>2
<1>6. QED
  BY <1>2, <1>4, <1>5 DEF Alone, OutputsOwn, ModulesLinked

(* The walk along attributes that invokes a module finds it.               *)
LEMMA TraversedIs ==
    ASSUME ModulesLinked, NEW p \in ModulePath, modules[p] # 0
    PROVE  modules[p] \in Traversed(p)
<1>1. CASE p = Top
  BY <1>1, PathsAre DEF Traversed
<1>2. CASE p = Sub
  <2>1. PICK x \in submodules : x = Attribute(modules[Top], Sub[2], modules[Sub])
    BY <1>2 DEF ModulesLinked
  <2>2. x.module = modules[Top] /\ x.name = Sub[2] /\ x.submodule = modules[Sub]
    BY <2>1 DEF Attribute
  <2>3. Traversed(p) = {y.submodule : y \in {z \in submodules : z.module = modules[Top] /\ z.name = Sub[2]}}
    BY <1>2, PathsAre DEF Traversed
  <2>4. QED
    BY <1>2, <2>2, <2>3
<1>3. QED
  BY <1>1, <1>2, PathsAre

(* Every client has a call and a number of lines.                          *)
LEMMA FlameTypeKept ==
    ASSUME FlameTyped, [FlameNext]_flameVars
    PROVE  FlameTyped'
<1>1. CASE UNCHANGED flameVars \/ \E k \in {"thread", "multiplex"} : StartFlame(k)
  BY <1>1 DEF FlameTyped, flameVars, StartFlame, consoleVars
<1>2. ASSUME NEW c \in FlameClient,
             \/ Console(c) \/ Terminate(c) \/ Push(c) \/ Swap(c) \/ CloseValue(c) \/ Restore(c)
             \/ \E path \in ModulePath, name \in Defined : SendModule(c, path, name)
             \/ \E fails \in BOOLEAN : ExecSource(c, fails)
      PROVE  FlameTyped'
  BY <1>2 DEF FlameTyped, consoleVars, Console, Terminate, Push, Swap, CloseValue, Restore,
      SendModule, ExecSource, Goto
<1>3. ASSUME NEW c \in FlameClient, PrintLine(c)
      PROVE  FlameTyped'
  BY <1>3 DEF FlameTyped, PrintLine, Goto
<1>4. ASSUME NEW c \in FlameClient, GetValue(c)
      PROVE  FlameTyped'
  BY <1>4 DEF FlameTyped, consoleVars, GetValue, Goto
<1>5. ASSUME NEW c \in FlameClient, LookUp(c) \/ MakeModule(c)
      PROVE  FlameTyped'
  BY <1>5 DEF FlameTyped, consoleVars, LookUp, MakeModule, Goto, InModule
<1>6. QED
  BY <1>1, <1>2, <1>3, <1>4, <1>5 DEF FlameNext

(* With a server that executes one call at a time a console's caller gets  *)
(* what its own line printed, stdout is restored, and what was sent can be *)
(* called, for any clients, lines and sources, with failures at any point. *)
THEOREM FlameIsKept == FlameSpec => []FlameInv
<1>1. FlameInit => FlameIInv
  <2>1. SUFFICES ASSUME FlameInit PROVE FlameIInv
    OBVIOUS
  <2>2. CallsAlone
    BY <2>1 DEF FlameInit, CallsAlone, CallOwn
  <2>3. ModulesLinked
    BY <2>1, PathsAre DEF FlameInit, ModulesLinked
  <2>4. SendsDefined
    BY <2>1 DEF FlameInit, SendsDefined
  <2>5. QED
    BY <2>1, <2>2, <2>3, <2>4 DEF FlameInit, FlameIInv, FlameTyped, Alone, OutputsOwn
<1>2. FlameIInv /\ [FlameNext]_flameVars => FlameIInv'
  <2>1. SUFFICES ASSUME FlameIInv, [FlameNext]_flameVars PROVE FlameIInv'
    OBVIOUS
  <2>2. FlameTyped'
    BY <2>1, FlameTypeKept DEF FlameIInv
  <2>3. SUFFICES ASSUME serving' \in {None, "multiplex"} PROVE Alone'
    BY <2>2 DEF FlameIInv
  <2>4. CASE UNCHANGED flameVars \/ \E k \in {"thread", "multiplex"} : StartFlame(k)
    <3>1. UNCHANGED <<calling, stdout, written, shut, outputs, lineCount, modules, submodules,
                      defines, sends, fresh>>
      BY <2>4 DEF flameVars, StartFlame, consoleVars, moduleVars, sourceVars
    <3>2. serving \in {None, "multiplex"}
      BY <2>3, <2>4 DEF flameVars, StartFlame
    <3>3. QED
      BY <2>1, <3>1, <3>2, AloneKept DEF FlameIInv
  <2>5. ASSUME ~(\E k \in {"thread", "multiplex"} : StartFlame(k)), FlameNext PROVE Alone'
    <3>1. serving' = serving
      BY <2>5 DEF FlameNext, Console, Terminate, Push, Swap, PrintLine, GetValue, CloseValue,
          Restore, LookUp, MakeModule, SendModule, ExecSource
    <3>2. serving \in {None, "multiplex"} /\ FlameTyped /\ Alone
      BY <2>1, <2>3, <3>1 DEF FlameIInv
    <3>3. PICK c \in FlameClient :
            \/ Console(c) \/ Terminate(c) \/ Push(c) \/ Swap(c) \/ PrintLine(c) \/ GetValue(c)
            \/ CloseValue(c) \/ Restore(c) \/ LookUp(c) \/ MakeModule(c)
            \/ \E path \in ModulePath, name \in Defined : SendModule(c, path, name)
            \/ \E fails \in BOOLEAN : ExecSource(c, fails)
      BY <2>5 DEF FlameNext
    <3>4. QED
      BY <3>2, <3>3, ConsolesStart, PushKeeps, SwapKeeps, PrintKeeps, GetKeeps, CloseKeeps,
         RestoreKeeps, LookUpKeeps, MakeKeeps, SourceSent, ExecKeeps
  <2>6. QED
    BY <2>1, <2>4, <2>5
<1>3. FlameIInv => FlameInv
  <2>1. SUFFICES ASSUME FlameIInv, serving = "multiplex" PROVE FlameInv
    BY DEF FlameInv, OutputOwn, SentCallable
  <2>2. Alone
    BY <2>1 DEF FlameIInv
  <2>3. OutputOwn
    <3>1. SUFFICES ASSUME \A c \in FlameClient : At(c, "none") PROVE stdout = Real
      BY <2>2 DEF OutputOwn, Alone, OutputsOwn
    <3>2. \A c \in FlameClient : calling[c] = Done
      BY <2>2, <3>1, StepsDiffer DEF Alone, CallsAlone, CallOwn, At
    <3>3. QED
      BY <2>2, <3>2 DEF Alone, CallsAlone
  <2>4. SentCallable
    <3>1. SUFFICES ASSUME NEW i \in DOMAIN sends
                   PROVE  \E m \in Traversed(sends[i].path) : <<m, sends[i].name>> \in defines
      BY DEF SentCallable
    <3>2. PICK p : p = sends[i].path
      OBVIOUS
    <3>3. PICK n : n = sends[i].name
      OBVIOUS
    <3>4. p \in ModulePath /\ modules[p] # 0 /\ <<modules[p], n>> \in defines
      BY <2>2, <3>1, <3>2, <3>3, SentAre DEF Alone
    <3>5. modules[p] \in Traversed(p)
      BY <2>2, <3>4, TraversedIs DEF Alone
    <3>6. QED
      BY <3>2, <3>3, <3>4, <3>5
  <2>5. QED
    BY <2>3, <2>4 DEF FlameInv
<1>4. QED
  BY <1>1, <1>2, <1>3, PTL DEF FlameSpec

-----------------------------------------------------------------------------
(* The configuration: Configuration. *)

(* What a text of the environment or the default makes of an item. *)
Read(i, useenv) == IF useenv /\ env[i] # None THEN Cast(i, env[i]) ELSE Default(i)

ConfigTyped ==
    /\ resets \in Nat /\ config = [i \in ConfigItem |-> config[i]]
    /\ log = None => resetting = None /\ resets = 0 /\ daemonsMade = {}
                        /\ config = [i \in ConfigItem |-> Default(i)]
    /\ log # None => lastReset \in [how : {"begun", "done", "error"}, useenv : BOOLEAN]

(* A reset in progress has read the items before the next one. *)
ResetBegun ==
    resetting # None =>
        /\ resetting \in [next : Nat, useenv : BOOLEAN]
        /\ lastReset.how = "begun" /\ lastReset.useenv = resetting.useenv
        /\ resetting.next = 0 => \A i \in ConfigItem : i # Accepted => config[i] = Default(i)
        /\ resetting.next > 0 =>
                \A i \in ConfigItem : config[i] \in {Default(i), Read(i, resetting.useenv)}
        /\ \A j \in 1 .. Len(ItemOrder) :
                j < resetting.next => config[ItemOrder[j]] = Read(ItemOrder[j], resetting.useenv)

ResetEnded ==
    log # None =>
        /\ lastReset.how = "done" =>
                \A i \in ConfigItem : config[i] = Meant(i, lastReset.useenv)
        /\ lastReset.how = "error" => config[Accepted][1] = "str"

ConfigIInv == ConfigTyped /\ ResetBegun /\ ResetEnded /\ MadeFromComplete

(* Before it is split, the text of the accepted serializers is read as a   *)
(* string.                                                                 *)
LEMMA AcceptedIsText ==
    ASSUME NEW useenv
    PROVE  /\ Accepted \in ConfigItem /\ Default(Accepted)[1] = "str"
           /\ Read(Accepted, useenv)[1] = "str"
  BY ConfigAssumption DEF Default, Read, Cast

(* An assignment to one item leaves the others alone. *)
LEMMA ItemsSet ==
    ASSUME config = [i \in ConfigItem |-> config[i]], NEW a \in ConfigItem, NEW value,
           config' = [config EXCEPT ![a] = value]
    PROVE  /\ config' = [i \in ConfigItem |-> config'[i]] /\ config'[a] = value
           /\ \A i \in ConfigItem : i # a => config'[i] = config[i]
  OBVIOUS

(* The import of the module resets everything from the environment. *)
LEMMA ImportResets ==
    ASSUME ConfigIInv, Import
    PROVE  ConfigIInv'
<1>1. /\ log = None /\ log' \in {"disabled", "kept", "console", "file"}
      /\ resetting' = [next |-> 0, useenv |-> TRUE] /\ resets' = resets + 1
      /\ lastReset' = [how |-> "begun", useenv |-> TRUE]
      /\ UNCHANGED <<config, daemonsMade>>
  BY DEF Import, Resets, LogTarget
<1>2. log' # None
  BY <1>1, ConfigAssumption
<1>3. ConfigTyped'
  BY <1>1, <1>2 DEF ConfigIInv, ConfigTyped
<1>4. ResetBegun'
  <2>1. \A i : Default(i)' = Default(i)
    BY DEF Default
  <2>2. \A i \in ConfigItem : config'[i] = Default(i)
    <3>1. config = [i \in ConfigItem |-> Default(i)]
      BY <1>1 DEF ConfigIInv, ConfigTyped
    <3>2. config' = [i \in ConfigItem |-> Default(i)]
      BY <1>1, <3>1
    <3>3. QED
      BY ONLY <3>2
  <2>3. \A j \in 1 .. Len(ItemOrder) : ~(j < 0)
    BY ConfigAssumption
  <2>4. /\ resetting' \in [next : Nat, useenv : BOOLEAN] /\ resetting'.next = 0
        /\ lastReset'.how = "begun" /\ lastReset'.useenv = resetting'.useenv
    BY <1>1
  <2>5. QED
    BY <2>1, <2>2, <2>3, <2>4 DEF ResetBegun
<1>5. ResetEnded' /\ MadeFromComplete'
  BY <1>1 DEF ConfigIInv, ConfigTyped, ResetEnded, MadeFromComplete
<1>6. QED
  BY <1>3, <1>4, <1>5 DEF ConfigIInv

(* A step after import, which leaves the environment. *)
LEMMA MeantStays ==
    ASSUME UNCHANGED env
    PROVE  /\ \A i, u : Read(i, u)' = Read(i, u)
           /\ \A i, u : Meant(i, u)' = Meant(i, u)
  BY DEF Read, Meant, Cast, Default

(* What has been said of the daemons stays true when none is made. *)
LEMMA MadeStays ==
    ASSUME MadeFromComplete, UNCHANGED <<env, daemonsMade>>
    PROVE  MadeFromComplete'
  BY MeantStays DEF MadeFromComplete

(* A reset begins. *)
LEMMA ResetBegins ==
    ASSUME ConfigIInv, NEW useenv \in BOOLEAN, BeginReset(useenv)
    PROVE  ConfigIInv'
<1>1. /\ log # None /\ resetting' = [next |-> 0, useenv |-> useenv] /\ resets' = resets + 1
      /\ config' = [i \in ConfigItem |-> IF i = Accepted THEN config[i] ELSE Default(i)]
      /\ lastReset' = [how |-> "begun", useenv |-> useenv]
      /\ UNCHANGED <<env, log, daemonsMade>>
  BY DEF BeginReset, Resets
<1>2. ConfigTyped'
  BY <1>1 DEF ConfigIInv, ConfigTyped
<1>3. ResetBegun'
  BY <1>1 DEF ResetBegun
<1>4. ResetEnded' /\ MadeFromComplete'
  BY <1>1, MadeStays DEF ConfigIInv, ResetEnded
<1>5. QED
  BY <1>2, <1>3, <1>4 DEF ConfigIInv

(* The accepted serializers get their default first. *)
LEMMA AcceptedDefaults ==
    ASSUME ConfigIInv, DefaultAccepted
    PROVE  ConfigIInv'
<1>1. /\ resetting # None /\ resetting.next = 0 /\ log # None
      /\ resetting \in [next : Nat, useenv : BOOLEAN]
      /\ resetting' = [resetting EXCEPT !.next = 1]
      /\ config' = [config EXCEPT ![Accepted] = Default(Accepted)]
      /\ UNCHANGED <<env, log, lastReset, daemonsMade, resets>>
  BY DEF DefaultAccepted, ConfigIInv, ConfigTyped, ResetBegun
<1>2. resetting' \in [next : Nat, useenv : BOOLEAN] /\ resetting'.next = 1
      /\ resetting'.useenv = resetting.useenv
  BY <1>1
<1>3. /\ config' = [i \in ConfigItem |-> config'[i]]
      /\ \A i \in ConfigItem : config'[i] = Default(i)
  <2>1. /\ config' = [i \in ConfigItem |-> config'[i]]
        /\ config'[Accepted] = Default(Accepted)
        /\ \A i \in ConfigItem : i # Accepted => config'[i] = config[i]
    BY <1>1, AcceptedIsText, ItemsSet DEF ConfigIInv, ConfigTyped
  <2>2. QED
    BY <1>1, <2>1 DEF ConfigIInv, ResetBegun
<1>4. ConfigTyped'
  BY <1>1, <1>3 DEF ConfigIInv, ConfigTyped
<1>5. ResetBegun'
  BY <1>1, <1>2, <1>3 DEF ConfigIInv, ResetBegun
<1>6. ResetEnded' /\ MadeFromComplete'
  BY <1>1, MadeStays DEF ConfigIInv, ResetBegun, ResetEnded
<1>7. QED
  BY <1>4, <1>5, <1>6 DEF ConfigIInv

(* One more item is read, or its text is wrong and breaks the reset off. *)
LEMMA ItemIsRead ==
    ASSUME ConfigIInv, SetConfigItem
    PROVE  ConfigIInv'
<1> DEFINE i == ItemOrder[resetting.next]
           value == IF resetting.useenv /\ env[i] # None THEN Cast(i, env[i]) ELSE config[i]
<1>1. /\ resetting # None /\ resetting.next \in 1 .. Len(ItemOrder) /\ log # None
      /\ resetting \in [next : Nat, useenv : BOOLEAN]
      /\ lastReset \in [how : {"begun", "done", "error"}, useenv : BOOLEAN]
      /\ UNCHANGED <<env, log, daemonsMade, resets>>
  BY DEF SetConfigItem, ConfigIInv, ConfigTyped, ResetBegun
<1>2. CASE value = None
  <2>1. /\ resetting' = None /\ lastReset' = [lastReset EXCEPT !.how = "error"]
        /\ UNCHANGED config
    BY <1>2 DEF SetConfigItem
  <2>2. lastReset' \in [how : {"begun", "done", "error"}, useenv : BOOLEAN]
        /\ lastReset'.how = "error"
    BY <1>1, <2>1
  <2>3. config[Accepted][1] = "str"
    BY <1>1, AcceptedIsText DEF ConfigIInv, ResetBegun
  <2>4. ConfigTyped'
    BY <1>1, <2>1, <2>2 DEF ConfigIInv, ConfigTyped
  <2>5. ResetBegun' /\ ResetEnded' /\ MadeFromComplete'
    BY <1>1, <2>1, <2>2, <2>3, MadeStays DEF ConfigIInv, ResetBegun, ResetEnded
  <2>6. QED
    BY <2>4, <2>5 DEF ConfigIInv
<1>3. CASE value # None
  <2>1. /\ resetting' = [resetting EXCEPT !.next = resetting.next + 1]
        /\ config' = [config EXCEPT ![i] = value] /\ UNCHANGED lastReset
    BY <1>3 DEF SetConfigItem
  <2>2. /\ resetting' \in [next : Nat, useenv : BOOLEAN]
        /\ resetting'.next = resetting.next + 1 /\ resetting'.useenv = resetting.useenv
    BY <1>1, <2>1
  <2>3. i \in ConfigItem
    BY <1>1 DEF ConfigItem
  <2>4. value = Read(i, resetting.useenv)
    BY <1>1, <2>3 DEF ConfigIInv, ResetBegun, Read
  <2> HIDE DEF i, value
  <2>5. /\ config' = [j \in ConfigItem |-> config'[j]] /\ config'[i] = value
        /\ \A j \in ConfigItem : j # i => config'[j] = config[j]
    BY <2>1, <2>3, ItemsSet DEF ConfigIInv, ConfigTyped
  <2>6. ConfigTyped'
    BY <1>1, <2>1, <2>5 DEF ConfigIInv, ConfigTyped
  <2>7. ResetBegun'
    <3>1. \A j \in ConfigItem : config'[j] \in {Default(j), Read(j, resetting.useenv)}
      BY <1>1, <2>4, <2>5 DEF ConfigIInv, ResetBegun
    <3>2. ASSUME NEW j \in 1 .. Len(ItemOrder), j < resetting.next + 1
          PROVE  config'[ItemOrder[j]] = Read(ItemOrder[j], resetting.useenv)
      <4>1. CASE ItemOrder[j] = i
        BY <2>4, <2>5, <4>1
      <4>2. CASE ItemOrder[j] # i
        <5>1. ItemOrder[j] \in ConfigItem
          BY DEF ConfigItem
        <5>2. j < resetting.next
          BY <1>1, <3>2, <4>2, ConfigAssumption DEF i
        <5>3. QED
          BY <1>1, <2>5, <4>2, <5>1, <5>2 DEF ConfigIInv, ResetBegun
      <4>3. QED
        BY <4>1, <4>2
    <3>3. lastReset'.how = "begun" /\ lastReset'.useenv = resetting'.useenv
      BY <1>1, <2>1, <2>2 DEF ConfigIInv, ResetBegun
    <3>4. \A j, u : Read(j, u)' = Read(j, u) /\ Default(j)' = Default(j)
      BY <1>1, MeantStays DEF Default
    <3>5. QED
      BY <1>1, <2>2, <3>1, <3>2, <3>3, <3>4 DEF ResetBegun
  <2>8. ResetEnded' /\ MadeFromComplete'
    BY <1>1, <2>1, MadeStays DEF ConfigIInv, ResetBegun, ResetEnded
  <2>9. QED
    BY <2>6, <2>7, <2>8 DEF ConfigIInv
<1>4. QED
  BY <1>2, <1>3

(* The accepted serializers become a set. *)
LEMMA AcceptedIsSplit ==
    ASSUME ConfigIInv, SplitAccepted
    PROVE  ConfigIInv'
<1>1. /\ resetting # None /\ resetting.next > Len(ItemOrder) /\ log # None
      /\ resetting \in [next : Nat, useenv : BOOLEAN]
      /\ lastReset \in [how : {"begun", "done", "error"}, useenv : BOOLEAN]
      /\ lastReset.useenv = resetting.useenv
      /\ config' = [config EXCEPT ![Accepted] = <<"set", config[Accepted][2]>>]
      /\ resetting' = None /\ lastReset' = [lastReset EXCEPT !.how = "done"]
      /\ UNCHANGED <<env, log, daemonsMade, resets>>
  BY DEF SplitAccepted, ConfigIInv, ConfigTyped, ResetBegun
<1>2. /\ lastReset' \in [how : {"begun", "done", "error"}, useenv : BOOLEAN]
      /\ lastReset'.how = "done" /\ lastReset'.useenv = resetting.useenv
  BY <1>1
<1>3. \A i \in ConfigItem : config[i] = Read(i, resetting.useenv)
  <2>1. ASSUME NEW i \in ConfigItem PROVE config[i] = Read(i, resetting.useenv)
    <3>1. PICK j \in 1 .. Len(ItemOrder) : ItemOrder[j] = i
      BY DEF ConfigItem
    <3>2. j < resetting.next
      BY <1>1, ConfigAssumption
    <3>3. QED
      BY <1>1, <3>1, <3>2 DEF ConfigIInv, ResetBegun
  <2>2. QED
    BY <2>1
<1>4. /\ config' = [i \in ConfigItem |-> config'[i]]
      /\ config'[Accepted] = <<"set", config[Accepted][2]>>
      /\ \A i \in ConfigItem : i # Accepted => config'[i] = config[i]
  BY <1>1, AcceptedIsText, ItemsSet DEF ConfigIInv, ConfigTyped
<1>5. \A i \in ConfigItem : config'[i] = Meant(i, resetting.useenv)
  BY <1>3, <1>4, AcceptedIsText DEF Meant, Read
<1>6. ConfigTyped'
  BY <1>1, <1>2, <1>4 DEF ConfigIInv, ConfigTyped
<1>7. ResetEnded'
  BY <1>1, <1>2, <1>5, MeantStays DEF ResetEnded
<1>8. ResetBegun' /\ MadeFromComplete'
  BY <1>1, MadeStays DEF ConfigIInv, ResetBegun
<1>9. QED
  BY <1>6, <1>7, <1>8 DEF ConfigIInv

(* A daemon is made from the configuration that there is. *)
LEMMA DaemonIsMade ==
    ASSUME ConfigIInv, MakeDaemon
    PROVE  ConfigIInv'
<1>1. /\ config[Accepted][1] = "set"
      /\ daemonsMade' = daemonsMade \cup {[config |-> config, reset |-> lastReset]}
      /\ UNCHANGED <<env, log, config, resetting, lastReset, resets>>
      /\ log # None
  BY DEF MakeDaemon, ConfigIInv, ConfigTyped
<1>2. ConfigTyped' /\ ResetBegun' /\ ResetEnded'
  <2>1. \A i : Default(i)' = Default(i)
    BY DEF Default
  <2>2. QED
    BY <1>1, <2>1, MeantStays DEF ConfigIInv, ConfigTyped, ResetBegun, ResetEnded
<1>3. MadeFromComplete'
  <2>1. lastReset.how # "error"
    BY <1>1 DEF ConfigIInv, ResetEnded
  <2>2. lastReset.how = "done" => \A i \in ConfigItem : config[i] = Meant(i, lastReset.useenv)
    BY <1>1 DEF ConfigIInv, ResetEnded
  <2>3. QED
    BY <1>1, <2>1, <2>2, MeantStays DEF ConfigIInv, MadeFromComplete
<1>4. QED
  BY <1>2, <1>3 DEF ConfigIInv

(* Every step of the configuration keeps the invariant. *)
LEMMA ConfigNextKeeps == ConfigIInv /\ [ConfigNext]_configVars => ConfigIInv'
<1> SUFFICES ASSUME ConfigIInv, [ConfigNext]_configVars PROVE ConfigIInv'
  OBVIOUS
<1>1. CASE UNCHANGED configVars
  <2>1. UNCHANGED <<env, log, config, resetting, lastReset, daemonsMade, resets>>
    BY <1>1 DEF configVars
  <2>2. \A i : Default(i)' = Default(i)
    BY DEF Default
  <2>3. ConfigTyped' /\ ResetBegun' /\ ResetEnded'
    BY <2>1, <2>2, MeantStays DEF ConfigIInv, ConfigTyped, ResetBegun, ResetEnded
  <2>4. QED
    BY <2>1, <2>3, MadeStays DEF ConfigIInv
<1>2. QED
  BY <1>1, ImportResets, ResetBegins, AcceptedDefaults, ItemIsRead, AcceptedIsSplit, DaemonIsMade
     DEF ConfigNext

(* MadeFromComplete for any items and any environment: what a reset has    *)
(* read so far is as meant, and the accepted serializers are still text    *)
(* until it ends (configuration lines 40-112, core line 1157).             *)
THEOREM DaemonsAreAsMeant == ConfigSpec => []MadeFromComplete
<1>1. ConfigInit => ConfigIInv
  BY DEF ConfigInit, ConfigIInv, ConfigTyped, ResetBegun, ResetEnded, MadeFromComplete
<1>2. ConfigIInv => MadeFromComplete
  BY DEF ConfigIInv
<1>3. QED
  BY <1>1, <1>2, ConfigNextKeeps, PTL DEF ConfigSpec

-----------------------------------------------------------------------------
(* TLS contexts: SslContext. *)

Settings == [server : File, client : File, cas : File, required : BOOLEAN]
Loaded == [cert : BOOLEAN, cas : BOOLEAN, required : BOOLEAN]

(* Calls have the certificate of their purpose, and go on with a context   *)
(* only when there is one in the variable.                                 *)
SslTyped ==
    /\ ssl \in Settings \cup {None}
    /\ contextsMade \in 0 .. MaxContexts
    /\ cached \in [Purpose -> 1 .. contextsMade \cup {None}]
    /\ contexts \in [1 .. MaxContexts -> Loaded]
    /\ sslCalls \in [SslThread -> SslCall \cup {None}]
    /\ sslFailed \in BOOLEAN

SslUnused ==
    /\ \A n \in 1 .. MaxContexts : n > contextsMade => contexts[n] = Fresh
    /\ ssl = None => \A t \in SslThread : sslCalls[t] = None
    /\ ssl = None => \A p \in Purpose : cached[p] = None

SslCallsOwn ==
    \A t \in SslThread : sslCalls[t] # None =>
        /\ ssl.server # "" =>
            sslCalls[t].cert = IF sslCalls[t].purpose = "server" THEN ssl.server ELSE ssl.client
        /\ sslCalls[t].at \in {"cert", "cas", "verify"} => cached[sslCalls[t].purpose] # None

(* The server's context is not the client's. *)
SslApart == cached["server"] # None => cached["server"] # cached["client"]

(* Is a call under way that has still to load this into the context? *)
Loading(p, steps) ==
    \E t \in SslThread : sslCalls[t] # None /\ sslCalls[t].purpose = p /\ sslCalls[t].at \in steps

(* What is not in the context yet will be. *)
WillHave(has, should, p, steps) == has = should \/ (~has /\ Loading(p, steps))

Completes(p) ==
    LET c == contexts[cached[p]]
    IN  /\ WillHave(c.cert, Configured(p).cert, p, {"cert"})
        /\ WillHave(c.cas, Configured(p).cas, p, {"cert", "cas"})
        /\ WillHave(c.required, Configured(p).required, p, {"cert", "cas", "verify"})

SslCompletes ==
    ssl # None /\ ~sslFailed /\ ssl.server # "" =>
        \A p \in Purpose : cached[p] # None => Completes(p)

SslIInv == SslTyped /\ SslUnused /\ SslCallsOwn /\ SslApart /\ SslCompletes

(* There is a bound on the contexts, and no number of one is None. *)
LEMMA SslBounds == MaxContexts \in Nat /\ None \notin 1 .. MaxContexts
  BY SslAssumption

(* A call for a purpose, with its certificate, at any place of its code. *)
LEMMA SslCallsExist ==
    ASSUME NEW p \in Purpose, NEW c \in File, NEW a \in {"test", "create", "cert", "cas", "verify"}
    PROVE  /\ [purpose |-> p, cert |-> c, at |-> a] \in SslCall
           /\ [purpose |-> p, cert |-> c, at |-> a] # None
<1>1. None \notin SslCall
  BY SslAssumption
<1>2. [purpose |-> p, cert |-> c, at |-> a] \in SslCall
  BY DEF SslCall
<1>3. QED
  BY <1>1, <1>2

(* The invariant holds initially. *)
LEMMA SslStarts == SslContextInit => SslIInv
<1> SUFFICES ASSUME SslContextInit PROVE SslIInv
  OBVIOUS
<1>1. Fresh \in Loaded
  BY DEF Fresh, Loaded
<1>2. SslTyped
  <2>1. contextsMade \in 0 .. MaxContexts
    BY SslBounds DEF SslContextInit
  <2>2. cached \in [Purpose -> 1 .. contextsMade \cup {None}]
    BY DEF SslContextInit
  <2>3. contexts \in [1 .. MaxContexts -> Loaded]
    BY <1>1 DEF SslContextInit
  <2>4. QED
    BY <2>1, <2>2, <2>3 DEF SslTyped, SslContextInit
<1>3. SslUnused /\ SslCallsOwn
  BY DEF SslContextInit, SslUnused, SslCallsOwn
<1>4. SslApart /\ SslCompletes
  BY DEF SslContextInit, SslApart, SslCompletes, Purpose
<1>5. QED
  BY <1>2, <1>3, <1>4 DEF SslIInv

(* The settings are made. *)
LEMMA SslConfigures == SslIInv /\ ConfigureSsl => SslIInv'
  BY DEF ConfigureSsl, SslIInv, SslTyped, SslUnused, SslCallsOwn, SslApart,
    SslCompletes, Settings

(* A thread calls getSSLcontext. *)
LEMMA SslCalls ==
    ASSUME SslIInv, NEW t \in SslThread, NEW side \in Purpose, GetSslContext(t, side)
    PROVE  SslIInv'
<1> DEFINE cert == IF side = "server" THEN ssl.server ELSE ssl.client
           purpose == IF side = "server" /\ cert # "" THEN "server" ELSE "client"
           call == [purpose |-> purpose, cert |-> cert, at |-> "test"]
<1>1. /\ ssl \in Settings /\ sslCalls[t] = None
      /\ sslCalls' = [sslCalls EXCEPT ![t] = call]
      /\ UNCHANGED <<ssl, cached, contexts, contextsMade, sslFailed>>
  BY DEF GetSslContext, SslIInv, SslTyped
<1>7. purpose \in Purpose /\ cert \in File
  BY <1>1 DEF Settings, Purpose
<1>8. call \in SslCall /\ call # None
  BY <1>7, SslCallsExist
<1>2. ssl.server # "" => call.cert = IF call.purpose = "server" THEN ssl.server ELSE ssl.client
  BY DEF Purpose
<1>5. call.at = "test"
  OBVIOUS
<1> HIDE DEF call
<1>3. SslTyped'
  BY <1>1, <1>8 DEF SslIInv, SslTyped
<1>9. SslUnused' /\ SslApart'
  <2>1. ssl # None
    BY DEF GetSslContext
  <2>2. QED
    BY <1>1, <2>1 DEF SslIInv, SslUnused, SslApart
<1>10. SslCallsOwn'
  BY <1>1, <1>2, <1>5, <1>8 DEF SslIInv, SslTyped, SslCallsOwn
<1>4. SslCompletes'
  <2>1. ASSUME NEW p, NEW steps, Loading(p, steps) PROVE Loading(p, steps)'
    BY <1>1, <2>1 DEF Loading, SslIInv, SslTyped
  <2>2. QED
    BY <1>1, <2>1 DEF SslIInv, SslCompletes, Completes, WillHave, Configured
<1>6. QED
  BY <1>3, <1>4, <1>9, <1>10 DEF SslIInv

(* A step of a call: it goes on, returns or fails. *)
SslGoes(t, v) ==
    /\ t \in SslThread /\ sslCalls[t] # None /\ v \in SslCall \cup {None}
    /\ sslCalls' = [sslCalls EXCEPT ![t] = v]
    /\ v # None => v.purpose = sslCalls[t].purpose /\ v.cert = sslCalls[t].cert
    /\ sslFailed' \in BOOLEAN /\ ssl' = ssl

(* A call goes on to its next place, *)
LEMMA SslGoesOn ==
    ASSUME SslIInv, NEW t \in SslThread, sslCalls[t] # None, UNCHANGED ssl, NEW a, GoesOn(t, a),
           a \in {"test", "create", "cert", "cas", "verify"}
    PROVE  \E v \in SslCall : v.at = a /\ v # None /\ SslGoes(t, v)
<1> DEFINE v == [purpose |-> sslCalls[t].purpose, cert |-> sslCalls[t].cert, at |-> a]
<1>1. sslCalls[t] \in SslCall /\ sslFailed \in BOOLEAN
  BY DEF SslIInv, SslTyped
<1>2. v \in SslCall /\ v # None
  BY <1>1, SslCallsExist DEF SslCall
<1>3. v = [sslCalls[t] EXCEPT !.at = a]
  BY <1>1 DEF SslCall
<1>4. sslCalls' = [sslCalls EXCEPT ![t] = v] /\ sslFailed' = sslFailed
  BY <1>3 DEF GoesOn
<1>5. v.purpose = sslCalls[t].purpose /\ v.cert = sslCalls[t].cert /\ v.at = a
  OBVIOUS
<1> HIDE DEF v
<1>6. QED
  BY <1>1, <1>2, <1>4, <1>5 DEF SslGoes

(* or is over. *)
LEMMA SslReturns ==
    ASSUME SslIInv, NEW t \in SslThread, sslCalls[t] # None, UNCHANGED ssl, Returns(t) \/ Raises(t)
    PROVE  SslGoes(t, None)
  BY DEF SslIInv, SslTyped, Returns, Raises, SslGoes

(* What stays true of calls and variables when one call goes on and no     *)
(* variable is assigned.                                                   *)
LEMMA SslKeeps ==
    ASSUME SslIInv, NEW t, NEW v, SslGoes(t, v), UNCHANGED <<cached, contextsMade>>,
           contexts' \in [1 .. MaxContexts -> Loaded],
           \A n \in 1 .. MaxContexts : n > contextsMade => contexts'[n] = contexts[n],
           v # None /\ v.at \in {"cert", "cas", "verify"} => cached[v.purpose] # None
    PROVE  SslTyped' /\ SslUnused' /\ SslCallsOwn' /\ SslApart'
<1>1. SslTyped'
  BY DEF SslIInv, SslTyped, SslGoes
<1>2. SslUnused'
  BY DEF SslIInv, SslTyped, SslUnused, SslGoes
<1>3. SslCallsOwn'
  BY DEF SslIInv, SslTyped, SslCallsOwn, SslGoes
<1>4. SslApart'
  BY DEF SslIInv, SslApart
<1>5. QED
  BY <1>1, <1>2, <1>3, <1>4

(* A call that goes on does so for all that it has still to load. *)
LEMMA SslPends ==
    ASSUME SslIInv, NEW t, NEW v, SslGoes(t, v), NEW p, NEW steps, Loading(p, steps),
           \/ sslCalls[t].purpose # p
           \/ sslCalls[t].at \notin steps
           \/ v # None /\ v.at \in steps
    PROVE  Loading(p, steps)'
<1>1. PICK u \in SslThread :
        sslCalls[u] # None /\ sslCalls[u].purpose = p /\ sslCalls[u].at \in steps
  BY DEF Loading
<1>2. CASE u # t
  BY <1>1, <1>2 DEF Loading, SslGoes, SslIInv, SslTyped
<1>3. CASE u = t
  <2>1. sslCalls'[t] = v /\ v # None /\ v.purpose = p /\ v.at \in steps
    BY <1>1, <1>3 DEF SslGoes, SslIInv, SslTyped
  <2>2. QED
    BY <2>1 DEF Loading, SslGoes
<1>4. QED
  BY <1>2, <1>3

(* A call looks whether the variable has a context. *)
LEMMA SslLooks ==
    ASSUME SslIInv, NEW t \in SslThread, sslCalls[t] # None, UNCHANGED ssl,
           IsCached(t) \/ NotCached(t)
    PROVE  SslIInv'
<1>1. PICK v : SslGoes(t, v) /\ (v # None => v.at = "create")
  <2>1. CASE Returns(t) \/ Raises(t)
    BY <2>1, SslReturns
  <2>2. CASE GoesOn(t, "create")
    BY <2>2, SslGoesOn
  <2>3. QED
    BY <2>1, <2>2 DEF IsCached, NotCached
<1>2. /\ sslCalls[t].at = "test"
      /\ UNCHANGED <<ssl, cached, contexts, contextsMade>>
      /\ sslFailed' = sslFailed \/ sslFailed' = TRUE
  BY DEF IsCached, NotCached, Returns, Raises, GoesOn
<1>3. SslTyped' /\ SslUnused' /\ SslCallsOwn' /\ SslApart'
  BY <1>1, <1>2, SslKeeps DEF SslIInv, SslTyped
<1>4. SslCompletes'
  <2>1. \A p : /\ Loading(p, {"cert"}) => Loading(p, {"cert"})'
               /\ Loading(p, {"cert", "cas"}) => Loading(p, {"cert", "cas"})'
               /\ Loading(p, {"cert", "cas", "verify"}) => Loading(p, {"cert", "cas", "verify"})'
    BY <1>1, <1>2, SslPends
  <2>2. QED
    BY <1>2, <2>1 DEF SslIInv, SslCompletes, Completes, WillHave, Configured
<1>5. QED
  BY <1>3, <1>4 DEF SslIInv

(* A call makes a context and assigns the variable. *)
LEMMA SslCreates ==
    ASSUME SslIInv, NEW t \in SslThread, sslCalls[t] # None, UNCHANGED ssl, CreateContext(t)
    PROVE  SslIInv'
<1> DEFINE q == sslCalls[t].purpose
<1>1. PICK v \in SslCall : v.at = "cert" /\ v # None /\ SslGoes(t, v)
  BY SslGoesOn DEF CreateContext
<1>2. /\ contextsMade < MaxContexts /\ contextsMade' = contextsMade + 1
      /\ cached' = [cached EXCEPT ![q] = contextsMade'] /\ UNCHANGED <<contexts, sslFailed, ssl>>
  BY DEF CreateContext, GoesOn
<1>3. q \in Purpose /\ v.purpose = q
  BY <1>1 DEF SslIInv, SslTyped, SslCall, SslGoes
<1>4. /\ contextsMade' \in 1 .. MaxContexts /\ contextsMade' # None
      /\ contextsMade' > contextsMade /\ contextsMade \in Nat
      /\ \A p \in Purpose : cached[p] # contextsMade'
  BY <1>2, SslBounds DEF SslIInv, SslTyped
<1>5. SslTyped'
  <2>1. cached' \in [Purpose -> 1 .. contextsMade' \cup {None}]
    BY <1>2, <1>3, <1>4 DEF SslIInv, SslTyped
  <2>2. QED
    BY <1>1, <1>2, <1>4, <2>1, SslBounds DEF SslIInv, SslTyped, SslGoes
<1>6. SslUnused'
  BY <1>1, <1>2, <1>4 DEF SslIInv, SslTyped, SslUnused, SslGoes
<1>7. SslCallsOwn'
  <2>1. \A p \in Purpose : cached[p] # None => cached'[p] # None
    BY <1>2, <1>4 DEF SslIInv, SslTyped
  <2>2. cached'[q] # None
    BY <1>2, <1>3, <1>4 DEF SslIInv, SslTyped
  <2>3. \A u \in SslThread : sslCalls[u] # None => sslCalls[u].purpose \in Purpose
    BY DEF SslIInv, SslTyped, SslCall
  <2>4. QED
    BY <1>1, <1>2, <1>3, <2>1, <2>2, <2>3 DEF SslIInv, SslTyped, SslCallsOwn, SslGoes
<1>8. SslApart'
  BY <1>2, <1>3, <1>4 DEF SslIInv, SslTyped, SslApart, Purpose
<1>9. SslCompletes'
  <2>1. ASSUME ssl # None, ~sslFailed, ssl.server # "", NEW p \in Purpose, cached'[p] # None
        PROVE  Completes(p)'
    <3>1. CASE p = q
      <4>1. contexts'[cached'[p]] = Fresh
        BY <1>2, <1>3, <1>4, <3>1 DEF SslIInv, SslTyped, SslUnused
      <4>2. \A steps : "cert" \in steps => Loading(p, steps)'
        BY <1>1, <1>3, <3>1 DEF Loading, SslGoes, SslIInv, SslTyped
      <4>3. /\ ~contexts'[cached'[p]].cert /\ ~contexts'[cached'[p]].cas
            /\ ~contexts'[cached'[p]].required
        BY <4>1 DEF Fresh
      <4>4. /\ Loading(p, {"cert"})' /\ Loading(p, {"cert", "cas"})'
            /\ Loading(p, {"cert", "cas", "verify"})'
        BY <4>2
      <4>5. QED
        BY <4>3, <4>4 DEF Completes, WillHave
    <3>2. CASE p # q
      <4>1. cached'[p] = cached[p] /\ cached[p] # None
        BY <1>2, <2>1, <3>2 DEF SslIInv, SslTyped
      <4>2. \A steps : Loading(p, steps) => Loading(p, steps)'
        <5>1. SUFFICES ASSUME NEW steps, Loading(p, steps) PROVE Loading(p, steps)'
          OBVIOUS
        <5>2. QED
          BY <1>1, <3>2, <5>1, SslPends
      <4>3. Completes(p)
        BY <2>1, <4>1 DEF SslIInv, SslCompletes
      <4>4. QED
        BY <1>2, <4>1, <4>2, <4>3 DEF Completes, WillHave, Configured
    <3>3. QED
      BY <3>1, <3>2
  <2>2. QED
    BY <1>2, <2>1 DEF SslCompletes
<1>10. QED
  BY <1>5, <1>6, <1>7, <1>8, <1>9 DEF SslIInv

(* Loading something changes the context in the variable, and not the one  *)
(* of the other purpose.                                                   *)
LEMMA SslLoadsField ==
    ASSUME SslIInv, NEW t \in SslThread, sslCalls[t] # None, NEW field \in {"cert",
           "cas", "required"},
           NEW value \in BOOLEAN, sslCalls[t].at \in {"cert", "cas", "verify"},
           Loads(t, field, value)
    PROVE  /\ contexts' \in [1 .. MaxContexts -> Loaded]
           /\ \A n \in 1 .. MaxContexts : n > contextsMade => contexts'[n] = contexts[n]
           /\ \A p \in Purpose : p # sslCalls[t].purpose /\ cached[p] # None =>
                contexts'[cached[p]] = contexts[cached[p]]
           /\ contexts'[cached[sslCalls[t].purpose]] =
                [contexts[cached[sslCalls[t].purpose]] EXCEPT ![field] = value]
<1> DEFINE n == cached[sslCalls[t].purpose]
<1>1. sslCalls[t].purpose \in Purpose
  BY DEF SslIInv, SslTyped, SslCall
<1>2. n # None /\ n \in 1 .. contextsMade /\ n \in 1 .. MaxContexts
  <2>1. n # None
    BY DEF SslIInv, SslCallsOwn
  <2>2. contextsMade \in 0 .. MaxContexts /\ n \in 1 .. contextsMade
    BY <1>1, <2>1 DEF SslIInv, SslTyped
  <2>3. QED
    BY <2>1, <2>2, SslBounds
<1>3. contexts[n] \in Loaded
  BY <1>2 DEF SslIInv, SslTyped
<1>4. [contexts[n] EXCEPT ![field] = value] \in Loaded
  BY <1>3 DEF Loaded
<1>5. contexts' = [contexts EXCEPT ![n] = [contexts[n] EXCEPT ![field] = value]]
  BY <1>2 DEF Loads, SslIInv, SslTyped
<1>6. contexts' \in [1 .. MaxContexts -> Loaded]
  BY <1>2, <1>4, <1>5 DEF SslIInv, SslTyped
<1>7. contexts'[n] = [contexts[n] EXCEPT ![field] = value]
  BY <1>2, <1>5 DEF SslIInv, SslTyped
<1>8. \A m \in 1 .. MaxContexts : m > contextsMade => contexts'[m] = contexts[m]
  BY <1>2, <1>5 DEF SslIInv, SslTyped
<1>9. \A p \in Purpose : p # sslCalls[t].purpose /\ cached[p] # None => cached[p] # n
  BY <1>1, <1>2 DEF SslIInv, SslApart, Purpose
<1>10. \A p \in Purpose : cached[p] # None => cached[p] \in 1 .. MaxContexts
  BY SslBounds DEF SslIInv, SslTyped
<1>11. \A p \in Purpose : p # sslCalls[t].purpose /\ cached[p] # None =>
          contexts'[cached[p]] = contexts[cached[p]]
  BY <1>5, <1>9, <1>10 DEF SslIInv, SslTyped
<1>12. QED
  BY <1>6, <1>7, <1>8, <1>11

(* What a step of loading keeps of the context of each purpose. *)
LEMMA SslOtherCompletes ==
    ASSUME SslIInv, NEW t, NEW v, SslGoes(t, v), UNCHANGED <<ssl, cached, sslFailed>>,
           NEW p \in Purpose, p # sslCalls[t].purpose, cached[p] # None, Completes(p),
           contexts'[cached[p]] = contexts[cached[p]]
    PROVE  Completes(p)'
<1>1. ASSUME NEW steps, Loading(p, steps) PROVE Loading(p, steps)'
  BY <1>1, SslPends
<1>2. QED
  BY <1>1 DEF Completes, WillHave, Configured

(* The certificate is loaded, *)
LEMMA SslLoadsCertificate ==
    ASSUME SslIInv, NEW t \in SslThread, sslCalls[t] # None, UNCHANGED ssl, LoadCertificate(t)
    PROVE  SslIInv'
<1> DEFINE q == sslCalls[t].purpose
           n == cached[q]
<1>1. /\ sslCalls[t].at = "cert" /\ sslCalls[t].cert \in File /\ q \in Purpose
      /\ UNCHANGED <<ssl, cached, contextsMade>>
      /\ contexts \in [1 .. MaxContexts -> Loaded]
  BY DEF LoadCertificate, SslIInv, SslTyped, SslCall
<1>2. CASE Raises(t) /\ UNCHANGED contexts
  <2>1. SslTyped' /\ SslUnused' /\ SslCallsOwn' /\ SslApart'
    BY <1>1, <1>2, SslReturns, SslKeeps
  <2>2. SslCompletes'
    BY <1>2 DEF Raises, SslCompletes
  <2>3. QED
    BY <2>1, <2>2 DEF SslIInv
<1>3. CASE /\ GoesOn(t, "cas")
           /\ \/ sslCalls[t].cert = "" /\ UNCHANGED contexts
              \/ sslCalls[t].cert = "here" /\ Loads(t, "cert", TRUE)
  <2>1. PICK v \in SslCall : v.at = "cas" /\ v # None /\ SslGoes(t, v)
    BY <1>3, SslGoesOn
  <2>2. v.purpose = q /\ sslFailed' = sslFailed /\ n # None
    BY <1>1, <1>3, <2>1 DEF SslGoes, GoesOn, SslIInv, SslCallsOwn
  <2>3. /\ contexts' \in [1 .. MaxContexts -> Loaded]
        /\ \A m \in 1 .. MaxContexts : m > contextsMade => contexts'[m] = contexts[m]
        /\ \A p \in Purpose : p # q /\ cached[p] # None =>
           contexts'[cached[p]] = contexts[cached[p]]
    BY <1>1, <1>3, SslLoadsField
  <2>4. \/ sslCalls[t].cert = "" /\ contexts'[n] = contexts[n]
        \/ sslCalls[t].cert = "here" /\ contexts'[n] = [contexts[n] EXCEPT !.cert = TRUE]
    <3>1. CASE sslCalls[t].cert = "" /\ UNCHANGED contexts
      BY <3>1
    <3>2. CASE sslCalls[t].cert = "here" /\ Loads(t, "cert", TRUE)
      BY <1>1, <3>2, SslLoadsField
    <3>3. QED
      BY <1>3, <3>1, <3>2
  <2>5. SslTyped' /\ SslUnused' /\ SslCallsOwn' /\ SslApart'
    BY <1>1, <2>1, <2>2, <2>3, SslKeeps
  <2>6. ASSUME ssl # None, ~sslFailed, ssl.server # "", NEW p \in Purpose, cached[p] # None
        PROVE  Completes(p)'
    <3>1. Completes(p)
      BY <2>6 DEF SslIInv, SslCompletes
    <3>2. CASE p # q
      BY <1>1, <2>1, <2>2, <2>3, <2>6, <3>1, <3>2, SslOtherCompletes
    <3>3. CASE p = q
      <4>1. Loading(p, {"cert", "cas"})' /\ Loading(p, {"cert", "cas", "verify"})'
        BY <2>1, <2>2, <3>3 DEF Loading, SslGoes, SslIInv, SslTyped
      <4>2. contexts[n] \in Loaded /\ Configured(p)' = Configured(p)
        <5>1. n \in 1 .. MaxContexts
          BY <1>1, <2>2, SslBounds DEF SslIInv, SslTyped
        <5>2. QED
          BY <1>1, <5>1 DEF Configured
      <4>3. (sslCalls[t].cert = "") <=> ~Configured(p).cert
        BY <2>6, <3>3 DEF Configured, SslIInv, SslCallsOwn
      <4>4. contexts'[n].cas = contexts[n].cas /\ contexts'[n].required = contexts[n].required
        BY <2>4, <4>2 DEF Loaded
      <4>5. contexts'[n].cert = Configured(p).cert
        <5>1. CASE sslCalls[t].cert = "" /\ contexts'[n] = contexts[n]
          BY <3>1, <3>3, <4>2, <4>3, <5>1 DEF Completes, WillHave, Configured, Loaded
        <5>2. CASE sslCalls[t].cert = "here" /\ contexts'[n] = [contexts[n] EXCEPT !.cert = TRUE]
          BY <4>2, <4>3, <5>2 DEF Configured, Loaded
        <5>3. QED
          BY <2>4, <5>1, <5>2
      <4>6. QED
        BY <1>1, <3>1, <3>3, <4>1, <4>2, <4>4, <4>5 DEF Completes, WillHave
    <3>4. QED
      BY <3>2, <3>3
  <2>7. SslCompletes'
    BY <1>1, <2>2, <2>6 DEF SslCompletes
  <2>8. QED
    BY <2>5, <2>7 DEF SslIInv
<1>4. QED
  BY <1>1, <1>2, <1>3, SslAssumption DEF LoadCertificate

(* then the certificates of authorities, *)
LEMMA SslLoadsAuthorities ==
    ASSUME SslIInv, NEW t \in SslThread, sslCalls[t] # None, UNCHANGED ssl, LoadAuthorities(t)
    PROVE  SslIInv'
<1> DEFINE q == sslCalls[t].purpose
           n == cached[q]
<1>1. /\ sslCalls[t].at = "cas" /\ q \in Purpose /\ UNCHANGED <<ssl, cached, contextsMade>>
      /\ contexts \in [1 .. MaxContexts -> Loaded]
  BY DEF LoadAuthorities, SslIInv, SslTyped, SslCall
<1>2. CASE Raises(t) /\ UNCHANGED contexts
  <2>1. SslTyped' /\ SslUnused' /\ SslCallsOwn' /\ SslApart'
    BY <1>1, <1>2, SslReturns, SslKeeps
  <2>2. SslCompletes'
    BY <1>2 DEF Raises, SslCompletes
  <2>3. QED
    BY <2>1, <2>2 DEF SslIInv
<1>3. CASE GoesOn(t, "verify") /\ IF ssl.cas = "" THEN UNCHANGED contexts ELSE Loads(t, "cas", TRUE)
  <2>1. PICK v \in SslCall : v.at = "verify" /\ v # None /\ SslGoes(t, v)
    BY <1>3, SslGoesOn
  <2>2. v.purpose = q /\ sslFailed' = sslFailed /\ n # None
    BY <1>1, <1>3, <2>1 DEF SslGoes, GoesOn, SslIInv, SslCallsOwn
  <2>3. /\ contexts' \in [1 .. MaxContexts -> Loaded]
        /\ \A m \in 1 .. MaxContexts : m > contextsMade => contexts'[m] = contexts[m]
        /\ \A p \in Purpose : p # q /\ cached[p] # None =>
           contexts'[cached[p]] = contexts[cached[p]]
    BY <1>1, <1>3, SslLoadsField
  <2>4. \/ ssl.cas = "" /\ contexts'[n] = contexts[n]
        \/ ssl.cas # "" /\ contexts'[n] = [contexts[n] EXCEPT !.cas = TRUE]
    <3>1. CASE ssl.cas = "" /\ UNCHANGED contexts
      BY <3>1
    <3>2. CASE ssl.cas # "" /\ Loads(t, "cas", TRUE)
      BY <1>1, <3>2, SslLoadsField
    <3>3. QED
      BY <1>3, <3>1, <3>2
  <2>5. SslTyped' /\ SslUnused' /\ SslCallsOwn' /\ SslApart'
    BY <1>1, <2>1, <2>2, <2>3, SslKeeps
  <2>6. ASSUME ssl # None, ~sslFailed, ssl.server # "", NEW p \in Purpose, cached[p] # None
        PROVE  Completes(p)'
    <3>1. Completes(p)
      BY <2>6 DEF SslIInv, SslCompletes
    <3>2. CASE p # q
      BY <1>1, <2>1, <2>2, <2>3, <2>6, <3>1, <3>2, SslOtherCompletes
    <3>3. CASE p = q
      <4>1. /\ Loading(p, {"cert", "cas", "verify"})'
            /\ Loading(p, {"cert"}) => Loading(p, {"cert"})'
        <5>1. Loading(p, {"cert", "cas", "verify"})'
          BY <2>1, <2>2, <3>3 DEF Loading, SslGoes, SslIInv, SslTyped
        <5>2. Loading(p, {"cert"}) => Loading(p, {"cert"})'
          BY <1>1, <2>1, SslPends
        <5>3. QED
          BY <5>1, <5>2
      <4>2. contexts[n] \in Loaded /\ Configured(p)' = Configured(p)
        <5>1. n \in 1 .. MaxContexts
          BY <1>1, <2>2, SslBounds DEF SslIInv, SslTyped
        <5>2. QED
          BY <1>1, <5>1 DEF Configured
      <4>4. contexts'[n].cert = contexts[n].cert /\ contexts'[n].required = contexts[n].required
        BY <2>4, <4>2 DEF Loaded
      <4>5. contexts'[n].cas = Configured(p).cas
        <5>1. CASE ssl.cas = "" /\ contexts'[n] = contexts[n]
          BY <3>1, <3>3, <4>2, <5>1 DEF Completes, WillHave, Configured, Loaded
        <5>2. CASE ssl.cas # "" /\ contexts'[n] = [contexts[n] EXCEPT !.cas = TRUE]
          BY <4>2, <5>2 DEF Configured, Loaded
        <5>3. QED
          BY <2>4, <5>1, <5>2
      <4>6. QED
        BY <1>1, <3>1, <3>3, <4>1, <4>2, <4>4, <4>5 DEF Completes, WillHave
    <3>4. QED
      BY <3>2, <3>3
  <2>7. SslCompletes'
    BY <1>1, <2>2, <2>6 DEF SslCompletes
  <2>8. QED
    BY <2>5, <2>7 DEF SslIInv
<1>4. QED
  BY <1>1, <1>2, <1>3 DEF LoadAuthorities

(* and at last a certificate is required or not. *)
LEMMA SslVerifies ==
    ASSUME SslIInv, NEW t \in SslThread, sslCalls[t] # None, UNCHANGED ssl, SetVerifyMode(t)
    PROVE  SslIInv'
<1> DEFINE q == sslCalls[t].purpose
           n == cached[q]
<1>1. /\ sslCalls[t].at = "verify" /\ q \in Purpose /\ UNCHANGED <<ssl, cached, contextsMade>>
      /\ contexts \in [1 .. MaxContexts -> Loaded] /\ n # None /\ sslFailed' = sslFailed
  BY DEF SetVerifyMode, Returns, SslIInv, SslTyped, SslCallsOwn, SslCall
<1>2. SslGoes(t, None)
  BY SslReturns DEF SetVerifyMode
<1>3. ssl \in Settings
  BY DEF SslIInv, SslTyped, SslUnused
<1>4. \/ q = "server" /\ Loads(t, "required", ssl.required)
      \/ q = "client" /\ UNCHANGED contexts
  BY <1>1 DEF SetVerifyMode, Purpose
<1>5. /\ contexts' \in [1 .. MaxContexts -> Loaded]
      /\ \A m \in 1 .. MaxContexts : m > contextsMade => contexts'[m] = contexts[m]
      /\ \A p \in Purpose : p # q /\ cached[p] # None => contexts'[cached[p]] = contexts[cached[p]]
  <2>1. ssl.required \in BOOLEAN
    BY <1>3 DEF Settings
  <2>2. CASE q = "client" /\ UNCHANGED contexts
    BY <1>1, <2>2
  <2>3. CASE q = "server" /\ Loads(t, "required", ssl.required)
    BY <1>1, <2>1, <2>3, SslLoadsField
  <2>4. QED
    BY <1>4, <2>2, <2>3
<1>6. \/ q = "client" /\ contexts'[n] = contexts[n]
      \/ q = "server" /\ contexts'[n] = [contexts[n] EXCEPT !.required = ssl.required]
  <2>1. ssl.required \in BOOLEAN
    BY <1>3 DEF Settings
  <2>2. CASE q = "client" /\ UNCHANGED contexts
    BY <2>2
  <2>3. CASE q = "server" /\ Loads(t, "required", ssl.required)
    BY <1>1, <2>1, <2>3, SslLoadsField
  <2>4. QED
    BY <1>4, <2>2, <2>3
<1>7. SslTyped' /\ SslUnused' /\ SslCallsOwn' /\ SslApart'
  BY <1>1, <1>2, <1>5, SslKeeps
<1>8. ASSUME ssl # None, ~sslFailed, ssl.server # "", NEW p \in Purpose, cached[p] # None
      PROVE  Completes(p)'
  <2>1. Completes(p)
    BY <1>8 DEF SslIInv, SslCompletes
  <2>2. CASE p # q
    BY <1>1, <1>2, <1>5, <1>8, <2>1, <2>2, SslOtherCompletes
  <2>3. CASE p = q
    <3>1. /\ Loading(p, {"cert"}) => Loading(p, {"cert"})'
          /\ Loading(p, {"cert", "cas"}) => Loading(p, {"cert", "cas"})'
      BY <1>1, <1>2, SslPends
    <3>2. contexts[n] \in Loaded /\ Configured(p)' = Configured(p)
      <4>1. n \in 1 .. MaxContexts
        BY <1>1, SslBounds DEF SslIInv, SslTyped
      <4>2. QED
        BY <1>1, <4>1 DEF Configured
    <3>3. contexts'[n].cert = contexts[n].cert /\ contexts'[n].cas = contexts[n].cas
      BY <1>6, <3>2 DEF Loaded
    <3>4. contexts'[n].required = Configured(p).required
      <4>1. CASE q = "client" /\ contexts'[n] = contexts[n]
        BY <2>1, <2>3, <3>2, <4>1 DEF Completes, WillHave, Configured, Loaded
      <4>2. CASE q = "server" /\ contexts'[n] = [contexts[n] EXCEPT !.required = ssl.required]
        BY <1>3, <2>3, <3>2, <4>2 DEF Configured, Loaded, Settings
      <4>3. QED
        BY <1>6, <4>1, <4>2
    <3>5. QED
      BY <1>1, <2>1, <2>3, <3>1, <3>2, <3>3, <3>4 DEF Completes, WillHave
  <2>4. QED
    BY <2>2, <2>3
<1>9. SslCompletes'
  BY <1>1, <1>8 DEF SslCompletes
<1>10. QED
  BY <1>7, <1>9 DEF SslIInv

(* Every step of the contexts keeps the invariant. *)
LEMMA SslNextKeeps == SslIInv /\ [SslContextNext]_sslContextVars => SslIInv'
<1> SUFFICES ASSUME SslIInv, [SslContextNext]_sslContextVars PROVE SslIInv'
  OBVIOUS
<1>1. CASE UNCHANGED sslContextVars
  <2>1. SslTyped' /\ SslUnused' /\ SslCallsOwn' /\ SslApart'
    BY <1>1 DEF sslContextVars, SslIInv, SslTyped, SslUnused, SslCallsOwn, SslApart
  <2>2. ASSUME NEW p PROVE Completes(p)' = Completes(p)
    BY <1>1 DEF sslContextVars, Completes, WillHave, Loading, Configured
  <2>3. SslCompletes'
    BY <1>1, <2>2 DEF sslContextVars, SslIInv, SslCompletes
  <2>4. QED
    BY <2>1, <2>3 DEF SslIInv
<1>2. CASE ConfigureSsl
  BY <1>2, SslConfigures
<1>3. ASSUME NEW t \in SslThread, NEW side \in Purpose, GetSslContext(t, side) PROVE SslIInv'
  BY <1>3, SslCalls
<1>4. ASSUME NEW t \in SslThread, sslCalls[t] # None, UNCHANGED ssl,
             \/ IsCached(t) \/ NotCached(t) \/ CreateContext(t)
             \/ LoadCertificate(t) \/ LoadAuthorities(t) \/ SetVerifyMode(t)
      PROVE  SslIInv'
  BY <1>4, SslLooks, SslCreates, SslLoadsCertificate, SslLoadsAuthorities, SslVerifies
<1>5. QED
  BY <1>1, <1>2, <1>3, <1>4 DEF SslContextNext

(* ContextComplete for any threads: they make contexts one after another,  *)
(* each loads into the one that is in the variable, and the last that      *)
(* makes one has still to load everything (getSSLcontext, lines 574-621).  *)
THEOREM ContextsComplete == SslContextSpec => []ContextComplete
<1>1. SslIInv => ContextComplete
  <2>1. SUFFICES ASSUME SslIInv, ssl # None, ~sslFailed, ssl.server # "",
                        \A t \in SslThread : sslCalls[t] = None, NEW p \in Purpose, cached[p] # None
                 PROVE  contexts[cached[p]] = Configured(p)
    BY DEF ContextComplete
  <2>2. Completes(p)
    BY <2>1 DEF SslIInv, SslCompletes
  <2>3. contexts[cached[p]] \in Loaded
    <3>1. contextsMade \in 0 .. MaxContexts /\ cached[p] \in 1 .. contextsMade
      BY <2>1 DEF SslIInv, SslTyped
    <3>2. cached[p] \in 1 .. MaxContexts
      BY <3>1, SslBounds
    <3>3. QED
      BY <2>1, <3>2 DEF SslIInv, SslTyped
  <2>4. /\ contexts[cached[p]].cert = Configured(p).cert
        /\ contexts[cached[p]].cas = Configured(p).cas
        /\ contexts[cached[p]].required = Configured(p).required
    BY <2>1, <2>2 DEF Completes, WillHave, Loading
  <2>5. Configured(p) \in Loaded
    <3>1. ssl.required \in BOOLEAN
      BY <2>1 DEF SslIInv, SslTyped, Settings
    <3>3. Configured(p).cert \in BOOLEAN
      BY DEF Configured
    <3>4. Configured(p).cas \in BOOLEAN
      BY DEF Configured
    <3>5. Configured(p).required \in BOOLEAN
      BY <3>1 DEF Configured
    <3>6. Configured(p) = [cert |-> Configured(p).cert, cas |-> Configured(p).cas,
                           required |-> Configured(p).required]
      BY DEF Configured
    <3>7. QED
      BY <3>3, <3>4, <3>5, <3>6 DEF Loaded
  <2>6. \A c, d \in Loaded :
            c.cert = d.cert /\ c.cas = d.cas /\ c.required = d.required => c = d
    BY DEF Loaded
  <2>7. QED
    BY <2>3, <2>4, <2>5, <2>6
<1>2. QED
  BY <1>1, SslStarts, SslNextKeeps, PTL DEF SslContextSpec
=============================================================================
