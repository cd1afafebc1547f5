---------------------------- MODULE Serializing -----------------------------
(***************************************************************************)
(* What becomes of a value that is sent to another process (the classes of *)
(* util): an object goes as a dict that names its class, and of the dicts  *)
(* that arrive only those of known classes become objects again.  It goes  *)
(* as an argument of a call (dumpsCall) or as a result (dumps), to a       *)
(* process that has the program's own classes or not.  A value is the      *)
(* sequence of what is in one another, from the outermost container or     *)
(* object to what is in none: each has one item.                           *)
(***************************************************************************)
EXTENDS Values, Naturals, Sequences

CONSTANTS
    CoreClass,      \* Pyro4.core.URI, Proxy, Daemon and the serializers
    PyroError,      \* the exceptions of Pyro4.errors
    Builtin,        \* the exceptions of Python, and those of sqlite3
    OtherError, OtherClass,     \* those of the program
    Dunder          \* of all these: with "__" in the name

VARIABLES
    untagged,       \* sender: classes registered with a converter to a plain dict
    creators,       \* receiver: classes registered with register_dict_to_class
    transfer        \* [value, way, has, results]: of each serializer what arrives, or None

serializingVars == <<untagged, creators, transfer>>

Pickling == {"pickle", "cloudpickle", "dill"}
ByName == {"serpent", "json", "marshal", "msgpack"}
Serializer == ByName \cup Pickling

ExceptionWrapper == "Pyro4.futures._ExceptionWrapper"
ErrorClass == PyroError \cup Builtin \cup OtherError
Registrable == OtherClass \cup OtherError
Fixed == CoreClass \cup PyroError \cup Builtin \cup {ExceptionWrapper}

(* Classes have one name, those of Pyro and Python no double underscore.   *)
ASSUME ClassAssumption ==
    /\ ExceptionWrapper \notin CoreClass \cup ErrorClass \cup OtherClass
    /\ Fixed \cap Dunder = {} /\ "Pyro4.errors.PyroError" \in PyroError \ Registrable

Node(kind, class) == [kind |-> kind, class |-> class]
Base == Node("base", None)
Object(c) == Node("object", c)
Failure(c) == Node("failure", c)

(* Values that some formats have no form for: UUIDs, complex numbers and   *)
(* dates.                                                                  *)
SpecialKind == {"uuid", "complex", "date"}

(* Values to send: containers and objects in one another, two deep.        *)
Flat ==
    {<<Base>>} \cup {<<Node(k, None)>> : k \in SpecialKind}
        \cup {<<Object(c), Base>> : c \in CoreClass \cup ErrorClass \cup OtherClass}
Containers(V) == {<<Node(k, None)>> \o v : k \in {"list", "tuple", "dict"}, v \in V}
Nested ==
    Flat \cup Containers(Flat) \cup {<<Node("set", None), Base>>}
        \cup {<<Object(c)>> \o v : c \in ErrorClass \cup OtherClass, v \in Flat}
        \cup {<<Object(ExceptionWrapper), Object(c), Base>> : c \in ErrorClass}
Payload == Nested \cup Containers(Nested)

SomeIn(Test(_), v) == \E i \in DOMAIN v : Test(v[i])

IsA(x, kinds) == x.kind \in kinds
IsObject(x) == IsA(x, {"object"})

-----------------------------------------------------------------------------
(* dumps and dumpsCall *)

(* marshal converts the value itself, or each argument, and not what it    *)
(* contains; an exception's wrapper converts the exception.                *)
Marshallable(v) ==
    /\ ~IsA(v[1], {"date"})
    /\ \A i \in DOMAIN v \ {1} :
        IsA(v[i], {"object", "uuid", "date"}) => i = 2 /\ v[1] = Object(ExceptionWrapper)

Dumpable(s, v) ==
    LET Complex(x) == IsA(x, {"complex"})
    IN  /\ s = "marshal" => Marshallable(v)
        /\ s = "json" => ~SomeIn(Complex, v)

(* The forms that a serializer has for what its format does not know: JSON *)
(* and msgpack have neither tuples nor sets.                               *)
AsOther(s) ==
    CASE s = "msgpack" -> [set |-> "list", tuple |-> "list", uuid |-> "text",
                           complex |-> "ext", date |-> "ext"]
      [] s = "json" -> [set |-> "list", tuple |-> "list", uuid |-> "text", date |-> "text"]
      [] s = "serpent" -> [uuid |-> "text", date |-> "text"]
      [] s = "marshal" -> [uuid |-> "text"]

KindOf(s, x) ==
    IF IsObject(x) THEN IF x.class \in untagged THEN "dict" ELSE "tagged"
    ELSE IF x.kind \in DOMAIN AsOther(s) THEN AsOther(s)[x.kind] ELSE x.kind

NodeDumped(s, x) ==
    LET k == KindOf(s, x)
    IN  Node(k, CASE k = "tagged" -> x.class [] k = "ext" -> x.kind [] OTHER -> None)

Dumped(s, v) == [i \in DOMAIN v |-> NodeDumped(s, v[i])]

-----------------------------------------------------------------------------
(* loads *)

IsKnown == Fixed \cup creators

(* Mutant: an exception of any class. *)
CreatedAnyError(x) ==
    IF x.class \in Fixed \cup creators \cup ErrorClass THEN Object(x.class)
    ELSE Failure("SerializeError")

(* dict_to_class: the class of the dict, if it is one of those known.      *)
Created(x) ==
    IF x.class \in creators THEN Object(x.class)
    ELSE IF x.class \in Dunder THEN Failure("SecurityError")
    ELSE IF x.class \in Fixed THEN Object(x.class)
    ELSE Failure("SerializeError")

(* Mutant: recreate_classes does not look into tuples. *)
RecreatedKinds == {"set", "list", "dict"}
ContainerKinds == {"set", "list", "tuple", "dict"}

(* recreate_classes works from the outside in: it finds the outermost      *)
(* object and leaves what is in it, but for the exception in a wrapper,    *)
Reached(w, i) == \A j \in 1 .. i - 1 : IsA(w[j], ContainerKinds)
InWrapper(w, i) == i > 1 /\ w[i - 1] = Node("tagged", ExceptionWrapper) /\ Reached(w, i - 1)

Recreated(w) ==
    [i \in DOMAIN w |->
        IF IsA(w[i], {"tagged"}) /\ (Reached(w, i) \/ InWrapper(w, i)) THEN Created(w[i]) ELSE w[i]]

(* and the object_hook of msgpack from the inside out; its ext_hook, which *)
(* loadsCall does not give, makes dates and complex numbers again.         *)
NodeHooked(x, way) ==
    CASE IsA(x, {"tagged"}) -> Created(x)
      [] IsA(x, {"ext"}) /\ way = "result" -> Node(x.class, None)
      [] OTHER -> x

Hooked(w, way) == [i \in DOMAIN w |-> NodeHooked(w[i], way)]

(* pickle refers to classes by name, in whatever the value holds;          *)
(* cloudpickle and dill send those of the program's main module along.     *)
Unpickled(s, v, has) ==
    LET Missing(x) == IsObject(x) /\ x.class \in Registrable /\ ~has
    IN  IF s = "pickle" /\ SomeIn(Missing, v) THEN <<Failure("AttributeError")>> ELSE v

Loaded(s, v, way, has) ==
    IF s \in Pickling THEN Unpickled(s, v, has)
    ELSE IF ~Dumpable(s, v) THEN <<Failure("ValueError")>>
    ELSE LET r == IF s = "msgpack" THEN Hooked(Dumped(s, v), way) ELSE Recreated(Dumped(s, v))
             Failed(x) == IsA(x, {"failure"})
         IN  IF SomeIn(Failed, r) THEN <<Failure("SerializeError")>> ELSE r

(* _sendExceptionResponse: an exception that cannot be serialized goes as  *)
(* a PyroError.                                                            *)
Response(s, e, has) ==
    LET sent == IF Dumpable(s, e) THEN e ELSE <<Object("Pyro4.errors.PyroError"), Base>>
    IN  Loaded(s, sent, "result", has)

-----------------------------------------------------------------------------

SerializingInit == untagged = {} /\ creators = {} /\ transfer = None

RegisterClassToDict(c) == untagged' = untagged \cup {c} /\ UNCHANGED <<creators, transfer>>
UnregisterClassToDict(c) == untagged' = untagged \ {c} /\ UNCHANGED <<creators, transfer>>
RegisterDictToClass(c) == creators' = creators \cup {c} /\ UNCHANGED <<untagged, transfer>>
UnregisterDictToClass(c) == creators' = creators \ {c} /\ UNCHANGED <<untagged, transfer>>

Arrives(v, way, has, Result(_)) ==
    /\ transfer' = [value |-> v, way |-> way, has |-> has,
                    results |-> [s \in Serializer |-> Result(s)]]
    /\ UNCHANGED <<untagged, creators>>

Transfer(v, way, has) ==
    LET Result(s) == Loaded(s, v, way, has) IN Arrives(v, way, has, Result)

Raise(e, has) ==
    LET Result(s) == Response(s, e, has) IN Arrives(e, "raised", has, Result)

SerializingNext ==
    /\ transfer = None
    /\ \/ \E c \in Registrable : RegisterClassToDict(c) \/ UnregisterClassToDict(c)
       \/ \E c \in Registrable : RegisterDictToClass(c) \/ UnregisterDictToClass(c)
       \/ \E v \in Payload, way \in {"argument", "result"}, has \in BOOLEAN : Transfer(v, way, has)
       \/ \E v \in Nested, has \in BOOLEAN :
            IsObject(v[1]) /\ v[1].class \in ErrorClass /\ Raise(v, has)

SerializingSpec == SerializingInit /\ [][SerializingNext]_serializingVars

-----------------------------------------------------------------------------
(* Properties *)

(* But for what formats have no form for. *)
NodeLoosely(x) ==
    [x EXCEPT !.kind = CASE @ \in {"set", "tuple"} -> "list"
                         [] @ \in {"uuid", "date"} -> "text"
                         [] OTHER -> @]
Loosely(v) == [i \in DOMAIN v |-> NodeLoosely(v[i])]

(* Of an object whose items hold objects the two ways to load differ.      *)
HoldsObject(v) ==
    \E i, j \in DOMAIN v : i < j /\ IsObject(v[i]) /\ IsObject(v[j]) /\ v[i].class # ExceptionWrapper

Unknown(x) == IsObject(x) /\ x.class \notin IsKnown
Plain(x) == IsObject(x) /\ x.class \in untagged
Ext(x) == IsA(x, {"complex", "date"})

(* What serializer s can bring to the other side: pickle needs the classes *)
(* there, the others converters for them, and msgpack leaves numbers and   *)
(* dates among arguments packed.                                           *)
Bringable(s, t) ==
    IF s \in Pickling THEN t.has \/ s # "pickle"
    ELSE /\ Dumpable(s, t.value)
         /\ ~HoldsObject(t.value) /\ ~SomeIn(Unknown, t.value) /\ ~SomeIn(Plain, t.value)
         /\ s = "msgpack" /\ t.way = "argument" => ~SomeIn(Ext, t.value)

(* A value arrives as it was sent, with any serializer that can bring it,  *)
(* except that a set or a tuple may become a list, and a UUID or a date a  *)
(* text: an object anywhere in a container is one again (util lines        *)
(* 269-454 and the loads and dumps of lines 467-760).                      *)
RoundTrip ==
    transfer # None /\ transfer.way # "raised" =>
        \A s \in {x \in Serializer : Bringable(x, transfer)} :
            Loosely(transfer.results[s]) = Loosely(transfer.value)

(* No serializer but the pickling ones makes an object of a class that the *)
(* receiver does not know, and an exception raised at the daemon is one at *)
(* the client: that of the class, or another that tells of the failure     *)
(* (core lines 1562-1590).                                                 *)
OnlyKnown ==
    transfer # None => \A s \in ByName :
        LET r == transfer.results[s]
        IN  /\ ~SomeIn(Unknown, r)
            /\ transfer.way = "raised" /\ transfer.value[1].class \notin untagged =>
                \/ r[1].kind = "failure"
                \/ r[1].kind = "object" /\ r[1].class \in {transfer.value[1].class, "Pyro4.errors.PyroError"}

(* With every serializer: what comes back is what went in, and nothing     *)
(* else than known classes.                                                *)
SerializingInv == RoundTrip /\ OnlyKnown
=============================================================================
