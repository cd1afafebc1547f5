------------------------------ MODULE Addresses ------------------------------
(***************************************************************************)
(* How an object of a daemon is known elsewhere: the URI that the daemon   *)
(* makes for it (core.URI, Daemon.uriFor), the proxies that carry it, and  *)
(* the proxy that is passed instead of a registered object (AUTOPROXY).  A *)
(* URI's text is [protocol, object, location]; a location is a Unix        *)
(* domain socket or host and port, the host with or without brackets.      *)
(* The objects are instances of one class.                                 *)
(***************************************************************************)
EXTENDS Values, Naturals, FiniteSets, SequencesExt

CONSTANTS
    PyroObject,
    ObjectId, BadId,    \* ids; those that are not possible in a URI
    CutId, Behind,      \* of an id with "@" inside: the id before the first "@",
                        \* and the host that is made by what is behind it
    MetaTag,            \* metadata tags
    PlainHost, Ipv6Host, Port, NsPort, NatPort,
    MaxRegistrations    \* bound

VARIABLES
    listening,  \* [inner, nat]: locationStr and natLocationStr, or None at first
    autoproxy,  \* config.AUTOPROXY
    published,
    idOf,       \* of an object: _pyroId, or None
    attached,   \* the objects whose _pyroDaemon is the daemon
    proxy,      \* a proxy in any process, by its URI; or None
    passed,     \* the object passed last and what arrived: [object, proxy]
    read,       \* the URI read last: [uri, again], or None
    registrations,
    idGiven,    \* history: was an object unregistered by id or registered by force?
    marshalled  \* history: objects passed with marshal since they were registered

listenVars == <<listening, autoproxy, read>>
objectVars == <<published, idOf, attached, registrations, idGiven, marshalled>>
addressVars == <<listenVars, objectVars, proxy, passed>>

(* The serializers. *)
Packer == {"serpent", "json", "msgpack", "pickle", "marshal"}

Unix(name) == [unix |-> TRUE, name |-> name]
Inet(bracketed, host, port) ==
    [unix |-> FALSE, bracketed |-> bracketed, host |-> host, port |-> port]
Text(protocol, object, location) ==
    [protocol |-> protocol, object |-> object, location |-> location]

ASSUME AddressAssumption ==
    /\ IsFiniteSet(MetaTag) /\ None \notin PyroObject /\ None \notin ObjectId
    /\ None \notin PlainHost \cup Ipv6Host \cup {"", "nat", "sock"}
    /\ "" \notin PlainHost \cup Ipv6Host /\ None \notin Port \cup NatPort \cup {NsPort}
    /\ DOMAIN Behind = DOMAIN CutId
    /\ \A id \in DOMAIN CutId :
        CutId[id] \in ObjectId \ DOMAIN CutId /\ Behind[id] \notin Ipv6Host \cup {None, ""}
    /\ \A h \in PlainHost \cup Ipv6Host \cup {"nat"} \cup {Behind[id] : id \in DOMAIN CutId} :
        \A b \in BOOLEAN : None # Inet(b, h, NsPort)

SocketName == {"", "sock"}
UriHost == PlainHost \cup Ipv6Host \cup {""}
Location ==
    {None} \cup {Unix(n) : n \in SocketName}
        \cup {Inet(b, h, p) : b \in BOOLEAN, h \in UriHost, p \in Port \cup {None}}
IdProtocol == {"PYRO", "PYRONAME", "PYROWHAT"}
IdTexts == {Text(p, o, l) : p \in IdProtocol, o \in ObjectId, l \in Location}
TagTexts == {Text("PYROMETA", m, l) : m \in SetToAllKPermutations(MetaTag), l \in Location}

AddressInit ==
    /\ listening = None /\ autoproxy = TRUE /\ published = [i \in ObjectId |-> None]
    /\ idOf = [o \in PyroObject |-> None] /\ attached = {}
    /\ proxy = None /\ passed = None /\ read = None
    /\ registrations = 0 /\ idGiven = FALSE /\ marshalled = {}

-----------------------------------------------------------------------------
(* URIs *)

Invalid == None
UriAt(t, sockname, host, port) ==
    [protocol |-> t.protocol, sockname |-> sockname, host |-> host, port |-> port,
     object |-> IF t.protocol = "PYROMETA" THEN ToSet(t.object) ELSE t.object]

ParseLocation(t, defaultPort) ==
    LET l == t.location
        port == IF l.port = None THEN defaultPort ELSE l.port
    IN  IF l = None THEN UriAt(t, None, None, None)
        ELSE IF l.unix
        THEN IF l.name = "" THEN Invalid ELSE UriAt(t, l.name, None, None)
        ELSE IF l.bracketed = (l.host \in Ipv6Host) /\ port # None
        THEN UriAt(t, None, l.host, port)
        ELSE Invalid

ParseParts(t) ==
    IF t.protocol # "PYROMETA" /\ t.object \in BadId THEN Invalid
    ELSE CASE t.protocol \in {"PYRONAME", "PYROMETA"} -> ParseLocation(t, NsPort)
           [] t.protocol = "PYRO" /\ t.location # None -> ParseLocation(t, None)
           [] OTHER -> Invalid

(* What is behind the first "@" of an id, with the location that follows:  *)
(* neither brackets nor "./u:" are at its start, so it is host and port.   *)
Unreadable == Unix("")
JoinedTo(host, l) ==
    IF l = None THEN Inet(FALSE, host, None)
    ELSE IF l.unix
    THEN IF l.name = "" THEN Inet(FALSE, host, None) ELSE Unreadable
    ELSE IF l.host \in Ipv6Host THEN Unreadable
    ELSE Inet(FALSE, host, l.port)

(* uriRegEx: the object ends at the first "@", wherever it is. *)
Split(t) ==
    IF t.protocol = "PYROMETA" \/ t.object \notin DOMAIN CutId THEN t
    ELSE Text(t.protocol, CutId[t.object], JoinedTo(Behind[t.object], t.location))

Parse(t) == ParseParts(Split(t))

(* Mutant: no brackets around the host. *)
LocationUnbracketed(u) ==
    IF u.host \notin {None, ""} THEN Inet(FALSE, u.host, u.port)
    ELSE IF u.sockname # None THEN Unix(u.sockname)
    ELSE None

location(u) ==
    IF u.host \notin {None, ""} THEN Inet(u.host \in Ipv6Host, u.host, u.port)
    ELSE IF u.sockname # None THEN Unix(u.sockname)
    ELSE None

(* The tags are written in any order. *)
asString(u) ==
    Text(u.protocol, IF u.protocol = "PYROMETA" THEN SetToSeq(u.object) ELSE u.object,
         location(u))

ReadUri(t) ==
    /\ Parse(t) # Invalid
    /\ read' = [uri |-> Parse(t), again |-> Parse(asString(Parse(t)))]
    /\ UNCHANGED <<listening, autoproxy, objectVars, proxy, passed>>

-----------------------------------------------------------------------------
(* The daemon *)

Steps == listening # None /\ passed' = None /\ UNCHANGED listenVars

(* Daemon.__init__: a NAT address has the port of its own or the daemon's. *)
Listen(inner, host, natport, auto) ==
    /\ listening = None /\ read = None
    /\ listening' = [inner |-> inner,
                     nat |-> IF host = None THEN None
                             ELSE Inet(FALSE, host, IF natport = 0 THEN inner.port ELSE natport)]
    /\ autoproxy' = auto
    /\ UNCHANGED <<objectVars, proxy, passed, read>>

(* The object is registered before its URI is made, which may fail. *)
RegisterObject(o, id, force) ==
    /\ Steps /\ registrations < MaxRegistrations /\ registrations' = registrations + 1
    /\ force \/ (idOf[o] = None /\ published[id] = None)
    /\ idOf' = [idOf EXCEPT ![o] = id] /\ attached' = attached \cup {o}
    /\ published' = [published EXCEPT ![id] = o]
    /\ idGiven' = (idGiven \/ force) /\ marshalled' = marshalled \ {o}
    /\ UNCHANGED proxy

Withdraw(o) ==
    /\ Steps /\ idOf[o] # None /\ published[idOf[o]] # None
    /\ published' = [published EXCEPT ![idOf[o]] = None]
    /\ marshalled' = marshalled \ {o}
    /\ UNCHANGED <<proxy, registrations, idGiven>>

(* Mutant: the object keeps its id. *)
UnregisterKeepingId(o) == Withdraw(o) /\ UNCHANGED <<idOf, attached>>

Unregister(o) ==
    /\ Withdraw(o)
    /\ idOf' = [idOf EXCEPT ![o] = None] /\ attached' = attached \ {o}

(* By its id: the object keeps _pyroId and _pyroDaemon. *)
UnregisterById(id) ==
    /\ Steps /\ published[id] # None
    /\ published' = [published EXCEPT ![id] = None] /\ idGiven' = TRUE
    /\ UNCHANGED <<idOf, attached, proxy, registrations, marshalled>>

UriFor(id, nat) ==
    Parse(Text("PYRO", id,
               IF nat /\ listening.nat # None THEN listening.nat ELSE listening.inner))

(* proxyFor: the object that the URI names is registered. *)
MakeProxy(o, nat) ==
    /\ Steps /\ idOf[o] # None /\ published[idOf[o]] # None
    /\ UriFor(idOf[o], nat) # Invalid /\ published[UriFor(idOf[o], nat).object] # None
    /\ proxy' = UriFor(idOf[o], nat)
    /\ UNCHANGED objectVars

-----------------------------------------------------------------------------
(* Proxies: of what a proxy's state holds, and a copy keeps, only its URI, *)
(* which goes as text.                                                     *)

GetState(p) == asString(p)
SetState(state) == Parse(state)

SendProxy ==
    /\ Steps /\ proxy # None /\ proxy' = SetState(GetState(proxy))
    /\ UNCHANGED objectVars

(* Mutant: json has no such registry either. *)
ReplacedButJson(packer) == autoproxy /\ packer \notin {"marshal", "json"}

(* With AUTOPROXY register has told all serializers to replace objects of  *)
(* the class, which marshal does not.                                      *)
Replaced(packer) == autoproxy /\ packer # "marshal"

(* pyroObjectToAutoProxy: an object that has a daemon goes as a proxy if   *)
(* its id is registered, and else the call that returns it fails.          *)
SendAsProxy(o, packer) ==
    /\ Replaced(packer) /\ o \in attached
    /\ published[idOf[o]] # None
    /\ UriFor(idOf[o], TRUE) # Invalid /\ published[UriFor(idOf[o], TRUE).object] # None
    /\ proxy' = SetState(GetState(UriFor(idOf[o], TRUE)))
    /\ UNCHANGED attached

(* Else it goes as what it holds; class_to_dict, with which three of the   *)
(* serializers find that out, takes the daemon from the object.            *)
SendAsItself(o, packer) ==
    /\ ~(Replaced(packer) /\ o \in attached)
    /\ attached' = IF packer \in {"json", "msgpack", "marshal"} THEN attached \ {o} ELSE attached
    /\ proxy' = None

SendObject(o, packer) ==
    /\ listening # None
    /\ SendAsProxy(o, packer) \/ SendAsItself(o, packer)
    /\ passed' = [object |-> o, proxy |-> proxy']
    /\ marshalled' = IF packer = "marshal" THEN marshalled \cup {o} ELSE marshalled
    /\ UNCHANGED <<listenVars, published, idOf, registrations, idGiven>>

AddressNext ==
    \/ /\ read = None /\ listening = None
       /\ (\E t \in IdTexts : ReadUri(t)) \/ \E t \in TagTexts : ReadUri(t)
    \/ \E h \in PlainHost \cup Ipv6Host, n \in {None, "nat"}, p \in Port, q \in NatPort :
        \E auto \in {TRUE, n # None} : Listen(Inet(h \in Ipv6Host, h, p), n, q, auto)
    \/ \E name \in {"sock"} : Listen(Unix(name), None, 0, TRUE)
    \/ \E o \in PyroObject :
        \/ Unregister(o) \/ \E packer \in Packer : SendObject(o, packer)
        \/ \E id \in ObjectId, force \in BOOLEAN : RegisterObject(o, id, force)
        \/ \E nat \in BOOLEAN : MakeProxy(o, nat)
    \/ \E id \in ObjectId : UnregisterById(id)
    \/ SendProxy

AddressSpec == AddressInit /\ [][AddressNext]_addressVars

-----------------------------------------------------------------------------
(* Properties *)

(* Every URI but one of an empty host, which the text leaves out, is the   *)
(* same again when its text is read (core lines 52-137).                   *)
UriKept == read # None /\ read.uri.host # "" => read.again = read.uri

(* That p leads to object o of the daemon: to where the daemon is, from    *)
(* outside if it has a NAT address, and there to what its id stands for.   *)
LeadsTo(p, o) ==
    /\ published[p.object] = o
    /\ location(p) = IF listening.nat = None THEN listening.inner ELSE listening.nat

(* Nothing arrives as a proxy but a registered object, and such an object  *)
(* does, with every serializer but marshal, and unless marshal, with which *)
(* it goes by value, has had it before.  The proxy leads to the object     *)
(* itself, unless its id has a "@" inside, at which the URI's text is cut: *)
(* LeadsBackAlways.  Objects unregistered by id, or registered by force,   *)
(* are apart: they keep an id that may be another's (core lines 50,        *)
(* 1590-1700, 947-954 and 311-352; util lines 285-286 and 593-621).        *)
LeadsBack ==
    passed # None /\ ~idGiven =>
        LET p == passed.proxy
            registered == \E id \in ObjectId : published[id] = passed.object
        IN  /\ p # None =>
                /\ registered
                /\ idOf[passed.object] \notin DOMAIN CutId => LeadsTo(p, passed.object)
            /\ p = None =>
                ~registered \/ ~autoproxy \/ passed.object \in marshalled

(* What arrives as a proxy leads to the object that was passed, whatever   *)
(* id register accepted for it: "be sure to talk to the remote object"     *)
(* (docs/source/servercode.rst lines 639-640, core lines 1590-1620).       *)
LeadsBackAlways ==
    passed # None /\ ~idGiven /\ passed.proxy # None => LeadsTo(passed.proxy, passed.object)

(* A URI survives its text and its state, and a proxy that is passed       *)
(* instead of an object leads back to it.                                  *)
AddressInv == UriKept /\ LeadsBack
=============================================================================
