------------------------------ MODULE MCParts -------------------------------
(***************************************************************************)
(* Instances for TLC of the parts that share no state: of each behaviour   *)
(* the first step chooses a part, and only this part goes on.              *)
(***************************************************************************)
EXTENDS
    NameStorage, WireMessage, MessageStream, Serializing, ExposedMembers,
    CallContext, Addresses, BatchCall, NameLookup, MessageBus, BlobMessage,
    HttpGateway, FlameServer, Sockets, SslContext, Resolving, Serving,
    Configuration, ObjectRegistry, TLC

CONSTANTS
    n1, n2, p1,
    counter, basket, task, daemon, theDaemon, i1, i2, c1

VARIABLE part

MCBegins == [p \in {p1} |-> {n1}]
MCAlike == [p \in {p1} |-> {n1, n2}]
MCBodySize == <<3, 0, 2>>
MCKeyOrder == <<"ABCD", "ODD">>
MCChanges == {-65536, -1, 1, 256, 65535, 65536}
MCCutId == "a@b" :> "a"
MCBehind == "a@b" :> "b@host"
MCSetup ==
    LET setup(ip, local, with, clean, bchost) ==
            [ip |-> ip, local |-> local, with |-> with, clean |-> clean, bchost |-> bchost]
    IN  {setup(4, FALSE, FALSE, "on", ""), setup(4, TRUE, TRUE, "on", ""), setup(4, TRUE, FALSE, "off", ""),
         setup(6, FALSE, FALSE, "short", "v6"), setup(6, TRUE, FALSE, "off", "v4")}
MCItems == <<"NATHOST", "METADATA", "SERIALIZERS_ACCEPTED", "MAX_RETRIES">>
MCTexts == "NATHOST" :> {"h"} @@ "METADATA" :> {"off", "1", "x"}
            @@ "SERIALIZERS_ACCEPTED" :> {"json", "x"} @@ "MAX_RETRIES" :> {"1", "x"}

(* The registry: a class of each instance mode and the daemon's object, of *)
(* which the single and the session class are registered from the start.   *)
InstanceModes ==
    [o \in Servant |->
        CASE o = counter -> "single"
          [] o = basket  -> "session"
          [] o = task    -> "percall"
          [] o = daemon  -> "object"]
FirstObjects ==
    [i \in Id |-> CASE i = theDaemon -> daemon [] i = i1 -> counter [] i = i2 -> basket]

(* One task is enough: it is used for one call. *)
FewInstances == [o \in Servant |-> IF o = task THEN 1 ELSE 2]

(* The first client connects twice. *)
Reconnects == [c \in Conn |-> IF c = c1 THEN 2 ELSE 1]

PartsInit ==
    /\ part = None
    /\ StorageInit
    /\ WireInit
    /\ StreamInit
    /\ SerializingInit
    /\ ExposedInit
    /\ ContextInit
    /\ AddressInit
    /\ BatchInit
    /\ LookupInit
    /\ BusInit
    /\ BlobInit
    /\ GatewayInit
    /\ FlameInit
    /\ SocketsInit
    /\ SslContextInit
    /\ ResolvingInit
    /\ ServingInit
    /\ ConfigInit
    /\ Init

Kept(p, q, state) == IF p = q THEN TRUE ELSE UNCHANGED state

(* What a step of part p leaves alone, in groups of parts. *)
KeptData(p) ==
    IF p \in {"storage", "wire", "stream", "serializing", "addresses"}
    THEN /\ Kept(p, "storage", storageVars)
         /\ Kept(p, "wire", wireVars)
         /\ Kept(p, "stream", streamVars)
         /\ Kept(p, "serializing", serializingVars)
         /\ Kept(p, "addresses", addressVars)
    ELSE UNCHANGED <<storageVars, wireVars, streamVars, serializingVars, addressVars>>

KeptCalls(p) ==
    IF p \in {"exposed", "context", "batch", "lookup", "bus"}
    THEN /\ Kept(p, "exposed", exposedVars)
         /\ Kept(p, "context", contextVars)
         /\ Kept(p, "batch", batchVars)
         /\ Kept(p, "lookup", lookupVars)
         /\ Kept(p, "bus", busVars)
    ELSE UNCHANGED <<exposedVars, contextVars, batchVars, lookupVars, busVars>>

KeptPrograms(p) ==
    IF p \in {"blob", "gateway", "flame", "sockets", "ssl"}
    THEN /\ Kept(p, "blob", blobVars)
         /\ Kept(p, "gateway", gatewayVars)
         /\ Kept(p, "flame", flameVars)
         /\ Kept(p, "sockets", socketsVars)
         /\ Kept(p, "ssl", sslContextVars)
    ELSE UNCHANGED <<blobVars, gatewayVars, flameVars, socketsVars, sslContextVars>>

KeptServers(p) ==
    IF p \in {"resolving", "serving", "config", "registry"}
    THEN /\ Kept(p, "resolving", resolvingVars)
         /\ Kept(p, "serving", servingVars)
         /\ Kept(p, "config", configVars)
         /\ Kept(p, "registry", vars)
    ELSE UNCHANGED <<resolvingVars, servingVars, configVars, vars>>


Only(p) ==
    /\ part \in {None, p} /\ part' = p
    /\ KeptData(p)
    /\ KeptCalls(p)
    /\ KeptPrograms(p)
    /\ KeptServers(p)

PartsNext ==
    \/ Only("storage") /\ StorageNext
    \/ Only("wire") /\ WireNext
    \/ Only("stream") /\ StreamNext
    \/ Only("serializing") /\ SerializingNext
    \/ Only("exposed") /\ ExposedNext
    \/ Only("context") /\ ContextNext
    \/ Only("addresses") /\ AddressNext
    \/ Only("batch") /\ BatchNext
    \/ Only("lookup") /\ LookupNext
    \/ Only("bus") /\ BusNext
    \/ Only("blob") /\ BlobNext
    \/ Only("gateway") /\ GatewayNext
    \/ Only("flame") /\ FlameNext
    \/ Only("sockets") /\ SocketsNext
    \/ Only("ssl") /\ SslContextNext
    \/ Only("resolving") /\ ResolvingNext
    \/ Only("serving") /\ ServingNext
    \/ Only("config") /\ ConfigNext
    \/ Only("registry") /\ Next

PartsSpec == PartsInit /\ [][PartsNext]_<<
    part, storageVars, wireVars, streamVars, serializingVars, exposedVars,
    contextVars, addressVars, batchVars, lookupVars, busVars, blobVars,
    gatewayVars, flameVars, socketsVars, sslContextVars, resolvingVars,
    servingVars, configVars, vars >>
=============================================================================
