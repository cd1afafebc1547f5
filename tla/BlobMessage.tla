---------------------------- MODULE BlobMessage ------------------------------
(***************************************************************************)
(* core.SerializedBlob: an argument that dispatchers pass on without       *)
(* deserializing it.  A client makes a blob; whoever has it calls others   *)
(* with it, through proxies with serializers of their own; and any of them *)
(* may ask for the data.                                                   *)
(***************************************************************************)
EXTENDS Values, Naturals

CONSTANTS
    Holder,         \* the clients and servers; each server has one object, named as it
    BlobSerializer, \* names of serializers
    MaxHops         \* bound: calls

(* One value that is compressed, and one that is too short for it. *)
BlobData == {"long", "short"}
BlobInfo == {"i1", "i2"}

(* The blob that is wrapped, and the messages of calls. *)
Wrapped == [info : BlobInfo, data : BlobData]
BlobBytes == [by : BlobSerializer, object : Holder, data : BlobData, compressed : BOOLEAN]
BlobMessages ==
    [serializer : BlobSerializer, flag : BOOLEAN, bytes : BlobBytes,
     BLBI : [info : BlobInfo, object : Holder]]

ASSUME BlobAssumption == None \notin Wrapped \cup BlobMessages

VARIABLES
    blob,       \* what each holder has: [info, data, message] or None; one of the two is None
    flying,     \* the message of the call in progress and the holder it goes to, or None
    taken,      \* what deserialized() last gave: [of, value], or None
    original,   \* history: [info, data] as they were first wrapped, or None
    used,       \* history: serializers of the proxies so far
    hops

blobVars == <<blob, flying, taken, original, used, hops>>

BlobInit ==
    /\ blob = [h \in Holder |-> None] /\ flying = None /\ taken = None
    /\ original = None /\ used = {} /\ hops = 0

(* SerializedBlob.__init__ *)
MakeBlob(h, info, data) ==
    /\ original = None /\ original' = [info |-> info, data |-> data]
    /\ blob' = [blob EXCEPT ![h] = [info |-> info, data |-> data, message |-> None]]
    /\ UNCHANGED <<flying, taken, used, hops>>

-----------------------------------------------------------------------------
(* serializeCall: the bytes of a call, and whether they are compressed *)
SerializeCall(k, object, data, compression) ==
    [by |-> k, object |-> object, data |-> data,
     compressed |-> compression /\ data = "long"]

(* A message whose flag says something else than its bytes cannot be read. *)
Readable(m) == m.flag = m.bytes.compressed /\ m.serializer = m.bytes.by

(* Mutant: the flag says what this proxy would have done. *)
BlobMessageOwnFlag(b, k, object, compression) ==
    [serializer |-> k,
     flag |-> compression /\ (b.message = None => b.data = "long"),
     bytes |-> IF b.message # None THEN b.message.bytes
               ELSE SerializeCall(k, object, b.data, compression),
     BLBI |-> [info |-> b.info, object |-> object]]

(* __serializeBlobArgs and _pyroInvoke.  The object is named in an         *)
(* annotation, because the bytes keep that of the first call.              *)
BlobMessageOf(b, k, object, compression) ==
    LET bytes == IF b.message # None THEN b.message.bytes
                 ELSE SerializeCall(k, object, b.data, compression)
        flag == IF b.message # None THEN b.message.flag ELSE bytes.compressed
    IN [serializer |-> k, flag |-> flag, bytes |-> bytes,
        BLBI |-> [info |-> b.info, object |-> object]]

CallWithBlob(h, to, k, compression) ==
    /\ blob[h] # None /\ flying = None /\ hops < MaxHops /\ hops' = hops + 1
    /\ flying' = [to |-> to, message |-> BlobMessageOf(blob[h], k, to, compression)]
    /\ used' = used \cup {k}
    /\ UNCHANGED <<blob, taken, original>>

(* __deserializeBlobArgs *)
BlobOf(m) == [info |-> m.BLBI.info, data |-> None, message |-> m]

(* handleRequest: the daemon must accept the serializer, but does not use  *)
(* it.                                                                     *)
ReceiveBlob(accepted) ==
    /\ flying # None /\ flying' = None
    /\ LET m == flying.message
       IN blob' = IF m.serializer \in accepted
                  THEN [blob EXCEPT ![m.BLBI.object] = BlobOf(m)]
                  ELSE blob
    /\ UNCHANGED <<taken, original, used, hops>>

(* deserialized(): it unpacks what deserializeData gives, which for json   *)
(* is a dict: the third of its keys.                                       *)
Deserialized(b) ==
    IF b.message = None THEN b.data
    ELSE IF ~Readable(b.message) THEN "error"
    ELSE IF b.message.serializer = "json" THEN "params" ELSE b.message.bytes.data

TakeData(h) ==
    /\ blob[h] # None /\ taken' = [of |-> h, value |-> Deserialized(blob[h])]
    /\ UNCHANGED <<blob, flying, original, used, hops>>

BlobNext ==
    \/ \E h \in Holder, info \in BlobInfo, data \in BlobData : MakeBlob(h, info, data)
    \/ \E h, to \in Holder, k \in BlobSerializer, compression \in BOOLEAN :
        CallWithBlob(h, to, k, compression)
    \/ \E accepted \in SUBSET BlobSerializer : ReceiveBlob(accepted)
    \/ \E h \in Holder : TakeData(h)

BlobSpec == BlobInit /\ [][BlobNext]_blobVars

-----------------------------------------------------------------------------
(* Properties *)

(* Whatever dispatchers a blob went through, with whatever compression, it *)
(* keeps its info and, if all proxies used one serializer that is not      *)
(* json, its data (core lines 724-751, 1781-1789, 2036-2044).              *)
BlobKept ==
    /\ \A h \in Holder : blob[h] # None => blob[h].info = original.info
    /\ taken # None /\ (\E k \in BlobSerializer \ {"json"} : used \subseteq {k}) =>
        taken.value = original.data

(* "Retrieves the client data stored in this blob.  Deserializes the data  *)
(* automatically if required." (core line 2037)                            *)
DataRetrieved == taken # None => taken.value = original.data
=============================================================================
