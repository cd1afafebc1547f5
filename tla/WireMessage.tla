---------------------------- MODULE WireMessage -----------------------------
(***************************************************************************)
(* One message of the wire protocol (message.Message): built, packed, on a *)
(* wire that may change one field of the header or some bytes after it,    *)
(* and received by a peer whose configuration may differ.  A chunk of data *)
(* is its length and the one byte that it repeats.                         *)
(***************************************************************************)
EXTENDS Values, Integers, Sequences, FiniteSets

CONSTANTS
    Type, Flags, Seqno, Format,     \* values of the header's 16-bit fields
    Length, Byte,                   \* of the data and of an annotation
    KeyOrder,                       \* the keys in their order, a sequence
    FourLetters,                    \* those of length 4
    HmacKey,                        \* secrets
    MaxMessage,                     \* values of MAX_MESSAGE_SIZE; 0 is no maximum
    DataLimit,                      \* 0x7fffffff
    Changes                         \* what the wire may add to a number of the header

VARIABLES
    sent,       \* the message, a record of its fields, or None
    wire,       \* its bytes, as a record; None if they are not sent
    damage,     \* what the wire has changed: None, "header", "reserved", "body"
    received    \* [result, msg], or None

wireVars == <<sent, wire, damage, received>>

W == 65536
ProtocolVersion == 48
ChecksumMagic == 13545      \* 0x34E9

Chunk == [len : Length, byte : Byte]
AnnotationKeys == {KeyOrder[i] : i \in DOMAIN KeyOrder}

(* What the sender is asked to send. *)
RequestMessage ==
    [type : Type, flags : Flags, seq : Seqno, serializer_id : Format, data : Chunk,
     annotations : UNION {[K -> Chunk] : K \in SUBSET AnnotationKeys}, hmac_key : HmacKey \cup {None}]

ASSUME WireAssumption ==
    /\ Type \cup Flags \cup Seqno \cup Format \cup Length \subseteq Nat
    /\ KeyOrder \in Seq(AnnotationKeys) /\ DataLimit \in Nat /\ Changes \subseteq Int
    /\ None \notin {"header", "reserved", "body"} /\ None \notin RequestMessage
    /\ None \notin HmacKey \X Chunk \X Seq(Chunk)

(* The values of the annotations in the order of their keys. *)
ValuesInOrder(annotations) ==
    LET values[i \in 0 .. Len(KeyOrder)] ==
            IF i = 0 THEN <<>>
            ELSE IF KeyOrder[i] \in DOMAIN annotations
                 THEN Append(values[i - 1], annotations[KeyOrder[i]]) ELSE values[i - 1]
    IN  values[Len(KeyOrder)]

(* hmac digests the data and then the values of the annotations in order.  *)
(* The digest is as good as what it digests.                               *)
Digest(key, data, annotations) == <<key, data, ValuesInOrder(annotations)>>

(* An annotation is put behind its key and its size. *)
ChunksSize(annotations, prefix) ==
    LET size[i \in 0 .. Len(KeyOrder)] ==
            IF i = 0 THEN 0
            ELSE IF KeyOrder[i] \in DOMAIN annotations
                 THEN size[i - 1] + prefix + annotations[KeyOrder[i]].len ELSE size[i - 1]
    IN  size[Len(KeyOrder)]

HmacSize(present) == IF present THEN 26 ELSE 0

(* Mutant: the length of the chunk, without its key and length field. *)
AnnotationsSizeOfValues(m) == ChunksSize(m.annotations, 0) + HmacSize(m.hmac_key # None)

AnnotationsSize(m) == ChunksSize(m.annotations, 6) + HmacSize(m.hmac_key # None)

TooLarge(max, size) == 0 < max /\ max < size

(* Mutant: without the sequence number. *)
ChecksumWithoutSeq(h) ==
    (h.type + h.version + (h.data_size % W) + h.annotations_size + h.serializer_id
        + h.flags + ChecksumMagic) % W

(* The sums wrap at 16 bits. *)
Checksum(h) ==
    (h.type + h.version + (h.data_size % W) + h.annotations_size + h.serializer_id
        + h.flags + h.seq + ChecksumMagic) % W

Fields(m) ==
    [version |-> ProtocolVersion, type |-> m.type, flags |-> m.flags, seq |-> m.seq,
     data_size |-> m.data.len, serializer_id |-> m.serializer_id,
     annotations_size |-> AnnotationsSize(m)]

(* __init__ and to_bytes raise: MessageTooLargeError, ValueError for the   *)
(* data, ProtocolError for a key, struct.error for a field over 16 bits.   *)
Sendable(m, max) ==
    LET h == Fields(m)
    IN  /\ ~TooLarge(max, h.data_size + h.annotations_size)
        /\ h.data_size <= DataLimit
        /\ DOMAIN m.annotations \subseteq FourLetters
        /\ \A f \in DOMAIN h \ {"data_size"} : h[f] < W

(* header: the fields that are added up.  annotations: the chunks, and the *)
(* HMAC chunk's value.                                                     *)
Packed(m) ==
    [header |-> Fields(m), reserved |-> 0, checksum |-> Checksum(Fields(m)),
     annotations |-> m.annotations, data |-> m.data,
     digest |-> IF m.hmac_key = None THEN None
                ELSE Digest(m.hmac_key, m.data, m.annotations)]

WireInit == sent = None /\ wire = None /\ damage = None /\ received = None

Send(m, max) ==
    /\ sent' = m
    /\ wire' = IF Sendable(m, max) THEN Packed(m) ELSE None
    /\ UNCHANGED <<damage, received>>

-----------------------------------------------------------------------------
(* The wire *)

OnWire == wire # None /\ received = None

(* Another value of a field: data_size is a signed number of 32 bits, and  *)
(* all others have 16 bits.                                                *)
Others(f, x) ==
    (IF f = "data_size" THEN {x + d : d \in Changes} \cap (-DataLimit - 1 .. DataLimit)
                        ELSE {(x + d) % W : d \in Changes}) \ {x}

ChangeHeader ==
    /\ OnWire /\ damage = None
    /\ \/ /\ damage' = "header"
          /\ \/ \E f \in DOMAIN wire.header : \E x \in Others(f, wire.header[f]) :
                    wire' = [wire EXCEPT !.header[f] = x]
             \/ \E x \in Others("checksum", wire.checksum) : wire' = [wire EXCEPT !.checksum = x]
       \/ /\ damage' = "reserved"
          /\ \E x \in Others("reserved", wire.reserved) : wire' = [wire EXCEPT !.reserved = x]
    /\ UNCHANGED <<sent, received>>

ChangeBody ==
    /\ OnWire /\ damage = None /\ damage' = "body"
    /\ \E b \in Byte :
        \/ b # wire.data.byte /\ wire.data.len > 0 /\ wire' = [wire EXCEPT !.data.byte = b]
        \/ \E k \in DOMAIN wire.annotations :
            /\ b # wire.annotations[k].byte /\ wire.annotations[k].len > 0
            /\ wire' = [wire EXCEPT !.annotations[k].byte = b]
    /\ UNCHANGED <<sent, received>>

-----------------------------------------------------------------------------
(* recv, at a peer with its own key, maximum and expected types.  The       *)
(* header may announce more data than was sent: then the bytes that follow *)
(* are taken for it, if there are enough of them.  Of a negative size,     *)
(* receiveData raises (socketutil lines 151 and 178).                      *)

HeaderValid == wire.header.version = ProtocolVersion /\ wire.checksum = Checksum(wire.header)

(* What is read after the header: the chunks and the data, if the sizes    *)
(* are theirs, and else bytes of something else.                           *)
SizesMatch ==
    /\ wire.header.data_size = wire.data.len
    /\ wire.header.annotations_size = ChunksSize(wire.annotations, 6) + HmacSize(wire.digest # None)

Received(key) ==
    LET h == wire.header
    IN  IF SizesMatch
        THEN [type |-> h.type, flags |-> h.flags, seq |-> h.seq,
              serializer_id |-> h.serializer_id, data |-> wire.data,
              annotations |-> wire.annotations, hmac_key |-> key]
        ELSE None

HmacValid(key) ==
    IF key # None /\ wire.digest # None
    THEN SizesMatch /\ wire.digest = Digest(key, wire.data, wire.annotations)
    ELSE (key = None) = (wire.digest = None)

Result(key, max, types, enough) ==
    LET h == wire.header
    IN  IF ~HeaderValid THEN "protocol error"
        ELSE IF TooLarge(max, h.data_size + h.annotations_size) THEN "closed"
        ELSE IF types # {} /\ h.type \notin types THEN "protocol error"
        ELSE IF h.data_size < 0 \/ (wire.data.len < h.data_size /\ ~enough) THEN "closed"
        ELSE IF ~HmacValid(key) THEN "security error"
        ELSE "ok"

Receive(key, max, types, enough) ==
    /\ OnWire
    /\ LET r == Result(key, max, types, enough)
       IN  received' = [result |-> r, msg |-> IF r = "ok" THEN Received(key) ELSE None,
                        key |-> key, max |-> max, types |-> types]
    /\ UNCHANGED <<sent, wire, damage>>

WireNext ==
    \/ sent = None /\ \E m \in RequestMessage, max \in MaxMessage : Send(m, max)
    \/ ChangeHeader \/ ChangeBody
    \/ \E key \in HmacKey \cup {None}, max \in MaxMessage, types \in {{}} \cup {{t} : t \in Type},
          enough \in BOOLEAN : Receive(key, max, types, enough)

WireSpec == WireInit /\ [][WireNext]_wireVars

-----------------------------------------------------------------------------
(* Properties *)

(* The peer that shares the secret, expects the type and takes the size    *)
(* receives what was sent, with nothing added or lost (message lines       *)
(* 89-132 against 146-210), whatever is in the reserved field.             *)
ReceivedAsSent ==
    received # None /\ damage \in {None, "reserved"} =>
        IF /\ received.key = sent.hmac_key
           /\ received.types \in {{}, {sent.type}}
           /\ ~TooLarge(received.max, sent.data.len + AnnotationsSize(sent))
        THEN received.result = "ok" /\ received.msg = sent
        ELSE received.result # "ok"

(* What the checksum of 16 bits does not see: a data_size that is off by a *)
(* multiple of 65536, and nothing else.                                    *)
SizeWrapped ==
    /\ wire.header = [Fields(sent) EXCEPT !.data_size = wire.header.data_size]
    /\ wire.header.data_size # sent.data.len
    /\ wire.header.data_size % W = sent.data.len % W

(* A message whose header was changed in one field, or its checksum, is    *)
(* refused (lines 111 and 152), but for a data_size that only a peer       *)
(* without a secret takes, with other data than was sent: the digest is of *)
(* the data.  One whose data or annotations were changed is refused by a   *)
(* peer with a secret.                                                     *)
DamageFound ==
    received # None /\ received.result = "ok" =>
        /\ damage = "header" => SizeWrapped /\ received.key = None
        /\ damage = "body" => received.key = None

(* A message is received as it was sent, or refused where it was damaged.  *)
WireInv == ReceivedAsSent /\ DamageFound
=============================================================================
