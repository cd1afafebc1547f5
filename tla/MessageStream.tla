--------------------------- MODULE MessageStream ----------------------------
(***************************************************************************)
(* Messages over a stream of bytes (socketutil.sendData and receiveData,   *)
(* message.Message.recv): either end may be given any part of what it asks *)
(* for, an error to be tried again, a timeout or the end of the stream.    *)
(* Byte j of message i is <<i, j>>.                                        *)
(***************************************************************************)
EXTENDS Values, Integers, Sequences, FiniteSetsExt

CONSTANTS
    HeaderSize,
    BodySize,       \* of each message, a sequence
    BufferSize      \* what one recv asks for at most; 60000

ASSUME StreamAssumption ==
    HeaderSize \in Nat \ {0} /\ BodySize \in Seq(Nat) /\ BufferSize \in Nat /\ None \notin BOOLEAN

VARIABLES
    sending,        \* the number of the message in sendData, or of the last one
    unsent,         \* its bytes that the socket has not taken
    bytes,          \* on their way
    writer, reader, \* of each end: "open", "closed"
    phase,          \* what Message.recv waits for: "header", "body"
    size,           \* how many bytes receiveData was asked for
    chunks,         \* what it has
    waitall,        \* is it about to ask for them with MSG_WAITALL?
    useWaitall,     \* config.USE_MSG_WAITALL
    got,            \* the messages received, as their bytes
    failed          \* has a timeout or an error ended a call?

streamVars ==
    <<sending, unsent, bytes, writer, reader, phase, size, chunks, waitall, useWaitall, got,
      failed>>
senderVars == <<sending, unsent, writer>>
readerVars == <<reader, phase, size, chunks, waitall, useWaitall, got>>

MessageBytes(i) == [j \in 1 .. HeaderSize + BodySize[i] |-> <<i, j>>]

StreamInit ==
    /\ sending = 0 /\ unsent = <<>> /\ bytes = <<>> /\ writer = "open" /\ reader = "open"
    /\ phase = "header" /\ size = HeaderSize /\ chunks = <<>>
    /\ waitall = FALSE /\ useWaitall = None /\ got = <<>> /\ failed = FALSE

Configure ==
    /\ useWaitall = None /\ useWaitall' \in BOOLEAN /\ waitall' = useWaitall'
    /\ UNCHANGED <<senderVars, bytes, reader, phase, size, chunks, got, failed>>

-----------------------------------------------------------------------------
(* sendData *)

SendData ==
    /\ useWaitall # None /\ writer = "open" /\ unsent = <<>> /\ sending < Len(BodySize)
    /\ sending' = sending + 1 /\ unsent' = MessageBytes(sending')
    /\ UNCHANGED <<readerVars, bytes, writer, failed>>

Drop(s, n) == SubSeq(s, n + 1, Len(s))

(* sock.send, or sendall on the way, takes some of the bytes.  An error in *)
(* ERRNO_RETRIES leaves all as it is.                                      *)
Write ==
    /\ writer = "open" /\ unsent # <<>>
    /\ \E n \in 1 .. Len(unsent) :
        /\ unsent' = Drop(unsent, n)
        /\ bytes' = IF reader = "open" THEN bytes \o SubSeq(unsent, 1, n) ELSE bytes
    /\ UNCHANGED <<readerVars, sending, writer, failed>>

(* A timeout or an error: whoever sends closes its connection. *)
WriteFails ==
    /\ writer = "open" /\ useWaitall # None /\ writer' = "closed" /\ failed' = TRUE
    /\ UNCHANGED <<readerVars, bytes, sending, unsent>>

-----------------------------------------------------------------------------
(* receiveData, called by Message.recv for the header and for the body *)

(* from_header of what was received: its message, or 0. *)
HeaderOf(data) ==
    IF \E i \in 1 .. Len(BodySize) : data = SubSeq(MessageBytes(i), 1, HeaderSize)
    THEN data[1][1] ELSE 0

(* The data is complete: recv goes on to the body, returns the message, or *)
(* raises ProtocolError, after which the connection is closed.             *)
Complete(data) ==
    IF phase = "body"
    THEN /\ got' = [got EXCEPT ![Len(got)] = @ \o data]
         /\ phase' = "header" /\ size' = HeaderSize /\ reader' = reader
    ELSE IF HeaderOf(data) = 0
    THEN reader' = "closed" /\ UNCHANGED <<phase, size, got>>
    ELSE /\ got' = Append(got, data)
         /\ phase' = "body" /\ size' = BodySize[HeaderOf(data)] /\ reader' = reader

Returned(data) == Complete(data) /\ chunks' = <<>> /\ waitall' = useWaitall

(* recv(size, MSG_WAITALL) may return less all the same; what it returned  *)
(* is kept for the loop.                                                   *)
ReadWaitall ==
    /\ reader = "open" /\ waitall = TRUE
    /\ \E n \in 0 .. Min({size, Len(bytes)}) :
        /\ n = 0 => size = 0 \/ writer = "closed"
        /\ bytes' = Drop(bytes, n)
        /\ LET data == SubSeq(bytes, 1, n)
           IN  IF n = size THEN Returned(data)
               ELSE chunks' = data /\ waitall' = FALSE /\ UNCHANGED <<reader, phase, size, got>>
    /\ UNCHANGED <<senderVars, useWaitall, failed>>

(* Mutant: the whole size is asked for again. *)
AskedAgain == Min({BufferSize, size})

Asked == Min({BufferSize, size - Len(chunks)})

ReadChunk ==
    /\ reader = "open" /\ waitall = FALSE /\ useWaitall # None /\ Len(chunks) < size
    /\ \E n \in 1 .. Min({Asked, Len(bytes)}) :
        bytes' = Drop(bytes, n) /\ chunks' = chunks \o SubSeq(bytes, 1, n)
    /\ UNCHANGED <<senderVars, reader, phase, size, waitall, useWaitall, got, failed>>

(* Mutant: what there was at the end of the stream is enough. *)
Some == Len(chunks) > 0

Enough == Len(chunks) = size

(* The loop ends when it has as much or at the end of the stream; data of  *)
(* another length is ConnectionClosedError, and the caller closes.         *)
ReadEnds ==
    /\ reader = "open" /\ waitall = FALSE /\ useWaitall # None
    /\ Len(chunks) >= size \/ (bytes = <<>> /\ writer = "closed")
    /\ IF Enough THEN Returned(chunks)
       ELSE reader' = "closed" /\ UNCHANGED <<phase, size, got, chunks, waitall>>
    /\ UNCHANGED <<senderVars, bytes, useWaitall, failed>>

(* A timeout or an error that is not tried again: the caller closes. *)
ReadFails ==
    /\ reader = "open" /\ useWaitall # None /\ reader' = "closed"
    /\ bytes' = <<>> /\ failed' = TRUE
    /\ UNCHANGED <<senderVars, phase, size, chunks, waitall, useWaitall, got>>

StreamNext ==
    \/ Configure \/ SendData \/ Write \/ WriteFails
    \/ ReadWaitall \/ ReadChunk \/ ReadEnds \/ ReadFails

StreamSpec == StreamInit /\ [][StreamNext]_streamVars

-----------------------------------------------------------------------------
(* Properties *)

(* The messages received are those sent, whole, in their order, from the   *)
(* first one on, however the bytes are cut (socketutil lines 130-226,      *)
(* message lines 161-199).                                                 *)
WholeMessages ==
    \A i \in DOMAIN got :
        IF i = Len(got) /\ phase = "body" THEN got[i] = SubSeq(MessageBytes(i), 1, HeaderSize)
        ELSE got[i] = MessageBytes(i)

(* The connection is a channel of messages: each counts as sent when its   *)
(* last byte is taken, and as received when recv returns it.  It breaks    *)
(* only after a timeout or an error: no end takes what is on the way for   *)
(* something else (lines 141-193).                                         *)
Channel == INSTANCE MessageChannel WITH
    Messages <- Len(BodySize),
    sentCount <- IF unsent = <<>> THEN sending ELSE sending - 1,
    gotCount <- IF phase = "body" THEN Len(got) - 1 ELSE Len(got),
    fails <- failed, broken <- "closed" \in {writer, reader}

StreamIsChannel == [][UNCHANGED streamVars \/ Channel!Next]_(Channel!vars)
=============================================================================
