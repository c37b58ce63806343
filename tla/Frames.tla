-------------------------------- MODULE Frames --------------------------------
(***************************************************************************)
(* codec/header.go and common/rpc_conn.go byte by byte: frames, of which   *)
(* FrameStream has only the lengths.  The code has bytes of base 256 and,  *)
(* in this order, fields of 4 (length), 2 (Uri) and 8 of them (SeqId).     *)
(***************************************************************************)
EXTENDS Digits

CONSTANTS Base, LengthBytes, UriBytes, SeqBytes,
          MaxFrameSize   \* 16 MiB

ASSUME FramesAssumption ==
    /\ Base \in Nat \ {0} /\ LengthBytes \in Nat \ {0} /\ UriBytes \in Nat \ {0}
    /\ SeqBytes \in Nat \ {0} /\ MaxFrameSize \in Nat

Byte == 0 .. Base - 1

First(n, bytes)   == SubSeq(bytes, 1, n)
Without(n, bytes) == SubSeq(bytes, n + 1, Len(bytes))

HeaderLen == UriBytes + SeqBytes

EncodePayload(h, body) ==
    PutUint(Base, h.Uri, UriBytes) \o PutUint(Base, h.SeqId, SeqBytes) \o body

MakeFrame(payload) == PutUint(Base, Len(payload), LengthBytes) \o payload

\* io.ErrShortBuffer: nothing is taken off.
Short == [ok |-> FALSE]

\* What a whole frame begins with and what follows it.
ReadFrameFromGnet(buffer) ==
    LET n == Uint(Base, First(LengthBytes, buffer))
    IN  IF Len(buffer) < LengthBytes THEN Short
        ELSE IF Len(buffer) < LengthBytes + n THEN Short
        ELSE [ok |-> TRUE, payload |-> First(n, Without(LengthBytes, buffer)),
              rest |-> Without(LengthBytes + n, buffer)]

\* readFrame of an inbound connection, which refuses what is too large.  It has
\* no caller: it reads from a socket of the connection's own, which is nil.
readFrame(stream) ==
    LET n == Uint(Base, First(LengthBytes, stream))
    IN  IF Len(stream) < LengthBytes THEN Short
        ELSE IF n > MaxFrameSize \/ Len(stream) < LengthBytes + n THEN Short
        ELSE ReadFrameFromGnet(stream)

DecodeInnerPayload(payload) ==
    IF Len(payload) < HeaderLen THEN Short
    ELSE [ok |-> TRUE,
          message |-> [Uri   |-> Uint(Base, First(UriBytes, payload)),
                       SeqId |-> Uint(Base, First(SeqBytes, Without(UriBytes, payload))),
                       body  |-> Without(HeaderLen, payload)]]

\* A frame too short for its header is taken for one that is not whole.
ZeroCopyDecode(buffer) ==
    LET outerLen == Uint(Base, First(LengthBytes, buffer))
        payload  == First(outerLen, Without(LengthBytes, buffer))
    IN  IF Len(buffer) < LengthBytes THEN Short
        ELSE IF outerLen < HeaderLen \/ Len(buffer) < LengthBytes + outerLen THEN Short
        ELSE [ok |-> TRUE, message |-> DecodeInnerPayload(payload).message,
              rest |-> Without(LengthBytes + outerLen, buffer)]

=============================================================================
