---------------------------- MODULE MCFrameStream ----------------------------
(* Instance of FrameStream for TLC, and what Frames makes of any short       *)
(* stream, with bytes of two values, 3 of them for a length, 1 for a Uri and *)
(* 2 for a SeqId.                                                            *)
EXTENDS FrameStream

\* The shortest message, and two that look like frames or lengths.
SomeMessages ==
    {[Uri |-> 0, SeqId |-> 0, body |-> <<>>],
     [Uri |-> 0, SeqId |-> 3, body |-> <<0, 0, 0>>],
     [Uri |-> 1, SeqId |-> 1, body |-> <<0, 1, 1, 0>>]}

Bytes(n)  == UNION {[1 .. k -> 0 .. 1] : k \in 0 .. n}
Headers   == [Uri : 0 .. 1, SeqId : 0 .. 3]
Framed(h, body) == MakeFrame(EncodePayload(h, body))

\* A message is read back as it was sent, whatever follows it, and not before
\* its last byte is there.
ASSUME RoundTrip ==
    \A h \in Headers, body \in Bytes(2) :
        /\ \A rest \in Bytes(2) :
              LET r == ZeroCopyDecode(Framed(h, body) \o rest)
              IN  /\ r.ok /\ r.rest = rest
                  /\ r.message = [Uri |-> h.Uri, SeqId |-> h.SeqId, body |-> body]
        /\ \A n \in 0 .. Len(Framed(h, body)) - 1 :
              ZeroCopyDecode(SubSeq(Framed(h, body), 1, n)) = Short

\* The two ways to read agree, except about a frame without room for a header:
\* ReadFrameFromGnet takes it off, and DecodeInnerPayload refuses it.
ASSUME TwoReaders ==
    \A buffer \in Bytes(8) :
        LET z == ZeroCopyDecode(buffer)
            r == ReadFrameFromGnet(buffer)
        IN  IF z.ok
            THEN /\ r.ok /\ r.rest = z.rest
                 /\ DecodeInnerPayload(r.payload) = [ok |-> TRUE, message |-> z.message]
            ELSE r.ok => DecodeInnerPayload(r.payload) = Short

\* What Send may send and readFrame would refuse.
ASSUME TooLarge ==
    \A h \in Headers, body \in Bytes(4) :
        readFrame(Framed(h, body)) =
            IF Len(body) <= 1 THEN ReadFrameFromGnet(Framed(h, body)) ELSE Short

\* MaxFrameSize is not looked at when a frame is made: one that is too long for
\* its length field is announced by what is left of its length, and cut there.
ASSUME LengthWraps ==
    \A h \in Headers, body \in [1 .. 5 -> {0}] :
        ReadFrameFromGnet(Framed(h, body)) =
            [ok |-> TRUE, payload |-> <<>>, rest |-> EncodePayload(h, body)]
=============================================================================
