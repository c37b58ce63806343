------------------------------ MODULE FrameStream ------------------------------
(***************************************************************************)
(* common/rpc_conn.go and the OnTraffic loops: messages as frames (module  *)
(* Frames) on a byte stream.  The network cuts the stream where it likes;  *)
(* gnet reads what has come into the inbound buffer and calls OnTraffic,   *)
(* which takes off every whole frame and waits for the next read.  It sees *)
(* the bytes of the buffer only: which frame is where is history.          *)
(*                                                                         *)
(* TCP keeps the bytes and their order, so the inbound buffer is what lies *)
(* between two cursors in the stream of all bytes sent.                    *)
(***************************************************************************)
EXTENDS Frames

CONSTANTS Messages,      \* a header and the protobuf body
          MaxFrames      \* bound on the frames sent

\* Uri and SeqId are a uint16 and a uint64.  Messages of 4 GiB and more are left
\* out: nothing refuses them, and they are announced as what their length leaves
\* in the length field.
Message ==
    [Uri   : 0 .. Power(Base)[UriBytes] - 1,
     SeqId : 0 .. Power(Base)[SeqBytes] - 1,
     body  : Seq(Byte)]

ASSUME FrameStreamAssumption ==
    /\ Messages \subseteq Message /\ MaxFrames \in Nat
    /\ \A m \in Messages : HeaderLen + Len(m.body) < Power(Base)[LengthBytes]

VARIABLES
    frames,              \* history: the messages sent and where their frames start
    stream,              \* the bytes sent
    arrived,             \* how many were read into the inbound buffer so far
    consumed,            \* and how many were taken off it
    delivered,           \* the messages decoded
    busy,                \* OnTraffic is running
    open

vars == <<frames, stream, arrived, consumed, delivered, busy, open>>

Frame == [start : Nat, message : Messages]

TypeOK ==
    /\ frames \in Seq(Frame) /\ Len(frames) <= MaxFrames
    /\ stream \in Seq(Byte)
    /\ arrived \in 0 .. Len(stream)
    /\ consumed \in 0 .. arrived
    /\ delivered \in Seq(Message)
    /\ busy \in BOOLEAN /\ open \in BOOLEAN

Init ==
    /\ frames = <<>> /\ stream = <<>>
    /\ arrived = 0 /\ consumed = 0
    /\ delivered = <<>>
    /\ busy = FALSE /\ open = TRUE

-----------------------------------------------------------------------------
(* The sender                                                              *)

Wire(m) == MakeFrame(EncodePayload(m, m.body))

\* EncodePayload and Send, with MakeFrame, of a message.  AsyncWrite queues the
\* whole frame, so frames of several goroutines do not mix.
Send(m) ==
    /\ open /\ Len(frames) < MaxFrames
    /\ frames' = Append(frames, [start |-> Len(stream), message |-> m])
    /\ stream' = stream \o Wire(m)
    /\ UNCHANGED <<arrived, consumed, delivered, busy, open>>

-----------------------------------------------------------------------------
(* The receiver                                                            *)

\* gnet reads n bytes more and calls OnTraffic.
Arrive(n) ==
    /\ open /\ ~busy
    /\ arrived + n <= Len(stream)
    /\ arrived' = arrived + n
    /\ busy' = TRUE
    /\ UNCHANGED <<frames, stream, consumed, delivered, open>>

Inbound == SubSeq(stream, consumed + 1, arrived)

Decoded == ZeroCopyDecode(Inbound)

\* mutants: the bytes of the length field are discarded twice, or stay in the
\* buffer, or all of the frame stays.
DiscardFieldTwice ==
    /\ consumed' = arrived - Len(Decoded.rest) + LengthBytes
    /\ delivered' = Append(delivered, Decoded.message)
    /\ UNCHANGED <<frames, stream, arrived>>

LeaveLengthField ==
    /\ consumed' = arrived - Len(Decoded.rest) - LengthBytes
    /\ delivered' = Append(delivered, Decoded.message)
    /\ UNCHANGED <<frames, stream, arrived>>
PeekOnly ==
    /\ Len(delivered) < MaxFrames
    /\ delivered' = Append(delivered, Decoded.message)
    /\ UNCHANGED <<frames, stream, arrived, consumed>>

\* ZeroCopyDecode has taken a frame off the buffer.
TakeOff ==
    /\ consumed' = arrived - Len(Decoded.rest)
    /\ delivered' = Append(delivered, Decoded.message)
    /\ UNCHANGED <<frames, stream, arrived>>

\* mutant: OnTraffic takes one frame off and returns.
TakeOnlyOne ==
    /\ open /\ busy /\ Decoded.ok
    /\ TakeOff
    /\ busy' = FALSE
    /\ UNCHANGED open

\* One round of OnTraffic: a frame is decoded and handled ...
OnPacket ==
    /\ open /\ busy /\ Decoded.ok
    /\ TakeOff
    /\ UNCHANGED <<busy, open>>

\* ... or its body cannot be unmarshalled or the handler returns an error, and
\* the connection is closed.
OnPacketFails ==
    /\ open /\ busy /\ Decoded.ok
    /\ TakeOff
    /\ open' = FALSE /\ busy' = FALSE

\* io.ErrShortBuffer: OnTraffic returns and waits for more.
WaitForMore ==
    /\ open /\ busy /\ ~Decoded.ok
    /\ busy' = FALSE
    /\ UNCHANGED <<frames, stream, arrived, consumed, delivered, open>>

\* The network or the other side ends the connection; OnTraffic is not running,
\* as OnClose is called by the same event loop.
Break ==
    /\ open /\ ~busy
    /\ open' = FALSE
    /\ UNCHANGED <<frames, stream, arrived, consumed, delivered, busy>>

-----------------------------------------------------------------------------
OnTraffic == OnPacket \/ OnPacketFails \/ WaitForMore

Read == \E n \in 1 .. Len(stream) : Arrive(n)

Next ==
    \/ \E m \in Messages : Send(m)
    \/ Read \/ OnTraffic \/ Break

Spec == Init /\ [][Next]_vars

\* TCP delivers what was sent while the connection is open, and the event loop
\* runs OnTraffic to its end.
FairSpec == Spec /\ WF_vars(Read) /\ WF_vars(OnTraffic)

-----------------------------------------------------------------------------
(* Properties                                                              *)

FrameEnd(i) == frames[i].start + Len(Wire(frames[i].message))

\* When OnTraffic waits for more, no whole frame is left in the buffer, wherever
\* the stream was cut: no message depends on a later one to be handled.
NothingLeftBehind ==
    open /\ ~busy => \A i \in 1 .. Len(frames) :
        i > Len(delivered) => arrived < FrameEnd(i)

\* The decoder, which goes by the lengths it reads, always stands at the start
\* of the frame after those it has delivered: none of the lengths was read from
\* the middle of a frame, whatever the bodies look like.
Aligned ==
    IF Len(delivered) = Len(frames) THEN consumed = Len(stream)
    ELSE consumed = frames[Len(delivered) + 1].start

\* The messages delivered, each named by its number if it is the one sent.
Received ==
    [k \in DOMAIN delivered |->
        IF k <= Len(frames) /\ delivered[k] = frames[k].message THEN k ELSE 0]

\* Every message is received once, in order and as it was sent.
Chan == INSTANCE Channel WITH sent <- Len(frames), received <- Received, up <- open

ImplementsChannel == Chan!ChannelSpec

\* What is sent arrives unless the connection is closed.
EverythingArrives ==
    \A i \in 1 .. MaxFrames :
        (Len(frames) >= i) ~> (Len(delivered) >= i \/ ~open)

=============================================================================
