--------------------------- MODULE FrameStreamProofs ---------------------------
(***************************************************************************)
(* Proofs about Frames and FrameStream for fields of any size, any messages*)
(* that fit the length field and any number of them: a frame is read back  *)
(* as the message it was made of, the decoder, which knows nothing but the *)
(* bytes in the buffer, never leaves the frame boundaries, a whole frame is*)
(* never left waiting, and the stream implements Channel.                  *)
(***************************************************************************)
EXTENDS FrameStream, DataLemmas, TLAPS

-----------------------------------------------------------------------------
(* Frames                                                                  *)

\* A frame has a length field; nothing else is asked of the sizes of the fields.
LEMMA Lengths == LengthBytes \in Nat \ {0} /\ HeaderLen \in Nat
BY FramesAssumption DEF HeaderLen

\* What is left of bytes is bytes, and its first ones are those in between.
LEMMA Remainder ==
    ASSUME NEW n \in Nat, NEW buffer \in Seq(Byte), n <= Len(buffer)
    PROVE  /\ Without(n, buffer) \in Seq(Byte) /\ Len(Without(n, buffer)) = Len(buffer) - n
           /\ \A i \in 1 .. Len(buffer) - n : Without(n, buffer)[i] = buffer[n + i]
<1> DEFINE m == n + 1
           l == Len(buffer)
<1>1. m \in Nat \ {0} /\ l \in Nat /\ l <= Len(buffer)
  OBVIOUS
<1>2. \A i \in 1 .. l - n : m + i - 1 = n + i
  OBVIOUS
<1>3. l - m + 1 = l - n /\ (IF m <= l THEN l - m + 1 ELSE 0) = l - n
  OBVIOUS
<1>4. Without(n, buffer) = SubSeq(buffer, m, l)
  BY DEF Without
<1> HIDE DEF m, l
<1>5. /\ SubSeq(buffer, m, l) \in Seq(Byte)
      /\ Len(SubSeq(buffer, m, l)) = IF m <= l THEN l - m + 1 ELSE 0
      /\ \A i \in 1 .. l - m + 1 : SubSeq(buffer, m, l)[i] = buffer[m + i - 1]
  BY <1>1, Part
<1>6. QED
  BY <1>2, <1>3, <1>4, <1>5 DEF l

\* Bytes that begin with others.
LEMMA Beginning ==
    ASSUME NEW s \in Seq(Byte), NEW t \in Seq(Byte), Len(t) <= Len(s),
           \A i \in 1 .. Len(t) : s[i] = t[i]
    PROVE  First(Len(t), s) = t
<1>1. Len(t) \in Nat
  OBVIOUS
<1>2. /\ SubSeq(s, 1, Len(t)) \in Seq(Byte) /\ Len(SubSeq(s, 1, Len(t))) = Len(t)
      /\ \A i \in 1 .. Len(t) : SubSeq(s, 1, Len(t))[i] = s[i]
  BY <1>1, Part
<1>3. SubSeq(s, 1, Len(t)) = t
  BY <1>2, SeqEqual
<1>4. QED
  BY <1>3 DEF First

\* A frame is the length of its payload, as far as that has room, and the payload.
LEMMA FrameOf ==
    ASSUME NEW payload \in Seq(Byte), Len(payload) < Power(Base)[LengthBytes]
    PROVE  /\ MakeFrame(payload) \in Seq(Byte)
           /\ Len(MakeFrame(payload)) = LengthBytes + Len(payload)
           /\ \E field \in Seq(Byte) :
                 /\ Len(field) = LengthBytes /\ Uint(Base, field) = Len(payload)
                 /\ \A i \in 1 .. LengthBytes : MakeFrame(payload)[i] = field[i]
           /\ \A i \in 1 .. Len(payload) : MakeFrame(payload)[LengthBytes + i] = payload[i]
<1> DEFINE field == PutUint(Base, Len(payload), LengthBytes)
<1>1. Base \in Bases /\ LengthBytes \in Nat /\ Len(payload) \in Nat /\ Len(payload) \in Int
  BY FramesAssumption DEF Bases
<1>2. field \in Seq(Byte) /\ Len(field) = LengthBytes
  BY <1>1, PutUintDigits DEF Byte
<1>3. Power(Base)[LengthBytes] \in Nat
  BY <1>1, PowerDef
<1>4. Uint(Base, field) = Len(payload)
  <2>1. Len(payload) \in 0 .. Power(Base)[LengthBytes] - 1
    BY <1>1, <1>3
  <2>2. QED
    BY <1>1, <2>1, PutUintFits
<1>5. MakeFrame(payload) = field \o payload
  BY DEF MakeFrame
<1> HIDE DEF field
<1>6. /\ field \o payload \in Seq(Byte)
      /\ Len(field \o payload) = LengthBytes + Len(payload)
      /\ \A i \in 1 .. LengthBytes : (field \o payload)[i] = field[i]
      /\ \A i \in 1 .. Len(payload) : (field \o payload)[LengthBytes + i] = payload[i]
  BY <1>2, Joined
<1>7. QED
  BY <1>2, <1>4, <1>5, <1>6

\* What begins like a frame is read as one exactly when it is as long.
LEMMA DecodeFrame ==
    ASSUME NEW payload \in Seq(Byte), Len(payload) < Power(Base)[LengthBytes],
           NEW buffer \in Seq(Byte), NEW n, n = LengthBytes + Len(payload),
           \A i \in 1 .. Len(buffer) : i <= n => buffer[i] = MakeFrame(payload)[i]
    PROVE  /\ Len(buffer) < n => /\ ReadFrameFromGnet(buffer) = Short
                                 /\ ZeroCopyDecode(buffer) = Short
           /\ Len(buffer) >= n =>
                 /\ ReadFrameFromGnet(buffer) =
                       [ok |-> TRUE, payload |-> payload, rest |-> Without(n, buffer)]
                 /\ ZeroCopyDecode(buffer) =
                       IF Len(payload) < HeaderLen THEN Short
                       ELSE [ok |-> TRUE, message |-> DecodeInnerPayload(payload).message,
                             rest |-> Without(n, buffer)]
<1> DEFINE k == Len(payload)
<1>1. PICK field \in Seq(Byte) :
          /\ Len(field) = LengthBytes /\ Uint(Base, field) = k
          /\ \A i \in 1 .. LengthBytes : MakeFrame(payload)[i] = field[i]
  BY FrameOf
<1>2. \A i \in 1 .. k : MakeFrame(payload)[LengthBytes + i] = payload[i]
  BY FrameOf
<1>3. LengthBytes \in Nat /\ k \in Nat /\ n \in Nat /\ Len(buffer) \in Nat /\ HeaderLen \in Nat
      /\ n = LengthBytes + k
  BY Lengths
<1>4. ASSUME Len(buffer) >= LengthBytes PROVE Uint(Base, First(LengthBytes, buffer)) = k
  <2>1. \A i \in 1 .. LengthBytes : buffer[i] = field[i]
    BY <1>1, <1>3, <1>4
  <2>2. First(LengthBytes, buffer) = field
    BY <1>1, <1>4, <2>1, Beginning
  <2>3. QED
    BY <1>1, <2>2
<1>5. ASSUME Len(buffer) >= n PROVE First(k, Without(LengthBytes, buffer)) = payload
  <2>1. /\ Without(LengthBytes, buffer) \in Seq(Byte)
        /\ Len(Without(LengthBytes, buffer)) = Len(buffer) - LengthBytes
        /\ \A i \in 1 .. Len(buffer) - LengthBytes :
              Without(LengthBytes, buffer)[i] = buffer[LengthBytes + i]
    <3>1. LengthBytes <= Len(buffer)
      BY <1>3, <1>5
    <3>2. QED
      BY <1>3, <3>1, Remainder
  <2>2. \A i \in 1 .. k : Without(LengthBytes, buffer)[i] = payload[i]
    <3> TAKE i \in 1 .. k
    <3>1. i \in 1 .. Len(buffer) - LengthBytes /\ LengthBytes + i \in 1 .. Len(buffer)
          /\ LengthBytes + i <= n
      BY <1>3, <1>5
    <3>2. QED
      BY <1>2, <2>1, <3>1
  <2>3. k <= Len(Without(LengthBytes, buffer))
    BY <1>3, <1>5, <2>1
  <2>4. QED
    BY <2>1, <2>2, <2>3, Beginning
<1>6. CASE Len(buffer) < LengthBytes
  <2>1. Len(buffer) < n
    BY <1>3, <1>6
  <2>2. QED
    BY <1>3, <1>6, <2>1 DEF ReadFrameFromGnet, ZeroCopyDecode
<1>7. CASE Len(buffer) >= LengthBytes /\ Len(buffer) < n
  BY <1>3, <1>4, <1>7 DEF ReadFrameFromGnet, ZeroCopyDecode
<1>8. CASE Len(buffer) >= n
  <2>1. Len(buffer) >= LengthBytes /\ ~(Len(buffer) < LengthBytes) /\ ~(Len(buffer) < n)
    BY <1>3, <1>8
  <2>2. Uint(Base, First(LengthBytes, buffer)) = k
    BY <1>4, <2>1
  <2>3. QED
    BY <1>3, <1>5, <1>8, <2>1, <2>2 DEF ReadFrameFromGnet, ZeroCopyDecode
<1>9. QED
  BY <1>3, <1>6, <1>7, <1>8

\* What comes first is taken off, and what follows is left.
LEMMA Cut ==
    \A s, t \in Seq(Byte) :
        /\ s \o t \in Seq(Byte) /\ Len(s \o t) = Len(s) + Len(t)
        /\ First(Len(s), s \o t) = s /\ Without(Len(s), s \o t) = t
<1> TAKE s, t \in Seq(Byte)
<1>1. SubSeq(s \o t, 1, Len(s)) = s /\ SubSeq(s \o t, Len(s) + 1, Len(s \o t)) = t
  BY Parted
<1>2. First(Len(s), s \o t) = s /\ Without(Len(s), s \o t) = t
  BY <1>1, Zenon DEF First, Without
<1>3. QED
  BY <1>2, Joined

\* Of three parts put together each is found again.
LEMMA CutTwice ==
    ASSUME NEW s \in Seq(Byte), NEW t \in Seq(Byte), NEW u \in Seq(Byte)
    PROVE  LET v == s \o t \o u
           IN  /\ v \in Seq(Byte) /\ Len(v) = Len(s) + Len(t) + Len(u)
               /\ First(Len(s), v) = s /\ First(Len(t), Without(Len(s), v)) = t
               /\ Without(Len(s) + Len(t), v) = u
<1> DEFINE v == s \o t \o u
<1>1. s \o t \in Seq(Byte) /\ Len(s \o t) = Len(s) + Len(t) /\ t \o u \in Seq(Byte)
  BY Cut
<1>2. /\ v \in Seq(Byte) /\ Len(v) = Len(s \o t) + Len(u)
      /\ Without(Len(s \o t), v) = u
  BY <1>1, Cut
<1>3. v = s \o (t \o u)
  BY ConcatAssociative
<1>4. First(Len(s), s \o (t \o u)) = s /\ Without(Len(s), s \o (t \o u)) = t \o u
  BY <1>1, Cut
<1>5. First(Len(t), t \o u) = t
  BY Cut
<1> HIDE DEF v
<1>6. First(Len(s), v) = s /\ First(Len(t), Without(Len(s), v)) = t
  BY <1>3, <1>4, <1>5, Zenon
<1>7. Without(Len(s) + Len(t), v) = u /\ Len(v) = Len(s) + Len(t) + Len(u)
  BY <1>1, <1>2, Zenon
<1>8. QED
  BY <1>2, <1>6, <1>7, Zenon DEF v

\* The payload of a message has the message in it.
LEMMA PayloadOf ==
    ASSUME NEW m \in Message, NEW payload, payload = EncodePayload(m, m.body)
    PROVE  /\ payload \in Seq(Byte) /\ Len(payload) = HeaderLen + Len(m.body)
           /\ DecodeInnerPayload(payload) = [ok |-> TRUE, message |-> m]
<1> DEFINE uri  == PutUint(Base, m.Uri, UriBytes)
           seq  == PutUint(Base, m.SeqId, SeqBytes)
           body == m.body
<1>1. /\ Base \in Bases /\ UriBytes \in Nat /\ SeqBytes \in Nat
      /\ HeaderLen = UriBytes + SeqBytes
  BY FramesAssumption DEF Bases, HeaderLen
<1>2. /\ m.Uri \in 0 .. Power(Base)[UriBytes] - 1
      /\ m.SeqId \in 0 .. Power(Base)[SeqBytes] - 1
      /\ body \in Seq(Byte) /\ m = [Uri |-> m.Uri, SeqId |-> m.SeqId, body |-> body]
  BY DEF Message
<1>3. Power(Base)[UriBytes] \in Nat /\ Power(Base)[SeqBytes] \in Nat
  BY <1>1, PowerDef
<1>4. m.Uri \in Int /\ m.SeqId \in Int
  BY <1>2, <1>3
<1>5. uri \in Seq(Byte) /\ Len(uri) = UriBytes /\ seq \in Seq(Byte) /\ Len(seq) = SeqBytes
  BY <1>1, <1>4, PutUintDigits DEF Byte
<1>6. Uint(Base, uri) = m.Uri /\ Uint(Base, seq) = m.SeqId
  BY <1>1, <1>2, PutUintFits
<1>7. payload = uri \o seq \o body
  BY DEF EncodePayload
<1> HIDE DEF uri, seq, body
<1>8. /\ payload \in Seq(Byte) /\ Len(payload) = HeaderLen + Len(body)
      /\ ~(Len(payload) < HeaderLen)
      /\ First(UriBytes, payload) = uri /\ First(SeqBytes, Without(UriBytes, payload)) = seq
      /\ Without(HeaderLen, payload) = body
  <2>1. /\ payload \in Seq(Byte) /\ Len(payload) = Len(uri) + Len(seq) + Len(body)
        /\ First(Len(uri), payload) = uri
        /\ First(Len(seq), Without(Len(uri), payload)) = seq
        /\ Without(Len(uri) + Len(seq), payload) = body
    BY <1>2, <1>5, <1>7, CutTwice
  <2>2. HeaderLen = Len(uri) + Len(seq)
    BY <1>1, <1>5, Zenon
  <2>3. Len(payload) = HeaderLen + Len(body) /\ Without(HeaderLen, payload) = body
    BY <2>1, <2>2, Zenon
  <2>4. ~(HeaderLen + Len(body) < HeaderLen)
    BY <1>2, Lengths
  <2>5. QED
    BY <1>5, <2>1, <2>3, <2>4, Zenon
<1>9. DecodeInnerPayload(payload) = [ok |-> TRUE, message |-> m]
  BY <1>2, <1>6, <1>8 DEF DecodeInnerPayload
<1>10. QED
  BY <1>8, <1>9 DEF body

\* What fits the length field.
Sendable == {m \in Message : HeaderLen + Len(m.body) < Power(Base)[LengthBytes]}

\* What begins like the frame of a message is read as that message exactly when
\* all of the frame is there.
LEMMA DecodeWire ==
    ASSUME NEW m \in Sendable, NEW buffer \in Seq(Byte),
           \A i \in 1 .. Len(buffer) : i <= Len(Wire(m)) => buffer[i] = Wire(m)[i]
    PROVE  /\ Len(buffer) < Len(Wire(m)) => ZeroCopyDecode(buffer) = Short
           /\ Len(buffer) >= Len(Wire(m)) =>
                 ZeroCopyDecode(buffer) =
                    [ok |-> TRUE, message |-> m, rest |-> Without(Len(Wire(m)), buffer)]
<1> DEFINE payload == EncodePayload(m, m.body)
<1>1. /\ payload \in Seq(Byte) /\ Len(payload) = HeaderLen + Len(m.body)
      /\ DecodeInnerPayload(payload) = [ok |-> TRUE, message |-> m]
  BY PayloadOf DEF Sendable
<1>2. Wire(m) = MakeFrame(payload)
  BY DEF Wire
<1> HIDE DEF payload
<1>3. Len(payload) < Power(Base)[LengthBytes]
  BY <1>1 DEF Sendable
<1>4. Len(Wire(m)) = LengthBytes + Len(payload)
  BY <1>1, <1>2, <1>3, FrameOf
<1>5. Len(m.body) \in Nat
  BY DEF Sendable, Message
<1>6. ~(Len(payload) < HeaderLen)
  BY <1>1, <1>5, Lengths
<1>7. /\ Len(buffer) < Len(Wire(m)) => ZeroCopyDecode(buffer) = Short
      /\ Len(buffer) >= Len(Wire(m)) =>
            ZeroCopyDecode(buffer) =
               IF Len(payload) < HeaderLen THEN Short
               ELSE [ok |-> TRUE, message |-> DecodeInnerPayload(payload).message,
                     rest |-> Without(Len(Wire(m)), buffer)]
  BY <1>1, <1>2, <1>3, <1>4, DecodeFrame
<1>8. DecodeInnerPayload(payload).message = m
  BY <1>1
<1>9. QED
  BY <1>6, <1>7, <1>8

\* The frame of a message is bytes, and more than its length field.
LEMMA WireOf ==
    ASSUME NEW m \in Sendable
    PROVE  Wire(m) \in Seq(Byte) /\ Len(Wire(m)) \in Nat \ {0}
<1> DEFINE payload == EncodePayload(m, m.body)
<1>1. payload \in Seq(Byte) /\ Len(payload) = HeaderLen + Len(m.body)
  BY PayloadOf DEF Sendable
<1>2. Wire(m) = MakeFrame(payload)
  BY DEF Wire
<1> HIDE DEF payload
<1>3. Len(payload) < Power(Base)[LengthBytes]
  BY <1>1 DEF Sendable
<1>4. Wire(m) \in Seq(Byte) /\ Len(Wire(m)) = LengthBytes + Len(payload)
  BY <1>1, <1>2, <1>3, FrameOf
<1>5. Len(payload) \in Nat
  BY <1>1
<1>6. QED
  BY <1>4, <1>5, Lengths

\* A message is read back as it was sent, whatever follows its frame, and not
\* before the last byte of it is there.
THEOREM FramesRoundTrip ==
    ASSUME NEW m \in Sendable, NEW rest \in Seq(Byte)
    PROVE  /\ ZeroCopyDecode(Wire(m) \o rest) = [ok |-> TRUE, message |-> m, rest |-> rest]
           /\ \A n \in 0 .. Len(Wire(m)) - 1 : ZeroCopyDecode(SubSeq(Wire(m), 1, n)) = Short
<1> DEFINE w == Wire(m)
           l == Len(w)
<1>1. w \in Seq(Byte) /\ l \in Nat
  BY WireOf
<1>2. ZeroCopyDecode(w \o rest) = [ok |-> TRUE, message |-> m, rest |-> rest]
  <2> DEFINE buffer == w \o rest
  <2>1. /\ buffer \in Seq(Byte) /\ Len(rest) \in Nat /\ Len(buffer) = l + Len(rest)
        /\ \A i \in 1 .. l : buffer[i] = w[i]
    <3> HIDE DEF w
    <3>1. QED
      BY <1>1, Joined
  <2>2. Without(l, buffer) = rest
    <3> HIDE DEF w
    <3>1. QED
      BY <1>1, Parted DEF Without
  <2> HIDE DEF buffer
  <2>3. Len(buffer) >= Len(Wire(m))
    BY <1>1, <2>1
  <2>4. \A i \in 1 .. Len(buffer) : i <= Len(Wire(m)) => buffer[i] = Wire(m)[i]
    BY <1>1, <2>1
  <2>5. ZeroCopyDecode(buffer) =
            [ok |-> TRUE, message |-> m, rest |-> Without(Len(Wire(m)), buffer)]
    BY <2>1, <2>3, <2>4, DecodeWire
  <2>6. QED
    BY <2>2, <2>5 DEF buffer
<1>3. ASSUME NEW n \in 0 .. l - 1 PROVE ZeroCopyDecode(SubSeq(w, 1, n)) = Short
  <2> DEFINE buffer == SubSeq(w, 1, n)
  <2>1. n \in Nat /\ n < l /\ n <= l
    BY <1>1, <1>3
  <2>2. /\ buffer \in Seq(Byte) /\ Len(buffer) = n
        /\ \A i \in 1 .. n : buffer[i] = w[i]
    <3> HIDE DEF w
    <3>1. /\ SubSeq(w, 1, n) \in Seq(Byte)
          /\ Len(SubSeq(w, 1, n)) = IF 1 <= n THEN n - 1 + 1 ELSE 0
          /\ \A i \in 1 .. n - 1 + 1 : SubSeq(w, 1, n)[i] = w[1 + i - 1]
      BY <1>1, <2>1, Part
    <3>2. QED
      BY <2>1, <3>1
  <2> HIDE DEF buffer
  <2>3. \A i \in 1 .. Len(buffer) : i <= Len(Wire(m)) => buffer[i] = Wire(m)[i]
    BY <2>2
  <2>4. ZeroCopyDecode(buffer) = Short
    BY <2>1, <2>2, <2>3, DecodeWire
  <2>5. QED
    BY <2>4 DEF buffer
<1>4. QED
  BY <1>2, <1>3

\* Whatever bytes are in the buffer, the reader of the event loop and the one of
\* common/rpc_conn.go agree, except about a frame without room for a header: the
\* first waits for more of it, the second takes it off and finds no message.
THEOREM ReadersAgree ==
    ASSUME NEW buffer \in Seq(Byte), NEW z, NEW r,
           z = ZeroCopyDecode(buffer), r = ReadFrameFromGnet(buffer)
    PROVE  IF z.ok
           THEN /\ r.ok /\ r.rest = z.rest
                /\ DecodeInnerPayload(r.payload) = [ok |-> TRUE, message |-> z.message]
           ELSE r.ok => DecodeInnerPayload(r.payload) = Short
<1> DEFINE n == Uint(Base, First(LengthBytes, buffer))
           payload == First(n, Without(LengthBytes, buffer))
<1>1. LengthBytes \in Nat /\ HeaderLen \in Nat /\ Len(buffer) \in Nat /\ Base \in Bases
  BY Lengths, FramesAssumption DEF Bases
<1>2. CASE Len(buffer) < LengthBytes
  <2>1. z = Short /\ r = Short
    BY <1>2 DEF ZeroCopyDecode, ReadFrameFromGnet
  <2>2. QED
    BY <2>1 DEF Short
<1>3. CASE ~(Len(buffer) < LengthBytes)
  <2>1. n \in Nat
    <3>1. First(LengthBytes, buffer) \in Seq(Byte)
      <4>1. 1 \in Nat \ {0} /\ LengthBytes <= Len(buffer)
        BY <1>1, <1>3
      <4>2. QED
        BY <1>1, <4>1, Part DEF First
    <3>2. QED
      BY <1>1, <3>1, UintRange DEF Byte
  <2>2. ASSUME ~(Len(buffer) < LengthBytes + n) PROVE Len(payload) = n
    <3>1. /\ Without(LengthBytes, buffer) \in Seq(Byte)
          /\ Len(Without(LengthBytes, buffer)) = Len(buffer) - LengthBytes
      BY <1>1, <1>3, Remainder
    <3> HIDE DEF n
    <3>2. n <= Len(Without(LengthBytes, buffer)) /\ (1 <= n => n - 1 + 1 = n)
      BY <1>1, <2>1, <2>2, <3>1
    <3>3. Len(SubSeq(Without(LengthBytes, buffer), 1, n)) = IF 1 <= n THEN n - 1 + 1 ELSE 0
      BY <2>1, <3>1, <3>2, Part
    <3>4. QED
      BY <2>1, <3>2, <3>3 DEF First
  <2>3. CASE Len(buffer) < LengthBytes + n
    <3>1. z = Short /\ r = Short
      BY <1>3, <2>3 DEF ZeroCopyDecode, ReadFrameFromGnet
    <3>2. QED
      BY <3>1 DEF Short
  <2>4. CASE ~(Len(buffer) < LengthBytes + n)
    <3>1. r = [ok |-> TRUE, payload |-> payload, rest |-> Without(LengthBytes + n, buffer)]
      BY <1>3, <2>4 DEF ReadFrameFromGnet
    <3>2. z = IF n < HeaderLen THEN Short
              ELSE [ok |-> TRUE, message |-> DecodeInnerPayload(payload).message,
                    rest |-> Without(LengthBytes + n, buffer)]
      BY <1>3, <2>4 DEF ZeroCopyDecode
    <3>3. Len(payload) = n
      BY <2>2, <2>4
    <3> HIDE DEF n, payload
    <3>4. CASE n < HeaderLen
      <4>1. DecodeInnerPayload(payload) = Short
        BY <3>3, <3>4 DEF DecodeInnerPayload
      <4>2. QED
        BY <3>1, <3>2, <3>4, <4>1 DEF Short
    <3>5. CASE ~(n < HeaderLen)
      <4>1. DecodeInnerPayload(payload) =
               [ok |-> TRUE, message |-> DecodeInnerPayload(payload).message]
        BY <3>3, <3>5 DEF DecodeInnerPayload
      <4>2. QED
        BY <3>1, <3>2, <3>5, <4>1
    <3>6. QED
      BY <3>4, <3>5
  <2>5. QED
    BY <2>3, <2>4
<1>4. QED
  BY <1>2, <1>3

-----------------------------------------------------------------------------
(* The stream                                                              *)

\* The frames lie one behind the other and end with the stream.
FramesInv ==
    /\ \A i \in 1 .. Len(frames) : FrameEnd(i) <= Len(stream)
    /\ \A i, j \in 1 .. Len(frames) : i < j => FrameEnd(i) <= frames[j].start
    /\ \A i \in 1 .. Len(frames) :
          IF i = Len(frames) THEN FrameEnd(i) = Len(stream)
          ELSE frames[i + 1].start = FrameEnd(i)

\* Where a frame lies the stream has the bytes of its message.
StreamInv ==
    \A i \in 1 .. Len(frames) : \A k \in 1 .. Len(Wire(frames[i].message)) :
        stream[frames[i].start + k] = Wire(frames[i].message)[k]

\* The messages are delivered from the first on without a gap.
OrderInv ==
    /\ Len(delivered) <= Len(frames)
    /\ \A k \in 1 .. Len(delivered) : delivered[k] = frames[k].message

IInv == TypeOK /\ FramesInv /\ StreamInv /\ OrderInv /\ Aligned /\ NothingLeftBehind

LEMMA InitInv == Init => IInv
<1> SUFFICES ASSUME Init PROVE IInv
  OBVIOUS
<1>1. /\ frames = <<>> /\ delivered = <<>> /\ stream = <<>>
      /\ Len(frames) = 0 /\ Len(delivered) = 0 /\ Len(stream) = 0
      /\ frames \in Seq(Frame) /\ delivered \in Seq(Message) /\ stream \in Seq(Byte)
  BY DEF Init
<1>2. TypeOK
  <2>1. arrived \in 0 .. Len(stream) /\ consumed \in 0 .. arrived
    BY <1>1 DEF Init
  <2>2. Len(frames) <= MaxFrames
    BY <1>1, FrameStreamAssumption
  <2>3. busy \in BOOLEAN /\ open \in BOOLEAN
    BY DEF Init
  <2>4. QED
    BY <1>1, <2>1, <2>2, <2>3 DEF TypeOK
<1>3. FramesInv /\ StreamInv /\ OrderInv /\ Aligned /\ NothingLeftBehind
  BY <1>1 DEF Init, FramesInv, StreamInv, OrderInv, Aligned, NothingLeftBehind
<1>4. QED
  BY <1>2, <1>3 DEF IInv

LEMMA MessagesFit == Messages \subseteq Sendable
BY FrameStreamAssumption DEF Sendable

\* A frame ends behind its start.
LEMMA FrameTypes ==
    ASSUME TypeOK, NEW i \in 1 .. Len(frames)
    PROVE  /\ frames[i].message \in Sendable /\ frames[i].message \in Message
           /\ Wire(frames[i].message) \in Seq(Byte)
           /\ frames[i].start \in Nat /\ FrameEnd(i) \in Nat
           /\ Len(Wire(frames[i].message)) \in Nat
           /\ FrameEnd(i) = frames[i].start + Len(Wire(frames[i].message))
           /\ frames[i].start < FrameEnd(i)
<1>1. frames[i] \in Frame
  BY DEF TypeOK
<1>2. frames[i].start \in Nat /\ frames[i].message \in Sendable
  BY <1>1, MessagesFit DEF Frame
<1> DEFINE w == Wire(frames[i].message)
<1>3. w \in Seq(Byte) /\ Len(w) \in Nat \ {0}
  BY <1>2, WireOf
<1>4. FrameEnd(i) = frames[i].start + Len(w)
  BY DEF FrameEnd
<1> HIDE DEF w
<1>5. FrameEnd(i) \in Nat /\ frames[i].start < FrameEnd(i)
  BY <1>2, <1>3, <1>4
<1>6. QED
  BY <1>2, <1>3, <1>4, <1>5 DEF w, Sendable

-----------------------------------------------------------------------------
(* The sender                                                              *)

\* A new frame is put behind the others.
LEMMA SendInv ==
    ASSUME IInv, NEW m \in Messages, Send(m)
    PROVE  IInv'
<1> DEFINE w == Wire(m)
           l == Len(stream)
           f == [start |-> l, message |-> m]
<1> USE DEF IInv
<1>1. /\ f \in Frame /\ f.start = l /\ f.message = m
      /\ stream \in Seq(Byte) /\ l \in Nat
      /\ frames \in Seq(Frame) /\ frames' = Append(frames, f) /\ stream' = stream \o w
  BY DEF Send, TypeOK, Frame
<1>2. w \in Seq(Byte) /\ Len(w) \in Nat /\ Len(w) > 0
  BY MessagesFit, WireOf
<1> HIDE DEF w
<1>3. /\ stream' \in Seq(Byte) /\ Len(stream') = l + Len(w)
      /\ \A k \in 1 .. l : stream'[k] = stream[k]
      /\ \A k \in 1 .. Len(w) : stream'[l + k] = w[k]
  BY <1>1, <1>2, Joined
<1>4. /\ frames' \in Seq(Frame) /\ Len(frames') = Len(frames) + 1 /\ Len(frames) \in Nat
      /\ \A i \in 1 .. Len(frames) : frames'[i] = frames[i]
      /\ frames'[Len(frames) + 1] = f
  <2> HIDE DEF f
  <2>1. QED
    BY <1>1
<1> HIDE DEF f, l
<1>5. /\ Len(stream') \in Nat /\ l <= Len(stream') /\ l < Len(stream') /\ l \in Nat
      /\ l = Len(stream)
  BY <1>1, <1>2, <1>3 DEF l
<1>6. \A i \in 1 .. Len(frames') : i = Len(frames') \/ i \in 1 .. Len(frames)
  BY <1>4
<1>7. \A i \in 1 .. Len(frames) : FrameEnd(i)' = FrameEnd(i)
  BY <1>4 DEF FrameEnd
<1>8. \A i \in 1 .. Len(frames') :
          i = Len(frames') => /\ FrameEnd(i)' = Len(stream') /\ frames'[i].start = l
                              /\ frames'[i].message = m
  BY <1>1, <1>3, <1>4 DEF FrameEnd, w
<1>9. TypeOK'
  <2>1. Len(frames') <= MaxFrames
    <3>1. Len(frames) < MaxFrames
      BY DEF Send
    <3>2. QED
      BY <1>4, <3>1, FrameStreamAssumption
  <2>2. arrived' \in 0 .. Len(stream') /\ consumed' \in 0 .. arrived'
    BY <1>5 DEF TypeOK, Send
  <2>3. QED
    BY <1>3, <1>4, <2>1, <2>2 DEF TypeOK, Send
<1>10. FramesInv'
  <2>1. \A i \in 1 .. Len(frames') : FrameEnd(i)' <= Len(stream')
    <3> TAKE i \in 1 .. Len(frames')
    <3>1. CASE i = Len(frames')
      BY <1>5, <1>8, <3>1
    <3>2. CASE i \in 1 .. Len(frames)
      <4>1. FrameEnd(i) <= l /\ FrameEnd(i) \in Nat
        BY <1>5, <3>2, FrameTypes DEF FramesInv
      <4>2. QED
        BY <1>5, <1>7, <3>2, <4>1
    <3>3. QED
      BY <1>6, <3>1, <3>2
  <2>2. \A i, j \in 1 .. Len(frames') : i < j => FrameEnd(i)' <= frames'[j].start
    <3> SUFFICES ASSUME NEW i \in 1 .. Len(frames'), NEW j \in 1 .. Len(frames'), i < j
                 PROVE  FrameEnd(i)' <= frames'[j].start
      OBVIOUS
    <3>1. i \in 1 .. Len(frames)
      BY <1>4
    <3>2. FrameEnd(i)' = FrameEnd(i)
      BY <1>7, <3>1
    <3>3. CASE j = Len(frames')
      <4>1. FrameEnd(i) <= l
        BY <1>5, <3>1 DEF FramesInv
      <4>2. QED
        BY <1>8, <3>2, <3>3, <4>1
    <3>4. CASE j \in 1 .. Len(frames)
      <4>1. frames'[j] = frames[j]
        BY <1>4, <3>4
      <4>2. FrameEnd(i) <= frames[j].start
        BY <3>1, <3>4 DEF FramesInv
      <4>3. QED
        BY <3>2, <4>1, <4>2
    <3>5. QED
      BY <1>6, <3>3, <3>4
  <2>3. \A i \in 1 .. Len(frames') :
            IF i = Len(frames') THEN FrameEnd(i)' = Len(stream')
            ELSE frames'[i + 1].start = FrameEnd(i)'
    <3> TAKE i \in 1 .. Len(frames')
    <3>1. CASE i = Len(frames')
      BY <1>8, <3>1
    <3>2. CASE i = Len(frames)
      <4>1. i \in 1 .. Len(frames) /\ i # Len(frames') /\ i + 1 = Len(frames')
            /\ i + 1 \in 1 .. Len(frames')
        BY <1>4, <3>2
      <4>2. FrameEnd(i)' = l
        BY <1>5, <1>7, <3>2, <4>1 DEF FramesInv
      <4>3. frames'[i + 1].start = l
        BY <1>8, <4>1
      <4>4. QED
        BY <4>1, <4>2, <4>3
    <3>3. CASE i # Len(frames) /\ i # Len(frames')
      <4>1. i \in 1 .. Len(frames) /\ i + 1 \in 1 .. Len(frames)
        BY <1>4, <3>3
      <4>2. frames'[i + 1] = frames[i + 1] /\ FrameEnd(i)' = FrameEnd(i)
        BY <1>4, <1>7, <4>1
      <4>3. frames[i + 1].start = FrameEnd(i)
        BY <3>3, <4>1 DEF FramesInv
      <4>4. QED
        BY <3>3, <4>2, <4>3
    <3>4. QED
      BY <3>1, <3>2, <3>3
  <2>4. QED
    BY <2>1, <2>2, <2>3 DEF FramesInv, FrameEnd
<1>11. StreamInv'
  <2> SUFFICES ASSUME NEW i \in 1 .. Len(frames'),
                      NEW k \in 1 .. Len(Wire(frames'[i].message))
               PROVE  stream'[frames'[i].start + k] = Wire(frames'[i].message)[k]
    BY DEF StreamInv, Wire, MakeFrame, EncodePayload, HeaderLen
  <2>1. CASE i = Len(frames')
    BY <1>3, <1>8, <2>1 DEF w
  <2>2. CASE i \in 1 .. Len(frames)
    <3>1. frames'[i] = frames[i]
      BY <1>4, <2>2
    <3>2. /\ frames[i].start \in Nat /\ Len(Wire(frames[i].message)) \in Nat
          /\ FrameEnd(i) = frames[i].start + Len(Wire(frames[i].message))
          /\ FrameEnd(i) <= l
      BY <1>5, <2>2, FrameTypes DEF FramesInv
    <3>3. k \in 1 .. Len(Wire(frames[i].message))
      BY <3>1
    <3>4. frames[i].start + k \in 1 .. l
      BY <1>5, <3>2, <3>3
    <3>5. stream[frames[i].start + k] = Wire(frames[i].message)[k]
      BY <2>2, <3>3 DEF StreamInv
    <3>6. QED
      BY <1>3, <3>1, <3>4, <3>5
  <2>3. QED
    BY <1>6, <2>1, <2>2
<1>12. OrderInv' /\ Aligned'
  <2>1. UNCHANGED <<delivered, consumed>> /\ Len(delivered) \in Nat
    BY DEF Send, TypeOK
  <2>2. OrderInv'
    <3>1. Len(delivered) <= Len(frames)
          /\ \A k \in 1 .. Len(delivered) : delivered[k] = frames[k].message
      BY DEF OrderInv
    <3>2. \A k \in 1 .. Len(delivered) : frames'[k] = frames[k]
      BY <1>4, <2>1, <3>1
    <3>3. QED
      BY <1>4, <2>1, <3>1, <3>2 DEF OrderInv
  <2>3. Aligned'
    <3>1. CASE Len(delivered) = Len(frames)
      <4>1. /\ Len(delivered') + 1 = Len(frames') /\ Len(delivered') # Len(frames')
            /\ Len(frames') \in 1 .. Len(frames')
        BY <1>4, <2>1, <3>1
      <4>2. consumed = l
        BY <1>5, <3>1 DEF Aligned
      <4>3. frames'[Len(frames')].start = l
        BY <1>8, <4>1
      <4>4. QED
        BY <2>1, <4>1, <4>2, <4>3 DEF Aligned
    <3>2. CASE Len(delivered) # Len(frames)
      <4>1. Len(delivered) + 1 \in 1 .. Len(frames) /\ Len(delivered) # Len(frames')
        BY <1>4, <2>1, <3>2 DEF OrderInv
      <4>2. QED
        BY <1>4, <2>1, <3>2, <4>1 DEF Aligned
    <3>3. QED
      BY <3>1, <3>2
  <2>4. QED
    BY <2>2, <2>3
<1>13. NothingLeftBehind'
  <2>1. arrived \in Nat /\ arrived <= l /\ UNCHANGED <<arrived, delivered, busy, open>>
    BY <1>5 DEF TypeOK, Send
  <2>2. \A i \in 1 .. Len(frames') : i = Len(frames') => arrived < FrameEnd(i)'
    BY <1>5, <1>8, <2>1
  <2>3. QED
    BY <1>6, <1>7, <2>1, <2>2 DEF NothingLeftBehind
<1>14. QED
  BY <1>9, <1>10, <1>11, <1>12, <1>13 DEF IInv

-----------------------------------------------------------------------------
(* The receiver                                                            *)

\* It leaves the frames where they are.
LEMMA FramesStay ==
    ASSUME IInv, UNCHANGED <<frames, stream>>
    PROVE  FramesInv' /\ StreamInv'
<1>1. FramesInv'
  BY DEF IInv, FramesInv, FrameEnd
<1>2. StreamInv'
  BY DEF IInv, StreamInv
<1>3. QED
  BY <1>1, <1>2

\* The buffer has the bytes between the two cursors.
LEMMA InboundBytes ==
    ASSUME TypeOK
    PROVE  /\ arrived \in Nat /\ consumed \in Nat /\ consumed <= arrived
           /\ arrived <= Len(stream) /\ Len(stream) \in Nat
           /\ Inbound \in Seq(Byte) /\ Len(Inbound) = arrived - consumed
           /\ \A k \in 1 .. arrived - consumed : Inbound[k] = stream[consumed + k]
<1>1. /\ stream \in Seq(Byte) /\ Len(stream) \in Nat /\ arrived \in Nat /\ consumed \in Nat
      /\ consumed <= arrived /\ arrived <= Len(stream)
  BY DEF TypeOK
<1> DEFINE first == consumed + 1
<1>2. /\ first \in Nat \ {0} /\ arrived - first + 1 = arrived - consumed
      /\ (IF first <= arrived THEN arrived - first + 1 ELSE 0) = arrived - consumed
      /\ \A k \in 1 .. arrived - consumed : first + k - 1 = consumed + k
  BY <1>1
<1>3. Inbound = SubSeq(stream, first, arrived)
  BY DEF Inbound
<1> HIDE DEF first
<1>4. /\ SubSeq(stream, first, arrived) \in Seq(Byte)
      /\ Len(SubSeq(stream, first, arrived)) =
            IF first <= arrived THEN arrived - first + 1 ELSE 0
      /\ \A k \in 1 .. arrived - first + 1 :
            SubSeq(stream, first, arrived)[k] = stream[first + k - 1]
  BY <1>1, <1>2, Part
<1>5. QED
  BY <1>1, <1>2, <1>3, <1>4

\* When every frame is delivered the decoder finds none.
LEMMA NoneDecoded ==
    ASSUME IInv, Len(delivered) = Len(frames)
    PROVE  ~Decoded.ok
<1>1. consumed = Len(stream)
  BY DEF IInv, Aligned
<1>2. Len(Inbound) = 0
  BY <1>1, InboundBytes DEF IInv
<1>3. Len(Inbound) < LengthBytes
  BY <1>2, Lengths
<1>4. Decoded = Short
  BY <1>3 DEF Decoded, ZeroCopyDecode
<1>5. QED
  BY <1>4 DEF Short

\* Otherwise what it finds is the next message, which it finds exactly when all
\* of its frame has arrived.
LEMMA NextDecoded ==
    ASSUME IInv, NEW n \in 1 .. Len(frames), n = Len(delivered) + 1
    PROVE  /\ arrived < FrameEnd(n) => ~Decoded.ok
           /\ arrived >= FrameEnd(n) => /\ Decoded.ok /\ Decoded.message = frames[n].message
                                        /\ arrived - Len(Decoded.rest) = FrameEnd(n)
<1> DEFINE m == frames[n].message
           l == Len(Wire(m))
<1>1. /\ m \in Sendable /\ l \in Nat /\ Wire(m) \in Seq(Byte) /\ frames[n].start \in Nat
      /\ FrameEnd(n) = frames[n].start + l /\ FrameEnd(n) \in Nat
  BY FrameTypes DEF IInv
<1>2. frames[n].start = consumed
  <2>1. Len(delivered) # Len(frames)
    BY DEF IInv, TypeOK
  <2>2. QED
    BY <2>1 DEF IInv, Aligned
<1>3. /\ arrived \in Nat /\ consumed \in Nat /\ consumed <= arrived
      /\ Inbound \in Seq(Byte) /\ Len(Inbound) = arrived - consumed
      /\ \A k \in 1 .. arrived - consumed : Inbound[k] = stream[consumed + k]
  BY InboundBytes DEF IInv
<1>4. \A k \in 1 .. l : stream[consumed + k] = Wire(m)[k]
  BY <1>2 DEF IInv, StreamInv
<1> HIDE DEF m, l
<1>5. \A k \in 1 .. Len(Inbound) : k <= l => Inbound[k] = Wire(m)[k]
  BY <1>1, <1>3, <1>4
<1> USE DEF l
<1>6. /\ Len(Inbound) < l => ZeroCopyDecode(Inbound) = Short
      /\ Len(Inbound) >= l => ZeroCopyDecode(Inbound) =
                                 [ok |-> TRUE, message |-> m, rest |-> Without(l, Inbound)]
  BY <1>1, <1>3, <1>5, DecodeWire
<1>7. CASE arrived < FrameEnd(n)
  <2>1. Len(Inbound) < l /\ ~(arrived >= FrameEnd(n))
    BY <1>1, <1>2, <1>3, <1>7
  <2>2. QED
    BY <1>6, <2>1 DEF Short, Decoded
<1>8. CASE arrived >= FrameEnd(n)
  <2>1. Len(Inbound) >= l /\ ~(arrived < FrameEnd(n)) /\ l <= Len(Inbound)
    BY <1>1, <1>2, <1>3, <1>8
  <2>2. Len(Without(l, Inbound)) = Len(Inbound) - l
    BY <1>1, <1>3, <2>1, Remainder
  <2>3. Decoded.ok /\ Decoded.message = m /\ Decoded.rest = Without(l, Inbound)
    BY <1>6, <2>1 DEF Decoded
  <2>4. arrived - (Len(Inbound) - l) = FrameEnd(n)
    BY <1>1, <1>2, <1>3
  <2>5. arrived - Len(Decoded.rest) = FrameEnd(n)
    BY <2>2, <2>3, <2>4
  <2>6. QED
    BY <2>1, <2>3, <2>5 DEF m
<1>9. QED
  BY <1>1, <1>3, <1>7, <1>8

\* So what is decoded was sent and is delivered in its turn.
LEMMA DecodedIsNext ==
    ASSUME IInv, Decoded.ok
    PROVE  \E n \in 1 .. Len(frames) :
              /\ n = Len(delivered) + 1 /\ FrameEnd(n) <= arrived
              /\ Decoded.message = frames[n].message
              /\ arrived - Len(Decoded.rest) = FrameEnd(n)
<1> DEFINE n == Len(delivered) + 1
<1>1. Len(delivered) # Len(frames)
  BY NoneDecoded
<1>2. n \in 1 .. Len(frames)
  BY <1>1 DEF IInv, OrderInv, TypeOK
<1>3. n = Len(delivered) + 1
  OBVIOUS
<1> HIDE DEF n
<1>4. FrameEnd(n) \in Nat /\ arrived \in Nat
  BY <1>2, FrameTypes, InboundBytes DEF IInv
<1>5. ~(arrived < FrameEnd(n))
  BY <1>2, <1>3, NextDecoded
<1>6. arrived >= FrameEnd(n) /\ FrameEnd(n) <= arrived
  BY <1>4, <1>5
<1>7. /\ Decoded.message = frames[n].message
      /\ arrived - Len(Decoded.rest) = FrameEnd(n)
  BY <1>2, <1>3, <1>6, NextDecoded
<1>8. QED
  BY <1>2, <1>3, <1>6, <1>7

\* Taking the next frame off leaves the decoder at the start of the one after.
LEMMA DecodeInv ==
    ASSUME IInv, Decoded.ok, TakeOff,
           busy' \in BOOLEAN, open' \in BOOLEAN, busy' \/ ~open'
    PROVE  IInv'
<1> USE DEF IInv
<1>1. PICK n \in 1 .. Len(frames) :
          /\ n = Len(delivered) + 1 /\ FrameEnd(n) <= arrived
          /\ Decoded.message = frames[n].message
          /\ arrived - Len(Decoded.rest) = FrameEnd(n)
  BY DecodedIsNext
<1> DEFINE m == frames[n].message
<1>2. /\ delivered' = Append(delivered, m) /\ consumed' = FrameEnd(n)
      /\ UNCHANGED <<frames, stream, arrived>>
  BY <1>1 DEF TakeOff
<1>3. /\ m \in Message /\ FrameEnd(n) \in Nat /\ delivered \in Seq(Message)
      /\ arrived \in Nat
  BY FrameTypes, InboundBytes DEF TypeOK
<1> HIDE DEF m
<1>4. /\ delivered' \in Seq(Message) /\ Len(delivered') = n
      /\ \A k \in 1 .. Len(delivered) : delivered'[k] = delivered[k]
      /\ delivered'[n] = m
  BY <1>1, <1>2, <1>3
<1>5. TypeOK'
  <2>1. consumed' \in 0 .. arrived'
    BY <1>1, <1>2, <1>3
  <2>2. frames' \in Seq(Frame) /\ Len(frames') <= MaxFrames /\ stream' \in Seq(Byte)
        /\ arrived' \in 0 .. Len(stream')
    BY <1>2 DEF TypeOK
  <2>3. QED
    BY <1>4, <2>1, <2>2 DEF TypeOK
<1>6. FramesInv' /\ StreamInv'
  BY <1>2, FramesStay
<1>7. OrderInv'
  <2>1. Len(delivered) \in Nat /\ Len(delivered') <= Len(frames')
    BY <1>2, <1>3, <1>4
  <2>2. \A k \in 1 .. Len(delivered') : delivered'[k] = frames'[k].message
    <3> TAKE k \in 1 .. Len(delivered')
    <3>1. CASE k = n
      BY <1>2, <1>4, <3>1 DEF m
    <3>2. CASE k # n
      <4>1. k \in 1 .. Len(delivered)
        BY <1>1, <1>4, <2>1, <3>2
      <4>2. QED
        BY <1>2, <1>4, <4>1 DEF OrderInv
    <3>3. QED
      BY <3>1, <3>2
  <2>3. QED
    BY <2>1, <2>2 DEF OrderInv
<1>8. Aligned'
  <2>1. CASE n = Len(frames)
    <3>1. FrameEnd(n) = Len(stream)
      BY <2>1 DEF FramesInv
    <3>2. QED
      BY <1>2, <1>4, <2>1, <3>1 DEF Aligned
  <2>2. CASE n # Len(frames)
    <3>1. frames[n + 1].start = FrameEnd(n)
      BY <2>2 DEF FramesInv
    <3>2. QED
      BY <1>2, <1>4, <2>2, <3>1 DEF Aligned
  <2>3. QED
    BY <2>1, <2>2
<1>9. NothingLeftBehind'
  BY DEF NothingLeftBehind
<1>10. QED
  BY <1>5, <1>6, <1>7, <1>8, <1>9

\* When no frame is whole, what has arrived ends before the next frame does, and
\* so before every later one does.
LEMMA WaitInv ==
    ASSUME IInv, WaitForMore
    PROVE  IInv'
<1> USE DEF IInv
<1>1. UNCHANGED <<frames, stream, arrived, consumed, delivered, open>> /\ busy' = FALSE
  BY DEF WaitForMore
<1>2. \A i \in 1 .. Len(frames) : i > Len(delivered) => arrived < FrameEnd(i)
  <2> SUFFICES ASSUME NEW i \in 1 .. Len(frames), i > Len(delivered)
               PROVE  arrived < FrameEnd(i)
    OBVIOUS
  <2> DEFINE n == Len(delivered) + 1
  <2>1. n \in 1 .. Len(frames) /\ n <= i /\ n = Len(delivered) + 1
    BY DEF OrderInv, TypeOK
  <2> HIDE DEF n
  <2>2. /\ FrameEnd(n) \in Nat /\ FrameEnd(i) \in Nat /\ frames[i].start \in Nat
        /\ frames[i].start < FrameEnd(i) /\ arrived \in Nat
    BY <2>1, FrameTypes, InboundBytes
  <2>3. arrived < FrameEnd(n)
    <3>1. ~(arrived >= FrameEnd(n))
      BY <2>1, NextDecoded DEF WaitForMore
    <3>2. QED
      BY <2>2, <3>1
  <2>4. CASE n = i
    BY <2>3, <2>4
  <2>5. CASE n < i
    <3>1. FrameEnd(n) <= frames[i].start
      BY <2>1, <2>5 DEF FramesInv
    <3>2. QED
      BY <2>2, <2>3, <3>1
  <2>6. QED
    BY <2>1, <2>4, <2>5
<1>3. TypeOK' /\ OrderInv' /\ Aligned'
  BY <1>1 DEF TypeOK, OrderInv, Aligned
<1>4. FramesInv' /\ StreamInv' /\ NothingLeftBehind'
  BY <1>1, <1>2, FramesStay DEF NothingLeftBehind, FrameEnd
<1>5. QED
  BY <1>3, <1>4

LEMMA NextInv == IInv /\ [Next]_vars => IInv'
<1> SUFFICES ASSUME IInv, [Next]_vars PROVE IInv'
  OBVIOUS
<1> USE DEF FrameEnd
<1>1. ASSUME NEW m \in Messages, Send(m) PROVE IInv'
  BY <1>1, SendInv
<1>2. ASSUME NEW n \in 1 .. Len(stream), Arrive(n) PROVE IInv'
  <2>1. /\ UNCHANGED <<frames, stream, consumed, delivered, open>> /\ busy' = TRUE
        /\ arrived' = arrived + n /\ arrived + n <= Len(stream)
    BY <1>2 DEF Arrive
  <2>2. arrived' \in 0 .. Len(stream) /\ consumed \in 0 .. arrived'
    <3>1. arrived \in Nat /\ consumed \in Nat /\ consumed <= arrived /\ Len(stream) \in Nat
      BY InboundBytes DEF IInv
    <3>2. QED
      BY <2>1, <3>1
  <2>3. TypeOK'
    BY <2>1, <2>2 DEF IInv, TypeOK
  <2>4. FramesInv' /\ StreamInv' /\ OrderInv' /\ Aligned'
    BY <2>1, FramesStay DEF IInv, OrderInv, Aligned
  <2>5. NothingLeftBehind'
    BY <2>1 DEF NothingLeftBehind
  <2>6. QED
    BY <2>3, <2>4, <2>5 DEF IInv
<1>3. CASE OnPacket \/ OnPacketFails
  <2>1. Decoded.ok /\ TakeOff /\ busy' \in BOOLEAN /\ open' \in BOOLEAN
    BY <1>3 DEF OnPacket, OnPacketFails, IInv, TypeOK
  <2>2. busy' \/ ~open'
    BY <1>3 DEF OnPacket, OnPacketFails
  <2>3. QED
    BY <2>1, <2>2, DecodeInv
<1>4. CASE WaitForMore
  BY <1>4, WaitInv
<1>5. CASE Break
  BY <1>5, FramesStay DEF Break, IInv, TypeOK, OrderInv, Aligned, NothingLeftBehind
<1>6. CASE UNCHANGED vars
  BY <1>6, FramesStay DEF vars, IInv, TypeOK, OrderInv, Aligned, NothingLeftBehind
<1>7. QED
  BY <1>1, <1>2, <1>3, <1>4, <1>5, <1>6 DEF Next, Read, OnTraffic

LEMMA Invariant == Spec => []IInv
BY InitInv, NextInv, PTL DEF Spec

\* The cursors stay in order and everything delivered is a message.
THEOREM TypeCorrect == Spec => []TypeOK
<1>1. IInv => TypeOK
  BY DEF IInv
<1>2. QED
  BY <1>1, Invariant, PTL

\* No length is read from the middle of a frame, however the stream is cut.
THEOREM StaysAligned == Spec => []Aligned
<1>1. IInv => Aligned
  BY DEF IInv
<1>2. QED
  BY <1>1, Invariant, PTL

\* No whole frame waits in the buffer for more bytes to come.
THEOREM NoFrameWaits == Spec => []NothingLeftBehind
<1>1. IInv => NothingLeftBehind
  BY DEF IInv
<1>2. QED
  BY <1>1, Invariant, PTL

-----------------------------------------------------------------------------
(* Refinement                                                              *)

\* Each message received is the next one sent, and keeps being so.
LEMMA ReceivedInOrder ==
    ASSUME IInv, [Next]_vars
    PROVE  /\ Len(delivered) \in Nat
           /\ Received = [k \in 1 .. Len(delivered) |-> k]
           /\ Received' = [k \in 1 .. Len(delivered') |-> k]
<1>1. /\ delivered \in Seq(Message) /\ Len(delivered) <= Len(frames) /\ Len(frames) \in Nat
      /\ \A k \in 1 .. Len(delivered) : delivered[k] = frames[k].message
  BY DEF IInv, TypeOK, OrderInv
<1>2. /\ delivered' \in Seq(Message) /\ Len(delivered') <= Len(frames')
      /\ Len(frames') \in Nat
      /\ \A k \in 1 .. Len(delivered') : delivered'[k] = frames'[k].message
  BY NextInv DEF IInv, TypeOK, OrderInv
<1>3. Received = [k \in 1 .. Len(delivered) |-> k]
  BY <1>1 DEF Received
<1>4. Received' = [k \in 1 .. Len(delivered') |-> k]
  BY <1>2 DEF Received
<1>5. QED
  BY <1>1, <1>3, <1>4

\* The stream of bytes is a FIFO channel of messages that loses and changes
\* nothing while the connection is open.
THEOREM Refinement == Spec => ImplementsChannel
<1> USE DEF Chan!ChannelNext, Chan!Transmit, Chan!Accept, Chan!Refuse, Chan!Close,
        Chan!channelVars
<1>1. Init => Chan!ChannelInit
  <2> SUFFICES ASSUME Init PROVE Chan!ChannelInit
    OBVIOUS
  <2>1. Received = <<>> /\ Len(frames) = 0 /\ open = TRUE
    BY DEF Init, Received
  <2>2. QED
    BY <2>1 DEF Chan!ChannelInit
<1>2. IInv /\ [Next]_vars => [Chan!ChannelNext]_Chan!channelVars
  <2> SUFFICES ASSUME IInv, [Next]_vars PROVE [Chan!ChannelNext]_Chan!channelVars
    OBVIOUS
  <2>1. /\ Len(delivered) \in Nat /\ Received = [k \in 1 .. Len(delivered) |-> k]
        /\ Received' = [k \in 1 .. Len(delivered') |-> k]
    BY ReceivedInOrder
  <2>2. Received \in Seq(Nat) /\ Len(Received) = Len(delivered)
    BY <2>1
  <2>3. ASSUME NEW m \in Messages, Send(m) PROVE Chan!Transmit
    <3> DEFINE f == [start |-> Len(stream), message |-> m]
    <3>1. frames' = Append(frames, f) /\ frames \in Seq(Frame)
      BY <2>3 DEF Send, IInv, TypeOK
    <3> HIDE DEF f
    <3>2. Len(frames') = Len(frames) + 1
      BY <3>1
    <3>3. open /\ UNCHANGED open /\ Received' = Received
      BY <2>1, <2>3 DEF Send
    <3>4. QED
      BY <3>2, <3>3
  <2>4. CASE OnPacket \/ OnPacketFails
    <3>1. Decoded.ok /\ TakeOff /\ open /\ (UNCHANGED open \/ open' = FALSE)
      BY <2>4 DEF OnPacket, OnPacketFails
    <3>2. Len(delivered) + 1 \in 1 .. Len(frames)
      BY <3>1, DecodedIsNext
    <3>3. Len(delivered) < Len(frames)
      BY <2>1, <3>2 DEF IInv, TypeOK
    <3>4. Len(delivered') = Len(delivered) + 1 /\ UNCHANGED frames
      BY <3>1 DEF TakeOff, IInv, TypeOK
    <3>5. Received' = Append(Received, Len(Received) + 1)
      BY <2>1, <2>2, <3>4
    <3>6. QED
      BY <2>2, <3>1, <3>3, <3>4, <3>5
  <2>5. CASE Break
    BY <2>1, <2>5 DEF Break
  <2>6. CASE Read \/ WaitForMore \/ UNCHANGED vars
    BY <2>1, <2>6 DEF Read, Arrive, WaitForMore, vars
  <2>7. QED
    BY <2>3, <2>4, <2>5, <2>6 DEF Next, OnTraffic
<1>3. QED
  BY <1>1, <1>2, Invariant, PTL DEF Spec, ImplementsChannel, Chan!ChannelSpec

=============================================================================
