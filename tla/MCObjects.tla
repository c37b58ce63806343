------------------------------ MODULE MCObjects ------------------------------
(* Instance of Objects for TLC: ints of two bits, from -2 to 1.              *)
EXTENDS Objects, TLC

CONSTANTS other, s1

\* 1, what is too short for an int, and an object of the first task.
one   == [type |-> "value", data |-> EncodeInt(1)]
short == [type |-> "value", data |-> <<1>>]
obj   == [type |-> "object", id |-> [task |-> 1, stamp |-> s1]]

\* 1 + 1, which overflows; failures; objects as the first, second or only argument.
SomeCalls ==
    {[func |-> AddTowInt, args |-> a] :
        a \in {<<one, one>>, <<one>>, <<one, short>>, <<obj, one>>, <<obj, obj>>}}
    \cup {[func |-> other, args |-> a] : a \in {<<>>, <<obj>>}}

\* DecodeInt is the inverse of EncodeInt, which wraps any other integer, and
\* does not look beyond the first digits.
ASSUME RoundTrip ==
    /\ \A v \in MinInt .. MaxInt : DecodeInt(EncodeInt(v)) = v
    /\ \A v, w \in MinInt .. MaxInt :
          \E k \in {-1, 0, 1} : DecodeInt(EncodeInt(v + w)) = v + w + k * Modulus
    /\ \A v \in MinInt .. MaxInt, b \in Byte : DecodeInt(EncodeInt(v) \o <<b>>) = v

\* An object's Type is never compared with the one it is read as: a bool read
\* from an int is whether its first digit is not 0.
ASSUME OtherTypes ==
    /\ \A b \in BOOLEAN : DecodeBool(EncodeBool(b)) = b /\ ~Decodable(EncodeBool(b))
    /\ \A v \in MinInt .. MaxInt : DecodeBool(EncodeInt(v)) <=> v < 0
    /\ \A bits \in 0 .. Modulus - 1 : DecodeFloat64(EncodeFloat64(bits)) = bits
    /\ \A v \in 0 .. MaxInt : DecodeFloat64(EncodeInt(v)) = v

\* Of all packets that any node reads one only is read as what it is not.
ASSUME OneWrongAssertion ==
    \A node \in DOMAIN Asserted : \A p \in Asserted[node] :
        IsNil(p[1], p[2]) <=> node = "gcs" /\ p[1] = "RayGetObjectLocation"

Symmetric == Permutations(Workers)
=============================================================================
