--------------------------------- MODULE Ints ---------------------------------
(***************************************************************************)
(* core/worker/codec_util.go: how a worker writes an int into an object and*)
(* reads it back, digit by digit in big-endian order.  The code has 8      *)
(* digits of base 256.  Then the other types that are not written as what  *)
(* they are (strings and bytes are copied).                                *)
(***************************************************************************)
EXTENDS Digits

CONSTANTS Base, IntBytes

ASSUME IntsAssumption == Base \in Nat \ {0} /\ IntBytes \in Nat \ {0}

Byte  == 0 .. Base - 1
Data  == Seq(Byte)                       \* []byte

Modulus == Power(Base)[IntBytes]
MaxInt  == Modulus \div 2 - 1
MinInt  == MaxInt + 1 - Modulus

\* uint64(v) is v modulo 2^64: also a sum that has overflowed is wrapped here.
EncodeInt(v) == PutUint(Base, v, IntBytes)

\* DecodeInt refuses what is too short, and does not look at what is beyond.
Decodable(data) == Len(data) >= IntBytes

Unsigned(data) == Uint(Base, SubSeq(data, 1, IntBytes))

DecodeInt(data) ==
    IF Unsigned(data) <= MaxInt THEN Unsigned(data) ELSE Unsigned(data) - Modulus

-----------------------------------------------------------------------------
\* A float64 stands for its bits: math.Float64bits takes nothing away.
EncodeFloat64(bits) == PutUint(Base, bits, IntBytes)
DecodeFloat64(data) == Unsigned(data)

EncodeBool(b) == IF b THEN <<1>> ELSE <<0>>
DecodeBool(data) == data[1] # 0

=============================================================================
