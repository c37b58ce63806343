-------------------------------- MODULE Digits --------------------------------
(***************************************************************************)
(* encoding/binary, big-endian, as codec/header.go, common/rpc_conn.go and *)
(* core/worker/codec_util.go use it: a number as digits of a base, the     *)
(* most significant first.                                                 *)
(***************************************************************************)
EXTENDS Integers, Sequences

\* Power(b)[k] is the k-th power of b.
Power(b) == LET p[k \in Nat] == IF k = 0 THEN 1 ELSE b * p[k - 1] IN p

\* v shifted right k times.
Shifted(b, v) == LET s[k \in Nat] == IF k = 0 THEN v ELSE s[k - 1] \div b IN s

\* PutUint16, PutUint32, PutUint64: a number keeps its last n digits.
PutUint(b, v, n) == [i \in 1 .. n |-> Shifted(b, v)[n - i] % b]

\* Uint16, Uint32, Uint64
Uint(b, bytes) ==
    LET upTo[i \in 0 .. Len(bytes)] ==
            IF i = 0 THEN 0 ELSE upTo[i - 1] * b + bytes[i]
    IN  upTo[Len(bytes)]

=============================================================================
