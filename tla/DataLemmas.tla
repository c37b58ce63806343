------------------------------ MODULE DataLemmas ------------------------------
(***************************************************************************)
(* Facts about data that the proofs of the components rest on: what Append *)
(* and Tail do to the members of a queue, and what Digits computes.        *)
(*                                                                         *)
(* Recursive functions are reached by induction over sets of numbers: a    *)
(* set of naturals with a member has a least one (WFMin of the library),   *)
(* so a set that has 0 and all successors of its members has every number. *)
(***************************************************************************)
EXTENDS Digits, Functions, SequenceTheorems, WellFoundedInduction, TLAPS

-----------------------------------------------------------------------------
(* Queues                                                                  *)

\* Append adds one member.
LEMMA AppendRange ==
    ASSUME NEW S, NEW s \in Seq(S), NEW e \in S
    PROVE  /\ Append(s, e) \in Seq(S)
           /\ Len(Append(s, e)) = Len(s) + 1
           /\ Range(Append(s, e)) = Range(s) \cup {e}
<1>1. /\ Append(s, e) \in Seq(S)
      /\ Len(Append(s, e)) = Len(s) + 1
      /\ \A i \in 1 .. Len(s) : Append(s, e)[i] = s[i]
      /\ Append(s, e)[Len(s) + 1] = e
  OBVIOUS
<1>2. Range(Append(s, e)) = {Append(s, e)[i] : i \in 1 .. Len(s) + 1}
  BY <1>1, RangeEquality
<1>3. Range(s) = {s[i] : i \in 1 .. Len(s)}
  BY RangeEquality
<1>4. QED
  BY <1>1, <1>2, <1>3

\* Removing the head leaves the other members.
LEMMA TailRange ==
    ASSUME NEW S, NEW s \in Seq(S), s # <<>>
    PROVE  /\ Head(s) \in S
           /\ Tail(s) \in Seq(S)
           /\ Len(Tail(s)) < Len(s)
           /\ Range(s) = {Head(s)} \cup Range(Tail(s))
<1>1. /\ Head(s) \in S /\ Head(s) = s[1] /\ Len(s) > 0
      /\ Tail(s) \in Seq(S)
      /\ Len(Tail(s)) = Len(s) - 1
      /\ \A i \in 1 .. Len(Tail(s)) : Tail(s)[i] = s[i + 1]
  BY HeadTailProperties
<1>2. Range(Tail(s)) = {Tail(s)[i] : i \in 1 .. Len(Tail(s))}
  BY <1>1, RangeEquality
<1>3. Range(s) = {s[i] : i \in 1 .. Len(s)}
  BY RangeEquality
<1>4. \A i \in 1 .. Len(s) : s[i] \in {Head(s)} \cup Range(Tail(s))
  <2> TAKE i \in 1 .. Len(s)
  <2>1. CASE i = 1
    BY <1>1, <2>1
  <2>2. CASE i # 1
    <3>1. i - 1 \in 1 .. Len(Tail(s)) /\ Tail(s)[i - 1] = s[i]
      BY <1>1, <2>2
    <3>2. QED
      BY <1>2, <3>1
  <2>3. QED
    BY <2>1, <2>2
<1>5. {Head(s)} \cup Range(Tail(s)) \subseteq Range(s)
  <2>1. \A i \in 1 .. Len(Tail(s)) : i + 1 \in 1 .. Len(s)
    BY <1>1
  <2>2. Head(s) \in Range(s)
    BY <1>1, <1>3
  <2>3. QED
    BY <1>1, <1>2, <1>3, <2>1, <2>2
<1>6. QED
  BY <1>1, <1>3, <1>4, <1>5

\* An empty queue has no member, and members of a queue have its type.
LEMMA SomeRange ==
    /\ Range(<<>>) = {}
    /\ \A S : \A s \in Seq(S) : Range(s) \subseteq S
BY RangeOfSeq DEF Range

\* A queue without repetitions stays one when it loses its head, which is then
\* no member any more, and when it gets a new member.
LEMMA TailOnce ==
    ASSUME NEW S, NEW s \in Seq(S), s # <<>>, IsInjective(s)
    PROVE  IsInjective(Tail(s)) /\ Head(s) \notin Range(Tail(s))
<1>1. /\ Head(s) = s[1] /\ Len(s) \in Nat /\ Len(s) > 0
      /\ DOMAIN s = 1 .. Len(s) /\ DOMAIN Tail(s) = 1 .. Len(s) - 1
      /\ \A i \in 1 .. Len(s) - 1 : Tail(s)[i] = s[i + 1]
  BY HeadTailProperties
<1>2. \A i \in 1 .. Len(s) - 1 : i + 1 \in 1 .. Len(s) /\ i + 1 # 1
  BY <1>1
<1>3. \A i, j \in 1 .. Len(s) : s[i] = s[j] => i = j
  BY <1>1 DEF IsInjective
<1>4. IsInjective(Tail(s))
  <2> SUFFICES ASSUME NEW i \in 1 .. Len(s) - 1, NEW j \in 1 .. Len(s) - 1,
                      Tail(s)[i] = Tail(s)[j]
               PROVE  i = j
    BY <1>1 DEF IsInjective
  <2>1. i + 1 = j + 1
    BY <1>1, <1>2, <1>3
  <2>2. QED
    BY <1>1, <2>1
<1>5. Head(s) \notin Range(Tail(s))
  BY <1>1, <1>2, <1>3 DEF Range
<1>6. QED
  BY <1>4, <1>5

LEMMA AppendOnce ==
    ASSUME NEW S, NEW s \in Seq(S), NEW e \in S, IsInjective(s), e \notin Range(s)
    PROVE  IsInjective(Append(s, e))
<1>1. /\ Len(s) \in Nat /\ DOMAIN s = 1 .. Len(s)
      /\ DOMAIN Append(s, e) = 1 .. Len(s) + 1
      /\ \A i \in 1 .. Len(s) : Append(s, e)[i] = s[i]
      /\ Append(s, e)[Len(s) + 1] = e
  OBVIOUS
<1>2. \A i \in 1 .. Len(s) : s[i] # e
  BY <1>1 DEF Range
<1>3. \A i, j \in 1 .. Len(s) : s[i] = s[j] => i = j
  BY <1>1 DEF IsInjective
<1>4. QED
  BY <1>1, <1>2, <1>3 DEF IsInjective

-----------------------------------------------------------------------------
(* Parts of sequences                                                      *)

\* A part of a sequence.
LEMMA Part ==
    ASSUME NEW S, NEW s \in Seq(S), NEW m \in Nat \ {0}, NEW n \in Nat, n <= Len(s)
    PROVE  /\ SubSeq(s, m, n) \in Seq(S)
           /\ Len(SubSeq(s, m, n)) = IF m <= n THEN n - m + 1 ELSE 0
           /\ \A i \in 1 .. n - m + 1 : SubSeq(s, m, n)[i] = s[m + i - 1]
<1>1. \A i \in m .. n : s[i] \in S
  OBVIOUS
<1>2. m \in Int /\ n \in Int
  OBVIOUS
<1>3. QED
  BY <1>1, <1>2, SubSeqProperties

\* Two sequences put together.
LEMMA Joined ==
    ASSUME NEW S, NEW s \in Seq(S), NEW t \in Seq(S), NEW n, n = Len(s)
    PROVE  /\ s \o t \in Seq(S) /\ n \in Nat /\ Len(t) \in Nat /\ Len(s \o t) = n + Len(t)
           /\ \A i \in 1 .. n : (s \o t)[i] = s[i]
           /\ \A i \in 1 .. Len(t) : (s \o t)[n + i] = t[i]
BY ConcatProperties

\* What two sequences were put together from is found again.
LEMMA Parted ==
    ASSUME NEW S, NEW s \in Seq(S), NEW t \in Seq(S), NEW n, n = Len(s)
    PROVE  SubSeq(s \o t, 1, n) = s /\ SubSeq(s \o t, n + 1, Len(s \o t)) = t
<1> DEFINE u == s \o t
<1>1. /\ n \in Nat /\ Len(t) \in Nat /\ u \in Seq(S) /\ Len(u) = n + Len(t)
      /\ \A i \in 1 .. n : u[i] = s[i]
      /\ \A i \in 1 .. Len(t) : u[n + i] = t[i]
  BY Joined
<1> HIDE DEF u
<1>2. /\ SubSeq(u, 1, n) \in Seq(S) /\ Len(SubSeq(u, 1, n)) = n
      /\ \A i \in 1 .. n : SubSeq(u, 1, n)[i] = u[i]
  BY <1>1, Part
<1>3. /\ SubSeq(u, n + 1, Len(u)) \in Seq(S) /\ Len(SubSeq(u, n + 1, Len(u))) = Len(t)
      /\ \A i \in 1 .. Len(t) : SubSeq(u, n + 1, Len(u))[i] = u[n + i]
  <2>1. n + 1 \in Nat \ {0} /\ Len(u) \in Nat /\ Len(u) - (n + 1) + 1 = Len(t)
        /\ (n + 1 <= Len(u) \/ Len(t) = 0)
    BY <1>1
  <2>2. \A i \in 1 .. Len(t) : (n + 1) + i - 1 = n + i
    BY <1>1
  <2> DEFINE m == n + 1
             l == Len(u)
  <2>3. m \in Nat \ {0} /\ l \in Nat /\ l <= Len(u)
    BY <2>1
  <2> HIDE DEF m, l
  <2>4. /\ SubSeq(u, m, l) \in Seq(S)
        /\ Len(SubSeq(u, m, l)) = IF m <= l THEN l - m + 1 ELSE 0
        /\ \A i \in 1 .. l - m + 1 : SubSeq(u, m, l)[i] = u[m + i - 1]
    BY <1>1, <2>3, Part
  <2>5. QED
    BY <1>1, <2>1, <2>2, <2>4 DEF m, l
<1>4. SubSeq(u, 1, n) = s
  BY <1>1, <1>2, SeqEqual
<1>5. SubSeq(u, n + 1, Len(u)) = t
  BY <1>1, <1>3, SeqEqual
<1>6. QED
  BY <1>4, <1>5 DEF u

-----------------------------------------------------------------------------
(* Induction and recursion                                                 *)

\* A set of naturals that has a member has a least one.
LEMMA LeastNumber ==
    ASSUME NEW T \in SUBSET Nat, T # {}
    PROVE  \E m \in T : \A k \in T : ~(k < m)
<1> DEFINE Less == {ss \in Nat \X Nat : ss[1] < ss[2]}
<1>1. IsWellFoundedOn(Less, Nat)
  BY NatLessThanWellFounded, Zenon DEF OpToRel
<1>2. \A k, m \in Nat : k < m => <<k, m>> \in Less
  OBVIOUS
<1> HIDE DEF Less
<1>3. \E m \in T : \A k \in T : <<k, m>> \notin Less
  BY <1>1, WFMin
<1>4. QED
  BY <1>2, <1>3

\* What holds of 0 and passes to the next number holds of all.
LEMMA Induction ==
    ASSUME NEW S, 0 \in S, \A n \in Nat : n \in S => n + 1 \in S
    PROVE  \A n \in Nat : n \in S
<1> DEFINE T == Nat \ S
<1> SUFFICES ASSUME T # {} PROVE FALSE
  OBVIOUS
<1>1. PICK m \in T : \A k \in T : ~(k < m)
  BY LeastNumber
<1>2. m \in Nat /\ m # 0 /\ m \notin S
  BY <1>1
<1>3. m - 1 \in Nat /\ m - 1 < m /\ (m - 1) + 1 = m
  BY <1>2
<1>4. m - 1 \in S
  BY <1>1, <1>3
<1>5. QED
  BY <1>2, <1>3, <1>4

\* f follows the steps from a, n of them or all.
Follows(f, a, step, n) == f[0] = a /\ \A k \in 1 .. n : f[k] = step[k][f[k - 1]]

\* Steps followed from the same start agree as far as both go.
LEMMA FollowsOnce ==
    ASSUME NEW a, NEW step, NEW m \in Nat, NEW n \in Nat, NEW f, NEW g,
           Follows(f, a, step, m), Follows(g, a, step, n)
    PROVE  \A k \in Nat : k <= m /\ k <= n => f[k] = g[k]
<1> DEFINE S == {k \in Nat : k <= m /\ k <= n => f[k] = g[k]}
<1>1. 0 \in S
  BY DEF Follows
<1>2. ASSUME NEW k \in Nat, k \in S PROVE k + 1 \in S
  <2> SUFFICES ASSUME k + 1 <= m, k + 1 <= n PROVE f[k + 1] = g[k + 1]
    OBVIOUS
  <2>1. f[k] = g[k] /\ k + 1 \in 1 .. m /\ k + 1 \in 1 .. n /\ (k + 1) - 1 = k
    BY <1>2
  <2>2. f[k + 1] = step[k + 1][f[k]] /\ g[k + 1] = step[k + 1][g[k]]
    BY <2>1 DEF Follows
  <2>3. QED
    BY <2>1, <2>2
<1> HIDE DEF S
<1>3. \A k \in Nat : k \in S
  BY <1>1, <1>2, Induction
<1>4. QED
  BY <1>3 DEF S

Iterates(f, a, step) == f[0] = a /\ \A k \in Nat \ {0} : f[k] = step[k][f[k - 1]]

\* Any steps on a set, from any member of it, can be followed for ever.
LEMMA Recursion ==
    ASSUME NEW V, NEW a \in V, NEW step \in [Nat -> [V -> V]]
    PROVE  \E f \in [Nat -> V] : Iterates(f, a, step)
<1> DEFINE Begun(n) == {f \in [0 .. n -> V] : Follows(f, a, step, n)}
           S == {n \in Nat : Begun(n) # {}}
<1>1. 0 \in S
  <2>1. [k \in 0 .. 0 |-> a] \in Begun(0)
    BY DEF Follows
  <2>2. QED
    BY <2>1
<1>2. ASSUME NEW n \in Nat, n \in S PROVE n + 1 \in S
  <2>1. PICK f \in [0 .. n -> V] : Follows(f, a, step, n)
    BY <1>2
  <2> DEFINE g == [k \in 0 .. n + 1 |-> IF k = n + 1 THEN step[n + 1][f[n]] ELSE f[k]]
  <2>2. step[n + 1][f[n]] \in V
    BY <2>1
  <2>3. g \in [0 .. n + 1 -> V]
    BY <2>1, <2>2
  <2>4. g[0] = a /\ \A k \in 1 .. n : g[k] = f[k] /\ g[k - 1] = f[k - 1]
    BY <2>1 DEF Follows
  <2>5. g[n + 1] = step[n + 1][g[(n + 1) - 1]]
    BY <2>1
  <2> HIDE DEF g
  <2>6. Follows(g, a, step, n + 1)
    BY <2>1, <2>4, <2>5 DEF Follows
  <2>7. QED
    BY <2>3, <2>6
<1>3. \A n \in Nat : Begun(n) # {}
  <2> HIDE DEF Begun
  <2>1. \A n \in Nat : n \in S
    <3> HIDE DEF S
    <3> QED BY <1>1, <1>2, Induction
  <2>2. QED
    BY <2>1
<1> DEFINE begun == [n \in Nat |-> CHOOSE f : f \in Begun(n)]
           F == [n \in Nat |-> begun[n][n]]
<1>4. \A n \in Nat : begun[n] \in [0 .. n -> V] /\ Follows(begun[n], a, step, n)
  <2>1. \A n \in Nat : begun[n] \in Begun(n)
    <3> HIDE DEF Begun
    <3> QED BY <1>3
  <2>2. QED
    BY <2>1
<1>5. F \in [Nat -> V]
  <2>1. \A n \in Nat : begun[n][n] \in V
    BY <1>4
  <2>2. QED
    BY <2>1
<1>6. F[0] = a
  BY <1>4 DEF Follows
<1>7. ASSUME NEW k \in Nat \ {0} PROVE F[k] = step[k][F[k - 1]]
  <2>1. k - 1 \in Nat /\ k \in 1 .. k /\ k - 1 <= k
    OBVIOUS
  <2>2. begun[k][k] = step[k][begun[k][k - 1]]
    BY <1>4, <2>1 DEF Follows
  <2>3. begun[k][k - 1] = begun[k - 1][k - 1]
    BY <1>4, <2>1, FollowsOnce
  <2> HIDE DEF begun
  <2>4. QED
    BY <2>1, <2>2, <2>3
<1> HIDE DEF F
<1>8. QED
  BY <1>5, <1>6, <1>7 DEF Iterates

-----------------------------------------------------------------------------
(* Digits                                                                  *)

Bases == Nat \ {0}

\* The recursive functions are what their definitions say.
LEMMA PowerDef ==
    ASSUME NEW b \in Bases
    PROVE  /\ Power(b) \in [Nat -> Nat] /\ Power(b)[0] = 1
           /\ \A k \in Nat \ {0} : Power(b)[k] = b * Power(b)[k - 1]
<1> DEFINE Def(f) == [k \in Nat |-> IF k = 0 THEN 1 ELSE b * f[k - 1]]
           step == [k \in Nat |-> [v \in Nat |-> b * v]]
<1>1. \A v \in Nat : b * v \in Nat
  BY DEF Bases
<1>2. step \in [Nat -> [Nat -> Nat]]
  BY <1>1
<1>3. PICK f \in [Nat -> Nat] : f[0] = 1 /\ \A k \in Nat \ {0} : f[k] = step[k][f[k - 1]]
  <2> DEFINE V == Nat
             one == 1
  <2>1. one \in V /\ step \in [Nat -> [V -> V]]
    BY <1>2
  <2> HIDE DEF step, V, one
  <2>2. \E f \in [Nat -> V] : Iterates(f, one, step)
    BY <2>1, Recursion
  <2>3. QED
    BY <2>2 DEF V, one, Iterates
<1>4. \A k \in Nat \ {0} : f[k] = b * f[k - 1]
  <2>1. \A k \in Nat \ {0} : k - 1 \in Nat /\ f[k - 1] \in Nat
    OBVIOUS
  <2>2. \A k \in Nat, v \in Nat : step[k][v] = b * v
    OBVIOUS
  <2> HIDE DEF step
  <2>3. QED
    BY <1>3, <2>1, <2>2
<1>5. f = Def(f)
  BY <1>3, <1>4
<1> DEFINE p == CHOOSE g : g = Def(g)
<1>6. Power(b) = p
  BY DEF Power
<1>7. p = Def(p)
  <2> HIDE DEF Def
  <2> QED BY <1>5
<1> HIDE DEF p
<1>8. /\ p[0] = 1
      /\ \A k \in Nat \ {0} : p[k] = b * p[k - 1]
  BY <1>7
<1>9. \A k \in Nat : k \in {n \in Nat : p[n] \in Nat}
  <2> DEFINE S == {n \in Nat : p[n] \in Nat}
  <2>1. 0 \in S
    BY <1>8
  <2>2. ASSUME NEW k \in Nat, k \in S PROVE k + 1 \in S
    <3>1. p[k + 1] = b * p[(k + 1) - 1]
      BY <1>8
    <3>2. QED
      BY <1>1, <2>2, <3>1
  <2> HIDE DEF S
  <2>3. \A n \in Nat : n \in S
    BY <2>1, <2>2, Induction
  <2>4. QED
    BY <2>3 DEF S
<1>10. p \in [Nat -> Nat]
  BY <1>7, <1>9
<1>11. QED
  BY <1>6, <1>8, <1>10

\* A number is its quotient and its last digit.
LEMMA Division ==
    ASSUME NEW v \in Int, NEW b \in Bases
    PROVE  v \div b \in Int /\ v % b \in 0 .. b - 1 /\ v = b * (v \div b) + (v % b)
BY DEF Bases

LEMMA ShiftedDef ==
    ASSUME NEW b \in Bases, NEW v \in Int
    PROVE  /\ Shifted(b, v) \in [Nat -> Int] /\ Shifted(b, v)[0] = v
           /\ \A k \in Nat \ {0} : Shifted(b, v)[k] = Shifted(b, v)[k - 1] \div b
<1> DEFINE Def(f) == [k \in Nat |-> IF k = 0 THEN v ELSE f[k - 1] \div b]
           step == [k \in Nat |-> [x \in Int |-> x \div b]]
<1>1. \A x \in Int : x \div b \in Int
  BY Division
<1>2. step \in [Nat -> [Int -> Int]]
  BY <1>1
<1>3. PICK f \in [Nat -> Int] : f[0] = v /\ \A k \in Nat \ {0} : f[k] = step[k][f[k - 1]]
  <2> DEFINE V == Int
  <2>1. v \in V /\ step \in [Nat -> [V -> V]]
    BY <1>2
  <2> HIDE DEF step, V
  <2>2. \E f \in [Nat -> V] : Iterates(f, v, step)
    BY <2>1, Recursion
  <2>3. QED
    BY <2>2 DEF V, Iterates
<1>4. \A k \in Nat \ {0} : f[k] = f[k - 1] \div b
  <2>1. \A k \in Nat \ {0} : k - 1 \in Nat /\ f[k - 1] \in Int
    OBVIOUS
  <2>2. \A k \in Nat, x \in Int : step[k][x] = x \div b
    OBVIOUS
  <2> HIDE DEF step
  <2>3. QED
    BY <1>3, <2>1, <2>2
<1>5. f = Def(f)
  BY <1>3, <1>4
<1> DEFINE s == CHOOSE g : g = Def(g)
<1>6. Shifted(b, v) = s
  BY DEF Shifted
<1>7. s = Def(s)
  <2> HIDE DEF Def
  <2> QED BY <1>5
<1> HIDE DEF s
<1>8. s[0] = v /\ \A k \in Nat \ {0} : s[k] = s[k - 1] \div b
  BY <1>7
<1> DEFINE S == {n \in Nat : s[n] \in Int}
<1>9. 0 \in S
  BY <1>8
<1>10. ASSUME NEW k \in Nat, k \in S PROVE k + 1 \in S
  <2>1. s[k + 1] = s[(k + 1) - 1] \div b
    BY <1>8
  <2>2. QED
    BY <1>1, <1>10, <2>1
<1>11. \A n \in Nat : s[n] \in Int
  <2> HIDE DEF S
  <2>1. \A n \in Nat : n \in S
    BY <1>9, <1>10, Induction
  <2>2. QED
    BY <2>1 DEF S
<1>12. s \in [Nat -> Int]
  BY <1>7, <1>11
<1>13. QED
  BY <1>6, <1>8, <1>12

\* The number in a sequence of digits is built up from the first on.
LEMMA UintDef ==
    ASSUME NEW b \in Bases, NEW bytes \in Seq(0 .. b - 1)
    PROVE  \E u \in [0 .. Len(bytes) -> Int] :
              /\ Uint(b, bytes) = u[Len(bytes)] /\ u[0] = 0
              /\ \A i \in 1 .. Len(bytes) : u[i] = u[i - 1] * b + bytes[i]
<1> DEFINE n == Len(bytes)
           Def(f) == [i \in 0 .. n |-> IF i = 0 THEN 0 ELSE f[i - 1] * b + bytes[i]]
           step == [i \in Nat |-> [x \in Int |-> IF i \in 1 .. n THEN x * b + bytes[i] ELSE x]]
<1>0. n \in Nat /\ \A i \in 1 .. n : bytes[i] \in Int
  BY DEF Bases
<1>1. \A i \in Nat, x \in Int : i \in 1 .. n => x * b + bytes[i] \in Int
  BY <1>0 DEF Bases
<1>2. step \in [Nat -> [Int -> Int]]
  BY <1>1
<1>3. PICK f \in [Nat -> Int] : f[0] = 0 /\ \A k \in Nat \ {0} : f[k] = step[k][f[k - 1]]
  <2> DEFINE V == Int
             zero == 0
  <2>1. zero \in V /\ step \in [Nat -> [V -> V]]
    BY <1>2
  <2> HIDE DEF step, V, zero
  <2>2. \E f \in [Nat -> V] : Iterates(f, zero, step)
    BY <2>1, Recursion
  <2>3. QED
    BY <2>2 DEF V, zero, Iterates
<1>4. \A i \in 1 .. n : f[i] = f[i - 1] * b + bytes[i]
  <2>1. \A i \in 1 .. n : i \in Nat \ {0} /\ i - 1 \in Nat /\ f[i - 1] \in Int
    BY <1>0
  <2>2. \A i \in 1 .. n, x \in Int : step[i][x] = x * b + bytes[i]
    BY <1>0
  <2> HIDE DEF step, n
  <2>3. QED
    BY <1>3, <2>1, <2>2
<1> DEFINE g == [i \in 0 .. n |-> f[i]]
<1>5. g = Def(g)
  <2> HIDE DEF n
  <2>1. \A i \in 0 .. n : i # 0 => i \in 1 .. n /\ i - 1 \in 0 .. n
    BY <1>0
  <2>2. QED
    BY <1>3, <1>4, <2>1
<1> DEFINE u == CHOOSE h : h = Def(h)
<1>6. Uint(b, bytes) = u[n]
  BY DEF Uint
<1>7. u = Def(u)
  <2> HIDE DEF Def, g
  <2> QED BY <1>5
<1> HIDE DEF u, n
<1>8. u[0] = 0 /\ \A i \in 1 .. n : u[i] = u[i - 1] * b + bytes[i]
  BY <1>0, <1>7
<1> DEFINE S == {i \in Nat : i <= n => u[i] \in Int}
<1>9. 0 \in S
  BY <1>8
<1>10. ASSUME NEW k \in Nat, k \in S PROVE k + 1 \in S
  <2> SUFFICES ASSUME k + 1 <= n PROVE u[k + 1] \in Int
    OBVIOUS
  <2>1. k + 1 \in 1 .. n /\ (k + 1) - 1 = k /\ u[k] \in Int
    BY <1>0, <1>10
  <2>2. u[k + 1] = u[k] * b + bytes[k + 1]
    BY <1>8, <2>1
  <2>3. u[k] * b + bytes[k + 1] \in Int
    BY <1>1, <2>1, k + 1 \in Nat
  <2>4. QED
    BY <2>2, <2>3
<1>11. \A i \in 0 .. n : u[i] \in Int
  <2> HIDE DEF S
  <2>1. \A i \in Nat : i \in S
    BY <1>9, <1>10, Induction
  <2>2. QED
    BY <1>0, <2>1 DEF S
<1>12. u \in [0 .. n -> Int]
  BY <1>7, <1>11
<1>13. QED
  BY <1>6, <1>8, <1>12 DEF n

\* Digits are digits, and as many as asked for.
LEMMA PutUintDigits ==
    ASSUME NEW b \in Bases, NEW v \in Int, NEW n \in Nat
    PROVE  /\ PutUint(b, v, n) \in Seq(0 .. b - 1) /\ Len(PutUint(b, v, n)) = n
           /\ \A i \in 1 .. n : PutUint(b, v, n)[i] = Shifted(b, v)[n - i] % b
<1>1. \A i \in 1 .. n : n - i \in Nat /\ Shifted(b, v)[n - i] \in Int
  BY ShiftedDef
<1>2. \A i \in 1 .. n : Shifted(b, v)[n - i] % b \in 0 .. b - 1
  BY <1>1, Division
<1>3. PutUint(b, v, n) \in [1 .. n -> 0 .. b - 1]
  BY <1>2 DEF PutUint
<1>4. QED
  BY <1>3 DEF PutUint

\* Hidden from the solver, a product of naturals is one.
LEMMA Products == \A x, y \in Nat : x * y \in Nat
OBVIOUS

\* One more digit.
LEMMA Below ==
    ASSUME NEW x \in Nat, NEW p \in Nat, x < p, NEW b \in Bases, NEW d \in 0 .. b - 1
    PROVE  x * b + d \in Nat /\ x * b + d < b * p
<1>1. b \in Nat /\ b >= 1 /\ p - 1 - x \in Nat /\ d \in Nat /\ d <= b - 1
  BY DEF Bases
<1>2. (p - 1 - x) * b \in Nat /\ x * b \in Nat
  BY <1>1, Products
<1>3. (p - 1 - x) * b = b * p - b - x * b
  BY <1>1
<1>4. QED
  BY <1>1, <1>2, <1>3

\* n digits stand for a number below b^n.
LEMMA UintRange ==
    ASSUME NEW b \in Bases, NEW bytes \in Seq(0 .. b - 1)
    PROVE  Uint(b, bytes) \in Nat /\ Uint(b, bytes) < Power(b)[Len(bytes)]
<1> DEFINE n == Len(bytes)
<1>1. PICK u \in [0 .. n -> Int] :
          /\ Uint(b, bytes) = u[n] /\ u[0] = 0
          /\ \A i \in 1 .. n : u[i] = u[i - 1] * b + bytes[i]
  BY UintDef
<1> DEFINE S == {i \in Nat : i <= n => u[i] \in Nat /\ u[i] < Power(b)[i]}
<1>2. 0 \in S
  BY <1>1, PowerDef
<1>3. ASSUME NEW i \in Nat, i \in S PROVE i + 1 \in S
  <2> SUFFICES ASSUME i + 1 <= n PROVE u[i + 1] \in Nat /\ u[i + 1] < Power(b)[i + 1]
    OBVIOUS
  <2>1. /\ n \in Nat /\ i <= n /\ i + 1 \in 1 .. n /\ (i + 1) - 1 = i
        /\ i + 1 \in Nat \ {0}
    OBVIOUS
  <2>2. u[i] \in Nat /\ u[i] < Power(b)[i] /\ Power(b)[i] \in Nat
    <3>1. Power(b)[i] \in Nat
      BY PowerDef
    <3>2. QED
      BY <1>3, <2>1, <3>1
  <2>3. bytes[i + 1] \in 0 .. b - 1
    <3>1. \A S0 : \A q \in Seq(S0) : \A j \in 1 .. Len(q) : q[j] \in S0
      OBVIOUS
    <3>2. QED
      BY <2>1, <3>1
  <2>4. u[i + 1] = u[i] * b + bytes[i + 1] /\ Power(b)[i + 1] = b * Power(b)[i]
    BY <1>1, <2>1, PowerDef
  <2> HIDE DEF n
  <2>5. QED
    BY <2>2, <2>3, <2>4, Below
<1> HIDE DEF S
<1>4. \A i \in Nat : i \in S
  BY <1>2, <1>3, Induction
<1>5. n \in Nat /\ n \in S
  BY <1>4
<1>6. QED
  BY <1>1, <1>5 DEF S

\* What is written as n digits is read as the number modulo b^n.
LEMMA PutUintModulo ==
    ASSUME NEW b \in Bases, NEW v \in Int, NEW n \in Nat
    PROVE  \E q \in Int : Uint(b, PutUint(b, v, n)) = v - q * Power(b)[n]
<1> DEFINE bytes == PutUint(b, v, n)
           s == Shifted(b, v)
           p == Power(b)
<1>0. /\ bytes \in Seq(0 .. b - 1) /\ Len(bytes) = n
      /\ \A i \in 1 .. n : bytes[i] = s[n - i] % b
  BY PutUintDigits
<1>1. PICK u \in [0 .. n -> Int] :
          /\ Uint(b, bytes) = u[n] /\ u[0] = 0
          /\ \A i \in 1 .. n : u[i] = u[i - 1] * b + bytes[i]
  <2> HIDE DEF bytes
  <2> QED BY <1>0, UintDef
<1>2. /\ s \in [Nat -> Int] /\ s[0] = v
      /\ \A k \in Nat \ {0} : s[k] = s[k - 1] \div b
  BY ShiftedDef
<1>3. p \in [Nat -> Nat] /\ p[0] = 1 /\ \A k \in Nat \ {0} : p[k] = b * p[k - 1]
  BY PowerDef
<1> HIDE DEF bytes, s, p
<1> DEFINE S == {i \in Nat : i <= n => u[i] = s[n - i] - s[n] * p[i]}
<1>4. 0 \in S
  BY <1>1, <1>2, <1>3
<1>5. ASSUME NEW i \in Nat, i \in S PROVE i + 1 \in S
  <2> SUFFICES ASSUME i + 1 <= n PROVE u[i + 1] = s[n - (i + 1)] - s[n] * p[i + 1]
    OBVIOUS
  <2> DEFINE k == n - (i + 1)
             j == i + 1
  <2>1. /\ j \in 1 .. n /\ j - 1 = i /\ j \in Nat \ {0}
        /\ k \in Nat /\ k + 1 = n - i /\ k + 1 \in Nat \ {0} /\ (k + 1) - 1 = k
    OBVIOUS
  <2>2. u[i] = s[k + 1] - s[n] * p[i]
    BY <1>5, <2>1
  <2> HIDE DEF k, j
  <2>3. bytes[j] = s[k] % b
    BY <1>0, <2>1 DEF k, j
  <2>4. s[k + 1] = s[k] \div b /\ s[k] \in Int /\ s[k + 1] \in Int /\ s[n] \in Int
    BY <1>2, <2>1
  <2>5. bytes[j] \in Int /\ s[k] = b * s[k + 1] + bytes[j]
    BY <2>3, <2>4, Division
  <2>6. u[j] = (s[k + 1] - s[n] * p[i]) * b + bytes[j]
    BY <1>1, <2>1, <2>2
  <2>7. p[i] \in Int /\ p[j] = b * p[i] /\ b \in Int
    <3>1. p[i] \in Nat
      BY <1>3
    <3>2. p[j] = b * p[j - 1]
      BY <1>3, <2>1
    <3>3. b \in Int
      BY DEF Bases
    <3>4. QED
      BY <2>1, <3>1, <3>2, <3>3
  <2>8. u[j] = s[k] - s[n] * p[j]
    <3> DEFINE x == s[k + 1]
               q == s[n]
               m == p[i]
               d == bytes[j]
    <3>1. /\ x \in Int /\ q \in Int /\ m \in Int /\ d \in Int /\ b \in Int
          /\ u[j] = (x - q * m) * b + d /\ s[k] = b * x + d /\ p[j] = b * m
      BY <2>4, <2>5, <2>6, <2>7
    <3> HIDE DEF x, q, m, d
    <3>2. (x - q * m) * b + d = (b * x + d) - q * (b * m)
      BY <3>1
    <3>3. u[j] = s[k] - q * p[j]
      BY <3>1, <3>2
    <3>4. QED
      BY <3>3 DEF q
  <2>9. QED
    BY <2>8 DEF j, k
<1> HIDE DEF S
<1>6. \A i \in Nat : i \in S
  BY <1>4, <1>5, Induction
<1>7. u[n] = s[0] - s[n] * p[n] /\ s[n] \in Int
  BY <1>2, <1>6 DEF S
<1>8. QED
  BY <1>1, <1>2, <1>7 DEF bytes, p

\* Two numbers that differ by a multiple of m and by less are the same.
LEMMA SmallMultiple ==
    ASSUME NEW m \in Nat, NEW x \in Int, NEW y \in Int, NEW q \in Int,
           x = y - q * m, x - y < m, y - x < m
    PROVE  x = y
<1>1. CASE q >= 1
  <2>1. (q - 1) * m \in Nat
    BY <1>1, Products, q - 1 \in Nat
  <2>2. (q - 1) * m = q * m - m
    OBVIOUS
  <2>3. QED
    BY <2>1, <2>2
<1>2. CASE q <= -1
  <2>1. (-1 - q) * m \in Nat
    BY <1>2, Products, -1 - q \in Nat
  <2>2. (-1 - q) * m = -m - q * m
    OBVIOUS
  <2>3. QED
    BY <2>1, <2>2
<1>3. CASE q = 0
  BY <1>3
<1>4. QED
  BY <1>1, <1>2, <1>3

\* A number that fits is read back.
LEMMA PutUintFits ==
    ASSUME NEW b \in Bases, NEW n \in Nat, NEW v \in 0 .. Power(b)[n] - 1
    PROVE  Uint(b, PutUint(b, v, n)) = v
<1> DEFINE x == Uint(b, PutUint(b, v, n))
           m == Power(b)[n]
<1>1. m \in Nat /\ v \in Int /\ 0 <= v /\ v < m
  BY PowerDef
<1>2. PICK q \in Int : x = v - q * m
  BY <1>1, PutUintModulo
<1>3. x \in Nat /\ x < m
  BY <1>1, PutUintDigits, UintRange
<1> HIDE DEF x, m
<1>4. x = v
  BY <1>1, <1>2, <1>3, SmallMultiple
<1>5. QED
  BY <1>4 DEF x

=============================================================================
