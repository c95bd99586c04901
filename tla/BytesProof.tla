----------------------------- MODULE BytesProof -----------------------------
(***************************************************************************)
(* Lemmas about the slices of a stream.                                    *)
(***************************************************************************)
EXTENDS Bytes, SequenceTheorems, TLAPS

LEMMA SliceType ==
  ASSUME NEW a \in Nat, NEW b \in Nat, a <= b
  PROVE  /\ Slice(a, b) \in Seq(Nat)
         /\ Len(Slice(a, b)) = b - a
         /\ \A i \in 1..(b - a) : Slice(a, b)[i] = a + i
<1>1. b - a \in Nat /\ Slice(a, b) \in [1..(b - a) -> Nat]
  BY DEF Slice
<1>2. Slice(a, b) \in Seq(Nat)
  BY <1>1, SeqDef
<1>3. Len(Slice(a, b)) \in Nat /\ DOMAIN Slice(a, b) = 1..Len(Slice(a, b))
  BY <1>2, LenProperties
<1>4. DOMAIN Slice(a, b) = 1..(b - a)
  BY DEF Slice
<1> QED
  BY <1>1, <1>2, <1>3, <1>4 DEF Slice

LEMMA SliceSlice ==
  ASSUME NEW a \in Nat, NEW b \in Nat, a <= b
  PROVE  Slice(0, a) \o Slice(a, b) = Slice(0, b)
<1> DEFINE s == Slice(0, a)
           t == Slice(a, b)
           u == Slice(0, b)
<1>1. /\ s \in Seq(Nat) /\ Len(s) = a /\ \A i \in 1..a : s[i] = i
      /\ u \in Seq(Nat) /\ Len(u) = b /\ \A i \in 1..b : u[i] = i
  <2>1. /\ s \in Seq(Nat) /\ Len(s) = a - 0
        /\ \A i \in 1..(a - 0) : s[i] = 0 + i
    BY SliceType
  <2>2. /\ u \in Seq(Nat) /\ Len(u) = b - 0
        /\ \A i \in 1..(b - 0) : u[i] = 0 + i
    BY SliceType
  <2> QED
    BY <2>1, <2>2
<1>2. /\ t \in Seq(Nat) /\ Len(t) = b - a
      /\ \A i \in 1..(b - a) : t[i] = a + i
  BY SliceType
<1> HIDE DEF s, t, u
<1>3. /\ s \o t \in Seq(Nat)
      /\ Len(s \o t) = Len(s) + Len(t)
      /\ \A i \in 1..(Len(s) + Len(t)) :
           (s \o t)[i] = IF i <= Len(s) THEN s[i] ELSE t[i - Len(s)]
  BY <1>1, <1>2, ConcatProperties
<1>4. Len(s \o t) = b /\ \A i \in 1..b : (s \o t)[i] = u[i]
  <2>1. Len(s \o t) = b
    BY <1>1, <1>2, <1>3
  <2>2. ASSUME NEW i \in 1..b PROVE (s \o t)[i] = u[i]
    <3>1. CASE i <= a
      BY <3>1, <1>1, <1>2, <1>3
    <3>2. CASE ~(i <= a)
      <4>1. i - a \in 1..(b - a) /\ i \in 1..(Len(s) + Len(t))
        BY <3>2, <1>1, <1>2
      <4> QED
        <5>1. (s \o t)[i] = t[i - a]
          BY <3>2, <4>1, <1>1, <1>3
        <5>2. t[i - a] = a + (i - a)
          BY <4>1, <1>2
        <5> QED
          BY <5>1, <5>2, <1>1
    <3> QED
      BY <3>1, <3>2
  <2> QED
    BY <2>1, <2>2
<1>5. s \o t = u
  BY <1>1, <1>3, <1>4, SeqEqual
<1> QED
  BY <1>5 DEF s, t, u

LEMMA SliceConcatType ==
  ASSUME NEW s \in Seq(Nat), NEW a \in Nat, NEW b \in Nat, a <= b
  PROVE  s \o Slice(a, b) \in Seq(Nat)
  BY SliceType, ConcatProperties

LEMMA ZeroesType ==
  ASSUME NEW n \in Nat
  PROVE  Zeroes(n) \in Seq(Nat) /\ Len(Zeroes(n)) = n
<1>1. Zeroes(n) \in [1..n -> Nat] /\ DOMAIN Zeroes(n) = 1..n
  BY DEF Zeroes
<1>2. Zeroes(n) \in Seq(Nat)
  BY <1>1, SeqDef
<1> QED
  BY <1>1, <1>2, LenProperties

(* A file with less than the first m bytes, or zeroes, is not the whole.   *)
LEMMA SliceShort ==
  ASSUME NEW n \in Nat, NEW z \in Nat, NEW m \in Nat, n < m
  PROVE  Slice(0, n) \o Zeroes(z) # Slice(0, m)
<1> DEFINE s == Slice(0, n)
           t == Zeroes(z)
           u == Slice(0, m)
<1>1. s \in Seq(Nat) /\ Len(s) = n /\ Len(u) = m /\ u[m] = m
  <2>1. s \in Seq(Nat) /\ Len(s) = n - 0
    BY SliceType
  <2>2. 0 \in Nat /\ 0 <= m /\ m \in 1..(m - 0)
    OBVIOUS
  <2>3. Len(u) = m - 0 /\ u[m] = 0 + m
    BY <2>2, SliceType
  <2> QED
    BY <2>1, <2>3
<1>2. t \in Seq(Nat) /\ Len(t) = z /\ \A i \in 1..z : t[i] = 0
  BY ZeroesType DEF Zeroes
<1> HIDE DEF s, t, u
<1>3. /\ Len(s \o t) = n + z
      /\ \A i \in 1..(n + z) :
           (s \o t)[i] = IF i <= n THEN s[i] ELSE t[i - n]
  BY <1>1, <1>2, ConcatProperties
<1>4. CASE n + z = m
  <2>1. m \in 1..(n + z) /\ ~(m <= n) /\ m - n \in 1..z
    BY <1>4
  <2>2. (s \o t)[m] = t[m - n]
    BY <1>3, <2>1
  <2>3. t[m - n] = 0 /\ m # 0
    BY <1>2, <2>1
  <2> QED
    BY <1>1, <2>2, <2>3 DEF s, t, u
<1>5. CASE n + z # m
  BY <1>1, <1>3, <1>5 DEF s, t, u
<1> QED
  BY <1>4, <1>5

=============================================================================
