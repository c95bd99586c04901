---------------------------- MODULE ParsingProof ----------------------------
(***************************************************************************)
(* What the parsers of Parsing make of every input that is written as      *)
(* ParsingAssumption says: one invariant for each, which says what the     *)
(* parser has when it is at a place whose mark it has reached.             *)
(***************************************************************************)
EXTENDS Parsing, SequenceTheorems, WellFoundedInduction, TLAPS

-----------------------------------------------------------------------------
(* Every non-empty set of numbers has a least one, which is what takes the *)
(* place of induction below.                                               *)

Less == {ss \in Nat \X Nat : ss[1] < ss[2]}

LEMMA LessWF == IsWellFoundedOn(Less, Nat)
BY NatLessThanWellFounded DEF OpToRel, Less

LEMMA LeastNat ==
  ASSUME NEW T, T \subseteq Nat, T # {}
  PROVE  \E x \in T : \A y \in T : x <= y
<1>1. PICK x \in T : \A y \in T : ~(<<y, x>> \in Less)
  BY LessWF, WFMin, Zenon
<1>2. \A y \in T : ~(y < x)
  BY <1>1 DEF Less
<1> QED BY <1>2

(* Positions that grow are as far apart as their numbers.                  *)
LEMMA Grows ==
  ASSUME NEW n \in Nat, NEW at \in [1..n -> Nat],
         \A k \in 1..(n - 1) : at[k] < at[k + 1],
         NEW i \in 1..n, NEW j \in i..n
  PROVE  at[i] + (j - i) <= at[j]
<1> DEFINE T == {k \in i..n : ~(at[i] + (k - i) <= at[k])}
<1>1. CASE T = {}
  BY <1>1
<1>2. CASE T # {}
  <2>1. T \subseteq Nat
    OBVIOUS
  <2>2. PICK k \in T : \A l \in T : k <= l
    BY <1>2, <2>1, LeastNat
  <2>3. k # i /\ k \in i..n /\ ~(at[i] + (k - i) <= at[k])
    BY <2>2
  <2>4. k - 1 \in i..n /\ k - 1 \in 1..(n - 1)
    BY <2>3
  <2>5. k - 1 \notin T
    BY <2>2, <2>4
  <2>6. at[i] + (k - 1 - i) <= at[k - 1]
    BY <2>4, <2>5
  <2>7. at[k - 1] < at[k]
    <3>1. at[k - 1] < at[k - 1 + 1] /\ k - 1 + 1 = k
      BY <2>4
    <3> QED BY <3>1
  <2>8. at[i] \in Nat /\ at[k - 1] \in Nat /\ at[k] \in Nat
        /\ i \in Nat /\ k \in Nat
    BY <2>3, <2>4
  <2>9. \A a, b, c, x, y \in Nat :
          a + (x - 1 - y) <= b /\ b < c => a + (x - y) <= c
    OBVIOUS
  <2>10. at[i] + (k - i) <= at[k]
    BY <2>6, <2>7, <2>8, <2>9
  <2> QED BY <2>3, <2>10
<1> QED BY <1>1, <1>2

-----------------------------------------------------------------------------
(* Finding.                                                                *)

LEMMA FindAt ==
  ASSUME NEW s, NEW ch, NEW i \in Nat, Len(s) \in Nat,
         NEW f \in i..Len(s), s[f] = ch, \A j \in i..(f - 1) : s[j] # ch
  PROVE  Find(s, ch, i) = f
<1> DEFINE at == {j \in i..Len(s) : s[j] = ch}
<1>1. f \in at /\ \A j \in at : f <= j
  OBVIOUS
<1>2. \A x \in at : (\A j \in at : x <= j) => x = f
  BY <1>1
<1> HIDE DEF at
<1>3. Min(at) = f
  BY <1>1, <1>2 DEF Min
<1> QED BY <1>1, <1>3 DEF Find, at

LEMMA FindNone ==
  ASSUME NEW s, NEW ch, NEW i \in Nat, Len(s) \in Nat,
         \A j \in i..Len(s) : s[j] # ch
  PROVE  Find(s, ch, i) = 0
BY DEF Find

LEMMA FindIn ==
  ASSUME NEW s, NEW ch, NEW i \in Nat, Len(s) \in Nat
  PROVE  Find(s, ch, i) \in {0} \cup i..Len(s)
<1> DEFINE at == {j \in i..Len(s) : s[j] = ch}
<1>1. CASE at = {}
  BY <1>1 DEF Find
<1>2. CASE at # {}
  <2>1. at \subseteq Nat
    OBVIOUS
  <2>2. PICK f \in at : \A j \in at : f <= j
    BY <1>2, <2>1, LeastNat
  <2>3. f \in i..Len(s) /\ s[f] = ch /\ \A j \in i..(f - 1) : s[j] # ch
    BY <2>2
  <2>4. Find(s, ch, i) = f
    BY <2>3, FindAt
  <2> QED BY <2>3, <2>4
<1> QED BY <1>1, <1>2

-----------------------------------------------------------------------------
(* URLs.                                                                   *)

(* What has been decoded are the characters in front of an escaped one, or *)
(* all of them.                                                            *)
Decoded(u, s) ==
  \/ s.ridx = 0 /\ s.ret_str = u.text
  \/ \E k \in 1..Len(u.text) :
       /\ k \in u.escaped /\ s.ridx = u.at[k]
       /\ s.ret_str = SubSeq(u.text, 1, k - 1)

UrlInv == Reads("url") => UrlWritten(input.of) /\ Decoded(input.of, state)

LEMMA HexDecoded ==
  ASSUME NEW t \in 0..255, NEW s, NEW i,
         s[i] = Hex(t \div 16), s[i + 1] = Hex(t % 16)
  PROVE  HexChar(s, i) = t
<1>1. t \div 16 \in 0..15 /\ t % 16 \in 0..15 /\ t = (t \div 16) * 16 + (t % 16)
  OBVIOUS
<1>2. \A n \in 0..15 : HexDigit(Hex(n)) = n
  BY DEF Hex, HexDigit
<1>3. HexDigit(s[i]) = t \div 16 /\ HexDigit(s[i + 1]) = t % 16
  BY <1>1, <1>2
<1>4. t % 256 = t
  OBVIOUS
<1> QED BY <1>1, <1>3, <1>4 DEF HexChar

(* Where each position is the next of the one before.                      *)
LEMMA Steps ==
  ASSUME NEW n \in Nat, NEW at \in [1..n -> Nat], NEW k \in 1..n, NEW l \in k..n,
         \A j \in k..(l - 1) : at[j + 1] = at[j] + 1,
         NEW j \in k..l
  PROVE  at[j] = at[k] + (j - k)
<1> DEFINE T == {i \in k..l : at[i] # at[k] + (i - k)}
<1>1. CASE T = {}
  BY <1>1
<1>2. CASE T # {}
  <2>1. T \subseteq Nat
    OBVIOUS
  <2>2. PICK i \in T : \A m \in T : i <= m
    BY <1>2, <2>1, LeastNat
  <2>3. at[k] \in Nat /\ k \in Nat /\ i \in Nat
    BY <2>2
  <2>4. i # k /\ i \in k..l /\ at[i] # at[k] + (i - k)
    BY <2>2, <2>3
  <2>5. i - 1 \in k..(l - 1) /\ i - 1 \in k..l /\ i - 1 + 1 = i
    BY <2>4
  <2>6. at[i - 1] = at[k] + (i - 1 - k)
    BY <2>2, <2>5
  <2>7. at[i] = at[i - 1] + 1
    <3>1. at[i - 1 + 1] = at[i - 1] + 1
      BY <2>5
    <3> QED BY <2>5, <3>1
  <2>8. \A a, b, c, x, y \in Nat :
          b = a + (x - 1 - y) /\ c = b + 1 => c = a + (x - y)
    OBVIOUS
  <2>9. at[i - 1] \in Nat /\ at[i] \in Nat
    BY <2>4, <2>5
  <2> QED BY <2>3, <2>4, <2>6, <2>7, <2>8, <2>9
<1> QED BY <1>1, <1>2

(* Parts that agree.                                                       *)
LEMMA SameParts ==
  ASSUME NEW S, NEW s \in Seq(S), NEW t \in Seq(S),
         NEW i \in Nat \ {0}, NEW p \in (i - 1)..Len(s),
         NEW j \in Nat \ {0}, NEW q \in (j - 1)..Len(t), p - i = q - j,
         \A m \in i..p : s[m] = t[j + (m - i)]
  PROVE  SubSeq(s, i, p) = SubSeq(t, j, q)
<1> DEFINE a == SubSeq(s, i, p)
           b == SubSeq(t, j, q)
           n == p - i + 1
<1>1. Len(s) \in Nat /\ Len(t) \in Nat /\ p \in Int /\ q \in Int /\ n \in Nat
  OBVIOUS
<1>2. a \in Seq(S) /\ Len(a) = n /\ \A m \in 1..n : a[m] = s[i + m - 1]
  <2>1. \A m \in i..p : s[m] \in S
    BY <1>1
  <2>2. /\ a \in Seq(S)
        /\ Len(a) = IF i <= p THEN p - i + 1 ELSE 0
        /\ \A m \in 1..(p - i + 1) : a[m] = s[i + m - 1]
    BY <1>1, <2>1, SubSeqProperties
  <2> QED BY <2>2
<1>3. b \in Seq(S) /\ Len(b) = n /\ \A m \in 1..n : b[m] = t[j + m - 1]
  <2>1. \A m \in j..q : t[m] \in S
    BY <1>1
  <2>2. /\ b \in Seq(S)
        /\ Len(b) = IF j <= q THEN q - j + 1 ELSE 0
        /\ \A m \in 1..(q - j + 1) : b[m] = t[j + m - 1]
    BY <1>1, <2>1, SubSeqProperties
  <2> QED BY <2>2
<1>4. ASSUME NEW m \in 1..n PROVE s[i + m - 1] = t[j + m - 1]
  <2>1. i + m - 1 \in i..p /\ j + (i + m - 1 - i) = j + m - 1
    BY <1>1
  <2> QED BY <2>1
<1> HIDE DEF a, b, n
<1>5. a = b
  BY <1>2, <1>3, <1>4, SeqEqual
<1> QED BY <1>5 DEF a, b

(* Where each character of a URL is.                                       *)
LEMMA UrlPlaces ==
  ASSUME NEW u, UrlWritten(u)
  PROVE  LET n == Len(u.text) + 1
         IN  /\ u.text \in Seq(0..255) /\ u.url \in Seq(0..255)
             /\ Len(u.text) \in Nat /\ Len(u.url) \in Nat
             /\ u.at \in [1..n -> Nat]
             /\ u.at[n] = Len(u.url) + 1
             /\ \A k \in 1..n : u.at[k] \in Nat \ {0} /\ u.at[k] <= Len(u.url) + 1
             /\ \A k \in 1..Len(u.text) : u.at[k] < u.at[k + 1]
<1> DEFINE at   == u.at
           n    == Len(u.text) + 1
           size == Len(u.url)
<1>1. /\ u.text \in Seq(0..255) /\ u.url \in Seq(0..255)
      /\ at \in [1..n -> Nat \ {0}] /\ at[n] = size + 1
  BY DEF UrlWritten
<1>2. n \in Nat /\ Len(u.text) \in Nat /\ n - 1 = Len(u.text) /\ size \in Nat
  BY <1>1
<1>3. at \in [1..n -> Nat] /\ \A k \in 1..n : at[k] \in Nat \ {0}
  BY <1>1
<1>4. \A k \in 1..Len(u.text) : at[k + 1] = at[k] + 3 \/ at[k + 1] = at[k] + 1
  BY DEF UrlWritten
<1>5. \A k \in 1..(n - 1) : at[k] < at[k + 1]
  <2> SUFFICES ASSUME NEW k \in 1..(n - 1) PROVE at[k] < at[k + 1]
    OBVIOUS
  <2>1. k \in 1..n /\ k \in 1..Len(u.text)
    BY <1>2
  <2>2. at[k] \in Nat
    BY <1>3, <2>1
  <2> HIDE DEF at
  <2>3. at[k + 1] = at[k] + 3 \/ at[k + 1] = at[k] + 1
    BY <1>4, <2>1
  <2> QED BY <2>2, <2>3
<1> HIDE DEF n, at, size
<1>6. ASSUME NEW k \in 1..n PROVE at[k] <= size + 1
  <2>1. n \in k..n /\ k \in Nat /\ n - k \in Nat
    BY <1>2
  <2>2. at[k] + (n - k) <= at[n]
    BY <1>2, <1>3, <1>5, <2>1, Grows
  <2>3. \A a, b, d \in Nat : a + d <= b => a <= b
    OBVIOUS
  <2>4. at[k] \in Nat /\ at[n] \in Nat
    BY <1>1, <1>2, <1>3
  <2> QED BY <1>1, <2>1, <2>2, <2>3, <2>4
<1>7. \A k \in 1..Len(u.text) : at[k] < at[k + 1]
  BY <1>2, <1>5
<1> QED BY <1>1, <1>2, <1>3, <1>6, <1>7 DEF n, at, size

(* Where nothing is escaped, the URL is the text.                          *)
LEMMA UrlPlain ==
  ASSUME NEW u, UrlWritten(u),
         NEW k \in 1..(Len(u.text) + 1), NEW l \in k..(Len(u.text) + 1),
         \A j \in k..(l - 1) : j \notin u.escaped
  PROVE  /\ u.at[l] = u.at[k] + (l - k)
         /\ \A i \in u.at[k]..(u.at[l] - 1) : u.url[i] # Percent
         /\ SubSeq(u.url, u.at[k], u.at[l] - 1) = SubSeq(u.text, k, l - 1)
<1> DEFINE at == u.at
           n == Len(u.text) + 1
           size == Len(u.url)
           text == u.text
           url == u.url
<1>1. /\ text \in Seq(0..255) /\ url \in Seq(0..255) /\ Len(text) \in Nat
      /\ size \in Nat /\ n \in Nat /\ at \in [1..n -> Nat]
      /\ \A j \in 1..n : at[j] \in Nat \ {0} /\ at[j] <= size + 1
  BY UrlPlaces
<1>2. \A j \in 1..Len(text) : j \notin u.escaped =>
        at[j + 1] = at[j] + 1 /\ url[at[j]] = text[j] /\ text[j] # Percent
  BY DEF UrlWritten
<1>3. k \in 1..n /\ l \in k..n /\ l \in 1..n /\ k \in Nat /\ l \in Nat /\ l - k \in Nat
      /\ l <= Len(text) + 1
  BY <1>1
<1>4. size = Len(url) /\ n = Len(text) + 1
  OBVIOUS
<1> HIDE DEF at, n, size, text, url
<1>5. ASSUME NEW j \in k..(l - 1)
      PROVE  at[j + 1] = at[j] + 1 /\ url[at[j]] = text[j] /\ text[j] # Percent
  <2>1. j \in 1..Len(text)
    BY <1>1, <1>3
  <2> QED BY <1>2, <2>1
<1>6. ASSUME NEW j \in k..l PROVE at[j] = at[k] + (j - k)
  <2>1. \A i \in k..(l - 1) : at[i + 1] = at[i] + 1
    BY <1>5
  <2>2. n \in Nat /\ at \in [1..n -> Nat]
    BY <1>1
  <2> QED BY <1>3, <1>6, <2>1, <2>2, Steps, Zenon
<1>7. at[l] = at[k] + (l - k)
  BY <1>3, <1>6
<1>8. at[k] \in Nat \ {0} /\ at[l] \in Nat /\ at[l] <= size + 1
  BY <1>1, <1>3
<1>9. ASSUME NEW m \in 1..(l - k)
      PROVE  url[at[k] + m - 1] = text[k + m - 1] /\ text[k + m - 1] # Percent
  <2> DEFINE j == k + m - 1
  <2>1. j \in k..(l - 1) /\ j \in k..l /\ j - k = m - 1
    BY <1>3
  <2>2. at[j] = at[k] + (m - 1)
    BY <1>6, <2>1
  <2>3. at[j] = at[k] + m - 1
    BY <1>8, <2>2
  <2> QED BY <1>5, <2>1, <2>3
<1>10. ASSUME NEW i \in at[k]..(at[l] - 1) PROVE url[i] # Percent
  <2> DEFINE m == i - at[k] + 1
  <2>1. m \in 1..(l - k) /\ at[k] + m - 1 = i
    <3>1. \A a, b, d \in Nat : b = a + d =>
            \A x \in a..(b - 1) : x - a + 1 \in 1..d /\ a + (x - a + 1) - 1 = x
      OBVIOUS
    <3>2. \A x \in at[k]..(at[l] - 1) :
            x - at[k] + 1 \in 1..(l - k) /\ at[k] + (x - at[k] + 1) - 1 = x
      <4>1. at[k] \in Nat /\ at[l] \in Nat /\ l - k \in Nat
        BY <1>3, <1>8
      <4> QED BY <1>7, <3>1, <4>1, Zenon
    <3> QED BY <1>10, <3>2
  <2> HIDE DEF m
  <2> QED BY <1>9, <2>1
<1>11. SubSeq(url, at[k], at[l] - 1) = SubSeq(text, k, l - 1)
  <2> DEFINE a == at[k]
             p == at[l] - 1
             q == l - 1
  <2>1. a \in Nat \ {0} /\ k \in Nat \ {0}
    BY <1>3, <1>8
  <2>2. p \in (a - 1)..Len(url) /\ q \in (k - 1)..Len(text) /\ p - a = q - k
    BY <1>1, <1>3, <1>4, <1>7, <1>8
  <2>3. ASSUME NEW m \in a..p PROVE url[m] = text[k + (m - a)]
    <3>1. m - a + 1 \in 1..(l - k) /\ a + (m - a + 1) - 1 = m
          /\ k + (m - a + 1) - 1 = k + (m - a)
      BY <1>3, <1>7, <1>8, <2>1
    <3> QED BY <1>9, <3>1
  <2> HIDE DEF a, p, q
  <2>4. SubSeq(url, a, p) = SubSeq(text, k, q)
    BY <1>1, <2>1, <2>2, <2>3, SameParts
  <2> QED BY <2>4 DEF a, p, q
<1> QED BY <1>7, <1>10, <1>11 DEF at, n, size, text, url

(* What is in front of position k, and what follows.                       *)
LEMMA SplitAt ==
  ASSUME NEW S, NEW s \in Seq(S), NEW k \in 1..(Len(s) + 1),
         NEW l \in (k - 1)..Len(s)
  PROVE  SubSeq(s, 1, k - 1) \o SubSeq(s, k, l) = SubSeq(s, 1, l)
<1>1. Len(s) \in Nat /\ k - 1 \in 0..Len(s) /\ l \in (k - 1)..Len(s)
      /\ 1 \in 1..(Len(s) + 1) /\ k - 1 \in (1 - 1)..Len(s) /\ k - 1 + 1 = k
  OBVIOUS
<1>2. SubSeq(s, 1, k - 1) \o SubSeq(s, k - 1 + 1, l) = SubSeq(s, 1, l)
  BY <1>1, ConcatAdjacentSubSeq
<1> QED BY <1>1, <1>2

(* From any character on, decode_url copies what is not escaped.           *)
LEMMA UrlCopied ==
  ASSUME NEW u, UrlWritten(u), NEW k \in 1..(Len(u.text) + 1),
         NEW s, s.ridx = Find(u.url, Percent, u.at[k]),
         s.ret_str = SubSeq(u.text, 1, k - 1)
                     \o SubSeq(u.url, u.at[k], End(u.url, Percent, u.at[k]))
  PROVE  Decoded(u, s)
<1> DEFINE at   == u.at
           n    == Len(u.text) + 1
           text == u.text
           url  == u.url
           from == at[k]
           T    == {j \in k..Len(text) : j \in u.escaped}
           done == SubSeq(text, 1, k - 1)
<1>1. /\ text \in Seq(0..255) /\ url \in Seq(0..255) /\ Len(text) \in Nat
      /\ Len(url) \in Nat /\ n \in Nat /\ at[n] = Len(url) + 1
      /\ \A j \in 1..n : at[j] \in Nat \ {0} /\ at[j] <= Len(url) + 1
  BY UrlPlaces
<1>2. from \in Nat \ {0} /\ k \in Nat \ {0} /\ k \in 1..n /\ n \in k..n
      /\ from <= Len(url) + 1
  BY <1>1
<1>3. \A j \in 1..Len(text) : j \in u.escaped =>
        at[j + 1] = at[j] + 3 /\ url[at[j]] = Percent
  BY DEF UrlWritten
<1>4. \A l \in k..n : (\A j \in k..(l - 1) : j \notin u.escaped) =>
        /\ at[l] = from + (l - k)
        /\ \A i \in from..(at[l] - 1) : url[i] # Percent
        /\ SubSeq(url, from, at[l] - 1) = SubSeq(text, k, l - 1)
  BY UrlPlain
<1>5. n = Len(text) + 1 /\ from = at[k]
  OBVIOUS
<1>6. s.ridx = Find(url, Percent, from)
      /\ s.ret_str = done \o SubSeq(url, from, End(url, Percent, from))
  OBVIOUS
<1>7. CASE T = {}
  <2> HIDE DEF at, n, url, from, done
  <2>1. \A j \in k..(n - 1) : j \notin u.escaped
    BY <1>1, <1>5, <1>7
  <2> HIDE DEF text
  <2>2. /\ \A i \in from..(at[n] - 1) : url[i] # Percent
        /\ SubSeq(url, from, at[n] - 1) = SubSeq(text, k, n - 1)
    BY <1>2, <1>4, <2>1
  <2>3. at[n] - 1 = Len(url) /\ n - 1 = Len(text)
    BY <1>1, <1>5
  <2>4. Find(url, Percent, from) = 0
    BY <1>1, <1>2, <2>2, <2>3, FindNone
  <2>5. SubSeq(url, from, End(url, Percent, from)) = SubSeq(text, k, Len(text))
    BY <2>2, <2>3, <2>4 DEF End
  <2>6. done \o SubSeq(text, k, Len(text)) = SubSeq(text, 1, Len(text))
    <3>1. Len(text) \in (k - 1)..Len(text) /\ k \in 1..(Len(text) + 1)
      BY <1>1, <1>2, <1>5
    <3> QED BY <1>1, <3>1, SplitAt DEF done
  <2>7. SubSeq(text, 1, Len(text)) = text
    BY <1>1, SubSeqFull
  <2> QED BY <1>6, <2>4, <2>5, <2>6, <2>7 DEF Decoded, text
<1>8. CASE T # {}
  <2>1. T \subseteq Nat
    BY <1>1, <1>2
  <2>2. PICK l \in T : \A j \in T : l <= j
    BY <1>8, <2>1, LeastNat
  <2>3. l \in k..n /\ l \in 1..Len(text) /\ l \in u.escaped /\ l \in Nat
        /\ \A j \in k..(l - 1) : j \notin u.escaped
    BY <1>1, <1>2, <2>2
  <2> HIDE DEF at, n, url, from, done, text
  <2>4. /\ at[l] = from + (l - k)
        /\ \A i \in from..(at[l] - 1) : url[i] # Percent
        /\ SubSeq(url, from, at[l] - 1) = SubSeq(text, k, l - 1)
    BY <1>4, <2>3
  <2>5. url[at[l]] = Percent /\ at[l + 1] = at[l] + 3
    BY <1>3, <2>3
  <2>6. at[l] \in from..Len(url)
    <3>1. l + 1 \in 1..n /\ l \in 1..n
      BY <1>1, <1>5, <2>3
    <3>2. at[l + 1] <= Len(url) + 1 /\ at[l] \in Nat
      BY <1>1, <3>1
    <3>3. l - k \in Nat
      BY <1>2, <2>3
    <3>4. from <= at[l] /\ from \in Nat
      BY <1>2, <2>4, <3>3
    <3>5. at[l] + 3 <= Len(url) + 1 /\ Len(url) \in Nat
      BY <1>1, <2>5, <3>2
    <3> QED BY <3>2, <3>4, <3>5
  <2>7. Find(url, Percent, from) = at[l]
    BY <1>1, <1>2, <2>4, <2>5, <2>6, FindAt
  <2>8. at[l] # 0
    BY <1>2, <2>6
  <2>9. SubSeq(url, from, End(url, Percent, from)) = SubSeq(text, k, l - 1)
    BY <2>4, <2>7, <2>8 DEF End
  <2>10. l - 1 \in (k - 1)..Len(text) /\ k \in 1..(Len(text) + 1)
    BY <1>1, <1>2, <1>5, <2>3
  <2>11. done \o SubSeq(text, k, l - 1) = SubSeq(text, 1, l - 1)
    BY <1>1, <2>10, SplitAt DEF done
  <2> QED BY <1>6, <2>3, <2>7, <2>9, <2>11 DEF Decoded, text, at
<1> QED BY <1>7, <1>8

LEMMA UrlStarts ==
  ASSUME NEW u, UrlWritten(u)
  PROVE  Decoded(u, UrlStart(u.url))
<1>1. u.at[1] = 1 /\ 1 \in 1..(Len(u.text) + 1) /\ u.url \in Seq(0..255)
  BY UrlPlaces DEF UrlWritten
<1> DEFINE rest == SubSeq(u.url, 1, End(u.url, Percent, 1))
<1>2. SubSeq(u.text, 1, 1 - 1) = <<>>
  BY SubSeqEmpty
<1>3. rest \in Seq(0..255)
  <2>1. End(u.url, Percent, 1) \in 0..Len(u.url)
    BY <1>1, FindIn DEF End
  <2>2. \A i \in 1..End(u.url, Percent, 1) : u.url[i] \in 0..255
    <3> DEFINE e == End(u.url, Percent, 1)
               url == u.url
    <3>1. url \in Seq(0..255) /\ e \in 0..Len(url) /\ Len(url) \in Nat
      BY <1>1, <2>1
    <3> HIDE DEF e, url
    <3>2. \A i \in 1..e : url[i] \in 0..255
      <4>1. \A i \in 1..e : i \in 1..Len(url)
        BY <3>1
      <4> QED BY <3>1, <4>1, ElementOfSeq
    <3> QED BY <3>2 DEF e, url
  <2>3. 1 \in Int /\ End(u.url, Percent, 1) \in Int
    BY <1>1, <2>1
  <2> QED BY <2>2, <2>3, SubSeqProperties
<1>4. <<>> \o rest = rest
  BY <1>3, ConcatEmptySeq
<1> DEFINE s == UrlStart(u.url)
<1>5. s.ridx = Find(u.url, Percent, u.at[1])
      /\ s.ret_str = SubSeq(u.text, 1, 1 - 1)
                     \o SubSeq(u.url, u.at[1], End(u.url, Percent, u.at[1]))
  BY <1>1, <1>2, <1>4 DEF UrlStart
<1> HIDE DEF s
<1>6. Decoded(u, s)
  BY <1>1, <1>5, UrlCopied
<1> QED BY <1>6 DEF s

LEMMA UrlStep ==
  ASSUME NEW u, UrlWritten(u), NEW s, Decoded(u, s), s.ridx # 0
  PROVE  Decoded(u, decode_url(u.url, s))
<1> DEFINE text == u.text
           url  == u.url
           at   == u.at
<1>1. PICK k \in 1..Len(text) :
        k \in u.escaped /\ s.ridx = at[k] /\ s.ret_str = SubSeq(text, 1, k - 1)
  BY DEF Decoded
<1>2. text \in Seq(0..255) /\ url \in Seq(0..255) /\ Len(text) \in Nat
      /\ k + 1 \in 1..(Len(text) + 1) /\ at[k] \in Nat /\ text[k] \in 0..255
      /\ at[k + 1] \in Nat \ {0}
  <2>1. text \in Seq(0..255) /\ url \in Seq(0..255) /\ Len(text) \in Nat
        /\ \A j \in 1..(Len(text) + 1) : at[j] \in Nat \ {0}
    BY UrlPlaces
  <2>2. k \in 1..(Len(text) + 1) /\ k + 1 \in 1..(Len(text) + 1)
    BY <2>1
  <2> HIDE DEF text, url, at
  <2>3. text[k] \in 0..255
    BY <1>1, <2>1, ElementOfSeq
  <2> QED BY <2>1, <2>2, <2>3
<1>3. at[k + 1] = at[k] + 3 /\ url[at[k] + 1] = Hex(text[k] \div 16)
      /\ url[at[k] + 2] = Hex(text[k] % 16)
  BY <1>1 DEF UrlWritten
<1>4. HexChar(url, at[k] + 1) = text[k]
  <2>1. at[k] + 1 + 1 = at[k] + 2
    BY <1>2
  <2> QED BY <1>2, <1>3, <2>1, HexDecoded
<1>5. SubSeq(text, 1, k - 1) \o <<text[k]>> = SubSeq(text, 1, k)
  <2>1. k \in 1..Len(text) /\ k \in 1..k /\ 1 \in 1..Len(text) /\ k \in 1..Len(text)
    BY <1>2
  <2> HIDE DEF text, url, at
  <2> QED BY <1>2, <2>1, SubSeqRecursiveSecond
<1> DEFINE l == k + 1
           t == decode_url(url, s)
<1>6. s.ridx + 3 = at[l] /\ l - 1 = k /\ l \in 1..(Len(text) + 1)
  BY <1>1, <1>2, <1>3
<1>7. s.ridx + 1 = at[k] + 1
  BY <1>1
<1> HIDE DEF l, text, url, at
<1>8. t.ridx = Find(url, Percent, at[l])
  BY <1>6 DEF decode_url
<1>9. t.ret_str = SubSeq(text, 1, l - 1)
                  \o SubSeq(url, at[l], End(url, Percent, at[l]))
  <2>1. t.ret_str = s.ret_str \o <<HexChar(url, s.ridx + 1)>>
                    \o SubSeq(url, s.ridx + 3, End(url, Percent, s.ridx + 3))
    BY DEF decode_url
  <2>2. s.ret_str \o <<HexChar(url, s.ridx + 1)>> = SubSeq(text, 1, l - 1)
    BY <1>1, <1>4, <1>5, <1>6, <1>7
  <2> QED BY <1>6, <2>1, <2>2
<1> HIDE DEF t
<1>10. Decoded(u, t)
  BY <1>6, <1>8, <1>9, UrlCopied DEF text, url, at
<1> QED BY <1>10 DEF t, url

(* A URL is decoded to the text it was written from, for any text and any  *)
(* of its characters escaped.                                              *)
THEOREM UrlsAreDecoded == Spec => []UrlDecoded
<1>1. Init => UrlInv
  <2> SUFFICES ASSUME Init, Reads("url") PROVE UrlInv
    BY DEF UrlInv
  <2>1. PICK u \in Urls : Input("url", u) /\ state = UrlStart(u.url)
    BY DEF Init, Input, Reads
  <2>2. UrlWritten(u) /\ input.of = u
    BY <2>1, ParsingAssumption DEF Input
  <2> QED BY <2>1, <2>2, UrlStarts DEF UrlInv
<1>2. UrlInv /\ [Next]_vars => UrlInv'
  <2> SUFFICES ASSUME UrlInv, [Next]_vars, Reads("url")' PROVE UrlInv'
    BY DEF UrlInv
  <2>1. CASE ReadUrl
    <3>1. UrlWritten(input.of) /\ Decoded(input.of, state) /\ state.ridx # 0
          /\ state' = decode_url(input.of.url, state) /\ input' = input
      BY <2>1 DEF UrlInv, ReadUrl
    <3>2. Decoded(input.of, state')
      BY <3>1, UrlStep
    <3> QED BY <3>1, <3>2 DEF UrlInv
  <2>2. CASE UNCHANGED vars
    BY <2>2 DEF vars, UrlInv, Reads
  <2>3. ASSUME UNCHANGED input,
               \/ Reads("argv") \/ Reads("head") \/ Reads("span")
               \/ Reads("json") \/ Reads("config")
        PROVE  FALSE
    BY <2>3 DEF Reads
  <2> QED BY <2>1, <2>2, <2>3 DEF Next, ReadArgv, ReadRequest, ReadRange,
                                  ReadJson, OpenConfig, ReadConfig
<1>3. UrlInv => UrlDecoded
  <2> SUFFICES ASSUME UrlInv, Reads("url"), state.ridx = 0
               PROVE  state.ret_str = input.of.text
    BY DEF UrlDecoded
  <2>1. UrlWritten(input.of) /\ Decoded(input.of, state)
    BY DEF UrlInv
  <2>2. \A k \in 1..Len(input.of.text) : input.of.at[k] # 0
    <3>1. Len(input.of.text) \in Nat
          /\ \A k \in 1..(Len(input.of.text) + 1) : input.of.at[k] \in Nat \ {0}
      BY <2>1, UrlPlaces
    <3>2. \A k \in 1..Len(input.of.text) : k \in 1..(Len(input.of.text) + 1)
      BY <3>1
    <3> QED BY <3>1, <3>2
  <2> QED BY <2>1, <2>2 DEF Decoded
<1> QED BY <1>1, <1>2, <1>3, PTL DEF Spec

-----------------------------------------------------------------------------
(* Requests.                                                               *)

(* What the map holds of the first m headers: the last one with a name     *)
(* counts, in the path's place, too.                                       *)
Names(h, m) == {h.list[i].name : i \in 1..m}

Holds(map, h, m) ==
  /\ DOMAIN map = {Path} \cup Names(h, m)
  /\ Path \notin Names(h, m) => map[Path] = h.path
  /\ \A i \in 1..m :
       \/ map[h.list[i].name] = Tail(h.list[i].rest)
       \/ \E j \in (i + 1)..m : h.list[j].name = h.list[i].name

Bare(h, m) == \E i \in 1..m : h.list[i].rest = <<>>

(* A request is read line by line.                                         *)
ReadTo(h, r, k) ==
  /\ r = [at |-> "headers", pt |-> h.at[k], map |-> r.map]
  /\ Holds(r.map, h, k - 2) /\ ~Bare(h, k - 2)

ReadOut(h, r) ==
  LET m == Len(h.list)
  IN  \/ r.at = "throws" /\ Bare(h, m)
      \/ /\ r.at = "done" /\ ~Bare(h, m)
         /\ \E map : Holds(map, h, m) /\ r.map = Assign(map, PostContent, h.body)

HeadInv ==
  Reads("head") =>
    /\ HeadWritten(input.of)
    /\ \/ \E k \in 2..(Len(input.of.list) + 2) : ReadTo(input.of, state, k)
       \/ ReadOut(input.of, state)

(* Where the lines are.                                                    *)
LEMMA HeadPlaces ==
  ASSUME NEW h, HeadWritten(h)
  PROVE  /\ h.text \in Seq(STRING) /\ Len(h.text) \in Nat
         /\ Len(h.list) \in Nat /\ Lines(h) = Len(h.list) + 3
         /\ h.at[1] = 1 /\ h.at[Lines(h) + 1] = Len(h.text) + 2
         /\ \A k \in 1..(Lines(h) + 1) : h.at[k] \in Nat \ {0}
         /\ \A k \in 1..Lines(h) :
              /\ h.at[k] < h.at[k + 1] /\ h.at[k + 1] <= Len(h.text) + 2
              /\ Written(h, k) = SubSeq(h.text, h.at[k], h.at[k + 1] - 2)
              /\ Len(Written(h, k)) = h.at[k + 1] - h.at[k] - 1
<1> DEFINE text == h.text
           at == h.at
           n == Lines(h)
           size == Len(text)
<1>1. /\ text \in Seq(STRING) /\ size \in Nat /\ Len(h.list) \in Nat
      /\ n = Len(h.list) + 3 /\ n \in Nat
      /\ at \in [1..(n + 1) -> Nat \ {0}] /\ at[1] = 1 /\ at[n + 1] = size + 2
  <2>1. h.list \in Seq([name: Seq(STRING), rest: Seq(STRING)])
    BY DEF HeadWritten
  <2>2. Len(h.list) \in Nat
    BY <2>1, LenProperties
  <2>3. n = Len(h.list) + 3 /\ n \in Nat
    BY <2>2 DEF Lines
  <2>4. text \in Seq(STRING) /\ at \in [1..(n + 1) -> Nat \ {0}]
        /\ at[1] = 1 /\ at[n + 1] = size + 2
    BY DEF HeadWritten
  <2>5. size \in Nat
    BY <2>4, LenProperties
  <2> QED BY <2>2, <2>3, <2>4, <2>5
<1>2. \A k \in 1..n : /\ at[k + 1] = at[k] + Len(Written(h, k)) + 1
                      /\ SubSeq(text, at[k], at[k + 1] - 2) = Written(h, k)
  BY DEF HeadWritten
<1>3. \A k \in 1..(n + 1) : at[k] \in Nat \ {0}
  BY <1>1
<1> HIDE DEF text, at, n, size
<1>4. ASSUME NEW k \in 1..n
      PROVE  at[k] < at[k + 1] /\ Len(Written(h, k)) = at[k + 1] - at[k] - 1
  <2> DEFINE i == at[k]
             j == at[k + 1] - 2
             S == {text[m] : m \in i..j}
             w == Len(Written(h, k))
  <2>1. k \in 1..(n + 1) /\ k + 1 \in 1..(n + 1)
    BY <1>1
  <2>2. i \in Nat \ {0} /\ at[k + 1] \in Nat /\ j \in Int
    BY <1>3, <2>1
  <2>3. at[k + 1] = i + w + 1 /\ Written(h, k) = SubSeq(text, i, j)
    BY <1>2
  <2>4. \A m \in i..j : text[m] \in S
    OBVIOUS
  <2> HIDE DEF S, i
  <2>5. Len(SubSeq(text, i, j)) = IF i <= j THEN j - i + 1 ELSE 0
    <3> HIDE DEF j
    <3> QED BY <2>2, <2>4, SubSeqProperties
  <2>6. w = IF i <= j THEN j - i + 1 ELSE 0
    BY <2>3, <2>5
  <2> HIDE DEF w
  <2>7. w \in Nat
    BY <2>2, <2>6
  <2>8. i < at[k + 1] /\ w = at[k + 1] - i - 1
    BY <2>2, <2>3, <2>7
  <2> QED BY <2>8 DEF i, w
<1>5. ASSUME NEW k \in 1..n PROVE at[k + 1] <= size + 2
  <2> DEFINE l == k + 1
             m == n + 1
  <2>1. m \in Nat /\ l \in 1..m /\ m \in l..m /\ m - l \in Nat
    BY <1>1
  <2>2. at \in [1..m -> Nat]
    BY <1>1
  <2>3. \A i \in 1..(m - 1) : at[i] < at[i + 1]
    BY <1>1, <1>4
  <2> HIDE DEF l, m
  <2>4. at[l] + (m - l) <= at[m]
    BY <2>1, <2>2, <2>3, Grows
  <2>5. at[l] \in Nat /\ at[m] \in Nat
    BY <2>1, <2>2
  <2>6. at[l] <= at[m]
    BY <2>1, <2>4, <2>5
  <2> QED BY <1>1, <2>6 DEF l, m
<1> QED BY <1>1, <1>2, <1>3, <1>4, <1>5 DEF text, at, n, size

(* Each line is found as it was written.                                   *)
LEMMA HeadLine ==
  ASSUME NEW h, HeadWritten(h), NEW k \in 1..Lines(h)
  PROVE  /\ End(h.text, Eol, h.at[k]) = h.at[k + 1] - 2
         /\ Line(h.text, h.at[k]) = Written(h, k)
         /\ h.at[k] <= Len(h.text) + 1
         /\ \A i \in 1..Len(Written(h, k)) :
              h.text[h.at[k] + i - 1] = Written(h, k)[i]
<1> DEFINE text == h.text
           at == h.at
           n == Lines(h)
           size == Len(text)
           line == Written(h, k)
           i == at[k]
           j == at[k + 1]
<1>1. /\ text \in Seq(STRING) /\ size \in Nat /\ n \in Nat
      /\ i \in Nat \ {0} /\ j \in Nat /\ at[n + 1] = size + 2
      /\ i < j /\ j <= size + 2 /\ line = SubSeq(text, i, j - 2)
      /\ Len(line) = j - i - 1
  <2>1. k \in 1..(n + 1) /\ k + 1 \in 1..(n + 1) /\ n \in Nat
    BY HeadPlaces
  <2>2. text \in Seq(STRING) /\ size \in Nat /\ at[n + 1] = size + 2
    BY HeadPlaces
  <2>3. i \in Nat \ {0} /\ j \in Nat
    BY <2>1, HeadPlaces
  <2>4. i < j /\ j <= size + 2 /\ line = SubSeq(text, i, j - 2)
        /\ Len(line) = j - i - 1
    BY HeadPlaces
  <2> QED BY <2>1, <2>2, <2>3, <2>4
<1>2. Lacks(line, Eol) /\ (k < n => text[j - 1] = Eol)
  BY DEF HeadWritten
<1>3. k < n \/ j = at[n + 1]
  <2>1. k \in 1..n /\ n \in Nat
    BY <1>1
  <2>2. k < n \/ k = n
    BY <2>1
  <2> QED BY <2>2
<1>4. size = Len(text)
  OBVIOUS
<1>10. k < n => j <= size + 1
  <2> SUFFICES ASSUME k < n PROVE j <= size + 1
    OBVIOUS
  <2>1. k + 1 \in 1..n
    BY <1>1
  <2>2. at[k + 1] < at[k + 1 + 1] /\ at[k + 1 + 1] <= size + 2
    BY <2>1, HeadPlaces
  <2>3. k + 1 + 1 \in 1..(n + 1)
    BY <1>1, <2>1
  <2>4. at[k + 1 + 1] \in Nat
    BY <2>3, HeadPlaces
  <2> HIDE DEF at, size
  <2> QED BY <1>1, <2>2, <2>4
<1> HIDE DEF text, at, n, size, line, i, j
<1>5. ASSUME NEW m \in 1..Len(line) PROVE text[i + m - 1] = line[m]
  <2> DEFINE e == j - 2
  <2>1. \A x \in i..e : text[x] \in STRING
    <3>1. \A x \in i..e : x \in 1..Len(text)
      BY <1>1, <1>4
    <3> QED BY <1>1, <3>1, ElementOfSeq
  <2>2. i \in Int /\ e \in Int /\ m \in 1..(e - i + 1)
    BY <1>1
  <2> HIDE DEF e
  <2>3. SubSeq(text, i, e)[m] = text[i + m - 1]
    BY <2>1, <2>2, SubSeqProperties
  <2> QED BY <1>1, <2>3 DEF e
<1>6. ASSUME NEW x \in i..(j - 2) PROVE text[x] # Eol
  <2> DEFINE m == x - i + 1
  <2>1. m \in 1..Len(line) /\ i + m - 1 = x
    BY <1>1
  <2> HIDE DEF m
  <2>2. text[x] = line[m] /\ line[m] # Eol
    BY <1>2, <1>5, <2>1 DEF Lacks
  <2> QED BY <2>2
<1>7. End(text, Eol, i) = j - 2
  <2>1. CASE k < n
    <3> DEFINE f == j - 1
    <3>1. text[f] = Eol
      BY <1>2, <2>1
    <3>2. f \in i..Len(text)
      BY <1>1, <1>4, <1>10, <2>1
    <3>3. \A x \in i..(f - 1) : text[x] # Eol
      BY <1>1, <1>6
    <3>5. Len(text) \in Nat /\ i \in Nat /\ f # 0 /\ f - 1 = j - 2
      BY <1>1, <1>4
    <3> HIDE DEF f
    <3>6. Find(text, Eol, i) = f
      BY <3>1, <3>2, <3>3, <3>5, FindAt
    <3> QED BY <3>5, <3>6 DEF End
  <2>2. CASE j = at[n + 1]
    <3>1. j - 2 = Len(text)
      BY <1>1, <1>4, <2>2
    <3>2. \A x \in i..Len(text) : text[x] # Eol
      BY <1>6, <3>1
    <3>3. Find(text, Eol, i) = 0
      BY <1>1, <1>4, <3>2, FindNone
    <3> QED BY <3>1, <3>3 DEF End
  <2> QED BY <1>3, <2>1, <2>2
<1>8. Line(text, i) = line
  BY <1>1, <1>7 DEF Line
<1>9. i <= Len(text) + 1
  BY <1>1, <1>4
<1> QED BY <1>5, <1>7, <1>8, <1>9 DEF text, line, i, j, at

LEMMA Both ==
  ASSUME NEW S, NEW T
  PROVE  \E U : S \subseteq U /\ T \subseteq U
<1> WITNESS S \cup T
<1> QED OBVIOUS

LEMMA Literals ==
  /\ LET sep == <<":">>
     IN  sep \in Seq({":"}) /\ Len(sep) = 1 /\ sep[1] = ":"
  /\ LET pre == <<"G", "E", "T", Space, "/">>
     IN  /\ pre \in Seq({"G", "E", "T", Space, "/"}) /\ Len(pre) = 5
         /\ pre[2] = "E" /\ pre[3] = "T" /\ pre[4] = Space /\ pre[5] = "/"
  /\ LET post == <<Space, "H", "/", "1", ".", "1">>
     IN  /\ post \in Seq({Space, "H", "/", "1", "."}) /\ Len(post) = 6
         /\ post[1] = Space
OBVIOUS

(* Three sequences behind one another.                                     *)
Joined(w, a, b, c) ==
  /\ Len(w) = Len(a) + Len(b) + Len(c)
  /\ \A i \in 1..Len(a) : w[i] = a[i]
  /\ \A i \in 1..Len(b) : w[Len(a) + i] = b[i]
  /\ \A i \in 1..Len(c) : w[Len(a) + Len(b) + i] = c[i]

LEMMA Join ==
  ASSUME NEW S, NEW a \in Seq(S), NEW b \in Seq(S), NEW c \in Seq(S)
  PROVE  a \o b \o c \in Seq(S) /\ Joined(a \o b \o c, a, b, c)
<1> DEFINE ab == a \o b
           w  == ab \o c
           la == Len(a)
           lb == Len(b)
           lc == Len(c)
<1>1. la \in Nat /\ lb \in Nat /\ lc \in Nat
  BY LenProperties
<1>2. ab \in Seq(S) /\ Len(ab) = la + lb
      /\ \A i \in 1..(la + lb) : ab[i] = IF i <= la THEN a[i] ELSE b[i - la]
  BY ConcatProperties
<1> HIDE DEF ab, la, lb
<1>3. w \in Seq(S) /\ Len(w) = Len(ab) + lc
      /\ \A i \in 1..(Len(ab) + lc) :
           w[i] = IF i <= Len(ab) THEN ab[i] ELSE c[i - Len(ab)]
  BY <1>2, ConcatProperties
<1> HIDE DEF w, lc
<1>4. Len(w) = la + lb + lc
      /\ \A i \in 1..(la + lb + lc) :
           w[i] = IF i <= la + lb THEN ab[i] ELSE c[i - (la + lb)]
  BY <1>2, <1>3
<1>5. ASSUME NEW i \in 1..la PROVE w[i] = a[i]
  <2>1. i \in 1..(la + lb + lc) /\ i <= la + lb /\ i \in 1..(la + lb) /\ i <= la
    BY <1>1
  <2> QED BY <1>2, <1>4, <2>1
<1>6. ASSUME NEW i \in 1..lb PROVE w[la + i] = b[i]
  <2> DEFINE j == la + i
  <2>1. j \in 1..(la + lb + lc) /\ j <= la + lb
        /\ j \in 1..(la + lb) /\ ~(j <= la) /\ j - la = i
    BY <1>1
  <2> HIDE DEF j
  <2>2. w[j] = b[i]
    BY <1>2, <1>4, <2>1
  <2> QED BY <2>2 DEF j
<1>7. ASSUME NEW i \in 1..lc PROVE w[la + lb + i] = c[i]
  <2> DEFINE j == la + lb + i
  <2>1. j \in 1..(la + lb + lc) /\ ~(j <= la + lb) /\ j - (la + lb) = i
    BY <1>1
  <2> HIDE DEF j
  <2>2. w[j] = c[i]
    BY <1>4, <2>1
  <2> QED BY <2>2 DEF j
<1>8. Joined(w, a, b, c)
  BY <1>4, <1>5, <1>6, <1>7 DEF Joined, la, lb, lc
<1> QED BY <1>3, <1>8 DEF w, ab

(* A header is read as it was written, wherever there are more colons.     *)
LEMMA HeaderRead ==
  ASSUME NEW S, NEW name \in Seq(S), NEW rest \in Seq(S), Lacks(name, ":"),
         NEW sep, Len(sep) = 1, sep[1] = ":",
         NEW line \in Seq(S), Joined(line, name, sep, rest)
  PROVE  /\ Find(line, ":", 1) = Len(name) + 1
         /\ Len(line) = Len(name) + 1 + Len(rest)
         /\ SubSeq(line, 1, Len(name)) = name
         /\ rest # <<>> => Value(line) = Tail(rest)
<1> DEFINE n == Len(name)
           v == Len(rest)
<1>1. name \in Seq(S) /\ rest \in Seq(S) /\ line \in Seq(S)
  OBVIOUS
<1>4. n \in Nat /\ v \in Nat
  BY LenProperties
<1>6. Len(line) = n + 1 + v
      /\ (\A i \in 1..n : line[i] = name[i])
      /\ (\A i \in 1..1 : line[n + i] = sep[i])
      /\ (\A i \in 1..v : line[n + 1 + i] = rest[i])
  BY DEF Joined
<1> HIDE DEF n, v
<1>7. \A i \in 1..n : line[i] = name[i]
  BY <1>6
<1>8. line[n + 1] = ":"
  BY <1>6
<1>9. \A i \in 1..v : line[n + 1 + i] = rest[i]
  BY <1>6
<1>10. Find(line, ":", 1) = n + 1
  <2> DEFINE f == n + 1
  <2>1. f \in 1..Len(line) /\ Len(line) \in Nat /\ f - 1 = n
    BY <1>4, <1>6
  <2>2. \A i \in 1..(f - 1) : line[i] # ":"
    BY <1>7, <2>1 DEF Lacks, n
  <2>3. line[f] = ":"
    BY <1>8
  <2> HIDE DEF f
  <2>4. 1 \in Nat
    OBVIOUS
  <2>5. Find(line, ":", 1) = f
    BY <2>1, <2>2, <2>3, <2>4, FindAt
  <2> QED BY <2>5 DEF f
<1>11. SubSeq(line, 1, n) = name
  <2>1. 1 \in Nat \ {0} /\ n \in (1 - 1)..Len(line) /\ n \in (1 - 1)..Len(name)
        /\ n - 1 = n - 1
    BY <1>4, <1>6 DEF n
  <2>2. \A m \in 1..n : line[m] = name[1 + (m - 1)]
    <3>1. \A m \in 1..n : 1 + (m - 1) = m
      BY <1>4
    <3> QED BY <1>7, <3>1
  <2>3. SubSeq(line, 1, n) = SubSeq(name, 1, n)
    BY <1>1, <1>6, <2>1, <2>2, SameParts
  <2>4. SubSeq(name, 1, n) = name
    BY <1>1, SubSeqFull DEF n
  <2> QED BY <2>3, <2>4
<1>12. ASSUME rest # <<>> PROVE Value(line) = Tail(rest)
  <2> DEFINE i == n + 3
             p == n + 1 + v
  <2>1. v # 0
    BY <1>1, <1>12, EmptySeq DEF v
  <2>2. i \in Nat \ {0} /\ 2 \in Nat \ {0} /\ p \in (i - 1)..Len(line)
        /\ v \in (2 - 1)..Len(rest) /\ p - i = v - 2
    BY <1>4, <1>6, <2>1 DEF v
  <2>3. ASSUME NEW m \in i..p PROVE line[m] = rest[2 + (m - i)]
    <3>1. m - n - 1 \in 1..v /\ n + 1 + (m - n - 1) = m /\ 2 + (m - i) = m - n - 1
      BY <1>4
    <3> QED BY <1>9, <3>1
  <2>4. n + 1 + 2 = i /\ Len(line) = p
    BY <1>4, <1>6
  <2> HIDE DEF i, p
  <2>5. SubSeq(line, i, p) = SubSeq(rest, 2, v)
    BY <1>1, <1>6, <2>2, <2>3, SameParts
  <2>6. SubSeq(rest, 2, v) = Tail(rest)
    BY <1>1, <1>12, TailIsSubSeq DEF v
  <2> QED BY <1>10, <2>4, <2>5, <2>6 DEF Value
<1> QED BY <1>6, <1>10, <1>11, <1>12 DEF n, v

(* So is the path, whatever '/' it has.                                    *)
LEMMA PathRead ==
  ASSUME NEW S, NEW path \in Seq(S), NEW text \in Seq(S), Lacks(path, Space),
         text[2] = "E", text[3] = "T", text[4] = Space, text[5] = "/",
         \A i \in 1..Len(path) : text[5 + i] = path[i],
         text[6 + Len(path)] = Space, 6 + Len(path) <= Len(text)
  PROVE  RequestStart(text).map[Path] = path
<1> DEFINE n == Len(path)
<1>1. path \in Seq(S) /\ text \in Seq(S)
  OBVIOUS
<1>5. n \in Nat
  BY LenProperties
<1>9. text[2] = "E" /\ text[3] = "T" /\ text[4] = Space /\ text[5] = "/"
  OBVIOUS
<1>10. \A i \in 1..n : text[5 + i] = path[i]
  OBVIOUS
<1>11. text[6 + n] = Space
  OBVIOUS
<1>12. Len(text) \in Nat /\ 6 + n <= Len(text)
  BY LenProperties
<1> HIDE DEF n
<1>13. Find(text, "/", 2) = 5
  <2>1. 2 \in Nat /\ 5 \in 2..Len(text)
    BY <1>5, <1>12
  <2>2. \A j \in 2..(5 - 1) : text[j] # "/"
    <3>1. \A j \in 2..(5 - 1) : j = 2 \/ j = 3 \/ j = 4
      OBVIOUS
    <3> QED BY <1>9, <3>1 DEF Space
  <2> QED BY <1>9, <1>12, <2>1, <2>2, FindAt
<1>14. Find(text, Space, 5) = 6 + n
  <2> DEFINE f == 6 + n
  <2>1. 5 \in Nat /\ f \in 5..Len(text)
    BY <1>5, <1>12
  <2>2. ASSUME NEW j \in 5..(f - 1) PROVE text[j] # Space
    <3>1. CASE j = 5
      BY <1>9, <3>1 DEF Space
    <3>2. CASE j # 5
      <4>1. j - 5 \in 1..n /\ 5 + (j - 5) = j
        BY <1>5, <3>2
      <4> QED BY <1>10, <4>1 DEF Lacks, n
    <3> QED BY <3>1, <3>2
  <2>3. text[f] = Space
    BY <1>11
  <2> HIDE DEF f
  <2>4. Find(text, Space, 5) = f
    BY <1>12, <2>1, <2>2, <2>3, FindAt
  <2> QED BY <2>4 DEF f
<1>15. SubSeq(text, 6, 5 + n) = path
  <2> DEFINE p == 5 + n
  <2>1. 6 \in Nat \ {0} /\ 1 \in Nat \ {0} /\ p \in (6 - 1)..Len(text)
        /\ n \in (1 - 1)..Len(path) /\ p - 6 = n - 1
    BY <1>5, <1>12 DEF n
  <2>2. ASSUME NEW m \in 6..p PROVE text[m] = path[1 + (m - 6)]
    <3>1. m - 5 \in 1..n /\ 5 + (m - 5) = m /\ 1 + (m - 6) = m - 5
      BY <1>5
    <3> QED BY <1>10, <3>1
  <2> HIDE DEF p
  <2>3. SubSeq(text, 6, p) = SubSeq(path, 1, n)
    BY <1>1, <2>1, <2>2, SameParts
  <2>4. SubSeq(path, 1, n) = path
    BY <1>1, SubSeqFull DEF n
  <2> QED BY <2>3, <2>4 DEF p
<1>16. 5 + 1 = 6 /\ 6 + n - 1 = 5 + n
  BY <1>5
<1>17. RequestStart(text).map[Path] =
         SubSeq(text, Find(text, "/", 2) + 1,
                Find(text, Space, Find(text, "/", 2)) - 1)
  BY DEF RequestStart
<1> DEFINE i == Find(text, "/", 2)
           j == Find(text, Space, i)
<1>18. i = 5 /\ j = 6 + n
  BY <1>13, <1>14
<1> HIDE DEF i, j
<1>19. i + 1 = 6 /\ j - 1 = 5 + n
  BY <1>5, <1>18
<1> QED BY <1>15, <1>17, <1>19 DEF i, j

(* What the lines of a request hold.                                       *)
LEMMA RequestLine ==
  ASSUME NEW h, HeadWritten(h)
  PROVE  /\ h.path \in Seq(STRING) /\ h.body \in Seq(STRING)
         /\ RequestStart(h.text).map[Path] = h.path
<1> DEFINE pre  == <<"G", "E", "T", Space, "/">>
           post == <<Space, "H", "/", "1", ".", "1">>
           line == Written(h, 1)
           text == h.text
           path == h.path
           n    == Len(path)
<1>1. path \in Seq(STRING) /\ h.body \in Seq(STRING) /\ Lacks(path, Space)
  BY DEF HeadWritten
<1>2. line = pre \o path \o post
  BY DEF Written
<1> DEFINE Literal == {"G", "E", "T", Space, "/", "H", "1", "."}
<1>3. PICK S : STRING \subseteq S /\ Literal \subseteq S
  <2> HIDE DEF Literal
  <2> QED BY Both
<1>4. pre \in Seq(S) /\ Len(pre) = 5 /\ pre[2] = "E" /\ pre[3] = "T"
      /\ pre[4] = Space /\ pre[5] = "/"
  <2>1. pre \in Seq({"G", "E", "T", Space, "/"}) /\ Len(pre) = 5
        /\ pre[2] = "E" /\ pre[3] = "T" /\ pre[4] = Space /\ pre[5] = "/"
    BY Literals
  <2>2. {"G", "E", "T", Space, "/"} \subseteq S
    BY <1>3
  <2> QED BY <2>1, <2>2, SeqMonotonic
<1>5. post \in Seq(S) /\ Len(post) = 6 /\ post[1] = Space
  <2>1. post \in Seq({Space, "H", "/", "1", "."}) /\ Len(post) = 6
        /\ post[1] = Space
    BY Literals
  <2>2. {Space, "H", "/", "1", "."} \subseteq S
    BY <1>3
  <2> QED BY <2>1, <2>2, SeqMonotonic
<1>6. path \in Seq(S)
  BY <1>1, <1>3, SeqMonotonic
<1>7. text \in Seq(STRING) /\ text \in Seq(S) /\ Len(text) \in Nat
  <2>1. text \in Seq(STRING)
    BY DEF HeadWritten
  <2> QED BY <1>3, <2>1, SeqMonotonic, LenProperties
<1>8. Len(line) <= Len(text) /\ \A i \in 1..Len(line) : text[i] = line[i]
  <2> DEFINE e == h.at[1 + 1]
  <2>1. 1 \in 1..Lines(h) /\ 1 + 1 \in 1..Lines(h) /\ 1 + 1 \in 1..(Lines(h) + 1)
    BY HeadPlaces
  <2>2. h.at[1] = 1 /\ Len(line) = e - h.at[1] - 1 /\ e \in Nat
    BY <2>1, HeadPlaces
  <2>3. e <= Len(text) + 1 /\ \A i \in 1..Len(line) : text[h.at[1] + i - 1] = line[i]
    BY <2>1, HeadLine
  <2> HIDE DEF e, line, text
  <2>4. Len(line) <= Len(text)
    BY <1>7, <2>2, <2>3
  <2>5. Len(line) \in Int
    BY <2>2
  <2>6. ASSUME NEW i \in 1..Len(line) PROVE text[i] = line[i]
    <3>1. h.at[1] + i - 1 = i
      BY <2>2, <2>5
    <3> QED BY <2>3, <3>1
  <2> QED BY <2>4, <2>6
<1> HIDE DEF pre, post, line, text, path
<1>9. Joined(line, pre, path, post)
  BY <1>2, <1>4, <1>5, <1>6, Join
<1>10. n \in Nat
  BY <1>1, LenProperties
<1>11. Len(line) = 5 + n + 6
       /\ (\A i \in 1..5 : line[i] = pre[i])
       /\ (\A i \in 1..n : line[5 + i] = path[i])
       /\ (\A i \in 1..6 : line[5 + n + i] = post[i])
  BY <1>4, <1>5, <1>9 DEF Joined
<1> HIDE DEF n
<1>12. text[2] = "E" /\ text[3] = "T" /\ text[4] = Space /\ text[5] = "/"
  <2>1. \A i \in 1..5 : i \in 1..Len(line)
    BY <1>10, <1>11
  <2>2. \A i \in 1..5 : text[i] = pre[i]
    BY <1>8, <1>11, <2>1
  <2> QED BY <1>4, <2>2
<1>13. ASSUME NEW i \in 1..n PROVE text[5 + i] = path[i]
  <2>1. 5 + i \in 1..Len(line)
    BY <1>10, <1>11
  <2> QED BY <1>8, <1>11, <2>1
<1>14. text[6 + n] = Space
  <2>1. 5 + n + 1 \in 1..Len(line) /\ 5 + n + 1 = 6 + n
    BY <1>10, <1>11
  <2> QED BY <1>5, <1>8, <1>11, <2>1
<1>15. 6 + n <= Len(text)
  BY <1>7, <1>8, <1>10, <1>11
<1>16. RequestStart(text).map[Path] = path
  BY <1>1, <1>6, <1>7, <1>12, <1>13, <1>14, <1>15, PathRead DEF n
<1> QED BY <1>1, <1>16 DEF text, path

LEMMA HeaderLine ==
  ASSUME NEW h, HeadWritten(h), NEW i \in 1..Len(h.list)
  PROVE  LET line == Written(h, i + 1)
             idx  == Find(line, ":", 1)
         IN  /\ idx # 0 /\ (idx = Len(line) <=> h.list[i].rest = <<>>)
             /\ SubSeq(line, 1, idx - 1) = h.list[i].name
             /\ h.list[i].rest # <<>> => Value(line) = Tail(h.list[i].rest)
<1> DEFINE sep  == <<":">>
           line == Written(h, i + 1)
           name == h.list[i].name
           rest == h.list[i].rest
           idx  == Find(line, ":", 1)
<1>1. name \in Seq(STRING) /\ rest \in Seq(STRING) /\ Lacks(name, ":")
  <2>1. h.list \in Seq([name: Seq(STRING), rest: Seq(STRING)])
        /\ Lacks(name, ":")
    BY DEF HeadWritten
  <2>2. h.list[i] \in [name: Seq(STRING), rest: Seq(STRING)]
    BY <2>1, ElementOfSeq
  <2> QED BY <2>1, <2>2
<1>2. line = name \o sep \o rest
  <2>1. Len(h.list) \in Nat
    BY HeadPlaces
  <2> DEFINE k == i + 1
  <2>2. k \in 2..(Len(h.list) + 1) /\ k # 1 /\ k - 1 = i
        /\ k # Len(h.list) + 2 /\ k # Len(h.list) + 3
    BY <2>1
  <2> HIDE DEF k
  <2>3. Written(h, k) = h.list[k - 1].name \o <<":">> \o h.list[k - 1].rest
    BY <2>2 DEF Written
  <2> QED BY <2>2, <2>3 DEF k
<1>3. PICK S : STRING \subseteq S /\ {":"} \subseteq S
  BY Both
<1>4. sep \in Seq(S) /\ Len(sep) = 1 /\ sep[1] = ":"
  <2>1. sep \in Seq({":"}) /\ Len(sep) = 1 /\ sep[1] = ":"
    BY Literals
  <2> QED BY <1>3, <2>1, SeqMonotonic
<1>5. name \in Seq(S) /\ rest \in Seq(S)
  BY <1>1, <1>3, SeqMonotonic
<1> HIDE DEF sep, line, name, rest
<1>6. line \in Seq(S) /\ Joined(line, name, sep, rest)
  BY <1>2, <1>4, <1>5, Join
<1>7. /\ idx = Len(name) + 1 /\ Len(line) = Len(name) + 1 + Len(rest)
      /\ SubSeq(line, 1, Len(name)) = name
      /\ rest # <<>> => Value(line) = Tail(rest)
  BY <1>1, <1>4, <1>5, <1>6, HeaderRead
<1>8. Len(name) \in Nat /\ Len(rest) \in Nat /\ (rest = <<>> <=> Len(rest) = 0)
  BY <1>1, LenProperties, EmptySeq
<1> HIDE DEF idx
<1>9. idx # 0 /\ (idx = Len(line) <=> rest = <<>>) /\ idx - 1 = Len(name)
  BY <1>7, <1>8
<1> QED BY <1>7, <1>9 DEF idx, line, name, rest

LEMMA HoldsMore ==
  ASSUME NEW h, NEW m \in Nat, NEW old, Holds(old, h, m)
  PROVE  Holds(Assign(old, h.list[m + 1].name, Tail(h.list[m + 1].rest)),
               h, m + 1)
<1> DEFINE list == h.list
           name == list[m + 1].name
           value == Tail(list[m + 1].rest)
           new == Assign(old, name, value)
<1>1. 1..(m + 1) = 1..m \cup {m + 1}
  OBVIOUS
<1>2. Names(h, m + 1) = Names(h, m) \cup {name}
  BY <1>1 DEF Names
<1> HIDE DEF value
<1>3. /\ DOMAIN new = DOMAIN old \cup {name} /\ new[name] = value
      /\ \A n \in DOMAIN old : n # name => new[n] = old[n]
  BY DEF Assign
<1> HIDE DEF new
<1>4. DOMAIN new = {Path} \cup Names(h, m + 1)
  BY <1>2, <1>3 DEF Holds
<1>5. Path \notin Names(h, m + 1) => new[Path] = h.path
  BY <1>2, <1>3 DEF Holds
<1>6. ASSUME NEW i \in 1..(m + 1)
      PROVE  \/ new[list[i].name] = Tail(list[i].rest)
             \/ \E j \in (i + 1)..(m + 1) : list[j].name = list[i].name
  <2>1. CASE i = m + 1
    BY <1>3, <2>1 DEF value
  <2>2. CASE i # m + 1 /\ list[i].name = name
    <3>1. m + 1 \in (i + 1)..(m + 1)
      BY <2>2
    <3> QED BY <2>2, <3>1
  <2>3. CASE i # m + 1 /\ list[i].name # name
    <3>1. i \in 1..m
      BY <2>3
    <3>2. list[i].name \in DOMAIN old
      BY <3>1 DEF Holds, Names
    <3>3. new[list[i].name] = old[list[i].name]
      BY <1>3, <2>3, <3>2
    <3>4. \/ old[list[i].name] = Tail(list[i].rest)
          \/ \E j \in (i + 1)..m : list[j].name = list[i].name
      BY <3>1 DEF Holds
    <3>5. (i + 1)..m \subseteq (i + 1)..(m + 1)
      OBVIOUS
    <3> QED BY <3>3, <3>4, <3>5
  <2> QED BY <2>1, <2>2, <2>3
<1> QED BY <1>4, <1>5, <1>6 DEF Holds, new, value

LEMMA HeadStarts ==
  ASSUME NEW h, HeadWritten(h)
  PROVE  ReadTo(h, RequestStart(h.text), 2)
<1> DEFINE r == RequestStart(h.text)
<1>1. 1 \in 1..Lines(h) /\ 1 + 1 \in 1..(Lines(h) + 1)
  BY HeadPlaces
<1>2. End(h.text, Eol, h.at[1]) = h.at[1 + 1] - 2 /\ h.at[1] = 1
      /\ h.at[1 + 1] \in Nat
  BY <1>1, HeadLine, HeadPlaces
<1>3. End(h.text, Eol, 1) + 2 = h.at[2]
  <2> DEFINE e == h.at[2]
  <2>1. End(h.text, Eol, 1) = e - 2 /\ e \in Nat
    BY <1>2
  <2> HIDE DEF e
  <2>2. End(h.text, Eol, 1) + 2 = e
    BY <2>1
  <2> QED BY <2>2 DEF e
<1>4. r.map[Path] = h.path
  BY RequestLine
<1>5. r = [at |-> "headers", pt |-> h.at[2], map |-> r.map]
      /\ DOMAIN r.map = {Path}
  BY <1>3 DEF RequestStart
<1> HIDE DEF r
<1>6. Names(h, 2 - 2) = {} /\ 1..(2 - 2) = {}
  BY DEF Names
<1>7. Holds(r.map, h, 2 - 2) /\ ~Bare(h, 2 - 2)
  BY <1>4, <1>5, <1>6 DEF Holds, Bare
<1> QED BY <1>5, <1>7 DEF ReadTo, r

LEMMA HeadStep ==
  ASSUME NEW h, HeadWritten(h), NEW k \in 2..(Len(h.list) + 2),
         NEW r, ReadTo(h, r, k)
  PROVE  LET n == parse_http_request(h.text, r)
         IN  \/ ReadTo(h, n, k + 1) /\ k + 1 \in 2..(Len(h.list) + 2)
             \/ ReadOut(h, n)
<1> DEFINE line == Line(h.text, r.pt)
           idx  == Find(line, ":", 1)
           next == r.pt + Len(line) + 1
           n    == parse_http_request(h.text, r)
           last == Len(h.list) + 2
<1>1. r.pt = h.at[k] /\ r.at = "headers"
      /\ r = [at |-> "headers", pt |-> h.at[k], map |-> r.map]
      /\ Holds(r.map, h, k - 2) /\ ~Bare(h, k - 2)
  BY DEF ReadTo
<1>2. Len(h.list) \in Nat /\ k \in 1..Lines(h) /\ k + 1 \in 1..(Lines(h) + 1)
      /\ k \in 1..(Lines(h) + 1) /\ last + 1 = Lines(h)
  BY HeadPlaces
<1>3. /\ line = Written(h, k) /\ ~(r.pt > Len(h.text) + 1)
      /\ next = h.at[k + 1]
  <2>1. h.at[k] \in Nat /\ h.at[k + 1] \in Nat /\ Len(h.text) \in Nat
    BY <1>2, HeadPlaces
  <2>2. line = Written(h, k) /\ h.at[k] <= Len(h.text) + 1
    BY <1>1, <1>2, HeadLine
  <2>3. Len(Written(h, k)) = h.at[k + 1] - h.at[k] - 1
    BY <1>2, HeadPlaces
  <2> DEFINE a == h.at[k]
             b == h.at[k + 1]
             size == Len(h.text)
             w == Len(line)
  <2>4. a \in Nat /\ b \in Nat /\ size \in Nat /\ a <= size + 1
        /\ w = b - a - 1 /\ r.pt = a
    BY <1>1, <2>1, <2>2, <2>3
  <2> HIDE DEF a, b, size, w, line
  <2>5. ~(r.pt > size + 1) /\ r.pt + w + 1 = b
    BY <2>4
  <2> QED BY <2>2, <2>5 DEF size, b, w
<1>4. CASE k = last
  <2>1. line = <<>>
    <3>1. k # 1 /\ ~(k \in 2..(Len(h.list) + 1)) /\ k # Len(h.list) + 3
      BY <1>2, <1>4
    <3> QED BY <1>3, <1>4, <3>1 DEF Written
  <2>2. idx = 0
    <3>1. Len(line) = 0 /\ \A j \in 1..Len(line) : line[j] # ":"
      BY <2>1
    <3> HIDE DEF line
    <3> QED BY <3>1, FindNone
  <2>3. Line(h.text, next) = h.body
    <3>1. k + 1 \in 1..Lines(h)
      BY <1>2, <1>4
    <3>2. Line(h.text, h.at[k + 1]) = Written(h, k + 1)
      BY <3>1, HeadLine
    <3>3. k + 1 # 1 /\ ~(k + 1 \in 2..(Len(h.list) + 1))
          /\ k + 1 # Len(h.list) + 2 /\ k + 1 = Len(h.list) + 3
      BY <1>2, <1>4
    <3>4. Written(h, k + 1) = h.body
      <4> DEFINE l == k + 1
      <4>1. l # 1 /\ ~(l \in 2..(Len(h.list) + 1))
            /\ l # Len(h.list) + 2 /\ l = Len(h.list) + 3
        BY <3>3
      <4> HIDE DEF l
      <4>2. Written(h, l) = h.body
        BY <4>1 DEF Written
      <4> QED BY <4>2 DEF l
    <3> QED BY <1>3, <3>2, <3>4
  <2>8. ~(next > Len(h.text) + 1)
    <3>1. k + 1 \in 1..Lines(h)
      BY <1>2, <1>4
    <3>2. h.at[k + 1] <= Len(h.text) + 1 /\ h.at[k + 1] \in Nat
          /\ Len(h.text) \in Nat
      BY <1>2, <3>1, HeadLine, HeadPlaces
    <3> HIDE DEF next
    <3> QED BY <1>3, <3>2
  <2> HIDE DEF line, next
  <2> DEFINE map == Assign(r.map, PostContent, h.body)
  <2>4. n = [r EXCEPT !.at = "done", !.map = map]
    BY <1>3, <2>2, <2>3, <2>8 DEF parse_http_request, line, next
  <2> HIDE DEF map
  <2>5. n.at = "done" /\ n.map = map
    BY <1>1, <2>4
  <2>6. k - 2 = Len(h.list)
    BY <1>2, <1>4
  <2> HIDE DEF n
  <2>7. ReadOut(h, n)
    BY <1>1, <2>5, <2>6 DEF ReadOut, map
  <2> QED BY <2>7 DEF n
<1>5. CASE k # last
  <2> DEFINE i == k - 1
  <2>1. i \in 1..Len(h.list) /\ i + 1 = k /\ k + 1 \in 2..last
    BY <1>2, <1>5
  <2> DEFINE rest == h.list[i].rest
             name == h.list[i].name
  <2>2. /\ idx # 0 /\ (idx = Len(line) <=> rest = <<>>)
        /\ SubSeq(line, 1, idx - 1) = name
        /\ rest # <<>> => Value(line) = Tail(rest)
    BY <1>3, <2>1, HeaderLine
  <2>3. k - 2 \in Nat /\ k - 2 + 1 = i /\ k + 1 - 2 = i
    BY <1>2, <2>1
  <2> HIDE DEF i, line, next, idx, rest, name
  <2>4. CASE rest = <<>>
    <3>1. n = [r EXCEPT !.at = "throws"]
      BY <1>3, <2>2, <2>4 DEF parse_http_request, line, next, idx
    <3>2. n.at = "throws"
      BY <1>1, <3>1
    <3>3. Bare(h, Len(h.list))
      BY <2>1, <2>4 DEF Bare, rest
    <3> HIDE DEF n
    <3>4. ReadOut(h, n)
      BY <3>2, <3>3 DEF ReadOut
    <3> QED BY <3>4 DEF n
  <2>5. CASE rest # <<>>
    <3> DEFINE map == Assign(r.map, name, Tail(rest))
    <3>1. n = [r EXCEPT !.pt = next, !.map = map]
      BY <1>3, <2>2, <2>5 DEF parse_http_request, line, next, idx
    <3> HIDE DEF map
    <3> DEFINE pt   == h.at[k]
               then == h.at[k + 1]
               old  == r.map
    <3>2. r = [at |-> "headers", pt |-> pt, map |-> old]
      BY <1>1
    <3>3. n = [r EXCEPT !.pt = then, !.map = map]
      BY <1>3, <3>1
    <3> HIDE DEF pt, then, n, old
    <3>4. n = [at |-> "headers", pt |-> then, map |-> map]
      BY <3>2, <3>3
    <3>5. n.map = map
      BY <3>4
    <3>6. Holds(map, h, k + 1 - 2)
      <4> DEFINE m == k - 2
      <4>1. m \in Nat /\ m + 1 = i /\ k + 1 - 2 = m + 1
        BY <2>3
      <4> HIDE DEF m
      <4>2. Holds(r.map, h, m)
        BY <1>1 DEF m
      <4>3. Holds(map, h, m + 1)
        BY <4>1, <4>2, HoldsMore DEF map, name, rest
      <4> QED BY <4>1, <4>3
    <3>7. ~Bare(h, k + 1 - 2)
      <4> DEFINE m == k - 2
      <4>1. m \in Nat /\ m + 1 = i /\ k + 1 - 2 = m + 1 /\ ~Bare(h, m)
        BY <1>1, <2>3
      <4> HIDE DEF m
      <4>2. \A x \in 1..(m + 1) : x \in 1..m \/ x = i
        BY <4>1
      <4> QED BY <2>5, <4>1, <4>2 DEF Bare, rest
    <3>8. ReadTo(h, n, k + 1)
      BY <3>4, <3>5, <3>6, <3>7 DEF ReadTo, then
    <3> QED BY <2>1, <3>8 DEF n
  <2> QED BY <2>4, <2>5
<1> QED BY <1>4, <1>5

-----------------------------------------------------------------------------
(* Ranges.                                                                 *)

LEMMA DigitsRead ==
  /\ \A d \in 0..9 : /\ DigitOf(Digits[d + 1]) = {d}
                     /\ Digits[d + 1] # "-" /\ Digits[d + 1] # "="
  /\ DigitOf("-") = {}
<1>1. \A d \in 0..9 : d = 0 \/ d = 1 \/ d = 2 \/ d = 3 \/ d = 4 \/ d = 5
                      \/ d = 6 \/ d = 7 \/ d = 8 \/ d = 9
  OBVIOUS
<1>2. /\ Digits[0 + 1] = "0" /\ Digits[1 + 1] = "1" /\ Digits[2 + 1] = "2"
      /\ Digits[3 + 1] = "3" /\ Digits[4 + 1] = "4" /\ Digits[5 + 1] = "5"
      /\ Digits[6 + 1] = "6" /\ Digits[7 + 1] = "7" /\ Digits[8 + 1] = "8"
      /\ Digits[9 + 1] = "9"
  BY DEF Digits
<1>3. \A d \in 0..9 : Digits[d + 1] # "-" /\ Digits[d + 1] # "="
  <2> SUFFICES ASSUME NEW d \in 0..9
               PROVE  Digits[d + 1] # "-" /\ Digits[d + 1] # "="
    OBVIOUS
  <2> QED BY <1>1, <1>2
<1>4. ASSUME NEW c \in 0..9, NEW d \in 0..9, Digits[c + 1] = Digits[d + 1]
      PROVE  c = d
  BY <1>1, <1>2, <1>4
<1> QED BY <1>3, <1>4 DEF DigitOf

LEMMA CharactersType ==
  ASSUME NEW n, NumberWritten(n), NEW S, \A d \in 0..9 : Digits[d + 1] \in S
  PROVE  /\ Characters(n) \in Seq(S) /\ Len(Characters(n)) = Len(n.digits)
         /\ Len(n.digits) \in Nat
         /\ \A i \in 1..Len(n.digits) : n.digits[i] \in 0..9
              /\ Characters(n)[i] = Digits[n.digits[i] + 1]
<1>1. n.digits \in Seq(0..9) /\ Len(n.digits) \in Nat
  BY LenProperties DEF NumberWritten
<1>2. \A i \in 1..Len(n.digits) : n.digits[i] \in 0..9
  BY <1>1, ElementOfSeq
<1> DEFINE m == Len(n.digits)
           c == [i \in 1..m |-> Digits[n.digits[i] + 1]]
<1>3. c \in [1..m -> S]
  BY <1>2
<1>4. m \in Nat /\ DOMAIN c = 1..m
  BY <1>1
<1>5. \A i \in 1..m : c[i] = Digits[n.digits[i] + 1]
  OBVIOUS
<1>6. Characters(n) = c
  BY DEF Characters
<1> HIDE DEF c, m
<1>7. c \in Seq(S) /\ Len(c) = m
  BY <1>3, <1>4
<1> QED BY <1>1, <1>2, <1>5, <1>6, <1>7 DEF m

(* Where the parts of a range are.                                         *)
LEMMA SpanPlaces ==
  ASSUME NEW r, SpanWritten(r)
  PROVE  LET f == Len(r.first.digits)
             l == Len(r.last.digits)
         IN  /\ f \in Nat /\ l \in Nat /\ Len(r.text) = 3 + f + l
             /\ r.text[1] = "b" /\ r.text[2] = "=" /\ r.text[3 + f] = "-"
             /\ \A i \in 1..f : /\ r.first.digits[i] \in 0..9
                                /\ r.text[2 + i] = Digits[r.first.digits[i] + 1]
             /\ \A i \in 1..l :
                  /\ r.last.digits[i] \in 0..9
                  /\ r.text[3 + f + i] = Digits[r.last.digits[i] + 1]
<1> DEFINE f == Len(r.first.digits)
           l == Len(r.last.digits)
           a == Characters(r.first)
           b == Characters(r.last)
           pre == <<"b", "=">>
           dash == <<"-">>
           w == pre \o a \o dash
           text == r.text
           S == {Digits[d + 1] : d \in 0..9} \cup {"b", "=", "-"}
<1>1. NumberWritten(r.first) /\ NumberWritten(r.last) /\ text = w \o b
  BY DEF SpanWritten
<1>2. \A d \in 0..9 : Digits[d + 1] \in S
  OBVIOUS
<1>3. pre \in Seq(S) /\ Len(pre) = 2 /\ pre[1] = "b" /\ pre[2] = "="
  <2>1. pre \in Seq({"b", "="}) /\ {"b", "="} \subseteq S
    OBVIOUS
  <2>2. pre \in Seq(S)
    BY <2>1, SeqMonotonic
  <2> QED BY <2>2
<1>4. dash \in Seq(S) /\ Len(dash) = 1 /\ dash[1] = "-"
  <2>1. dash \in Seq({"-"}) /\ {"-"} \subseteq S
    OBVIOUS
  <2>2. dash \in Seq(S)
    BY <2>1, SeqMonotonic
  <2> QED BY <2>2
<1> HIDE DEF S, pre, dash
<1>5. a \in Seq(S) /\ Len(a) = f /\ f \in Nat
      /\ \A i \in 1..f : r.first.digits[i] \in 0..9
                         /\ a[i] = Digits[r.first.digits[i] + 1]
  BY <1>1, <1>2, CharactersType
<1>6. b \in Seq(S) /\ Len(b) = l /\ l \in Nat
      /\ \A i \in 1..l : r.last.digits[i] \in 0..9
                         /\ b[i] = Digits[r.last.digits[i] + 1]
  BY <1>1, <1>2, CharactersType
<1> HIDE DEF a, b, f, l
<1>7. w \in Seq(S) /\ Joined(w, pre, a, dash)
  BY <1>3, <1>4, <1>5, Join
<1> HIDE DEF w, text
<1>8. Len(w) = 2 + f + 1
      /\ (\A i \in 1..2 : w[i] = pre[i])
      /\ (\A i \in 1..f : w[2 + i] = a[i])
      /\ (\A i \in 1..1 : w[2 + f + i] = dash[i])
  BY <1>3, <1>4, <1>5, <1>7 DEF Joined
<1>9. Len(w) = 3 + f /\ w[3 + f] = "-"
  <2>1. 1 \in 1..1 /\ 2 + f + 1 = 3 + f
    BY <1>5
  <2> QED BY <1>4, <1>8, <2>1
<1>10. Len(text) = 3 + f + l
       /\ \A i \in 1..(3 + f + l) :
            text[i] = IF i <= 3 + f THEN w[i] ELSE b[i - (3 + f)]
  <2>1. text = w \o b
    BY <1>1
  <2>2. /\ Len(w \o b) = Len(w) + Len(b)
        /\ \A i \in 1..(Len(w) + Len(b)) :
             (w \o b)[i] = IF i <= Len(w) THEN w[i] ELSE b[i - Len(w)]
    BY <1>6, <1>7, ConcatProperties
  <2>3. Len(w) = 3 + f /\ Len(b) = l
    BY <1>6, <1>9
  <2> QED BY <2>1, <2>2, <2>3
<1>11. text[1] = "b" /\ text[2] = "=" /\ text[3 + f] = "-"
  <2>1. 1 \in 1..(3 + f + l) /\ 1 <= 3 + f /\ 2 \in 1..(3 + f + l)
        /\ 2 <= 3 + f /\ 3 + f \in 1..(3 + f + l)
    BY <1>5, <1>6
  <2>2. text[1] = w[1] /\ text[2] = w[2] /\ text[3 + f] = w[3 + f]
    BY <1>5, <1>10, <2>1
  <2> QED BY <1>3, <1>8, <1>9, <2>2
<1>12. ASSUME NEW i \in 1..f PROVE text[2 + i] = a[i]
  <2> DEFINE j == 2 + i
  <2>1. j \in 1..(3 + f + l) /\ j <= 3 + f
    BY <1>5, <1>6
  <2> HIDE DEF j
  <2>2. text[j] = w[j]
    BY <1>10, <2>1
  <2> QED BY <1>8, <2>2 DEF j
<1>13. ASSUME NEW i \in 1..l PROVE text[3 + f + i] = b[i]
  <2> DEFINE j == 3 + f + i
  <2>1. j \in 1..(3 + f + l) /\ ~(j <= 3 + f) /\ j - (3 + f) = i
    BY <1>5, <1>6
  <2> HIDE DEF j
  <2>2. text[j] = b[i]
    BY <1>10, <2>1
  <2> QED BY <2>2 DEF j
<1> QED BY <1>5, <1>6, <1>10, <1>11, <1>12, <1>13 DEF f, l, text

(* What the first i digits of a number make.                               *)
Upto(n, i) == IF i = 0 THEN None ELSE n.sums[i + 1]

LEMMA UptoSums ==
  ASSUME NEW n, NumberWritten(n)
  PROVE  /\ \A i \in 0..Len(n.digits) : Upto(n, i) = None <=> i = 0
         /\ \A i \in 1..Len(n.digits) :
              Upto(n, i) = 10 * (IF Upto(n, i - 1) = None THEN 0
                                 ELSE Upto(n, i - 1)) + n.digits[i]
         /\ Number(n) = Upto(n, Len(n.digits))
<1> DEFINE m == Len(n.digits)
           sums == n.sums
<1>1. n.digits \in Seq(0..9) /\ m \in Nat
      /\ sums \in [1..(m + 1) -> Nat] /\ sums[1] = 0
      /\ \A i \in 1..m : sums[i + 1] = 10 * sums[i] + n.digits[i]
  BY LenProperties DEF NumberWritten
<1>2. n.digits = <<>> <=> m = 0
  BY <1>1, EmptySeq
<1> HIDE DEF m, sums
<1>3. ASSUME NEW i \in 0..m PROVE Upto(n, i) = None <=> i = 0
  <2>1. i + 1 \in 1..(m + 1)
    BY <1>1
  <2>2. sums[i + 1] \in Nat
    BY <1>1, <2>1
  <2>3. sums[i + 1] # None
    BY <2>2 DEF None
  <2> QED BY <2>3 DEF Upto, sums
<1>4. ASSUME NEW i \in 1..m
      PROVE  Upto(n, i) = 10 * (IF Upto(n, i - 1) = None THEN 0
                                ELSE Upto(n, i - 1)) + n.digits[i]
  <2>1. i - 1 \in 0..m /\ i - 1 + 1 = i /\ i # 0
    BY <1>1
  <2>2. sums[i + 1] = 10 * sums[i] + n.digits[i]
    BY <1>1
  <2>3. Upto(n, i) = sums[i + 1]
    BY <2>1 DEF Upto, sums
  <2>4. CASE i = 1
    <3>1. Upto(n, i - 1) = None
      BY <1>3, <2>1, <2>4
    <3> QED BY <1>1, <2>2, <2>3, <2>4, <3>1
  <2>5. CASE i # 1
    <3>1. i - 1 # 0
      BY <2>1, <2>5
    <3>2. Upto(n, i - 1) # None /\ Upto(n, i - 1) = sums[i]
      BY <1>3, <2>1, <3>1 DEF Upto, sums
    <3> QED BY <2>2, <2>3, <3>2
  <2> QED BY <2>4, <2>5
<1>5. Number(n) = Upto(n, m)
  BY <1>2 DEF Number, Upto, m
<1> QED BY <1>3, <1>4, <1>5 DEF m

LEMMA UptoGrows ==
  ASSUME NEW n, NumberWritten(n), NEW i \in 1..Len(n.digits)
  PROVE  /\ Upto(n, i) <= Number(n) /\ Upto(n, i) \in Nat /\ Number(n) \in Nat
<1> DEFINE m == Len(n.digits)
           sums == n.sums
           T == {k \in i..m : ~(sums[i + 1] <= sums[k + 1])}
<1>1. n.digits \in Seq(0..9) /\ m \in Nat
      /\ sums \in [1..(m + 1) -> Nat]
      /\ \A k \in 1..m : sums[k + 1] = 10 * sums[k] + n.digits[k]
  BY LenProperties DEF NumberWritten
<1>2. \A k \in 1..m : n.digits[k] \in Nat
  <2>1. \A k \in 1..m : n.digits[k] \in 0..9
    BY <1>1, ElementOfSeq
  <2> QED BY <2>1
<1>3. i \in 1..m /\ n.digits # <<>>
  BY <1>1, EmptySeq
<1> HIDE DEF m, sums
<1>4. Upto(n, i) = sums[i + 1] /\ Number(n) = sums[m + 1]
  BY <1>1, <1>3 DEF Upto, Number, m, sums
<1>5. i + 1 \in 1..(m + 1) /\ m + 1 \in 1..(m + 1)
  BY <1>1, <1>3
<1>6. sums[i + 1] \in Nat /\ sums[m + 1] \in Nat
  BY <1>1, <1>5
<1>7. sums[i + 1] <= sums[m + 1]
  <2>1. CASE m \notin T
    BY <1>1, <1>3, <2>1
  <2>2. CASE m \in T
    <3>1. T \subseteq Nat /\ T # {}
      BY <1>3, <2>2
    <3>2. PICK k \in T : \A l \in T : k <= l
      BY <3>1, LeastNat
    <3>3. k \in i..m /\ ~(sums[i + 1] <= sums[k + 1])
      BY <3>2
    <3>4. k # i
      BY <1>6, <3>3
    <3>5. k - 1 \in i..m /\ k - 1 + 1 = k /\ k \in 1..m /\ k \in 1..(m + 1)
          /\ k + 1 \in 1..(m + 1) /\ ~(k <= k - 1)
      BY <1>1, <1>3, <3>3, <3>4
    <3>6. sums[i + 1] <= sums[k]
      BY <3>2, <3>5
    <3>7. sums[k + 1] = 10 * sums[k] + n.digits[k] /\ sums[k] \in Nat
          /\ sums[k + 1] \in Nat /\ n.digits[k] \in Nat
      BY <1>1, <1>2, <3>5
    <3>8. sums[k] <= sums[k + 1]
      BY <3>7
    <3> QED BY <1>6, <3>3, <3>6, <3>7, <3>8
  <2> QED BY <2>1, <2>2
<1> QED BY <1>4, <1>6, <1>7

(* One number is read after the other, digit by digit, as long as none is  *)
(* too large.                                                              *)
Takes(number) == number <= LongMax

SpanRead(r, s) ==
  LET f == Len(r.first.digits)
      l == Len(r.last.digits)
      first == Number(r.first)
      last  == Number(r.last)
  IN  \/ \E i \in 0..f :
           /\ Takes(Upto(r.first, i))
           /\ s = [at |-> "first", pt |-> 3 + i, number |-> Upto(r.first, i),
                   first |-> None, last |-> None]
      \/ /\ f # 0 /\ l # 0 /\ Takes(first)
         /\ \E i \in 0..l :
              /\ Takes(Upto(r.last, i))
              /\ s = [at |-> "last", pt |-> 4 + f + i, number |-> Upto(r.last, i),
                      first |-> Number(r.first), last |-> None]
      \/ /\ s.at = "throws"
         /\ f = 0 \/ first > LongMax \/ last > LongMax
      \/ /\ f # 0 /\ s.at = "done" /\ s.first = first /\ Takes(first)
         /\ s.last = IF l = 0 THEN FileSize - 1 ELSE last
         /\ Takes(last)

LEMMA NoneTaken == Takes(None) /\ LongMax \in Nat
BY NumbersAssumption DEF Takes, None

LEMMA NumbersTaken ==
  ASSUME NEW n, NumberWritten(n), Takes(Upto(n, Len(n.digits)))
  PROVE  Takes(Number(n)) /\ ~(Number(n) > LongMax)
<1>1. Number(n) = Upto(n, Len(n.digits)) /\ Number(n) \in Int
  <2>1. Len(n.digits) \in Nat /\ (n.digits = <<>> <=> Len(n.digits) = 0)
    BY LenProperties, EmptySeq DEF NumberWritten
  <2>2. CASE Len(n.digits) = 0
    BY <2>1, <2>2, UptoSums DEF Number, None
  <2>3. CASE Len(n.digits) # 0
    <3>1. Len(n.digits) \in 1..Len(n.digits)
      BY <2>1, <2>3
    <3> QED BY <3>1, UptoGrows, UptoSums
  <2> QED BY <2>2, <2>3
<1> QED BY <1>1, NoneTaken DEF Takes

LEMMA SpanStarts ==
  ASSUME NEW r, SpanWritten(r)
  PROVE  SpanRead(r, RangeStart(r.text))
<1> DEFINE f == Len(r.first.digits)
           l == Len(r.last.digits)
           text == r.text
           m == Len(text)
<1>1. /\ f \in Nat /\ text[1] = "b" /\ text[2] = "=" /\ m \in Nat
      /\ 2 <= m
  <2>1. f \in Nat /\ l \in Nat /\ m = 3 + f + l
        /\ text[1] = "b" /\ text[2] = "="
    BY SpanPlaces
  <2> HIDE DEF f, l, text, m
  <2>2. m \in Nat /\ 2 <= m
    BY <2>1
  <2> QED BY <2>1, <2>2
<1> HIDE DEF text
<1>2. Find(text, "=", 1) = 2
  <2>1. \A j \in 1..(2 - 1) : text[j] # "="
    <3>1. \A j \in 1..(2 - 1) : j = 1
      OBVIOUS
    <3> QED BY <1>1, <3>1
  <2>2. 1 \in Nat /\ 2 \in 1..Len(text)
    BY <1>1
  <2> QED BY <1>1, <2>1, <2>2, FindAt
<1> HIDE DEF m
<1>3. 0 \in 0..f
  BY <1>1
<1>4. RangeStart(text) =
        [at |-> "first", pt |-> 3 + 0, number |-> Upto(r.first, 0),
         first |-> None, last |-> None]
      /\ Takes(Upto(r.first, 0))
  BY <1>2, NoneTaken DEF RangeStart, Upto
<1> QED BY <1>3, <1>4 DEF SpanRead, text

LEMMA SpanStep ==
  ASSUME NEW r, SpanWritten(r), NEW s, SpanRead(r, s), s.at \in {"first", "last"}
  PROVE  SpanRead(r, RangeOf(r.text, FileSize, s))
<1> DEFINE f == Len(r.first.digits)
           l == Len(r.last.digits)
           text == r.text
           digit == IF s.pt <= Len(text) THEN DigitOf(text[s.pt]) ELSE {}
           split == Find(text, "-", 1)
           n == RangeOf(text, FileSize, s)
<1>1. /\ f \in Nat /\ l \in Nat /\ Len(text) = 3 + f + l
      /\ text[1] = "b" /\ text[2] = "=" /\ text[3 + f] = "-"
      /\ \A i \in 1..f : /\ r.first.digits[i] \in 0..9
                         /\ text[2 + i] = Digits[r.first.digits[i] + 1]
      /\ \A i \in 1..l : /\ r.last.digits[i] \in 0..9
                         /\ text[3 + f + i] = Digits[r.last.digits[i] + 1]
  BY SpanPlaces
<1>2. NumberWritten(r.first) /\ NumberWritten(r.last)
  BY DEF SpanWritten
<1>3. split = 3 + f
  <2> DEFINE at == 3 + f
  <2> HIDE DEF text, f, l
  <2>1. at \in 1..Len(text) /\ 1 \in Nat /\ Len(text) \in Nat
    BY <1>1
  <2>2. ASSUME NEW j \in 1..(at - 1) PROVE text[j] # "-"
    <3>1. CASE j = 1 \/ j = 2
      BY <1>1, <3>1
    <3>2. CASE j > 2
      <4> DEFINE i == j - 2
      <4>1. i \in 1..f /\ 2 + i = j
        BY <1>1, <3>2
      <4> HIDE DEF i
      <4>2. text[j] = Digits[r.first.digits[i] + 1] /\ r.first.digits[i] \in 0..9
        BY <1>1, <4>1
      <4> QED BY <4>2, DigitsRead
    <3> QED BY <1>1, <3>1, <3>2
  <2>3. text[at] = "-"
    BY <1>1
  <2> HIDE DEF at
  <2>4. Find(text, "-", 1) = at
    BY <2>1, <2>2, <2>3, FindAt
  <2> QED BY <2>4 DEF at
<1> HIDE DEF f, l, text, digit, split
(* A digit is read.                                                        *)
<1>4. ASSUME NEW d \in 0..9, digit = {d}, NEW next,
             next = 10 * (IF s.number = None THEN 0 ELSE s.number) + d
      PROVE  /\ next > LongMax => n = [s EXCEPT !.at = "throws"]
             /\ ~(next > LongMax) => n = [s EXCEPT !.pt = @ + 1, !.number = next]
  <2>1. digit # {} /\ (CHOOSE x \in digit : TRUE) = d
    BY <1>4
  <2>2. WithDigit(s.number, CHOOSE x \in digit : TRUE) = next
    BY <1>4, <2>1 DEF WithDigit
  <2> HIDE DEF n
  <2> QED BY <2>1, <2>2 DEF RangeOf, digit, n
<1>5. CASE \E i \in 0..f :
             /\ Takes(Upto(r.first, i))
             /\ s = [at |-> "first", pt |-> 3 + i, number |-> Upto(r.first, i),
                     first |-> None, last |-> None]
  <2>1. PICK i \in 0..f :
               /\ Takes(Upto(r.first, i))
               /\ s = [at |-> "first", pt |-> 3 + i, number |-> Upto(r.first, i),
                       first |-> None, last |-> None]
    BY <1>5
  <2>2. s.at = "first" /\ s.pt = 3 + i /\ s.number = Upto(r.first, i)
        /\ s.first = None /\ s.last = None /\ i \in Nat
    BY <1>1, <2>1
  <2>3. CASE i # f
    <3> DEFINE j == i + 1
               d == r.first.digits[j]
    <3>1. j \in 1..f /\ 2 + j = 3 + i /\ j - 1 = i /\ j \in 0..f /\ 3 + i <= Len(text)
          /\ 3 + i + 1 = 3 + j
      BY <1>1, <2>3
    <3> HIDE DEF j
    <3>2. d \in 0..9 /\ text[3 + i] = Digits[d + 1]
      BY <1>1, <3>1
    <3> HIDE DEF d
    <3>3. digit = {d}
      BY <2>2, <3>1, <3>2, DigitsRead DEF digit
    <3>4. Upto(r.first, j) = 10 * (IF Upto(r.first, i) = None THEN 0
                                   ELSE Upto(r.first, i)) + d
      BY <1>2, <3>1, UptoSums DEF f, d
    <3> DEFINE u == Upto(r.first, i)
               v == Upto(r.first, j)
               p == 3 + i
               q == 3 + j
    <3>9. v = 10 * (IF s.number = None THEN 0 ELSE s.number) + d
      BY <2>2, <3>4
    <3>5. /\ v > LongMax => n = [s EXCEPT !.at = "throws"]
          /\ ~(v > LongMax) => n = [s EXCEPT !.pt = @ + 1, !.number = v]
      BY <1>4, <3>2, <3>3, <3>9
    <3>10. v <= Number(r.first) /\ v \in Nat /\ Number(r.first) \in Nat
      BY <1>2, <3>1, UptoGrows DEF f
    <3>6. s = [at |-> "first", pt |-> p, number |-> u,
               first |-> None, last |-> None]
      BY <2>1
    <3>7. q = p + 1
      BY <3>1
    <3> HIDE DEF u, v, p, q, n
    <3>11. CASE v > LongMax
      <4>1. n.at = "throws"
        BY <3>5, <3>6, <3>11
      <4>2. Number(r.first) > LongMax
        BY <3>10, <3>11, NoneTaken
      <4> QED BY <4>1, <4>2 DEF SpanRead, n, text
    <3>12. CASE ~(v > LongMax)
      <4>1. n = [at |-> "first", pt |-> q, number |-> v,
                 first |-> None, last |-> None]
        BY <3>5, <3>6, <3>7, <3>12
      <4>2. Takes(v)
        BY <3>10, <3>12, NoneTaken DEF Takes
      <4> QED BY <3>1, <4>1, <4>2 DEF SpanRead, n, q, v, f, text
    <3> QED BY <3>11, <3>12
  <2>4. CASE i = f
    <3>1. digit = {}
      <4>1. text[s.pt] = "-"
        BY <1>1, <2>2, <2>4
      <4> QED BY <4>1, DigitsRead DEF digit
    <3>2. s.number = Number(r.first) /\ (s.number = None <=> f = 0)
      <4>1. f \in 0..f
        BY <1>1
      <4> QED BY <1>2, <2>2, <2>4, <4>1, UptoSums DEF f
    <3>3. split = Len(text) <=> l = 0
      BY <1>1, <1>3
    <3>7. Takes(Number(r.first)) /\ ~(Number(r.first) > LongMax)
      BY <1>2, <2>1, <2>4, NumbersTaken DEF f
    <3>4. CASE f = 0
      <4>1. n = [s EXCEPT !.at = "throws"]
        BY <3>1, <3>2, <3>4 DEF RangeOf, digit
      <4>2. n.at = "throws"
        BY <2>1, <4>1
      <4> QED BY <3>4, <4>2 DEF SpanRead, n, f, text
    <3>5. CASE f # 0 /\ l = 0
      <4>1. n = [s EXCEPT !.at = "done", !.first = s.number, !.last = FileSize - 1]
        BY <2>2, <3>1, <3>2, <3>3, <3>5 DEF RangeOf, digit, split
      <4>2. n.at = "done" /\ n.first = s.number /\ n.last = FileSize - 1
        BY <2>1, <4>1
      <4>3. Takes(Number(r.last))
        BY <1>2, <3>5, NumbersTaken, NoneTaken DEF l, Upto
      <4> QED BY <3>2, <3>5, <3>7, <4>2, <4>3 DEF SpanRead, n, f, l, text
    <3>6. CASE f # 0 /\ l # 0
      <4> DEFINE k == 0
                 p == 4 + f + k
                 first == Number(r.first)
      <4>1. n = [s EXCEPT !.at = "last", !.first = s.number,
                          !.pt = split + 1, !.number = None]
        BY <2>2, <3>1, <3>2, <3>3, <3>6 DEF RangeOf, digit, split
      <4>2. split + 1 = p /\ s.number = first /\ Upto(r.last, k) = None
        BY <1>1, <1>3, <3>2 DEF Upto
      <4>3. k \in 0..l
        BY <1>1
      <4> HIDE DEF k, p, first, n
      <4>4. n = [at |-> "last", pt |-> p, number |-> Upto(r.last, k),
                 first |-> first, last |-> None]
        BY <2>1, <4>1, <4>2
      <4>5. Takes(Upto(r.last, k))
        BY <4>2, NoneTaken
      <4> QED BY <3>6, <3>7, <4>3, <4>4, <4>5 DEF SpanRead, n, f, l, text, p, first
    <3> QED BY <3>4, <3>5, <3>6
  <2> QED BY <2>3, <2>4
<1>6. CASE /\ f # 0 /\ l # 0
           /\ Takes(Number(r.first))
           /\ \E i \in 0..l :
                /\ Takes(Upto(r.last, i))
                /\ s = [at |-> "last", pt |-> 4 + f + i,
                        number |-> Upto(r.last, i),
                        first |-> Number(r.first), last |-> None]
  <2> DEFINE first == Number(r.first)
  <2>1. PICK i \in 0..l :
               /\ Takes(Upto(r.last, i))
               /\ s = [at |-> "last", pt |-> 4 + f + i,
                       number |-> Upto(r.last, i),
                       first |-> first, last |-> None]
    BY <1>6
  <2>2. s.at = "last" /\ s.pt = 4 + f + i /\ s.number = Upto(r.last, i)
        /\ s.first = first /\ s.last = None /\ i \in Nat
    BY <1>1, <2>1
  <2> HIDE DEF first
  <2>3. CASE i # l
    <3> DEFINE j == i + 1
               d == r.last.digits[j]
               p == 4 + f + i
    <3>1. j \in 1..l /\ 3 + f + j = p /\ j - 1 = i /\ j \in 0..l /\ p <= Len(text)
          /\ p + 1 = 4 + f + j
      <4> DEFINE m == Len(text)
      <4>1. f \in Nat /\ l \in Nat /\ m = 3 + f + l /\ i \in 0..l /\ i # l
        BY <1>1, <2>1, <2>3
      <4> HIDE DEF m
      <4>2. j \in 1..l /\ j - 1 = i /\ j \in 0..l
        BY <4>1
      <4>3. 3 + f + j = p /\ p + 1 = 4 + f + j /\ p <= m
        BY <4>1
      <4> QED BY <4>2, <4>3 DEF m
    <3> HIDE DEF j
    <3>2. d \in 0..9 /\ text[p] = Digits[d + 1]
      <4>1. text[3 + f + j] = Digits[d + 1] /\ d \in 0..9
        BY <1>1, <3>1
      <4> HIDE DEF p, d
      <4> QED BY <3>1, <4>1
    <3> HIDE DEF d
    <3>3. digit = {d}
      BY <2>2, <3>1, <3>2, DigitsRead DEF digit
    <3>4. Upto(r.last, j) = 10 * (IF Upto(r.last, i) = None THEN 0
                                  ELSE Upto(r.last, i)) + d
      BY <1>2, <3>1, UptoSums DEF l, d
    <3> DEFINE u == Upto(r.last, i)
               v == Upto(r.last, j)
               q == 4 + f + j
    <3>9. v = 10 * (IF s.number = None THEN 0 ELSE s.number) + d
      BY <2>2, <3>4
    <3>5. /\ v > LongMax => n = [s EXCEPT !.at = "throws"]
          /\ ~(v > LongMax) => n = [s EXCEPT !.pt = @ + 1, !.number = v]
      BY <1>4, <3>2, <3>3, <3>9
    <3>10. v <= Number(r.last) /\ v \in Nat /\ Number(r.last) \in Nat
      BY <1>2, <3>1, UptoGrows DEF l
    <3>6. s = [at |-> "last", pt |-> p, number |-> u,
               first |-> first, last |-> None]
      BY <2>1
    <3>7. q = p + 1
      BY <3>1
    <3> HIDE DEF u, v, p, q, n
    <3>11. CASE v > LongMax
      <4>1. n.at = "throws"
        BY <3>5, <3>6, <3>11
      <4>2. Number(r.last) > LongMax
        BY <3>10, <3>11, NoneTaken
      <4> QED BY <4>1, <4>2 DEF SpanRead, n, text
    <3>12. CASE ~(v > LongMax)
      <4>1. n = [at |-> "last", pt |-> q, number |-> v,
                 first |-> first, last |-> None]
        BY <3>5, <3>6, <3>7, <3>12
      <4>2. Takes(v)
        BY <3>10, <3>12, NoneTaken DEF Takes
      <4> QED BY <1>6, <3>1, <4>1, <4>2 DEF SpanRead, n, q, v, f, l, text, first
    <3> QED BY <3>11, <3>12
  <2>4. CASE i = l
    <3>1. digit = {}
      <4>1. ~(s.pt <= Len(text))
        BY <1>1, <2>2, <2>4
      <4> QED BY <4>1 DEF digit
    <3>2. s.number = Number(r.last) /\ s.number # None
      <4>1. l \in 0..l
        BY <1>1
      <4> QED BY <1>2, <1>6, <2>2, <2>4, <4>1, UptoSums DEF l
    <3>3. n = [s EXCEPT !.at = "done", !.last = s.number]
      BY <2>2, <3>1, <3>2 DEF RangeOf, digit
    <3>4. n.at = "done" /\ n.last = s.number /\ n.first = first
      BY <2>1, <3>3
    <3>5. Takes(Number(r.last))
      BY <1>2, <2>1, <2>4, NumbersTaken DEF l
    <3> QED BY <1>6, <3>2, <3>4, <3>5 DEF SpanRead, n, f, l, text, first
  <2> QED BY <2>3, <2>4
<1>7. (s.at \in {"throws", "done"}) = FALSE
  OBVIOUS
<1> QED BY <1>5, <1>6, <1>7 DEF SpanRead, f, l, n, text

SpanInv ==
  Reads("span") => SpanWritten(input.of) /\ SpanRead(input.of, state)

(* Requests, with any characters of the syntax in their parts, and ranges  *)
(* whose numbers are not too large, are read back as RequestRead says.     *)
THEOREM RequestsAreRead == Spec => []RequestRead
<1>1. Init => HeadInv /\ SpanInv
  <2> SUFFICES ASSUME Init PROVE HeadInv /\ SpanInv
    OBVIOUS
  <2>1. ASSUME Reads("head") PROVE HeadInv
    <3>1. PICK h \in Heads : Input("head", h) /\ state = RequestStart(h.text)
      BY <2>1 DEF Init, Input, Reads
    <3>2. HeadWritten(h) /\ input.of = h
      BY <3>1, ParsingAssumption DEF Input
    <3>3. ReadTo(h, state, 2)
      BY <3>1, <3>2, HeadStarts
    <3>4. 2 \in 2..(Len(h.list) + 2)
      BY <3>2, HeadPlaces
    <3> QED BY <3>2, <3>3, <3>4 DEF HeadInv
  <2>2. ASSUME Reads("span") PROVE SpanInv
    <3>1. PICK r \in Spans : Input("span", r) /\ state = RangeStart(r.text)
      BY <2>2 DEF Init, Input, Reads
    <3>2. SpanWritten(r) /\ input.of = r
      BY <3>1, ParsingAssumption DEF Input
    <3> QED BY <3>1, <3>2, SpanStarts DEF SpanInv
  <2> QED BY <2>1, <2>2 DEF HeadInv, SpanInv
<1>2. HeadInv /\ [Next]_vars => HeadInv'
  <2> SUFFICES ASSUME HeadInv, [Next]_vars, Reads("head")' PROVE HeadInv'
    BY DEF HeadInv
  <2>1. CASE ReadRequest
    <3> DEFINE h == input.of
    <3>1. HeadWritten(h) /\ input' = input /\ state.at = "headers"
          /\ state' = parse_http_request(h.text, state)
      BY <2>1 DEF HeadInv, ReadRequest
    <3>2. PICK k \in 2..(Len(h.list) + 2) : ReadTo(h, state, k)
      BY <2>1, <3>1 DEF HeadInv, ReadRequest, ReadOut
    <3> HIDE DEF h
    <3>3. \/ ReadTo(h, state', k + 1) /\ k + 1 \in 2..(Len(h.list) + 2)
          \/ ReadOut(h, state')
      BY <3>1, <3>2, HeadStep
    <3> QED BY <3>1, <3>3 DEF HeadInv, h
  <2>2. CASE UNCHANGED vars
    BY <2>2 DEF vars, HeadInv, Reads, ReadTo, ReadOut
  <2>3. ASSUME UNCHANGED input,
               \/ Reads("argv") \/ Reads("url") \/ Reads("span")
               \/ Reads("json") \/ Reads("config")
        PROVE  FALSE
    BY <2>3 DEF Reads
  <2> QED BY <2>1, <2>2, <2>3 DEF Next, ReadArgv, ReadUrl, ReadRange,
                                  ReadJson, OpenConfig, ReadConfig
<1>3. SpanInv /\ [Next]_vars => SpanInv'
  <2> SUFFICES ASSUME SpanInv, [Next]_vars, Reads("span")' PROVE SpanInv'
    BY DEF SpanInv
  <2>1. CASE ReadRange
    <3>1. SpanWritten(input.of) /\ SpanRead(input.of, state) /\ input' = input
          /\ state.at \in {"first", "last"}
          /\ state' = RangeOf(input.of.text, FileSize, state)
      BY <2>1 DEF SpanInv, ReadRange
    <3>2. SpanRead(input.of, state')
      BY <3>1, SpanStep
    <3> QED BY <3>1, <3>2 DEF SpanInv
  <2>2. CASE UNCHANGED vars
    BY <2>2 DEF vars, SpanInv, Reads
  <2>3. ASSUME UNCHANGED input,
               \/ Reads("argv") \/ Reads("url") \/ Reads("head")
               \/ Reads("json") \/ Reads("config")
        PROVE  FALSE
    BY <2>3 DEF Reads
  <2> QED BY <2>1, <2>2, <2>3 DEF Next, ReadArgv, ReadUrl, ReadRequest,
                                  ReadJson, OpenConfig, ReadConfig
<1>4. HeadInv /\ SpanInv => RequestRead
  <2> SUFFICES ASSUME HeadInv, SpanInv PROVE RequestRead
    OBVIOUS
  <2>1. ASSUME Reads("head"), state.at # "headers" PROVE ReadOut(input.of, state)
    BY <2>1 DEF HeadInv, ReadTo
  <2>3. ASSUME Reads("head"), state.at # "headers"
        PROVE  LET h == input.of
                   m == Len(h.list)
                   map == state.map
               IN  IF Bare(h, m) THEN state.at = "throws"
                   ELSE /\ state.at = "done"
                        /\ DOMAIN map = {Path, PostContent} \cup Names(h, m)
                        /\ map[PostContent] = h.body
                        /\ Path \notin Names(h, m) => map[Path] = h.path
                        /\ \A i \in 1..m :
                             \/ h.list[i].name = PostContent
                             \/ map[h.list[i].name] = Tail(h.list[i].rest)
                             \/ \E j \in (i + 1)..m :
                                  h.list[j].name = h.list[i].name
    <3> DEFINE h == input.of
               m == Len(h.list)
               got == state.map
    <3>1. ReadOut(h, state)
      BY <2>1, <2>3
    <3>2. CASE state.at = "throws"
      BY <3>1, <3>2 DEF ReadOut
    <3>3. CASE state.at = "done"
      <4>1. ~Bare(h, m)
        BY <3>1, <3>3 DEF ReadOut
      <4>2. PICK map : Holds(map, h, m) /\ got = Assign(map, PostContent, h.body)
        BY <3>1, <3>3 DEF ReadOut
      <4>3. /\ DOMAIN got = DOMAIN map \cup {PostContent}
            /\ got[PostContent] = h.body
            /\ \A n \in DOMAIN map : n # PostContent => got[n] = map[n]
        BY <4>2 DEF Assign
      <4>4. Path # PostContent
        BY DEF Path, PostContent
      <4> HIDE DEF m, h, got
      <4>5. DOMAIN got = {Path, PostContent} \cup Names(h, m)
        BY <4>2, <4>3 DEF Holds
      <4>6. Path \notin Names(h, m) => got[Path] = h.path
        BY <4>2, <4>3, <4>4 DEF Holds
      <4>7. ASSUME NEW i \in 1..m
            PROVE  \/ h.list[i].name = PostContent
                   \/ got[h.list[i].name] = Tail(h.list[i].rest)
                   \/ \E j \in (i + 1)..m : h.list[j].name = h.list[i].name
        <5>1. h.list[i].name \in DOMAIN map
          BY <4>2 DEF Holds, Names
        <5>2. \/ map[h.list[i].name] = Tail(h.list[i].rest)
              \/ \E j \in (i + 1)..m : h.list[j].name = h.list[i].name
          BY <4>2 DEF Holds
        <5> QED BY <4>3, <5>1, <5>2
      <4> QED BY <3>3, <4>1, <4>3, <4>5, <4>6, <4>7 DEF m, h, got
    <3> QED BY <3>1, <3>2, <3>3 DEF ReadOut
  <2>2. ASSUME Reads("span"), state.at \notin {"first", "last"}
        PROVE  LET first == Number(input.of.first)
                   last  == Number(input.of.last)
               IN  IF first = None \/ first > LongMax \/ last > LongMax
                   THEN state.at = "throws"
                   ELSE /\ state.at = "done" /\ state.first = first
                        /\ state.last = IF last = None THEN FileSize - 1 ELSE last
    <3> DEFINE r == input.of
               f == Len(r.first.digits)
               l == Len(r.last.digits)
               first == Number(r.first)
               last  == Number(r.last)
    <3>1. SpanWritten(r) /\ SpanRead(r, state)
      BY <2>2 DEF SpanInv
    <3>2. (first = None <=> f = 0) /\ (last = None <=> l = 0)
          /\ first \in Int /\ last \in Int
      <4>1. NumberWritten(r.first) /\ NumberWritten(r.last)
        BY <3>1 DEF SpanWritten
      <4>2. f \in 0..f /\ l \in 0..l /\ f \in Nat /\ l \in Nat
        BY <3>1, SpanPlaces
      <4>3. (first = None <=> f = 0) /\ (last = None <=> l = 0)
        BY <4>1, <4>2, UptoSums
      <4>4. f # 0 => f \in 1..f
        BY <4>2
      <4>5. l # 0 => l \in 1..l
        BY <4>2
      <4>6. first \in Int /\ last \in Int
        BY <4>1, <4>3, <4>4, <4>5, UptoGrows DEF None
      <4> QED BY <4>3, <4>6
    <3>3. \/ /\ state.at = "throws"
             /\ f = 0 \/ first > LongMax \/ last > LongMax
          \/ /\ f # 0 /\ state.at = "done" /\ state.first = first /\ Takes(first)
             /\ state.last = IF l = 0 THEN FileSize - 1 ELSE last
             /\ Takes(last)
      BY <2>2, <3>1 DEF SpanRead
    <3> HIDE DEF first, last, f, l
    <3>4. /\ Takes(first) <=> ~(first > LongMax)
          /\ Takes(last) <=> ~(last > LongMax)
      BY <3>2, NoneTaken DEF Takes
    <3>5. IF first = None \/ first > LongMax \/ last > LongMax
          THEN state.at = "throws"
          ELSE /\ state.at = "done" /\ state.first = first
               /\ state.last = IF last = None THEN FileSize - 1 ELSE last
      BY <3>2, <3>3, <3>4
    <3> QED BY <3>5 DEF first, last, r
  <2> QED BY <2>2, <2>3 DEF RequestRead, Names, Bare
<1> QED BY <1>1, <1>2, <1>3, <1>4, PTL DEF Spec

-----------------------------------------------------------------------------
(* JSON.                                                                   *)

(* Calls that wait for a value.                                            *)
Takers == {"main", "arr", "value"}

(* Each call was made by one that waits for its value, and the key whose   *)
(* value is read is a new one.                                             *)
Stacked(calls) ==
  \A c \in calls :
    \/ c = Main
    \/ /\ c.up \in calls /\ c.up.of \in Takers
       /\ \/ c = InArray(c.arr, c.up)
          \/ c = AtKey(c.kv, c.up)
          \/ c = AtValue(c.kv, c.key, c.up) /\ c.key \notin DOMAIN c.kv

InStack(call) == \E calls : call \in calls /\ Stacked(calls)

LEMMA StackPop ==
  ASSUME NEW c, InStack(c)
  PROVE  \/ c = Main
         \/ /\ InStack(c.up) /\ c.up.of \in Takers
            /\ \/ c = InArray(c.arr, c.up)
               \/ c = AtKey(c.kv, c.up)
               \/ c = AtValue(c.kv, c.key, c.up) /\ c.key \notin DOMAIN c.kv
<1>1. PICK calls : c \in calls /\ Stacked(calls)
  BY DEF InStack
<1>2. \/ c = Main
      \/ /\ c.up \in calls /\ c.up.of \in Takers
         /\ \/ c = InArray(c.arr, c.up)
            \/ c = AtKey(c.kv, c.up)
            \/ c = AtValue(c.kv, c.key, c.up) /\ c.key \notin DOMAIN c.kv
  BY <1>1 DEF Stacked
<1> QED BY <1>1, <1>2 DEF InStack

LEMMA StackPush ==
  ASSUME NEW c, c = Main \/ (InStack(c.up) /\ c.up.of \in Takers),
         \/ c = Main
         \/ c = InArray(c.arr, c.up)
         \/ c = AtKey(c.kv, c.up)
         \/ c = AtValue(c.kv, c.key, c.up) /\ c.key \notin DOMAIN c.kv
  PROVE  InStack(c)
<1>1. CASE c = Main
  <2>1. Stacked({c}) /\ c \in {c}
    BY <1>1 DEF Stacked
  <2> QED BY <2>1 DEF InStack
<1>2. CASE InStack(c.up) /\ c.up.of \in Takers /\ c # Main
  <2>1. PICK calls : c.up \in calls /\ Stacked(calls)
    BY <1>2 DEF InStack
  <2> DEFINE more == calls \cup {c}
  <2>2. c \in more /\ c.up \in more /\ \A d \in calls : d.up \in calls => d.up \in more
    BY <2>1
  <2>3. ASSUME NEW d \in calls
        PROVE  \/ d = Main
               \/ /\ d.up \in more /\ d.up.of \in Takers
                  /\ \/ d = InArray(d.arr, d.up)
                     \/ d = AtKey(d.kv, d.up)
                     \/ d = AtValue(d.kv, d.key, d.up) /\ d.key \notin DOMAIN d.kv
    BY <2>1 DEF Stacked
  <2>4. \A d \in more : d \in calls \/ d = c
    OBVIOUS
  <2> HIDE DEF more
  <2>5. Stacked(more)
    BY <1>2, <2>2, <2>3, <2>4 DEF Stacked
  <2> QED BY <2>2, <2>5 DEF InStack
<1> QED BY <1>1, <1>2

LEMMA Calls ==
  ASSUME NEW up, InStack(up), up.of \in Takers, NEW arr, NEW kv, NEW key
  PROVE  /\ InStack(InArray(arr, up)) /\ InArray(arr, up).of = "arr"
         /\ InStack(AtKey(kv, up)) /\ AtKey(kv, up).of = "key"
         /\ AtValue(kv, key, up).of = "value"
         /\ key \notin DOMAIN kv => InStack(AtValue(kv, key, up))
<1>1. /\ InArray(arr, up).up = up /\ InArray(arr, up).arr = arr
      /\ AtKey(kv, up).up = up /\ AtKey(kv, up).kv = kv
      /\ AtValue(kv, key, up).up = up /\ AtValue(kv, key, up).kv = kv
      /\ AtValue(kv, key, up).key = key
  BY DEF InArray, AtKey, AtValue
<1>2. InArray(arr, up).of = "arr" /\ AtKey(kv, up).of = "key"
      /\ AtValue(kv, key, up).of = "value"
  BY DEF InArray, AtKey, AtValue
<1>3. InStack(InArray(arr, up))
  BY <1>1, StackPush
<1>4. InStack(AtKey(kv, up))
  BY <1>1, StackPush
<1>5. ASSUME key \notin DOMAIN kv PROVE InStack(AtValue(kv, key, up))
  BY <1>1, <1>5, StackPush
<1> QED BY <1>2, <1>3, <1>4, <1>5

(* The call whose kind is of.                                              *)
LEMMA CallOf ==
  ASSUME NEW c, InStack(c)
  PROVE  /\ c.of \in {"main", "arr", "key", "value"}
         /\ c.of = "main" => c = Main
         /\ c.of = "arr" => c = InArray(c.arr, c.up)
         /\ c.of = "key" => c = AtKey(c.kv, c.up)
         /\ c.of = "value" => c = AtValue(c.kv, c.key, c.up)
                              /\ c.key \notin DOMAIN c.kv
         /\ c.of # "main" => InStack(c.up) /\ c.up.of \in Takers
<1>1. /\ c = Main => c.of = "main"
      /\ c = InArray(c.arr, c.up) => c.of = "arr"
      /\ c = AtKey(c.kv, c.up) => c.of = "key"
      /\ c = AtValue(c.kv, c.key, c.up) => c.of = "value"
  <2>1. c = Main => c.of = "main"
    BY DEF Main
  <2>2. c = InArray(c.arr, c.up) => c.of = "arr"
    BY DEF InArray
  <2>3. c = AtKey(c.kv, c.up) => c.of = "key"
    BY DEF AtKey
  <2>4. c = AtValue(c.kv, c.key, c.up) => c.of = "value"
    BY DEF AtValue
  <2> QED BY <2>1, <2>2, <2>3, <2>4
<1> QED BY <1>1, StackPop

(* What may be wanted in a call of the kind of.                            *)
Fits(want, of) ==
  \/ want \in {"value", "point", "digits"} /\ of \in Takers
  \/ want \in {"item", "spacedItem"} /\ of = "arr"
  \/ want = "next" /\ of \in {"arr", "key"}
  \/ want \in {"name", "spacedName", "key"} /\ of = "key"
  \/ want = "colon" /\ of = "value"

MarkOK(m) ==
  \/ m = [want |-> "end", val |-> m.val]
  \/ m = Wants(m.want, m.call) /\ InStack(m.call) /\ Fits(m.want, m.call.of)

LEMMA Marked ==
  ASSUME NEW want, NEW call, InStack(call), Fits(want, call.of)
  PROVE  MarkOK(Wants(want, call)) /\ Wants(want, call).want = want
         /\ Wants(want, call).call = call /\ want # "end"
<1>1. Wants(want, call).want = want /\ Wants(want, call).call = call
  BY DEF Wants
<1> QED BY <1>1 DEF MarkOK, Fits

(* After, one case after the other.                                        *)
Follows(m, token, n) ==
  LET t == token.t
      w == m.want
      c == m.call
  IN  \/ /\ w \in Values /\ t = "num"
         /\ n = Behind(c, Num(token.num)) \/ n = Wants("point", c)
      \/ w \in Values /\ t \in Scalars \ {"num"} /\ n = Behind(c, Scalar(token))
      \/ w \in Values \cup {"point", "digits"} /\ t = "-" /\ n = Wants("digits", c)
      \/ /\ w = "digits" /\ t = "num"
         /\ n = Behind(c, Real) \/ n = Wants("point", c)
      \/ w \in Values /\ t = "[" /\ n = Wants("item", InArray(<<>>, c))
      \/ w \in Values /\ t = "{" /\ n = Wants("name", AtKey(<<>>, c))
      \/ /\ w \in {"key", "name", "spacedName"} /\ t = "str"
         /\ token.str \notin DOMAIN c.kv
         /\ n = Wants("colon", AtValue(c.kv, token.str, c.up))
      \/ w = "colon" /\ t = ":" /\ n = Wants("value", c)
      \/ w = "next" /\ t = "," /\ c.of = "arr" /\ n = Wants("value", c)
      \/ w = "next" /\ t = "," /\ c.of # "arr" /\ n = Wants("key", c)
      \/ /\ w \in {"item", "spacedItem", "next"} /\ t = "]" /\ c.of = "arr"
         /\ n = Behind(c.up, Arr(c.arr))
      \/ /\ w \in {"name", "spacedName", "next"} /\ t = "}" /\ c.of = "key"
         /\ n = Behind(c.up, Obj(c.kv))
      \/ w \in {"item", "spacedItem"} /\ t \in Blank /\ n = Wants("spacedItem", c)
      \/ w \in {"name", "spacedName"} /\ t \in Blank /\ n = Wants("spacedName", c)
      \/ w \in {"value", "key", "colon", "next", "end"} /\ t \in Blank /\ n = m

LEMMA AfterFollows ==
  ASSUME NEW m, NEW token, NEW n \in After(m, token)
  PROVE  Follows(m, token, n)
<1>1. CASE m.want \in Values /\ token.t = "num"
  BY <1>1 DEF After, Follows, Scalars, Blank, Values
<1>2. CASE m.want \in Values /\ token.t \in Scalars \ {"num"}
  BY <1>2 DEF After, Follows, Scalars, Blank, Values
<1>3. CASE m.want \in Values \cup {"point", "digits"} /\ token.t = "-"
  BY <1>3 DEF After, Follows, Scalars, Blank, Values
<1>4. CASE m.want = "digits" /\ token.t = "num"
  BY <1>4 DEF After, Follows, Scalars, Blank, Values
<1>5. CASE m.want \in Values /\ token.t = "["
  BY <1>5 DEF After, Follows, Scalars, Blank, Values
<1>6. CASE m.want \in Values /\ token.t = "{"
  BY <1>6 DEF After, Follows, Scalars, Blank, Values
<1>7. CASE m.want \in {"key", "name", "spacedName"} /\ token.t = "str"
  BY <1>7 DEF After, Follows, Scalars, Blank, Values
<1>8. CASE m.want = "colon" /\ token.t = ":"
  BY <1>8 DEF After, Follows, Scalars, Blank, Values
<1>9. CASE m.want = "next" /\ token.t = ","
  BY <1>9 DEF After, Follows, Scalars, Blank, Values
<1>10. CASE m.want \in {"item", "spacedItem", "next"} /\ token.t = "]"
  BY <1>10 DEF After, Follows, Scalars, Blank, Values
<1>11. CASE m.want \in {"name", "spacedName", "next"} /\ token.t = "}"
  BY <1>11 DEF After, Follows, Scalars, Blank, Values
<1>12. CASE m.want \in {"item", "spacedItem"} /\ token.t \in Blank
  BY <1>12 DEF After, Follows, Scalars, Blank, Values
<1>13. CASE m.want \in {"name", "spacedName"} /\ token.t \in Blank
  BY <1>13 DEF After, Follows, Scalars, Blank, Values
<1>14. CASE m.want \in {"value", "key", "colon", "next", "end"} /\ token.t \in Blank
  BY <1>14 DEF After, Follows, Scalars, Blank, Values
<1>15. CASE /\ ~(m.want \in Values /\ token.t = "num")
        /\ ~(m.want \in Values /\ token.t \in Scalars \ {"num"})
        /\ ~(m.want \in Values \cup {"point", "digits"} /\ token.t = "-")
        /\ ~(m.want = "digits" /\ token.t = "num")
        /\ ~(m.want \in Values /\ token.t = "[")
        /\ ~(m.want \in Values /\ token.t = "{")
        /\ ~(m.want \in {"key", "name", "spacedName"} /\ token.t = "str")
        /\ ~(m.want = "colon" /\ token.t = ":")
        /\ ~(m.want = "next" /\ token.t = ",")
        /\ ~(m.want \in {"item", "spacedItem", "next"} /\ token.t = "]")
        /\ ~(m.want \in {"name", "spacedName", "next"} /\ token.t = "}")
        /\ ~(m.want \in {"item", "spacedItem"} /\ token.t \in Blank)
        /\ ~(m.want \in {"name", "spacedName"} /\ token.t \in Blank)
        /\ ~(m.want \in {"value", "key", "colon", "next", "end"} /\ token.t \in Blank)
  BY <1>15 DEF After
<1> QED BY <1>1, <1>2, <1>3, <1>4, <1>5, <1>6, <1>7, <1>8, <1>9, <1>10, <1>11, <1>12, <1>13, <1>14, <1>15

(* The variables of the parser.                                            *)
Parser(at, pt, call, val) == [at |-> at, pt |-> pt, call |-> call, val |-> val]

LEMMA Fields ==
  ASSUME NEW a, NEW i, NEW c, NEW v
  PROVE  /\ Parser(a, i, c, v).at = a /\ Parser(a, i, c, v).pt = i
         /\ Parser(a, i, c, v).call = c /\ Parser(a, i, c, v).val = v
  BY DEF Parser

LEMMA Skips ==
  ASSUME NEW a, NEW i, NEW c, NEW v
  PROVE  Skip(Parser(a, i, c, v)) = Parser(a, i + 1, c, v)
<1> DEFINE j == i + 1
           p == Parser(a, i, c, v)
<1>1. p.pt = i /\ Skip(p) = [p EXCEPT !.pt = j]
  BY DEF Parser, Skip
<1> HIDE DEF j
<1>2. [p EXCEPT !.pt = j] = Parser(a, j, c, v)
  BY DEF Parser
<1> QED BY <1>1, <1>2 DEF j

LEMMA GoesTo ==
  ASSUME NEW a, NEW i, NEW c, NEW v, NEW b
  PROVE  Goes(Parser(a, i, c, v), b) = Parser(b, i, c, v)
  BY DEF Parser, Goes

LEMMA Leaves ==
  ASSUME NEW a, NEW i, NEW c, NEW v
  PROVE  Leave(Parser(a, i, c, v)) = Parser(a, i + 1, c.up, v)
<1> DEFINE p == Parser(a, i, c, v)
           o == Skip(p)
           d == p.call.up
           j == i + 1
<1>1. o = Parser(a, j, c, v) /\ d = c.up
  BY Skips, Fields
<1>2. Leave(p) = [o EXCEPT !.call = d]
  BY DEF Leave
<1> HIDE DEF d, j, o
<1>3. o = [at |-> a, pt |-> j, call |-> c, val |-> v]
  BY <1>1 DEF Parser
<1>4. [o EXCEPT !.call = d] = [at |-> a, pt |-> j, call |-> d, val |-> v]
  BY <1>3
<1>5. Leave(p) = [at |-> a, pt |-> j, call |-> d, val |-> v]
  BY <1>2, <1>4
<1> QED BY <1>1, <1>5 DEF Parser, j

LEMMA Returns ==
  ASSUME NEW a, NEW i, NEW c, NEW v, InStack(c), NEW val
  PROVE  /\ c.of = "main" => Return(Parser(a, i, c, v), val) = Parser("done", i, c, val)
         /\ c.of = "arr" => Return(Parser(a, i, c, v), val)
                            = Parser("gap", i, InArray(Append(c.arr, val), c.up), v)
         /\ c.of = "key" /\ "str" \in DOMAIN val =>
              Return(Parser(a, i, c, v), val)
                = Parser("colon", i, AtValue(c.kv, val.str, c.up), v)
         /\ c.of = "key" /\ "str" \notin DOMAIN val =>
              Return(Parser(a, i, c, v), val) = Parser("undefined", i, c, v)
         /\ c.of = "value" =>
              Return(Parser(a, i, c, v), val)
                = Parser("gap", i, AtKey(Emplace(c.kv, c.key, val), c.up), v)
<1> DEFINE p == Parser(a, i, c, v)
           q == Return(p, val)
<1>1. p.call = c
  BY Fields
<1>2. p = [at |-> a, pt |-> i, call |-> c, val |-> v]
  BY DEF Parser
<1> HIDE DEF p, q
<1>3. CASE c.of = "main"
  <2>1. q = [p EXCEPT !.at = "done", !.val = val]
    BY <1>1, <1>3 DEF Return, q
  <2>2. q = [at |-> "done", pt |-> i, call |-> c, val |-> val]
    BY <1>2, <2>1
  <2> QED BY <1>3, <2>2 DEF Parser, p, q
<1>4. CASE c.of = "arr"
  <2> DEFINE d == InArray(Append(c.arr, val), c.up)
  <2>1. q = [p EXCEPT !.at = "gap", !.call = d]
    BY <1>1, <1>4 DEF Return, q
  <2> HIDE DEF d
  <2>2. q = [at |-> "gap", pt |-> i, call |-> d, val |-> v]
    BY <1>2, <2>1
  <2> QED BY <1>4, <2>2 DEF Parser, p, q, d
<1>5. CASE c.of = "key" /\ "str" \in DOMAIN val
  <2> DEFINE d == AtValue(c.kv, val.str, c.up)
  <2>1. q = [p EXCEPT !.at = "colon", !.call = d]
    BY <1>1, <1>5 DEF Return, q
  <2> HIDE DEF d
  <2>2. q = [at |-> "colon", pt |-> i, call |-> d, val |-> v]
    BY <1>2, <2>1
  <2> QED BY <1>5, <2>2 DEF Parser, p, q, d
<1>6. CASE c.of = "key" /\ "str" \notin DOMAIN val
  <2>1. q = Goes(p, "undefined")
    BY <1>1, <1>6 DEF Return, q
  <2> QED BY <1>6, <2>1, GoesTo DEF p, q
<1>7. CASE c.of = "value"
  <2> DEFINE d == AtKey(Emplace(c.kv, c.key, val), c.up)
  <2>1. q = [p EXCEPT !.at = "gap", !.call = d]
    BY <1>1, <1>7 DEF Return, q
  <2> HIDE DEF d
  <2>2. q = [at |-> "gap", pt |-> i, call |-> d, val |-> v]
    BY <1>2, <2>1
  <2> QED BY <1>7, <2>2 DEF Parser, p, q, d
<1> QED BY <1>3, <1>4, <1>5, <1>6, <1>7, CallOf DEF p

(* Where the parser is when want is wanted and the next token is a t.      *)
Place(at, want, of, t) ==
  \/ at = "val" /\ want \in {"value", "key", "spacedItem", "spacedName"}
  \/ at = "val" /\ want = "item" /\ t # "]"
  \/ at = "val" /\ want = "name" /\ t # "}"
  \/ at = "loop" /\ want \in {"item", "name"}
  \/ at = "loop" /\ want \in {"next", "value", "key"} /\ t \notin Gap
  \/ at = "gap" /\ want \in {"next", "value", "key"}
  \/ at = "colon" /\ want \in {"colon", "value"} /\ of = "value"

(* The parser agrees with the mark m.                                      *)
Agrees(m, t, p) ==
  /\ MarkOK(m)
  /\ \/ m.want = "end" /\ p.at = "done" /\ p.val = m.val
     \/ m.want # "end" /\ p.call = m.call /\ Place(p.at, m.want, m.call.of, t)

LEMMA ReturnAgrees ==
  ASSUME NEW c, InStack(c), c.of \in Takers, NEW a, NEW i, NEW v, NEW val, NEW t
  PROVE  LET p == Return(Parser(a, i, c, v), val)
         IN  /\ Agrees(Behind(c, val), t, p)
             /\ p = Parser(p.at, i, p.call, p.val)
<1> DEFINE p == Return(Parser(a, i, c, v), val)
           m == Behind(c, val)
<1>1. CASE c.of = "main"
  <2>1. p = Parser("done", i, c, val)
    BY <1>1, Returns
  <2>2. m = [want |-> "end", val |-> val]
    BY <1>1 DEF Behind
  <2> HIDE DEF p, m
  <2>3. p.at = "done" /\ p.val = val /\ p.call = c
    BY <2>1, Fields
  <2>4. m.want = "end" /\ m.val = val
    BY <2>2
  <2> QED BY <2>1, <2>2, <2>3, <2>4 DEF Agrees, MarkOK, p, m
<1>2. CASE c.of = "arr"
  <2> DEFINE d == InArray(Append(c.arr, val), c.up)
  <2>1. p = Parser("gap", i, d, v)
    BY <1>2, Returns
  <2>2. m = Wants("next", d)
    BY <1>2 DEF Behind
  <2>3. InStack(d) /\ d.of = "arr"
    BY <1>2, CallOf, Calls
  <2> HIDE DEF p, m, d
  <2>4. p.at = "gap" /\ p.val = v /\ p.call = d
    BY <2>1, Fields
  <2>5. MarkOK(m) /\ m.want = "next" /\ m.call = d
    BY <2>2, <2>3, Marked DEF Fits
  <2> QED BY <2>1, <2>4, <2>5 DEF Agrees, Place, p, m
<1>3. CASE c.of = "value"
  <2> DEFINE d == AtKey(Emplace(c.kv, c.key, val), c.up)
  <2>1. p = Parser("gap", i, d, v)
    BY <1>3, Returns
  <2>2. m = Wants("next", d)
    <3>1. c.key \notin DOMAIN c.kv
      BY <1>3, CallOf
    <3>2. [k \in DOMAIN c.kv \cup {c.key} |->
             IF k = c.key THEN val ELSE c.kv[k]] = Emplace(c.kv, c.key, val)
      BY <3>1 DEF Emplace
    <3> QED BY <1>3, <3>2 DEF Behind
  <2>3. InStack(d) /\ d.of = "key"
    BY <1>3, CallOf, Calls
  <2> HIDE DEF p, m, d
  <2>4. p.at = "gap" /\ p.val = v /\ p.call = d
    BY <2>1, Fields
  <2>5. MarkOK(m) /\ m.want = "next" /\ m.call = d
    BY <2>2, <2>3, Marked DEF Fits
  <2> QED BY <2>1, <2>4, <2>5 DEF Agrees, Place, p, m
<1> QED BY <1>1, <1>2, <1>3 DEF Takers

(* What follows a good mark is one; nothing but blanks are in front of the *)
(* whole, and behind it.                                                   *)
LEMMA AfterMarked ==
  ASSUME NEW m, MarkOK(m), NEW token, NEW n, Follows(m, token, n)
  PROVE  /\ MarkOK(n)
         /\ n = Wants("value", Main) => n = m /\ token.t \in Blank
         /\ m.want = "end" => n = m /\ token.t \in Blank
<1> DEFINE c == m.call
           Good == MarkOK(n) /\ n # Wants("value", Main)
<1>1. ASSUME m.want = "end" PROVE n = m /\ token.t \in Blank
  BY <1>1 DEF Follows, Values
<1>2. ASSUME m.want # "end"
      PROVE  m = Wants(m.want, c) /\ InStack(c) /\ Fits(m.want, c.of)
  BY <1>2 DEF MarkOK
<1>3. ASSUME NEW d, InStack(d), d.of \in Takers, NEW val
      PROVE  MarkOK(Behind(d, val)) /\ Behind(d, val) # Wants("value", Main)
  <2>1. MarkOK(Behind(d, val))
    BY <1>3, ReturnAgrees DEF Agrees
  <2>2. Behind(d, val).want \in {"end", "next"}
    BY <1>3 DEF Behind, Wants, Takers
  <2> QED BY <2>1, <2>2 DEF Wants
<1>4. ASSUME NEW want, NEW d, InStack(d), Fits(want, d.of),
             want # "value" \/ d.of # "main"
      PROVE  MarkOK(Wants(want, d)) /\ Wants(want, d) # Wants("value", Main)
  <2>1. MarkOK(Wants(want, d)) /\ Wants(want, d).want = want
        /\ Wants(want, d).call = d
    BY <1>4, Marked
  <2>2. Main.of = "main" /\ Wants("value", Main).want = "value"
        /\ Wants("value", Main).call = Main
    BY DEF Main, Wants
  <2> QED BY <1>4, <2>1, <2>2
<1>8. Fits("item", "arr") /\ Fits("name", "key") /\ Fits("key", "key")
      /\ Fits("value", "arr") /\ Fits("colon", "value") /\ Fits("value", "value")
      /\ Fits("spacedItem", "arr") /\ Fits("spacedName", "key")
      /\ \A of \in Takers : Fits("point", of) /\ Fits("digits", of)
  BY DEF Fits, Takers
<1>15. CASE m.want = "end"
  <2>1. n = m /\ token.t \in Blank
    BY <1>1, <1>15
  <2> QED BY <2>1
<1>16. CASE m.want # "end" /\ n = m /\ token.t \in Blank
  BY <1>16
<1>17. CASE m.want # "end" /\ ~(n = m /\ token.t \in Blank)
  <2>0. InStack(c) /\ Fits(m.want, c.of)
    BY <1>2, <1>17
  <2>5. c.of \in Takers =>
          \A arr, kv : /\ InStack(InArray(arr, c)) /\ InArray(arr, c).of = "arr"
                       /\ InStack(AtKey(kv, c)) /\ AtKey(kv, c).of = "key"
    BY <2>0, Calls
  <2>6. c.of = "key" => \A key : key \notin DOMAIN c.kv =>
          /\ InStack(AtValue(c.kv, key, c.up)) /\ AtValue(c.kv, key, c.up).of = "value"
    BY <2>0, Calls, CallOf
  <2>7. c.of # "main" => InStack(c.up) /\ c.up.of \in Takers
    BY <2>0, CallOf
  <2>8. /\ m.want \in Values \cup {"point", "digits"} => c.of \in Takers
        /\ m.want \in {"key", "name", "spacedName"} => c.of = "key"
        /\ m.want \in {"item", "spacedItem"} => c.of = "arr"
        /\ m.want = "colon" => c.of = "value"
        /\ m.want = "next" /\ c.of # "arr" => c.of = "key"
    BY <2>0 DEF Fits, Takers, Values
  <2> HIDE DEF c
  <2>10. CASE \/ /\ m.want \in Values \cup {"digits"}
                 /\ \E val : n = Behind(c, val)
              \/ c.of # "main" /\ \E val : n = Behind(c.up, val)
    <3>1. PICK d, val : n = Behind(d, val) /\ InStack(d) /\ d.of \in Takers
      BY <2>0, <2>7, <2>8, <2>10
    <3> QED BY <1>3, <1>17, <3>1
  <2>11. CASE \/ m.want \in Values /\ n = Wants("item", InArray(<<>>, c))
              \/ m.want \in Values /\ n = Wants("name", AtKey(<<>>, c))
    <3>1. PICK d, want : /\ n = Wants(want, d) /\ want \in {"item", "name"}
                         /\ InStack(d) /\ Fits(want, d.of)
      BY <1>8, <2>5, <2>8, <2>11
    <3> QED BY <1>4, <1>17, <3>1
  <2>12. CASE /\ m.want \in {"key", "name", "spacedName"}
              /\ token.str \notin DOMAIN c.kv
              /\ n = Wants("colon", AtValue(c.kv, token.str, c.up))
    <3> DEFINE d == AtValue(c.kv, token.str, c.up)
    <3>1. InStack(d) /\ d.of = "value" /\ n = Wants("colon", d)
      BY <2>6, <2>8, <2>12
    <3> HIDE DEF d
    <3> QED BY <1>4, <1>8, <1>17, <3>1
  <2>13. CASE \/ /\ m.want \in Values \cup {"point", "digits"}
                 /\ n = Wants("point", c) \/ n = Wants("digits", c)
              \/ m.want = "colon" /\ n = Wants("value", c)
              \/ m.want = "next" /\ c.of = "arr" /\ n = Wants("value", c)
              \/ m.want = "next" /\ c.of # "arr" /\ n = Wants("key", c)
              \/ m.want \in {"item", "spacedItem"} /\ n = Wants("spacedItem", c)
              \/ m.want \in {"name", "spacedName"} /\ n = Wants("spacedName", c)
    <3>1. PICK want : n = Wants(want, c) /\
                        \/ want \in {"point", "digits"} /\ c.of \in Takers
                        \/ want = "value" /\ c.of \in {"arr", "value"}
                        \/ want \in {"key", "spacedName"} /\ c.of = "key"
                        \/ want = "spacedItem" /\ c.of = "arr"
      BY <2>0, <2>8, <2>13 DEF Fits
    <3>2. Fits(want, c.of) /\ (want # "value" \/ c.of # "main")
      BY <3>1 DEF Fits, Takers
    <3> QED BY <1>4, <1>17, <2>0, <3>1, <3>2
  <2> QED BY <1>17, <2>10, <2>11, <2>12, <2>13 DEF Follows, c
<1> QED BY <1>1, <1>15, <1>16, <1>17

Anywhere(at, want, of) == \A t : Place(at, want, of, t)

(* Reading on: behind the token, or at it in another place.                *)
ReadsOn(m, n, t, i, q) ==
  /\ q = Parser(q.at, q.pt, q.call, q.val)
  /\ \/ q.pt = i /\ Agrees(m, t, q)
     \/ q.pt = i + 1 /\ \A u : Agrees(n, u, q)

LEMMA Calling ==
  ASSUME NEW a, NEW i, NEW c, NEW v, NEW d, NEW p, Skip(p) = Parser(a, i, c, v)
  PROVE  Call(p, d) = Parser("loop", i, d, v)
<1> DEFINE o == Skip(p)
           q == Call(p, d)
<1>1. o = [at |-> a, pt |-> i, call |-> c, val |-> v]
  BY DEF Parser
<1>2. q = [o EXCEPT !.at = "loop", !.call = d]
  BY DEF Call
<1> HIDE DEF o, q
<1>3. q = [at |-> "loop", pt |-> i, call |-> d, val |-> v]
  BY <1>1, <1>2
<1> QED BY <1>3 DEF Parser, q

LEMMA StrType ==
  ASSUME NEW token, token.t = "str"
  PROVE  /\ "str" \in DOMAIN Scalar(token) /\ Scalar(token).str = token.str
         /\ token.t \in Scalars
<1>1. Scalar(token) = Str(token.str)
  BY DEF Scalar
<1>2. "str" \in DOMAIN Str(token.str) /\ Str(token.str).str = token.str
  BY DEF Str
<1> QED BY <1>1, <1>2 DEF Scalars

(* The parser is where it cannot go on as the text does: at a pitfall, in  *)
(* front of a colon, or behind the digits in front of a point.             *)
Falls(m, token, n, i, q) ==
  /\ q = Parser(q.at, q.pt, q.call, q.val)
  /\ \/ q.at = "throws" /\ q.pt = i /\ Pitfall(m, token)
     \/ /\ q.at = "val" /\ q.pt = i /\ Pitfall(m, token)
        /\ m.want = "colon" /\ q.call = m.call
     \/ /\ q.pt = i + 1 /\ n = Wants("point", m.call)
        /\ \/ q.at = "done" /\ m.call = Main
           \/ q.at = "gap" /\ InStack(q.call) /\ q.call.of \in {"arr", "key"}

(* A value for whoever waits for one.                                      *)
LEMMA Stops ==
  ASSUME NEW c, InStack(c), c.of \in Takers, NEW a, NEW i, NEW v, NEW val
  PROVE  \E b, d, e :
           /\ Return(Parser(a, i, c, v), val) = Parser(b, i, d, e)
           /\ \/ b = "done" /\ c = Main
              \/ b = "gap" /\ InStack(d) /\ d.of \in {"arr", "key"}
<1> DEFINE q == Return(Parser(a, i, c, v), val)
<1>1. CASE c.of = "main"
  <2>1. q = Parser("done", i, c, val) /\ c = Main
    BY <1>1, Returns, CallOf
  <2> QED BY <2>1
<1>2. CASE c.of = "arr"
  <2> DEFINE d == InArray(Append(c.arr, val), c.up)
  <2>1. q = Parser("gap", i, d, v)
    BY <1>2, Returns
  <2>2. InStack(d) /\ d.of = "arr"
    BY <1>2, CallOf, Calls
  <2> HIDE DEF q, d
  <2> QED BY <2>1, <2>2 DEF q
<1>3. CASE c.of = "value"
  <2> DEFINE d == AtKey(Emplace(c.kv, c.key, val), c.up)
  <2>1. q = Parser("gap", i, d, v)
    BY <1>3, Returns
  <2>2. InStack(d) /\ d.of = "key"
    BY <1>3, CallOf, Calls
  <2> HIDE DEF q, d
  <2> QED BY <2>1, <2>2 DEF q
<1> QED BY <1>1, <1>2, <1>3 DEF Takers

LEMMA TokenReads ==
  ASSUME NEW s, NEW a, NEW i \in 1..Len(s), Len(s) \in Nat, NEW c, NEW v,
         NEW m, NEW n, Follows(m, s[i], n), a # "done",
         Agrees(m, s[i].t, Parser(a, i, c, v))
  PROVE  LET q == json_parser(s, Parser(a, i, c, v))
         IN  ReadsOn(m, n, s[i].t, i, q) \/ Falls(m, s[i], n, i, q)
<1> DEFINE p == Parser(a, i, c, v)
           q == json_parser(s, p)
           t == s[i].t
           w == m.want
           token == s[i]
           j == i + 1
<1> SUFFICES ReadsOn(m, n, t, i, q) \/ Falls(m, token, n, i, q)
  OBVIOUS
<1>1. p.at = a /\ p.pt = i /\ p.call = c /\ p.val = v
  BY Fields
<1>2. Token(s, p) = t
  <2>1. i <= Len(s)
    OBVIOUS
  <2> QED BY <1>1, <2>1 DEF Token
<1>3. MarkOK(m) /\ w # "end" /\ c = m.call /\ Place(a, w, c.of, t)
  <2>1. Agrees(m, t, p)
    OBVIOUS
  <2> HIDE DEF p, t
  <2> QED BY <1>1, <2>1 DEF Agrees
<1>4. InStack(c) /\ Fits(w, c.of)
  BY <1>3 DEF MarkOK
<1>5. MarkOK(n) /\ Follows(m, token, n) /\ token.t = t /\ s[i] = token
  BY <1>3, AfterMarked
<1>6. /\ a = "val" => q = parse_val(s, p)
      /\ a # "val" /\ c.of = "arr" => q = parse_array(s, p)
      /\ a # "val" /\ c.of # "arr" => q = parse_kv(s, p)
  <2>1. q = json_parser(s, p)
    OBVIOUS
  <2> HIDE DEF q, p
  <2>2. a = "val" => q = parse_val(s, p)
    BY <1>1, <2>1 DEF json_parser
  <2>3. a # "val" /\ c.of = "arr" => q = parse_array(s, p)
    BY <1>1, <2>1 DEF json_parser
  <2>4. a # "val" /\ c.of # "arr" => q = parse_kv(s, p)
    BY <1>1, <2>1 DEF json_parser
  <2> QED BY <2>2, <2>3, <2>4
<1>7. /\ Skip(p) = Parser(a, j, c, v)
      /\ Goes(p, "val") = Parser("val", i, c, v)
      /\ Goes(p, "loop") = Parser("loop", i, c, v)
      /\ Goes(p, "throws") = Parser("throws", i, c, v)
      /\ Leave(p) = Parser(a, j, c.up, v)
  BY Skips, GoesTo, Leaves
<1> HIDE DEF p, q, t, w, token, j
(* It goes on behind the token.                                            *)
<1>10. ASSUME NEW b, NEW d, n.want # "end", n.call = d, q = Parser(b, j, d, v),
              Anywhere(b, n.want, d.of)
       PROVE  ReadsOn(m, n, t, i, q)
  <2>1. q.at = b /\ q.pt = j /\ q.call = d /\ q.val = v
    BY <1>10, Fields
  <2> QED BY <1>5, <1>10, <2>1 DEF ReadsOn, Agrees, Anywhere, j
(* It stays, in another place.                                             *)
<1>11. ASSUME NEW b, q = Parser(b, i, c, v), Place(b, w, c.of, t)
       PROVE  ReadsOn(m, n, t, i, q)
  <2>1. q.at = b /\ q.pt = i /\ q.call = c /\ q.val = v
    BY <1>11, Fields
  <2> QED BY <1>3, <1>11, <2>1 DEF ReadsOn, Agrees, w
(* It has a value.                                                         *)
<1>12. ASSUME NEW b, NEW d, NEW val, InStack(d), d.of \in Takers,
              n = Behind(d, val), q = Return(Parser(b, j, d, v), val)
       PROVE  ReadsOn(m, n, t, i, q)
  <2>1. q = Parser(q.at, j, q.call, q.val) /\ \A u : Agrees(n, u, q)
    BY <1>12, ReturnAgrees
  <2>2. q.pt = j
    BY <2>1, Fields
  <2> QED BY <2>1, <2>2 DEF ReadsOn, j
<1>13. c.of \in Takers \/ (c.of = "key" /\ c = AtKey(c.kv, c.up))
  BY <1>4, CallOf DEF Takers
<1>14. w \in Values => c.of \in Takers
  BY <1>4 DEF Fits, Takers, Values
<1>15. w \in {"key", "name", "spacedName"} => c.of = "key"
  BY <1>4 DEF Fits
(* It throws.                                                              *)
<1>16. ASSUME q = Goes(p, "throws"), Pitfall(m, token)
       PROVE  Falls(m, token, n, i, q)
  <2>1. q = Parser("throws", i, c, v)
    BY <1>7, <1>16
  <2>2. q.at = "throws" /\ q.pt = i /\ q.call = c /\ q.val = v
    BY <2>1, Fields
  <2> QED BY <1>16, <2>1, <2>2 DEF Falls
(* It takes a number that goes on.                                         *)
<1>17. ASSUME c.of \in Takers, n = Wants("point", c), NEW val,
              q = Return(Parser(a, j, c, v), val)
       PROVE  Falls(m, token, n, i, q)
  <2>1. PICK b, d, e : /\ q = Parser(b, j, d, e)
                       /\ \/ b = "done" /\ c = Main
                          \/ b = "gap" /\ InStack(d) /\ d.of \in {"arr", "key"}
    BY <1>4, <1>17, Stops
  <2>2. q.at = b /\ q.pt = j /\ q.call = d /\ q.val = e
    BY <2>1, Fields
  <2> QED BY <1>3, <1>17, <2>1, <2>2 DEF Falls, j
<1>20. CASE a = "val"
  <2>1. /\ q = parse_val(s, p)
        /\ w \in {"value", "key", "item", "name", "spacedItem", "spacedName"}
        /\ w = "item" => t # "]"
        /\ w = "name" => t # "}"
    BY <1>3, <1>6, <1>20 DEF Place
  <2>2. CASE t = "num"
    <3>1. w \in Values /\ Scalar(token) = Num(token.num)
          /\ (n = Behind(c, Num(token.num)) \/ n = Wants("point", c))
      BY <1>3, <1>5, <2>1, <2>2
         DEF Follows, Scalars, Blank, Values, Scalar, t, w, token
    <3>2. q = IF token.num > LongMax THEN Goes(p, "throws")
              ELSE Return(Skip(p), Scalar(token))
      BY <1>1, <1>2, <2>1, <2>2 DEF parse_val, Scalars, Blank, token
    <3>3. CASE token.num > LongMax
      <4>1. q = Goes(p, "throws") /\ Pitfall(m, token)
        BY <1>5, <2>2, <3>2, <3>3 DEF Pitfall
      <4> QED BY <1>16, <4>1
    <3>4. CASE ~(token.num > LongMax) /\ n = Behind(c, Num(token.num))
      <4>1. q = Return(Parser(a, j, c, v), Num(token.num))
        BY <1>7, <3>1, <3>2, <3>4
      <4> QED BY <1>4, <1>12, <1>14, <3>1, <3>4, <4>1
    <3>5. CASE ~(token.num > LongMax) /\ n = Wants("point", c)
      <4>1. q = Return(Parser(a, j, c, v), Num(token.num))
        BY <1>7, <3>1, <3>2, <3>5
      <4> QED BY <1>4, <1>14, <1>17, <3>1, <3>5, <4>1
    <3> QED BY <3>1, <3>3, <3>4, <3>5
  <2>21. CASE t \in Scalars \ {"num"} /\ w \in Values
    <3>1. n = Behind(c, Scalar(token))
      BY <1>3, <1>5, <2>21 DEF Follows, Scalars, Blank, Values, t, w, token
    <3>2. q = Return(Skip(p), Scalar(token))
      BY <1>1, <1>2, <2>1, <2>21 DEF parse_val, Scalars, Blank, token
    <3> QED BY <1>4, <1>7, <1>12, <1>14, <2>21, <3>1, <3>2
  <2>22. CASE t = "-"
    <3>1. q = Goes(p, "throws")
      BY <1>1, <1>2, <2>1, <2>22 DEF parse_val, Scalars, Blank
    <3>2. Pitfall(m, token)
      BY <1>5, <2>22 DEF Pitfall
    <3> QED BY <1>16, <3>1, <3>2
  <2>23. CASE t \in {"]", "}"}
    <3>1. q = Goes(p, "throws")
      BY <1>1, <1>2, <2>1, <2>23 DEF parse_val, Scalars, Blank
    <3>2. (w = "spacedItem" /\ t = "]") \/ (w = "spacedName" /\ t = "}")
      BY <1>3, <1>5, <2>1, <2>23 DEF Follows, Scalars, Blank, Values, t, w, token
    <3>3. Pitfall(m, token)
      BY <1>5, <3>2 DEF Pitfall, w
    <3> QED BY <1>16, <3>1, <3>3
  <2>3. CASE t = "str" /\ w \in {"key", "name", "spacedName"}
    <3> DEFINE d == AtValue(c.kv, token.str, c.up)
    <3>1. n = Wants("colon", d) /\ t = "str" /\ token.str \notin DOMAIN c.kv
      BY <1>3, <1>5, <2>3 DEF Follows, Scalars, Blank, Values, t, w, token
    <3>2. q = Return(Skip(p), Scalar(token))
      BY <1>1, <1>2, <2>1, <2>3 DEF parse_val, Scalars, Blank, token
    <3>3. q = Parser("colon", j, AtValue(c.kv, Scalar(token).str, c.up), v)
      BY <1>4, <1>5, <1>7, <1>15, <2>3, <3>1, <3>2, StrType, Returns
    <3>4. q = Parser("colon", j, d, v)
      BY <1>5, <3>1, <3>3, StrType
    <3>5. d.of = "value" /\ n.want = "colon" /\ n.call = d
      BY <3>1 DEF AtValue, Wants
    <3> HIDE DEF d
    <3>6. Anywhere("colon", n.want, d.of)
      BY <3>5 DEF Anywhere, Place
    <3> QED BY <1>10, <3>4, <3>5, <3>6
  <2>4. CASE t = "["
    <3> DEFINE d == InArray(<<>>, c)
    <3>1. n = Wants("item", d)
      BY <1>3, <1>5, <2>1, <2>4 DEF Follows, Scalars, Blank, Values, t, w, token
    <3>2. q = Call(p, d)
      BY <1>1, <1>2, <2>1, <2>4 DEF parse_val, Scalars, Blank
    <3>3. n.want = "item" /\ n.call = d
      BY <3>1 DEF Wants
    <3> HIDE DEF d
    <3>4. q = Parser("loop", j, d, v)
      BY <1>7, <3>2, Calling
    <3>5. Anywhere("loop", n.want, d.of)
      BY <3>3 DEF Anywhere, Place
    <3> QED BY <1>10, <3>3, <3>4, <3>5
  <2>5. CASE t = "{"
    <3> DEFINE d == AtKey(<<>>, c)
    <3>1. n = Wants("name", d)
      BY <1>3, <1>5, <2>1, <2>5 DEF Follows, Scalars, Blank, Values, t, w, token
    <3>2. q = Call(p, d)
      BY <1>1, <1>2, <2>1, <2>5 DEF parse_val, Scalars, Blank
    <3>3. n.want = "name" /\ n.call = d
      BY <3>1 DEF Wants
    <3> HIDE DEF d
    <3>4. q = Parser("loop", j, d, v)
      BY <1>7, <3>2, Calling
    <3>5. Anywhere("loop", n.want, d.of)
      BY <3>3 DEF Anywhere, Place
    <3> QED BY <1>10, <3>3, <3>4, <3>5
  <2>6. CASE t \in Blank
    <3>1. q = Skip(p)
      BY <1>1, <1>2, <2>1, <2>6 DEF parse_val, Scalars, Blank
    <3>2. n.want \in {"value", "key", "spacedItem", "spacedName"} /\ n.call = c
      <4>1. \/ n = Wants("spacedItem", c) \/ n = Wants("spacedName", c)
            \/ n = m /\ w \in {"key", "value"}
        BY <1>3, <1>5, <2>1, <2>6 DEF Follows, Scalars, Blank, Values, t, w, token
      <4> QED BY <1>3, <4>1 DEF Wants, w
    <3>3. Anywhere("val", n.want, c.of)
      BY <3>2 DEF Anywhere, Place
    <3> QED BY <1>7, <1>10, <1>20, <3>1, <3>2, <3>3
  <2> QED BY <1>3, <1>5, <2>1, <2>2, <2>21, <2>22, <2>23, <2>3, <2>4, <2>5, <2>6
          DEF Follows, Scalars, Blank, Values, t, w, token
<1>30. CASE a = "gap"
  <2>1. w \in {"next", "value", "key"}
    BY <1>3, <1>30 DEF Place
  <2>2. q = IF t \in Gap THEN Skip(p) ELSE Goes(p, "loop")
    BY <1>1, <1>2, <1>6, <1>30 DEF parse_array, parse_kv
  <2>3. CASE t \in Gap
    <3>1. n.want \in {"next", "value", "key"} /\ n.call = c
      <4>1. \/ n = Wants("value", c) \/ n = Wants("key", c) \/ n = m
        BY <1>3, <1>5, <2>1, <2>3 DEF Follows, Gap, Scalars, Blank, Values, t, w, token
      <4> QED BY <1>3, <2>1, <4>1 DEF Wants, w
    <3>2. Anywhere("gap", n.want, c.of)
      BY <3>1 DEF Anywhere, Place
    <3>3. q = Parser("gap", j, c, v) /\ n.want # "end"
      BY <1>7, <1>30, <2>2, <2>3, <3>1
    <3> QED BY <1>10, <3>1, <3>2, <3>3
  <2>4. CASE t \notin Gap
    <3>1. Place("loop", w, c.of, t)
      BY <2>1, <2>4 DEF Place
    <3> QED BY <1>7, <1>11, <2>2, <2>4, <3>1
  <2> QED BY <2>3, <2>4
<1>40. CASE a = "loop"
  <2>1. w \in {"item", "name"} \/ (w \in {"next", "value", "key"} /\ t \notin Gap)
    BY <1>3, <1>40 DEF Place
  <2>2. t # "end"
    BY <1>5 DEF Follows, Scalars, Blank, Values, t, w, token
  <2>4. CASE c.of = "arr" /\ t = "]"
    <3>1. n = Behind(c.up, Arr(c.arr))
      BY <1>3, <1>5, <2>1, <2>4 DEF Follows, Gap, Scalars, Blank, Values, t, w, token
    <3>2. q = Return(Leave(p), Arr(p.call.arr))
      BY <1>1, <1>2, <1>6, <1>40, <2>4 DEF parse_array
    <3>3. InStack(c.up) /\ c.up.of \in Takers
      BY <1>4, <2>4, CallOf
    <3> QED BY <1>1, <1>7, <1>12, <3>1, <3>2, <3>3
  <2>5. CASE c.of = "arr" /\ t # "]"
    <3>1. w \in {"item", "value"}
      BY <1>3, <1>4, <1>5, <2>1, <2>5
         DEF Follows, Fits, Gap, Scalars, Blank, Values, t, w, token
    <3>2. q = Goes(p, "val")
      BY <1>1, <1>2, <1>6, <1>40, <2>2, <2>5 DEF parse_array
    <3>3. Place("val", w, c.of, t)
      BY <2>5, <3>1 DEF Place
    <3> QED BY <1>7, <1>11, <3>2, <3>3
  <2>6. CASE c.of # "arr" /\ t = "}"
    <3>1. n = Behind(c.up, Obj(c.kv)) /\ c.of = "key"
      BY <1>3, <1>5, <2>1, <2>6 DEF Follows, Gap, Scalars, Blank, Values, t, w, token
    <3>2. q = Return(Leave(p), Obj(p.call.kv))
      BY <1>1, <1>2, <1>6, <1>40, <2>6 DEF parse_kv
    <3>3. InStack(c.up) /\ c.up.of \in Takers
      BY <1>4, <3>1, CallOf
    <3> QED BY <1>1, <1>7, <1>12, <3>1, <3>2, <3>3
  <2>7. CASE c.of # "arr" /\ t # "}"
    <3>1. w \in {"name", "value", "key"}
      BY <1>3, <1>4, <1>5, <2>1, <2>7
         DEF Follows, Fits, Gap, Scalars, Blank, Values, t, w, token
    <3>2. q = Goes(p, "val")
      BY <1>1, <1>2, <1>6, <1>40, <2>7 DEF parse_kv
    <3>3. Place("val", w, c.of, t)
      BY <2>7, <3>1 DEF Place
    <3> QED BY <1>7, <1>11, <3>2, <3>3
  <2> QED BY <2>4, <2>5, <2>6, <2>7
<1>50. CASE a = "colon"
  <2>1. w \in {"colon", "value"} /\ c.of = "value"
    BY <1>3, <1>50 DEF Place
  <2>2. q = IF t \in {"sp", ":"} THEN Skip(p) ELSE Goes(p, "val")
    BY <1>1, <1>2, <1>6, <1>50, <2>1 DEF parse_kv
  <2>3. CASE t \in {"sp", ":"}
    <3>1. n.want \in {"colon", "value"} /\ n.call = c
      <4>1. n = Wants("value", c) \/ n = m
        BY <1>3, <1>5, <2>1, <2>3 DEF Follows, Scalars, Blank, Values, t, w, token
      <4> QED BY <1>3, <2>1, <4>1 DEF Wants, w
    <3>2. Anywhere("colon", n.want, c.of)
      BY <2>1, <3>1 DEF Anywhere, Place
    <3>3. q = Parser("colon", j, c, v) /\ n.want # "end"
      BY <1>7, <1>50, <2>2, <2>3, <3>1
    <3> QED BY <1>10, <3>1, <3>2, <3>3
  <2>4. CASE t \notin {"sp", ":"}
    <3>1. w = "value" \/ (w = "colon" /\ t = "nl")
      BY <1>3, <1>5, <2>1, <2>4 DEF Follows, Scalars, Blank, Values, t, w, token
    <3>2. CASE w = "value"
      <4>1. Place("val", w, c.of, t)
        BY <3>2 DEF Place
      <4> QED BY <1>7, <1>11, <2>2, <2>4, <4>1
    <3>3. CASE w = "colon" /\ t = "nl"
      <4>1. q = Parser("val", i, c, v)
        BY <1>7, <2>2, <2>4
      <4>2. q.at = "val" /\ q.pt = i /\ q.call = c /\ q.val = v
        BY <4>1, Fields
      <4>3. Pitfall(m, token)
        BY <1>5, <3>3 DEF Pitfall, w
      <4> QED BY <1>3, <3>3, <4>1, <4>2, <4>3 DEF Falls, w
    <3> QED BY <3>1, <3>2, <3>3
  <2> QED BY <2>3, <2>4
<1> QED BY <1>3, <1>20, <1>30, <1>40, <1>50 DEF Place, p, q, t

(* At the end of a text that was cut short, in a call.                     *)
Lost(a, c) ==
  /\ InStack(c) /\ c.of # "main"
  /\ a \in {"val", "gap", "loop", "hang", "undefined"} \/ (a = "colon" /\ c.of = "value")

(* A value for whoever waits for one, or for a key.                        *)
LEMMA Strays ==
  ASSUME NEW c, InStack(c), NEW a, NEW i, NEW v, NEW val, "str" \notin DOMAIN val
  PROVE  \E b, d, e :
           /\ Return(Parser(a, i, c, v), val) = Parser(b, i, d, e)
           /\ (b = "done" /\ c = Main) \/ Lost(b, d)
<1>1. CASE c.of \in Takers
  <2>1. PICK b, d, e :
          /\ Return(Parser(a, i, c, v), val) = Parser(b, i, d, e)
          /\ \/ b = "done" /\ c = Main
             \/ b = "gap" /\ InStack(d) /\ d.of \in {"arr", "key"}
    BY <1>1, Stops
  <2>2. (b = "done" /\ c = Main) \/ Lost(b, d)
    BY <2>1 DEF Lost
  <2> QED BY <2>1, <2>2
<1>2. CASE c.of = "key"
  <2>1. Return(Parser(a, i, c, v), val) = Parser("undefined", i, c, v)
    BY <1>2, Returns
  <2>2. Lost("undefined", c)
    BY <1>2 DEF Lost
  <2> QED BY <2>1, <2>2
<1> QED BY <1>1, <1>2, CallOf DEF Takers

LEMMA EndReads ==
  ASSUME NEW s, NEW a, NEW i, NEW c, NEW v,
         Token(s, Parser(a, i, c, v)) = "end", Lost(a, c), a \notin JsonEnds
  PROVE  LET q == json_parser(s, Parser(a, i, c, v))
         IN  q = Parser(q.at, i, q.call, q.val) /\ Lost(q.at, q.call)
<1> DEFINE p == Parser(a, i, c, v)
           q == json_parser(s, p)
<1>1. p.at = a /\ p.call = c /\ Token(s, p) = "end"
  BY Fields
<1>2. /\ Goes(p, "val") = Parser("val", i, c, v)
      /\ Goes(p, "loop") = Parser("loop", i, c, v)
      /\ Goes(p, "hang") = Parser("hang", i, c, v)
  BY GoesTo
<1>3. InStack(c) /\ c.of \in {"arr", "key", "value"} /\ InStack(c.up)
      /\ c.up.of \in Takers
  BY CallOf DEF Lost
<1>4. ASSUME NEW b, NEW d, InStack(d), d.of # "main", q = Parser(b, i, d, v),
             b \in {"val", "gap", "loop", "hang", "undefined"}
      PROVE  q = Parser(q.at, i, q.call, q.val) /\ Lost(q.at, q.call)
  <2>1. q.at = b /\ q.call = d /\ q.val = v
    BY <1>4, Fields
  <2> QED BY <1>4, <2>1 DEF Lost
<1>5. a \in {"val", "gap", "loop"} \/ (a = "colon" /\ c.of = "value")
  BY DEF Lost, JsonEnds
<1>6. q = json_parser(s, p)
  OBVIOUS
<1> SUFFICES q = Parser(q.at, i, q.call, q.val) /\ Lost(q.at, q.call)
  OBVIOUS
<1> HIDE DEF p, q
<1>7. CASE a = "val"
  <2>1. q = Return(p, Num(0))
    <3>1. q = parse_val(s, p)
      BY <1>1, <1>6, <1>7 DEF json_parser
    <3> QED BY <1>1, <3>1 DEF parse_val, Blank, Scalars
  <2>2. "str" \notin DOMAIN Num(0)
    BY DEF Num
  <2>3. PICK b, d, e : q = Parser(b, i, d, e) /\ Lost(b, d)
    <3>1. PICK b, d, e : /\ q = Parser(b, i, d, e)
                         /\ (b = "done" /\ c = Main) \/ Lost(b, d)
      BY <1>3, <2>1, <2>2, Strays DEF p
    <3>2. c # Main
      BY <1>3 DEF Main
    <3> QED BY <3>1, <3>2
  <2>4. q.at = b /\ q.call = d /\ q.val = e
    BY <2>3, Fields
  <2> QED BY <2>3, <2>4
<1>8. CASE a # "val" /\ c.of = "arr"
  <2>1. q = parse_array(s, p)
    BY <1>1, <1>6, <1>8 DEF json_parser
  <2>2. q = Goes(p, "loop") \/ q = Goes(p, "hang")
    BY <1>1, <1>5, <1>8, <2>1 DEF parse_array, Gap, Blank
  <2> QED BY <1>2, <1>3, <1>4, <1>8, <2>2
<1>9. CASE a # "val" /\ c.of # "arr"
  <2>1. q = parse_kv(s, p)
    BY <1>1, <1>6, <1>9 DEF json_parser
  <2>2. q = Goes(p, "loop") \/ q = Goes(p, "val")
    BY <1>1, <1>5, <1>9, <2>1 DEF parse_kv, Gap, Blank
  <2> QED BY <1>2, <1>3, <1>4, <1>9, <2>2
<1> QED BY <1>7, <1>8, <1>9

(* A last token of which the end is missing.                               *)
LEMMA BrokenReads ==
  ASSUME NEW s, NEW a, NEW i \in 1..Len(s), Len(s) \in Nat, NEW c, NEW v,
         NEW m, s[i].t \in {"open", "part", "num"}, a # "done",
         m.want \in Values \cup {"key", "name", "spacedName", "digits"},
         Agrees(m, s[i].t, Parser(a, i, c, v))
  PROVE  LET q == json_parser(s, Parser(a, i, c, v))
         IN  /\ q = Parser(q.at, q.pt, q.call, q.val)
             /\ \/ q.pt = i /\ Agrees(m, s[i].t, q)
                \/ q.pt = i /\ q.at \in {"throws", "undefined"}
                \/ q.pt = i + 1 /\ q.at = "done" /\ m.call = Main
                \/ q.pt = i + 1 /\ Lost(q.at, q.call)
<1> DEFINE p == Parser(a, i, c, v)
           q == json_parser(s, p)
           t == s[i].t
           w == m.want
           j == i + 1
           Breaks == /\ q = Parser(q.at, q.pt, q.call, q.val)
                     /\ \/ q.pt = i /\ Agrees(m, t, q)
                        \/ q.pt = i /\ q.at \in {"throws", "undefined"}
                        \/ q.pt = j /\ q.at = "done" /\ m.call = Main
                        \/ q.pt = j /\ Lost(q.at, q.call)
<1>1. p.at = a /\ p.pt = i /\ p.call = c /\ p.val = v
  BY Fields
<1>2. Token(s, p) = t /\ s[p.pt] = s[i]
  <2>1. i <= Len(s)
    OBVIOUS
  <2> QED BY <1>1, <2>1 DEF Token
<1>3. /\ MarkOK(m) /\ c = m.call /\ Place(a, w, c.of, t)
      /\ w \in Values \cup {"key", "name", "spacedName", "digits"}
  <2>1. Agrees(m, t, p)
    OBVIOUS
  <2> HIDE DEF p, t
  <2> QED BY <1>1, <2>1 DEF Agrees, Values
<1>4. InStack(c)
  BY <1>3 DEF MarkOK, Values
<1>5. /\ a = "val" => q = parse_val(s, p)
      /\ a # "val" /\ c.of = "arr" => q = parse_array(s, p)
      /\ a # "val" /\ c.of # "arr" => q = parse_kv(s, p)
  <2>1. q = json_parser(s, p)
    OBVIOUS
  <2> HIDE DEF q, p
  <2> QED BY <1>1, <2>1 DEF json_parser
<1>6. /\ Skip(p) = Parser(a, j, c, v)
      /\ \A b : Goes(p, b) = Parser(b, i, c, v)
  BY Skips, GoesTo
<1>7. t \in {"open", "part", "num"}
  OBVIOUS
<1> SUFFICES Breaks
  OBVIOUS
<1> HIDE DEF p, q, t, w, j
<1>8. ASSUME NEW b, q = Goes(p, b), b \in {"throws", "undefined"} \/ Place(b, w, c.of, t)
      PROVE  Breaks
  <2>1. q = Parser(b, i, c, v)
    BY <1>6, <1>8
  <2>2. q.at = b /\ q.pt = i /\ q.call = c /\ q.val = v
    BY <2>1, Fields
  <2> QED BY <1>3, <1>8, <2>1, <2>2 DEF Agrees, Values, w
<1>9. ASSUME NEW val, "str" \notin DOMAIN val, q = Return(Skip(p), val)
      PROVE  Breaks
  <2>1. PICK b, d, e : /\ q = Parser(b, j, d, e)
                       /\ (b = "done" /\ c = Main) \/ Lost(b, d)
    BY <1>4, <1>6, <1>9, Strays
  <2>2. q.at = b /\ q.pt = j /\ q.call = d /\ q.val = e
    BY <2>1, Fields
  <2> QED BY <1>3, <2>1, <2>2
<1>10. CASE a = "val"
  <2>1. CASE t = "open"
    <3>1. q = Goes(p, "undefined")
      BY <1>2, <1>5, <1>10, <2>1 DEF parse_val, Scalars, Blank
    <3> QED BY <1>8, <3>1
  <2>2. CASE t = "part"
    <3>1. q = Goes(p, "undefined") \/ q = Return(Skip(p), Word(s[i].word))
      BY <1>2, <1>5, <1>10, <2>2 DEF parse_val, Scalars, Blank
    <3>2. "str" \notin DOMAIN Word(s[i].word)
      BY DEF Word
    <3> QED BY <1>8, <1>9, <3>1, <3>2
  <2>3. CASE t = "num"
    <3>1. q = Goes(p, "throws") \/ q = Return(Skip(p), Scalar(s[i]))
      BY <1>2, <1>5, <1>10, <2>3 DEF parse_val, Scalars, Blank
    <3>2. "str" \notin DOMAIN Scalar(s[i])
      BY <2>3 DEF Scalar, Num, t
    <3> QED BY <1>8, <1>9, <3>1, <3>2
  <2> QED BY <1>7, <2>1, <2>2, <2>3
<1>11. CASE a = "gap"
  <2>1. q = Goes(p, "loop")
    BY <1>1, <1>2, <1>5, <1>7, <1>11 DEF parse_array, parse_kv, Gap, Blank
  <2>2. Place("loop", w, c.of, t)
    BY <1>3, <1>7, <1>11 DEF Place, Gap, Blank
  <2> QED BY <1>8, <2>1, <2>2
<1>12. CASE a = "loop"
  <2>1. q = Goes(p, "val")
    BY <1>1, <1>2, <1>5, <1>7, <1>12 DEF parse_array, parse_kv
  <2>2. Place("val", w, c.of, t)
    BY <1>3, <1>7, <1>12 DEF Place, Values
  <2> QED BY <1>8, <2>1, <2>2
<1>13. CASE a = "colon"
  <2>1. q = Goes(p, "val")
    BY <1>1, <1>2, <1>3, <1>5, <1>7, <1>13 DEF parse_kv, Place
  <2>2. Place("val", w, c.of, t)
    BY <1>3, <1>7, <1>13 DEF Place, Values
  <2> QED BY <1>8, <2>1, <2>2
<1> QED BY <1>3, <1>10, <1>11, <1>12, <1>13 DEF Place

(* What holds of each behind one it holds of, holds of all up to the last. *)
LEMMA Onward ==
  ASSUME NEW i \in Nat, NEW z \in Nat, NEW S, i \in S,
         \A k \in i..(z - 1) : k \in S => k + 1 \in S
  PROVE  \A k \in i..z : k \in S
<1> DEFINE T == {k \in i..z : k \notin S}
<1>1. CASE T # {}
  <2>1. T \subseteq Nat
    OBVIOUS
  <2>2. PICK k \in T : \A l \in T : k <= l
    BY <1>1, <2>1, LeastNat
  <2>3. k # i /\ k \in i..z /\ k \notin S
    BY <2>2
  <2>4. k - 1 \in i..(z - 1) /\ k - 1 \in i..z /\ k - 1 + 1 = k
    BY <2>3
  <2>5. k - 1 \notin T
    BY <2>2, <2>4
  <2>6. k - 1 + 1 \in S
    BY <2>4, <2>5
  <2> QED BY <2>3, <2>4, <2>6
<1> QED BY <1>1

LEMMA Following ==
  ASSUME NEW j, JsonWritten(j), NEW i \in 1..Len(j.text)
  PROVE  Follows(j.marks[i], j.text[i], j.marks[i + 1])
<1>1. j.marks[i + 1] \in After(j.marks[i], j.text[i])
  BY DEF JsonWritten
<1> QED BY <1>1, AfterFollows

Nested(val) == DOMAIN val \cap {"arr", "obj"} # {}

(* The whole is a scalar, and all of it is read but for the end of a       *)
(* number.                                                                 *)
Settled(m) ==
  \/ m \in {Wants("point", Main), Wants("digits", Main)}
  \/ m = [want |-> "end", val |-> m.val] /\ ~Nested(m.val)

LEMMA ScalarSettles ==
  ASSUME NEW token, token.t \in Scalars
  PROVE  /\ Settled(Behind(Main, Scalar(token))) /\ Settled(Behind(Main, Real))
         /\ Settled(Behind(Main, Num(token.num)))
         /\ Settled(Wants("point", Main)) /\ Settled(Wants("digits", Main))
<1>1. ASSUME NEW val, ~Nested(val) PROVE Settled(Behind(Main, val))
  <2>1. Behind(Main, val) = [want |-> "end", val |-> val]
    BY DEF Behind, Main
  <2>2. Behind(Main, val).val = val
    BY <2>1
  <2> QED BY <1>1, <2>1, <2>2 DEF Settled
<1>2. ~Nested(Real) /\ \A x : ~Nested(Num(x)) /\ ~Nested(Str(x)) /\ ~Nested(Word(x))
  BY DEF Nested, Real, Num, Str, Word
<1>3. ~Nested(Scalar(token))
  BY <1>2 DEF Scalar
<1> QED BY <1>1, <1>2, <1>3 DEF Settled

LEMMA SettledStays ==
  ASSUME NEW j, JsonWritten(j), NEW i \in 1..(Len(j.text) + 1), Settled(j.marks[i])
  PROVE  ~Nested(j.json)
<1> DEFINE z == Len(j.text) + 1
           S == {k \in Nat : Settled(j.marks[k])}
<1>1. Len(j.text) \in Nat /\ z \in Nat /\ i \in S /\ i \in Nat /\ z \in i..z
  BY DEF JsonWritten
<1>2. ASSUME NEW k \in i..(z - 1), k \in S PROVE k + 1 \in S
  <2> DEFINE m == j.marks[k]
             n == j.marks[k + 1]
             token == j.text[k]
  <2>1. Follows(m, token, n) /\ Settled(m) /\ k + 1 \in Nat
    <3>1. k \in 1..Len(j.text)
      BY <1>1
    <3> QED BY <1>1, <1>2, <3>1, Following
  <2> HIDE DEF m, n, token
  <2>2. CASE m \in {Wants("point", Main), Wants("digits", Main)}
    <3>1. m.want \in {"point", "digits"} /\ m.call = Main
      BY <2>2 DEF Wants
    <3>2. \/ n = Wants("digits", Main)
          \/ token.t = "num" /\ (n = Behind(Main, Real) \/ n = Wants("point", Main))
      BY <2>1, <3>1 DEF Follows, Values
    <3>3. Settled(n)
      <4>1. Settled(Wants("digits", Main)) /\ Settled(Wants("point", Main))
        BY DEF Settled
      <4>2. token.t = "num" => Settled(Behind(Main, Real))
        BY ScalarSettles DEF Scalars
      <4> QED BY <3>2, <4>1, <4>2
    <3> QED BY <2>1, <3>3 DEF n
  <2>3. CASE m = [want |-> "end", val |-> m.val]
    <3>1. m.want = "end"
      BY <2>3
    <3>2. n = m
      BY <2>1, <3>1 DEF Follows, Values
    <3> QED BY <2>1, <3>2 DEF n
  <2> QED BY <2>1, <2>2, <2>3 DEF Settled
<1>3. z \in S
  <2> HIDE DEF S, z
  <2> QED BY <1>1, <1>2, Onward
<1>4. j.marks[z] = [want |-> "end", val |-> j.json]
  BY DEF JsonWritten
<1>5. j.marks[z].want = "end" /\ j.marks[z].val = j.json
  BY <1>4
<1> QED BY <1>3, <1>5 DEF Settled, Wants

(* Behind the whole there are blanks.                                      *)
LEMMA EndStays ==
  ASSUME NEW j, JsonWritten(j), NEW i \in 1..(Len(j.text) + 1),
         j.marks[i].want = "end"
  PROVE  /\ j.marks[i].val = j.json
         /\ \A k \in i..Len(j.text) : j.text[k].t \in Blank
<1> DEFINE z == Len(j.text) + 1
           S == {k \in Nat : j.marks[k] = j.marks[i]}
<1>1. Len(j.text) \in Nat /\ z \in Nat /\ i \in S /\ i \in Nat /\ z \in i..z
  BY DEF JsonWritten
<1>2. ASSUME NEW k \in i..(z - 1), k \in S
      PROVE  k + 1 \in S /\ j.text[k].t \in Blank
  <2>1. Follows(j.marks[k], j.text[k], j.marks[k + 1]) /\ k + 1 \in Nat
    <3>1. k \in 1..Len(j.text)
      BY <1>1
    <3> QED BY <1>1, <3>1, Following
  <2>2. j.marks[k].want = "end" /\ j.marks[k] = j.marks[i]
    BY <1>2
  <2>3. j.marks[k + 1] = j.marks[k] /\ j.text[k].t \in Blank
    BY <2>1, <2>2 DEF Follows, Values
  <2> QED BY <2>1, <2>2, <2>3
<1>3. \A k \in i..z : k \in S
  <2> HIDE DEF S, z
  <2> QED BY <1>1, <1>2, Onward
<1>4. j.marks[z] = [want |-> "end", val |-> j.json]
  BY DEF JsonWritten
<1>5. j.marks[i] = [want |-> "end", val |-> j.json]
  BY <1>1, <1>3, <1>4
<1>6. \A k \in i..Len(j.text) : j.text[k].t \in Blank
  <2> TAKE k \in i..Len(j.text)
  <2>1. k \in i..(z - 1) /\ k \in i..z
    BY <1>1
  <2> QED BY <1>2, <1>3, <2>1
<1> QED BY <1>5, <1>6

AllBlank(s) == \A i \in 1..Len(s) : s[i].t \in Blank

(* Where the parser is: at the mark of the place where it is; at its end;  *)
(* behind the end of what was given; in front of a colon that it takes for *)
(* a value, or of a point.                                                 *)
Live(j, p) ==
  /\ Agrees(j.marks[p.pt], Token(j.given, p), p)
  /\ j.marks[p.pt] = Wants("value", Main) =>
       \A i \in 1..(p.pt - 1) : j.given[i].t \in Blank

Ended(j, p) ==
  \/ /\ ~Plain(j) \/ Cut(j)
     /\ p.at = "throws" \/ (p.at = "done" /\ ~Nested(j.json))
  \/ Cut(j) /\ p.at \in {"undefined", "hang"}
  \/ Cut(j) /\ p.at = "done" /\ AllBlank(j.given)

Behindhand(j, p) == Cut(j) /\ p.pt = Len(j.given) + 1 /\ Lost(p.at, p.call)

AtColon(j, p) ==
  /\ ~Plain(j) /\ p.at = "val" /\ InStack(p.call) /\ p.call.of = "value"
  /\ j.marks[p.pt].want = "colon" /\ p.pt <= Len(j.given)

AtPoint(j, p) ==
  /\ ~Plain(j) /\ p.at \in {"gap", "loop", "val"} /\ InStack(p.call)
  /\ p.call.of \in {"arr", "key"} /\ Token(j.given, p) = "-"

JsonAt(j, p) ==
  /\ p = Parser(p.at, p.pt, p.call, p.val) /\ p.pt \in 1..(Len(j.given) + 1)
  /\ \/ Live(j, p) \/ Ended(j, p) \/ Behindhand(j, p)
     \/ AtColon(j, p) \/ AtPoint(j, p)

LEMMA JsonStarts ==
  ASSUME NEW j, JsonWritten(j)
  PROVE  JsonAt(j, JsonStart)
<1> DEFINE p == JsonStart
           m == j.marks[1]
<1>1. p = Parser("val", 1, Main, Num(0))
  BY DEF JsonStart, Parser
<1>2. p.at = "val" /\ p.pt = 1 /\ p.call = Main /\ p.val = Num(0)
  BY <1>1, Fields
<1>3. m = Wants("value", Main) /\ Len(j.given) \in Nat
  BY DEF JsonWritten
<1>4. InStack(Main) /\ Main.of = "main"
  BY StackPush DEF Main
<1>5. MarkOK(m) /\ m.want = "value" /\ m.call = Main
  BY <1>3, <1>4, Marked DEF Fits, Takers
<1> HIDE DEF p, m
<1>6. Agrees(m, Token(j.given, p), p)
  BY <1>2, <1>5 DEF Agrees, Place
<1>7. p.pt \in 1..(Len(j.given) + 1) /\ 1..(p.pt - 1) = {}
  BY <1>2, <1>3
<1>8. Live(j, p)
  BY <1>2, <1>6, <1>7 DEF Live, m
<1> QED BY <1>1, <1>2, <1>7, <1>8 DEF JsonAt, p

(* A step where the next token is as it was written.                       *)
LEMMA JsonReadsOn ==
  ASSUME NEW j, JsonWritten(j), NEW p, JsonAt(j, p), Live(j, p),
         p.at \notin JsonEnds, p.pt <= Len(j.given), j.given[p.pt] = j.text[p.pt]
  PROVE  JsonAt(j, json_parser(j.given, p))
<1> DEFINE s == j.given
           g == Len(s)
           i == p.pt
           k == i + 1
           m == j.marks[i]
           n == j.marks[k]
           token == s[i]
           t == s[i].t
           q == json_parser(s, p)
<1>1. /\ g \in Nat /\ Len(j.text) \in Nat /\ g <= Len(j.text)
      /\ i \in 1..g /\ i \in 1..Len(j.text) /\ k \in 1..(g + 1)
      /\ k \in 1..(Len(j.text) + 1) /\ i \in 1..(g + 1)
  BY DEF JsonWritten, JsonAt
<1>2. Follows(m, token, n) /\ token = j.text[i]
  BY <1>1, Following
<1>3. /\ Token(s, p) = t /\ Agrees(m, t, p)
      /\ p = Parser(p.at, i, p.call, p.val)
      /\ m = Wants("value", Main) => \A l \in 1..(i - 1) : s[l].t \in Blank
  BY <1>1 DEF Live, JsonAt, Token
<1>4. MarkOK(m) /\ m.want # "end" /\ p.at # "done"
  BY <1>3 DEF Agrees, JsonEnds
<1>5. ReadsOn(m, n, t, i, q) \/ Falls(m, token, n, i, q)
  <2> HIDE DEF m, n
  <2> QED BY <1>1, <1>2, <1>3, <1>4, TokenReads
<1>6. Pitfall(m, token) => ~Plain(j)
  BY <1>1, <1>2 DEF Plain
<1>7. m = Wants(m.want, m.call) /\ InStack(m.call) /\ Fits(m.want, m.call.of)
  BY <1>4 DEF MarkOK
<1> SUFFICES JsonAt(j, q)
  OBVIOUS
<1> HIDE DEF q
<1>8. q = Parser(q.at, q.pt, q.call, q.val)
  BY <1>5 DEF ReadsOn, Falls
<1>10. CASE q.pt = i /\ Agrees(m, t, q)
  <2>1. Token(s, q) = t
    BY <1>1, <1>10 DEF Token
  <2>2. Live(j, q)
    BY <1>3, <1>10, <2>1 DEF Live
  <2> QED BY <1>1, <1>8, <1>10, <2>2 DEF JsonAt
<1>11. CASE q.pt = k /\ \A u : Agrees(n, u, q)
  <2>1. ASSUME n = Wants("value", Main)
        PROVE  \A l \in 1..(k - 1) : s[l].t \in Blank
    <3>1. m = Wants("value", Main) /\ t \in Blank
      BY <1>2, <1>4, <2>1, AfterMarked
    <3>2. \A l \in 1..(k - 1) : l = i \/ l \in 1..(i - 1)
      BY <1>1
    <3> QED BY <1>3, <3>1, <3>2
  <2>2. Live(j, q)
    BY <1>11, <2>1 DEF Live
  <2> QED BY <1>1, <1>8, <1>11, <2>2 DEF JsonAt
<1>12. CASE q.at = "throws" /\ q.pt = i /\ Pitfall(m, token)
  <2>1. Ended(j, q)
    BY <1>6, <1>12 DEF Ended
  <2> QED BY <1>1, <1>8, <1>12, <2>1 DEF JsonAt
<1>13. CASE q.at = "val" /\ q.pt = i /\ Pitfall(m, token) /\ m.want = "colon"
            /\ q.call = m.call
  <2>1. q.call.of = "value"
    BY <1>7, <1>13 DEF Fits
  <2>2. AtColon(j, q)
    BY <1>1, <1>6, <1>7, <1>13, <2>1 DEF AtColon
  <2> QED BY <1>1, <1>8, <1>13, <2>2 DEF JsonAt
<1>14. CASE q.pt = k /\ n = Wants("point", m.call)
  <2>1. k \in 1..Len(j.text)
    <3>1. n.want # "end"
      BY <1>14 DEF Wants
    <3>2. k # Len(j.text) + 1
      BY <3>1 DEF JsonWritten
    <3> QED BY <1>1, <3>2
  <2>2. j.text[k].t = "-"
    <3>1. Follows(n, j.text[k], j.marks[k + 1])
      BY <2>1, Following
    <3>2. n.want = "point"
      BY <1>14 DEF Wants
    <3> QED BY <3>1, <3>2 DEF Follows, Values
  <2>3. ~Plain(j)
    BY <2>1, <2>2 DEF Plain, Pitfall
  <2>4. CASE q.at = "done" /\ m.call = Main
    <3>1. Settled(n)
      BY <1>14, <2>4 DEF Settled
    <3>2. Ended(j, q)
      BY <1>1, <2>3, <2>4, <3>1, SettledStays DEF Ended
    <3> QED BY <1>1, <1>8, <1>14, <3>2 DEF JsonAt
  <2>5. CASE q.at = "gap" /\ InStack(q.call) /\ q.call.of \in {"arr", "key"}
    <3>1. CASE k = g + 1
      <4>1. Cut(j)
        BY <1>1, <2>1, <3>1 DEF Cut
      <4>2. Behindhand(j, q)
        BY <1>14, <2>5, <3>1, <4>1 DEF Behindhand, Lost
      <4> QED BY <1>1, <1>8, <1>14, <4>2 DEF JsonAt
    <3>2. CASE k # g + 1
      <4>1. k \in 1..g /\ k <= g
        BY <1>1, <3>2
      <4>2. s[k] = j.text[k] \/ Broken(j.text[k], s[k])
        BY <4>1 DEF JsonWritten
      <4>3. s[k].t = "-"
        BY <2>2, <4>2 DEF Broken
      <4>4. Token(s, q) = "-"
        BY <1>14, <4>1, <4>3 DEF Token
      <4>5. AtPoint(j, q)
        BY <2>3, <2>5, <4>4 DEF AtPoint
      <4> QED BY <1>1, <1>8, <1>14, <4>5 DEF JsonAt
    <3> QED BY <3>1, <3>2
  <2> QED BY <1>5, <1>10, <1>11, <1>12, <1>13, <1>14, <2>4, <2>5 DEF ReadsOn, Falls
<1> QED BY <1>5, <1>10, <1>11, <1>12, <1>13, <1>14 DEF ReadsOn, Falls

(* A step at a token of which the end is missing.                          *)
LEMMA JsonBreaks ==
  ASSUME NEW j, JsonWritten(j), NEW p, JsonAt(j, p), Live(j, p),
         p.at \notin JsonEnds, p.pt <= Len(j.given), j.given[p.pt] # j.text[p.pt]
  PROVE  JsonAt(j, json_parser(j.given, p))
<1> DEFINE s == j.given
           g == Len(s)
           i == p.pt
           k == i + 1
           m == j.marks[i]
           n == j.marks[k]
           token == j.text[i]
           t == s[i].t
           q == json_parser(s, p)
<1>1. /\ g \in Nat /\ Len(j.text) \in Nat /\ g <= Len(j.text)
      /\ i \in 1..g /\ i \in 1..Len(j.text) /\ k \in 1..(g + 1)
      /\ k \in 1..(Len(j.text) + 1) /\ i \in 1..(g + 1)
  BY DEF JsonWritten, JsonAt
<1>2. Follows(m, token, n)
  BY <1>1, Following
<1>3. /\ Token(s, p) = t /\ Agrees(m, t, p)
      /\ p = Parser(p.at, i, p.call, p.val)
      /\ m = Wants("value", Main) => \A l \in 1..(i - 1) : s[l].t \in Blank
  BY <1>1 DEF Live, JsonAt, Token
<1>4. MarkOK(m) /\ m.want # "end" /\ p.at # "done"
  BY <1>3 DEF Agrees, JsonEnds
<1>5. i = g /\ Broken(token, s[i])
  BY <1>1 DEF JsonWritten
<1>6. Cut(j)
  BY DEF Cut
<1>7. token.t \in Scalars /\ t \in {"open", "part", "num"}
  BY <1>5 DEF Broken, Scalars
<1>8. m.want \in Values \cup {"key", "name", "spacedName", "digits"}
  BY <1>2, <1>4, <1>7 DEF Follows, Scalars, Blank
<1>9. /\ q = Parser(q.at, q.pt, q.call, q.val)
      /\ \/ q.pt = i /\ Agrees(m, t, q)
         \/ q.pt = i /\ q.at \in {"throws", "undefined"}
         \/ q.pt = i + 1 /\ q.at = "done" /\ m.call = Main
         \/ q.pt = i + 1 /\ Lost(q.at, q.call)
  <2> HIDE DEF m
  <2> QED BY <1>1, <1>3, <1>4, <1>7, <1>8, BrokenReads
<1> SUFFICES JsonAt(j, q)
  OBVIOUS
<1> HIDE DEF q
<1>10. CASE q.pt = i /\ Agrees(m, t, q)
  <2>1. Token(s, q) = t
    BY <1>1, <1>10 DEF Token
  <2>2. Live(j, q)
    BY <1>3, <1>10, <2>1 DEF Live
  <2> QED BY <1>1, <1>9, <1>10, <2>2 DEF JsonAt
<1>11. CASE q.pt = i /\ q.at \in {"throws", "undefined"}
  <2>1. Ended(j, q)
    BY <1>6, <1>11 DEF Ended
  <2> QED BY <1>1, <1>9, <1>11, <2>1 DEF JsonAt
<1>12. CASE q.pt = k /\ q.at = "done" /\ m.call = Main
  <2>1. Settled(n)
    <3>1. Main.of = "main" /\ Fits(m.want, "main")
      BY <1>4, <1>12 DEF MarkOK, Main
    <3>2. m.want \in {"value", "digits"}
      BY <1>8, <3>1 DEF Fits, Values
    <3>3. \/ n \in {Wants("point", Main), Wants("digits", Main)}
          \/ n \in {Behind(Main, Scalar(token)), Behind(Main, Num(token.num)),
                   Behind(Main, Real)}
      BY <1>2, <1>7, <1>12, <3>2 DEF Follows, Scalars, Blank, Values
    <3> QED BY <1>7, <3>3, ScalarSettles
  <2>2. Ended(j, q)
    BY <1>1, <1>6, <1>12, <2>1, SettledStays DEF Ended
  <2> QED BY <1>1, <1>9, <1>12, <2>2 DEF JsonAt
<1>13. CASE q.pt = k /\ Lost(q.at, q.call)
  <2>1. Behindhand(j, q)
    BY <1>5, <1>6, <1>13 DEF Behindhand
  <2> QED BY <1>1, <1>9, <1>13, <2>1 DEF JsonAt
<1> QED BY <1>9, <1>10, <1>11, <1>12, <1>13

(* A step where no token is left.                                          *)
LEMMA JsonRunsOut ==
  ASSUME NEW j, JsonWritten(j), NEW p, JsonAt(j, p), p.at \notin JsonEnds,
         p.pt = Len(j.given) + 1, Live(j, p) \/ Behindhand(j, p)
  PROVE  JsonAt(j, json_parser(j.given, p))
<1> DEFINE s == j.given
           g == Len(s)
           i == p.pt
           m == j.marks[i]
           c == p.call
           q == json_parser(s, p)
<1>1. g \in Nat /\ Len(j.text) \in Nat /\ g <= Len(j.text) /\ i \in 1..(g + 1)
  BY DEF JsonWritten
<1>2. Token(s, p) = "end" /\ p = Parser(p.at, i, c, p.val)
  BY <1>1 DEF Token, JsonAt
<1>3. ASSUME Cut(j), Lost(p.at, c) PROVE JsonAt(j, q)
  <2>1. q = Parser(q.at, i, q.call, q.val) /\ Lost(q.at, q.call)
    BY <1>2, <1>3, EndReads
  <2> HIDE DEF q
  <2>2. q.pt = i
    BY <2>1, Fields
  <2>3. Behindhand(j, q)
    BY <1>3, <2>1, <2>2 DEF Behindhand
  <2> QED BY <1>1, <2>1, <2>2, <2>3 DEF JsonAt, q
<1>4. CASE Live(j, p)
  <2>1. /\ MarkOK(m) /\ m.want # "end" /\ c = m.call
        /\ Place(p.at, m.want, c.of, "end")
    BY <1>2, <1>4 DEF Live, Agrees, JsonEnds
  <2>2. m = Wants(m.want, c) /\ InStack(c) /\ Fits(m.want, c.of)
    BY <2>1 DEF MarkOK
  <2>3. Cut(j)
    <3>1. g # Len(j.text)
      BY <2>1 DEF JsonWritten
    <3> QED BY <3>1 DEF Cut
  <2>4. CASE c.of # "main"
    <3>1. Lost(p.at, c)
      BY <2>1, <2>2, <2>4 DEF Lost, Place
    <3> QED BY <1>3, <2>3, <3>1
  <2>5. CASE c.of = "main"
    <3>1. c = Main /\ m.want = "value" /\ p.at \in {"val", "gap", "loop"}
      BY <2>1, <2>2, <2>5, CallOf DEF Fits, Place
    <3>2. m = Wants("value", Main) /\ AllBlank(s)
      BY <1>1, <1>4, <2>2, <3>1 DEF Live, AllBlank
    <3> HIDE DEF m
    <3>3. CASE p.at = "val"
      <4>1. q = Return(p, Num(0))
        BY <1>2, <3>3 DEF json_parser, parse_val, Blank, Scalars
      <4>2. q = Parser("done", i, c, Num(0))
        BY <1>2, <2>2, <2>5, <4>1, Returns
      <4> HIDE DEF q
      <4>3. q.at = "done" /\ q.pt = i /\ q.call = c /\ q.val = Num(0)
        BY <4>2, Fields
      <4>4. Ended(j, q)
        BY <2>3, <3>2, <4>3 DEF Ended
      <4> QED BY <1>1, <4>2, <4>3, <4>4 DEF JsonAt, q
    <3>4. CASE p.at \in {"gap", "loop"}
      <4>1. q = Goes(p, "loop") \/ q = Goes(p, "val")
        BY <1>2, <2>5, <3>4 DEF json_parser, parse_kv, Gap, Blank
      <4>2. PICK b \in {"loop", "val"} : q = Parser(b, i, c, p.val)
        BY <1>2, <4>1, GoesTo
      <4> HIDE DEF q
      <4>3. q.at = b /\ q.pt = i /\ q.call = c /\ q.val = p.val
        BY <4>2, Fields
      <4>4. Place(b, m.want, c.of, "end")
        BY <3>1 DEF Place, Gap, Blank
      <4>5. Token(s, q) = "end"
        BY <1>2, <4>3 DEF Token
      <4>6. Live(j, q)
        BY <1>4, <2>1, <4>3, <4>4, <4>5 DEF Live, Agrees, m
      <4> QED BY <1>1, <4>2, <4>3, <4>6 DEF JsonAt, q
    <3> QED BY <3>1, <3>3, <3>4
  <2> QED BY <2>4, <2>5
<1> QED BY <1>3, <1>4 DEF Behindhand

(* A step in front of a colon, or of a point, that it takes for a value.   *)
LEMMA JsonMistakes ==
  ASSUME NEW j, JsonWritten(j), NEW p, JsonAt(j, p), AtColon(j, p) \/ AtPoint(j, p)
  PROVE  JsonAt(j, json_parser(j.given, p))
<1> DEFINE s == j.given
           g == Len(s)
           i == p.pt
           k == i + 1
           m == j.marks[i]
           n == j.marks[k]
           c == p.call
           q == json_parser(s, p)
<1>1. /\ g \in Nat /\ Len(j.text) \in Nat /\ g <= Len(j.text)
      /\ i \in 1..(g + 1) /\ p = Parser(p.at, i, c, p.val)
  BY DEF JsonWritten, JsonAt
<1>2. Skip(p) = Parser(p.at, k, c, p.val) /\ \A b : Goes(p, b) = Parser(b, i, c, p.val)
  BY <1>1, Skips, GoesTo
<1>3. ~Plain(j) /\ InStack(c) /\ c.of \in {"arr", "key", "value"}
  BY DEF AtColon, AtPoint
<1>4. q = json_parser(s, p)
  OBVIOUS
<1> SUFFICES JsonAt(j, q)
  OBVIOUS
<1> HIDE DEF q
<1>5. ASSUME q = Goes(p, "throws") PROVE JsonAt(j, q)
  <2>1. q = Parser("throws", i, c, p.val)
    BY <1>2, <1>5
  <2>2. q.at = "throws" /\ q.pt = i /\ q.call = c /\ q.val = p.val
    BY <2>1, Fields
  <2>3. Ended(j, q)
    BY <1>3, <2>2 DEF Ended
  <2> QED BY <1>1, <2>1, <2>2, <2>3 DEF JsonAt
<1>6. CASE AtColon(j, p)
  <2>1. /\ i \in 1..g /\ i \in 1..Len(j.text) /\ i <= g /\ p.at = "val"
        /\ m.want = "colon" /\ c.of = "value"
    BY <1>1, <1>6 DEF AtColon
  <2>2. Follows(m, j.text[i], n)
    BY <2>1, Following
  <2>3. j.text[i].t \in {":", "sp", "nl"} /\ (j.text[i].t # ":" => n = m)
    BY <2>1, <2>2 DEF Follows, Values, Blank
  <2>4. s[i] = j.text[i]
    BY <2>1, <2>3 DEF JsonWritten, Broken
  <2>5. Token(s, p) = j.text[i].t
    BY <2>1, <2>4 DEF Token
  <2>6. CASE j.text[i].t = ":"
    <3>1. q = Goes(p, "throws")
      BY <1>4, <2>1, <2>5, <2>6 DEF json_parser, parse_val, Blank, Scalars
    <3> QED BY <1>5, <3>1
  <2>7. CASE j.text[i].t # ":"
    <3>1. q = Skip(p)
      <4>1. Token(s, p) \in {"sp", "nl"}
        BY <2>3, <2>5, <2>7
      <4> QED BY <1>4, <2>1, <4>1 DEF json_parser, parse_val, Blank, Scalars
    <3>2. q = Parser("val", k, c, p.val)
      BY <1>2, <2>1, <3>1
    <3>3. q.at = "val" /\ q.pt = k /\ q.call = c /\ q.val = p.val
      BY <3>2, Fields
    <3>4. n.want = "colon" /\ k \in 1..(g + 1)
      BY <1>1, <2>1, <2>3, <2>7
    <3>5. CASE k <= g
      <4>1. AtColon(j, q)
        BY <1>3, <2>1, <3>3, <3>4, <3>5 DEF AtColon
      <4> QED BY <3>2, <3>3, <3>4, <4>1 DEF JsonAt
    <3>6. CASE k = g + 1
      <4>1. k # Len(j.text) + 1
        BY <3>4 DEF JsonWritten
      <4>2. Cut(j)
        BY <1>1, <3>6, <4>1 DEF Cut
      <4>3. Behindhand(j, q)
        BY <1>3, <2>1, <3>3, <3>6, <4>2 DEF Behindhand, Lost
      <4> QED BY <3>2, <3>3, <3>4, <4>3 DEF JsonAt
    <3> QED BY <1>1, <3>4, <3>5, <3>6
  <2> QED BY <2>6, <2>7
<1>7. CASE AtPoint(j, p)
  <2>1. Token(s, p) = "-" /\ p.at \in {"gap", "loop", "val"} /\ c.of \in {"arr", "key"}
    BY <1>7 DEF AtPoint
  <2>2. ASSUME NEW b \in {"loop", "val"}, q = Goes(p, b) PROVE JsonAt(j, q)
    <3>1. q = Parser(b, i, c, p.val)
      BY <1>2, <2>2
    <3>2. q.at = b /\ q.pt = i /\ q.call = c /\ q.val = p.val
      BY <3>1, Fields
    <3>3. Token(s, q) = "-"
      BY <2>1, <3>2 DEF Token
    <3>4. AtPoint(j, q)
      BY <1>3, <2>1, <2>2, <3>2, <3>3 DEF AtPoint
    <3> QED BY <1>1, <3>1, <3>2, <3>4 DEF JsonAt
  <2>3. CASE p.at = "gap"
    <3>1. q = Goes(p, "loop")
      BY <1>4, <2>1, <2>3 DEF json_parser, parse_array, parse_kv, Gap, Blank
    <3> QED BY <2>2, <3>1
  <2>4. CASE p.at = "loop"
    <3>1. q = Goes(p, "val")
      BY <1>4, <2>1, <2>4 DEF json_parser, parse_array, parse_kv
    <3> QED BY <2>2, <3>1
  <2>5. CASE p.at = "val"
    <3>1. q = Goes(p, "throws")
      BY <1>4, <2>1, <2>5 DEF json_parser, parse_val, Blank, Scalars
    <3> QED BY <1>5, <3>1
  <2> QED BY <2>1, <2>3, <2>4, <2>5
<1> QED BY <1>6, <1>7

LEMMA JsonStep ==
  ASSUME NEW j, JsonWritten(j), NEW p, JsonAt(j, p), p.at \notin JsonEnds
  PROVE  JsonAt(j, json_parser(j.given, p))
<1>1. Len(j.given) \in Nat /\ p.pt \in 1..(Len(j.given) + 1)
  BY DEF JsonWritten, JsonAt
<1>2. ~Ended(j, p)
  BY DEF Ended, JsonEnds
<1>3. Behindhand(j, p) => p.pt = Len(j.given) + 1
  BY DEF Behindhand
<1>4. CASE AtColon(j, p) \/ AtPoint(j, p)
  BY <1>4, JsonMistakes
<1>5. CASE (Live(j, p) \/ Behindhand(j, p)) /\ p.pt = Len(j.given) + 1
  BY <1>5, JsonRunsOut
<1>6. CASE Live(j, p) /\ p.pt <= Len(j.given)
  BY <1>6, JsonReadsOn, JsonBreaks
<1> QED BY <1>1, <1>2, <1>3, <1>4, <1>5, <1>6 DEF JsonAt

(* How it ends: right, or as at a pitfall or behind a cut.                 *)
JsonRight(j, p) ==
  /\ p.at = "done" /\ p.val = j.json
  /\ \A i \in p.pt..Len(j.text) : j.text[i].t \in Blank

LEMMA JsonDone ==
  ASSUME NEW j, JsonWritten(j), NEW p, JsonAt(j, p), p.at \in JsonEnds
  PROVE  JsonRight(j, p) \/ Ended(j, p) \/ (Cut(j) /\ p.at # "done")
<1> DEFINE m == j.marks[p.pt]
<1>1. CASE Live(j, p)
  <2>1. m.want = "end" /\ p.at = "done" /\ p.val = m.val
    BY <1>1 DEF Live, Agrees, Place, JsonEnds
  <2>2. p.pt \in 1..(Len(j.text) + 1)
    BY DEF JsonAt, JsonWritten
  <2> QED BY <2>1, <2>2, EndStays DEF JsonRight
<1>2. CASE Behindhand(j, p)
  BY <1>2 DEF Behindhand, Lost
<1>3. ~AtColon(j, p) /\ ~AtPoint(j, p)
  BY DEF AtColon, AtPoint, JsonEnds
<1> QED BY <1>1, <1>2, <1>3 DEF JsonAt

JsonInv == Reads("json") => JsonWritten(input.of) /\ JsonAt(input.of, state)

(* A JSON text that is all there, has no escapes and no key twice, gives   *)
(* the value it was written from and is read to its end, unless it has one *)
(* of the pitfalls of json.hpp; with them it is refused, or is a number    *)
(* for which another is taken.  An array or an object is never taken for   *)
(* another one, wherever the text is cut.                                  *)
THEOREM JsonIsRead == Spec => []JsonRead
<1>1. Init => JsonInv
  <2> SUFFICES ASSUME Init, Reads("json") PROVE JsonInv
    BY DEF JsonInv
  <2>1. PICK j \in Texts : Input("json", j) /\ state = JsonStart
    BY DEF Init, Input, Reads
  <2>2. JsonWritten(j) /\ input.of = j
    BY <2>1, ParsingAssumption DEF Input
  <2> QED BY <2>1, <2>2, JsonStarts DEF JsonInv
<1>2. JsonInv /\ [Next]_vars => JsonInv'
  <2> SUFFICES ASSUME JsonInv, [Next]_vars, Reads("json")' PROVE JsonInv'
    BY DEF JsonInv
  <2>1. CASE ReadJson
    <3>1. JsonWritten(input.of) /\ JsonAt(input.of, state) /\ input' = input
          /\ state.at \notin JsonEnds
          /\ state' = json_parser(input.of.given, state)
      BY <2>1 DEF JsonInv, ReadJson, Reads
    <3>2. JsonAt(input.of, state')
      BY <3>1, JsonStep
    <3> QED BY <3>1, <3>2 DEF JsonInv
  <2>2. CASE UNCHANGED vars
    BY <2>2 DEF vars, JsonInv, Reads
  <2>3. ASSUME UNCHANGED input,
               \/ Reads("argv") \/ Reads("url") \/ Reads("head")
               \/ Reads("span") \/ Reads("config")
        PROVE  FALSE
    BY <2>3 DEF Reads
  <2> QED BY <2>1, <2>2, <2>3 DEF Next, ReadArgv, ReadUrl, ReadRequest,
                                  ReadRange, OpenConfig, ReadConfig
<1>3. JsonInv => JsonRead
  <2> SUFFICES ASSUME JsonInv, Reads("json"), state.at \in JsonEnds
               PROVE  JsonRead
    BY DEF JsonRead
  <2> DEFINE j == input.of
  <2>1. JsonWritten(j) /\ JsonAt(j, state)
    BY DEF JsonInv
  <2>2. JsonRight(j, state) \/ Ended(j, state) \/ (Cut(j) /\ state.at # "done")
    BY <2>1, JsonDone
  <2> QED BY <2>2 DEF JsonRead, JsonRight, Ended, Nested, AllBlank
<1> QED BY <1>1, <1>2, <1>3, PTL DEF Spec

(* The file, if it is there, is read; then what is set is applied, or      *)
(* nothing, or one of the values cannot be.                                *)
ConfigRead(c, s) ==
  \/ JsonAt(c, s)
  \/ s.at = "undefined" /\ \E k \in DOMAIN c.set \ {"ListenPort"} : Misread(c.set, k)
  \/ s = [at |-> "set", conf |-> <<>>, port |-> 9007] /\ ~Plain(c)
  \/ /\ \A k \in DOMAIN c.set \ {"ListenPort"} : ~Misread(c.set, k)
     /\ s = [at |-> "set", port |-> Port(c.set),
             conf |-> [k \in (DOMAIN c.set \ {"ListenPort"}) \cup DOMAIN Defaults |->
                         Setting(c.set, k)]]

ConfigAt(c, s) ==
  \/ s = ConfigStart
  \/ s.at = "terminate" /\ c.missing
  \/ ~c.missing /\ ConfigRead(c, s)

ConfigInv ==
  Reads("config") => ConfigWritten(input.of) /\ ConfigAt(input.of, state)

LEMMA ConfigParts ==
  ASSUME NEW c, ConfigWritten(c)
  PROVE  JsonWritten(c) /\ ~Cut(c) /\ c.json = Obj(c.set)
  BY DEF ConfigWritten

LEMMA ConfigOpens ==
  /\ ConfigStart = Parser("opens", 1, Main, Num(0)) /\ ConfigStart.at = "opens"
  /\ Goes(ConfigStart, "val") = JsonStart
  /\ Goes(ConfigStart, "terminate").at = "terminate"
<1>1. JsonStart = Parser("val", 1, Main, Num(0))
  BY DEF JsonStart, Parser
<1>2. ConfigStart = Parser("opens", 1, Main, Num(0))
  BY <1>1, GoesTo DEF ConfigStart
<1> QED BY <1>1, <1>2, GoesTo, Fields

(* Where the parser can be.                                                *)
LEMMA JsonPlaces ==
  ASSUME NEW j, NEW p, JsonAt(j, p)
  PROVE  p.at \in {"val", "gap", "loop", "colon"} \cup JsonEnds
<1>1. CASE Live(j, p)
  BY <1>1 DEF Live, Agrees, Place, JsonEnds
<1>2. CASE Ended(j, p)
  BY <1>2 DEF Ended, JsonEnds
<1>3. CASE Behindhand(j, p)
  BY <1>3 DEF Behindhand, Lost, JsonEnds
<1>4. CASE AtColon(j, p) \/ AtPoint(j, p)
  BY <1>4 DEF AtColon, AtPoint
<1> QED BY <1>1, <1>2, <1>3, <1>4 DEF JsonAt

(* The parser reads what is set, or refuses it for a pitfall.              *)
LEMMA ConfigEnds ==
  ASSUME NEW c, ConfigWritten(c), NEW s, JsonAt(c, s), s.at \in JsonEnds
  PROVE  \/ s.at = "done" /\ s.val = Obj(c.set)
         \/ s.at = "throws" /\ ~Plain(c)
<1>1. JsonWritten(c) /\ ~Cut(c) /\ c.json = Obj(c.set)
  BY ConfigParts
<1>2. Nested(c.json)
  BY <1>1 DEF Nested, Obj
<1>3. JsonRight(c, s) \/ Ended(c, s)
  BY <1>1, JsonDone
<1> QED BY <1>1, <1>2, <1>3 DEF JsonRight, Ended

LEMMA Configures ==
  ASSUME NEW c, ConfigWritten(c), NEW s, JsonAt(c, s), s.at \in JsonEnds
  PROVE  ConfigRead(c, configure(s))
<1> DEFINE set   == c.set
           names == DOMAIN set \ {"ListenPort"}
           q == configure(s)
<1>1. CASE s.at = "throws"
  <2>1. ~Plain(c)
    BY <1>1, ConfigEnds
  <2>2. q = [at |-> "set", conf |-> <<>>, port |-> 9007]
    BY <1>1 DEF configure
  <2> HIDE DEF q
  <2> QED BY <2>1, <2>2 DEF ConfigRead, q
<1>2. CASE s.at = "done" /\ s.val = Obj(set)
  <2>1. "obj" \in DOMAIN s.val /\ s.val.obj = set
    BY <1>2 DEF Obj
  <2>2. CASE \E k \in names : Misread(set, k)
    <3>1. q = Goes(s, "undefined")
      BY <1>2, <2>1, <2>2 DEF configure
    <3>2. s = Parser(s.at, s.pt, s.call, s.val)
      BY DEF JsonAt
    <3>3. q.at = "undefined"
      <4>1. Goes(Parser(s.at, s.pt, s.call, s.val), "undefined")
              = Parser("undefined", s.pt, s.call, s.val)
        BY GoesTo
      <4> HIDE DEF q
      <4> QED BY <3>1, <3>2, <4>1, Fields
    <3> QED BY <2>2, <3>3 DEF ConfigRead
  <2>3. CASE ~\E k \in names : Misread(set, k)
    <3>1. q = [at |-> "set", port |-> Port(set),
               conf |-> [k \in names \cup DOMAIN Defaults |-> Setting(set, k)]]
      BY <1>2, <2>1, <2>3 DEF configure
    <3> HIDE DEF q
    <3> QED BY <2>3, <3>1 DEF ConfigRead, q
  <2> QED BY <2>2, <2>3
<1> QED BY <1>1, <1>2, ConfigEnds

LEMMA Ports ==
  ASSUME NEW obj
  PROVE  LET is == IF "ListenPort" \in DOMAIN obj THEN DOMAIN obj["ListenPort"] ELSE {}
         IN  /\ is = {"num"} => Port(obj) = obj["ListenPort"].num % 65536
             /\ is \in {{"arr"}, {"obj"}} => Port(obj) = 0
             /\ is \notin {{"num"}, {"arr"}, {"obj"}} => Port(obj) = 9007
<1> DEFINE is   == IF "ListenPort" \in DOMAIN obj THEN DOMAIN obj["ListenPort"] ELSE {}
           num  == obj["ListenPort"].num % 65536
           port == Port(obj)
<1>1. port = CASE is = {"num"} -> num
               [] is \in {{"arr"}, {"obj"}} -> 0
               [] OTHER -> 9007
  BY DEF Port
<1>2. {"num"} # {"arr"} /\ {"num"} # {"obj"}
  OBVIOUS
<1> HIDE DEF num, is, port
<1>3. /\ is = {"num"} => port = num
      /\ is \in {{"arr"}, {"obj"}} => port = 0
      /\ is \notin {{"num"}, {"arr"}, {"obj"}} => port = 9007
  <2>1. CASE is = {"num"}
    BY <1>1, <1>2, <2>1
  <2>2. CASE is \in {{"arr"}, {"obj"}}
    BY <1>1, <1>2, <2>2
  <2>3. CASE is \notin {{"num"}, {"arr"}, {"obj"}}
    BY <1>1, <2>3
  <2> QED BY <1>2, <2>1, <2>2, <2>3
<1> QED BY <1>3 DEF num, is, port

LEMMA Slashed ==
  ASSUME NEW dir
  PROVE  \/ dir[Len(dir)] = "/" /\ WithSlash(dir) = dir
         \/ dir[Len(dir)] # "/" /\ WithSlash(dir) = Append(dir, "/")
  BY DEF WithSlash

(* sft.json, if it is there and has no pitfall, is applied as it was       *)
(* written, whatever keys and values it has: a port that is an array or an *)
(* object is the port 0.  With a pitfall nothing of it is.                 *)
THEOREM ConfigIsApplied == Spec => []ConfigApplied
<1>1. Init => ConfigInv
  <2> SUFFICES ASSUME Init, Reads("config") PROVE ConfigInv
    BY DEF ConfigInv
  <2>1. PICK c \in Configs : Input("config", c) /\ state = ConfigStart
    BY DEF Init, Input, Reads
  <2>2. ConfigWritten(c) /\ input.of = c
    BY <2>1, ParsingAssumption DEF Input
  <2> QED BY <2>1, <2>2 DEF ConfigInv, ConfigAt
<1>2. ConfigInv /\ [Next]_vars => ConfigInv'
  <2> SUFFICES ASSUME ConfigInv, [Next]_vars, Reads("config")' PROVE ConfigInv'
    BY DEF ConfigInv
  <2>1. CASE ReadJson
    <3>1. ConfigWritten(input.of) /\ ConfigAt(input.of, state) /\ input' = input
          /\ state.at \notin JsonEnds /\ state.at \notin {"opens", "set", "terminate"}
          /\ state' = json_parser(input.of.given, state)
      BY <2>1 DEF ConfigInv, ReadJson, Reads
    <3>2. JsonAt(input.of, state) /\ ~input.of.missing
      BY <3>1, ConfigOpens DEF ConfigAt, ConfigRead, JsonEnds
    <3>3. JsonAt(input.of, state')
      BY <3>1, <3>2, ConfigParts, JsonStep
    <3> QED BY <3>1, <3>2, <3>3 DEF ConfigInv, ConfigAt, ConfigRead
  <2>2. CASE OpenConfig
    <3>1. ConfigWritten(input.of) /\ ConfigAt(input.of, state) /\ input' = input
          /\ state.at = "opens" /\ state' = open_read_only(input.of.missing, state)
      BY <2>2 DEF ConfigInv, OpenConfig
    <3>2. state = ConfigStart
      BY <3>1, JsonPlaces DEF ConfigAt, ConfigRead, JsonEnds
    <3>3. \/ state' = JsonStart /\ ~input.of.missing
          \/ state'.at = "terminate" /\ input.of.missing
      BY <3>1, <3>2, ConfigOpens DEF open_read_only
    <3>4. JsonAt(input.of, JsonStart)
      BY <3>1, ConfigParts, JsonStarts
    <3> QED BY <3>1, <3>3, <3>4 DEF ConfigInv, ConfigAt, ConfigRead
  <2>3. CASE ReadConfig
    <3>1. ConfigWritten(input.of) /\ ConfigAt(input.of, state) /\ input' = input
          /\ state.at \in {"done", "throws"} /\ state' = configure(state)
      BY <2>3 DEF ConfigInv, ReadConfig
    <3>2. JsonAt(input.of, state) /\ state.at \in JsonEnds /\ ~input.of.missing
      BY <3>1, ConfigOpens DEF ConfigAt, ConfigRead, JsonEnds
    <3>3. ConfigRead(input.of, state')
      BY <3>1, <3>2, Configures
    <3> QED BY <3>1, <3>2, <3>3 DEF ConfigInv, ConfigAt
  <2>4. CASE UNCHANGED vars
    BY <2>4 DEF vars, ConfigInv, Reads
  <2>5. ASSUME UNCHANGED input,
               \/ Reads("argv") \/ Reads("url") \/ Reads("head") \/ Reads("span")
        PROVE  FALSE
    BY <2>5 DEF Reads
  <2> QED BY <2>1, <2>2, <2>3, <2>4, <2>5 DEF Next, ReadArgv, ReadUrl, ReadRequest,
                                             ReadRange
<1>3. ConfigInv => ConfigApplied
  <2> SUFFICES ASSUME ConfigInv, Reads("config") PROVE ConfigApplied
    BY DEF ConfigApplied
  <2> DEFINE c     == input.of
             set   == c.set
             names == DOMAIN set \ {"ListenPort"}
             got   == state.conf
             is    == IF "ListenPort" \in DOMAIN set THEN DOMAIN set["ListenPort"]
                      ELSE {}
             Set(k) == k \in DOMAIN set /\ set[k].str # <<>>
             Name(k, default) == IF Set(k) THEN set[k].str ELSE default
             Ends(name) == name[Len(name)] = "/"
  <2>1. ConfigWritten(c) /\ ConfigAt(c, state) /\ c.missing \in BOOLEAN
    BY DEF ConfigInv, ConfigWritten
  <2> DEFINE Right ==
               /\ got["DefaultPage"] = Name("DefaultPage", Index)
               /\ \A k \in (DOMAIN got \cup DOMAIN Defaults) \ {"DefaultPage"} :
                    \/ Ends(Name(k, Here)) /\ got[k] = Name(k, Here)
                    \/ ~Ends(Name(k, Here)) /\ got[k] = Append(Name(k, Here), "/")
               /\ \A k \in names : Set(k) => k \in DOMAIN got
               /\ is = {"num"} => state.port = set["ListenPort"].num % 65536
               /\ is \in {{"arr"}, {"obj"}} => state.port = 0
               /\ is \notin {{"num"}, {"arr"}, {"obj"}} => state.port = 9007
  <2>2. state.at # "hang" /\ (state.at = "throws" => ~Plain(c))
    <3>1. CASE JsonAt(c, state)
      BY <2>1, <3>1, ConfigEnds DEF JsonEnds
    <3>2. CASE ~JsonAt(c, state)
      BY <2>1, <3>2, ConfigOpens DEF ConfigAt, ConfigRead
    <3> QED BY <3>1, <3>2
  <2>3. ASSUME state.at = "undefined"
        PROVE  \E k \in names : \/ "str" \notin DOMAIN set[k]
                                \/ ~Set(k) /\ k \notin DOMAIN Defaults
    <3>1. ~JsonAt(c, state)
      BY <2>1, <2>3, ConfigEnds DEF JsonEnds
    <3>2. PICK k \in names : Misread(set, k)
      BY <2>1, <2>3, <3>1, ConfigOpens DEF ConfigAt, ConfigRead
    <3> QED BY <3>2 DEF Misread
  <2>4. ASSUME state.at = "set"
        PROVE  (~Plain(c) /\ got = <<>> /\ state.port = 9007) \/ Right
    <3>1. ~JsonAt(c, state)
      BY <2>4, JsonPlaces DEF JsonEnds
    <3> SUFFICES ASSUME ~(state = [at |-> "set", conf |-> <<>>, port |-> 9007] /\ ~Plain(c))
                 PROVE  Right
      OBVIOUS
    <3>2. /\ \A k \in names : ~Misread(set, k)
          /\ state = [at |-> "set", port |-> Port(set),
                      conf |-> [k \in names \cup DOMAIN Defaults |-> Setting(set, k)]]
      BY <2>1, <2>4, <3>1, ConfigOpens DEF ConfigAt, ConfigRead
    <3>3. got = [k \in names \cup DOMAIN Defaults |-> Setting(set, k)]
          /\ state.port = Port(set)
      BY <3>2
    <3>4. DOMAIN Defaults = {"HttpPath", "FileReceived", "FileToSend", "DefaultPage"}
          /\ Defaults["DefaultPage"] = Index
          /\ \A k \in DOMAIN Defaults \ {"DefaultPage"} : Defaults[k] = Here
      BY DEF Defaults
    <3>5. got["DefaultPage"] = Name("DefaultPage", Index)
      BY <3>3, <3>4 DEF Setting
    <3>6. ASSUME NEW k \in (DOMAIN got \cup DOMAIN Defaults) \ {"DefaultPage"}
          PROVE  got[k] = WithSlash(Name(k, Here))
      <4>1. k \in names \cup DOMAIN Defaults /\ k # "DefaultPage"
            /\ got[k] = Setting(set, k)
        BY <3>3
      <4>2. Set(k) \/ Defaults[k] = Here
        BY <3>2, <3>4, <4>1 DEF Misread
      <4> QED BY <4>1, <4>2 DEF Setting
    <3>7. ASSUME NEW k \in (DOMAIN got \cup DOMAIN Defaults) \ {"DefaultPage"}
          PROVE  \/ Ends(Name(k, Here)) /\ got[k] = Name(k, Here)
                 \/ ~Ends(Name(k, Here)) /\ got[k] = Append(Name(k, Here), "/")
      <4> DEFINE dir == Name(k, Here)
      <4>1. got[k] = WithSlash(dir)
        BY <3>6
      <4> HIDE DEF dir
      <4>2. \/ dir[Len(dir)] = "/" /\ got[k] = dir
            \/ dir[Len(dir)] # "/" /\ got[k] = Append(dir, "/")
        BY <4>1, Slashed
      <4> QED BY <4>2 DEF dir
    <3>8. \A k \in names : k \in DOMAIN got
      BY <3>3
    <3>9. /\ is = {"num"} => state.port = set["ListenPort"].num % 65536
          /\ is \in {{"arr"}, {"obj"}} => state.port = 0
          /\ is \notin {{"num"}, {"arr"}, {"obj"}} => state.port = 9007
      BY <3>3, Ports
    <3> HIDE DEF got, names, set, is
    <3> QED BY <3>5, <3>7, <3>8, <3>9
  <2>5. state.at # "opens" => (state.at = "terminate" <=> c.missing)
    <3>1. JsonAt(c, state) => state.at # "terminate"
      BY JsonPlaces DEF JsonEnds
    <3> QED BY <2>1, <3>1, ConfigOpens DEF ConfigAt, ConfigRead
  <2> QED BY <2>2, <2>3, <2>4, <2>5 DEF ConfigApplied
<1> QED BY <1>1, <1>2, <1>3, PTL DEF Spec

-----------------------------------------------------------------------------
(* The arguments of main.                                                  *)

Options == {"f", "m", "g"}

(* What main can do.                                                       *)
Deeds ==
  {"reads", "usage", "version", "throws", "no address", "no port", "no file",
   "serve", "send_file_to", "send_msg_to", "get_file_from", "success",
   "undefined"}

Words == UNION {[S -> Seq(STRING)] : S \in SUBSET Options}

Arguments ==
  [did: Deeds, seen: Nat, chars: Nat, ended: BOOLEAN, needs: Options \cup {"none"},
   given: Words, no_log_file: BOOLEAN, rest: Seq(Seq(STRING))]

(* The letter stands among the options; it stands there with word.         *)
Said(argv, letter) ==
  \E i \in 1..Len(argv) : IsOption(argv[i])
    /\ \E k \in 2..Len(argv[i]) : argv[i][k] = letter

GivenAs(argv, letter, word) ==
  \E i \in 1..Len(argv) :
    \E k \in 2..Len(argv[i]) :
      /\ argv[i][k] = letter
      /\ \/ word = SubSeq(argv[i], k + 1, Len(argv[i]))
         \/ k = Len(argv[i]) /\ i < Len(argv) /\ word = argv[i + 1]

(* What getopt has made of the arguments it has seen: nothing is made up,  *)
(* and what comes first is no word if it is an option.                     *)
Seen(argv, o) ==
  /\ o \in Arguments /\ o.seen <= Len(argv)
  /\ \A k \in DOMAIN o.given : Said(argv, k) /\ GivenAs(argv, k, o.given[k])
  /\ o.chars > 0 => o.needs = "none" /\ IsOption(argv[o.seen + 1])
  /\ o.needs # "none" =>
       /\ o.seen >= 1 /\ IsOption(argv[o.seen])
       /\ argv[o.seen][Len(argv[o.seen])] = o.needs
  /\ \A r \in 1..Len(o.rest) : \E i \in 1..Len(argv) : argv[i] = o.rest[r]
  /\ o.no_log_file = TRUE => Said(argv, "n")
  /\ o.seen = 0 => o.ended = FALSE /\ o.rest = <<>>
  /\ o.seen = 1 /\ o.rest # <<>> => ~IsOption(argv[1])

ArgvInv ==
  Reads("argv") =>
    /\ input.of \in Seq(Seq(STRING)) /\ Seen(input.of, state)
    /\ TransferAsAsked

(* n is o but for seen, chars and one more.                                *)
LEMMA Passes ==
  ASSUME NEW o \in Arguments
  PROVE  LET n == Passed(o)
         IN  /\ n \in Arguments /\ n.seen = o.seen + 1 /\ n.chars = 0
             /\ n.did = o.did /\ n.ended = o.ended /\ n.needs = o.needs
             /\ n.given = o.given /\ n.no_log_file = o.no_log_file
             /\ n.rest = o.rest
<1> DEFINE seen == o.seen + 1
           m == [o EXCEPT !.seen = seen]
           n == [m EXCEPT !.chars = 0]
<1>1. seen \in Nat
  BY DEF Arguments
<1>2. Passed(o) = n
  BY DEF Passed, Arguments
<1> HIDE DEF seen
<1>3. /\ m \in Arguments /\ m.seen = seen
      /\ m.did = o.did /\ m.ended = o.ended /\ m.needs = o.needs
      /\ m.given = o.given /\ m.no_log_file = o.no_log_file
      /\ m.rest = o.rest
  BY <1>1 DEF Arguments
<1> HIDE DEF m
<1>4. /\ n \in Arguments /\ n.seen = seen /\ n.chars = 0
      /\ n.did = o.did /\ n.ended = o.ended /\ n.needs = o.needs
      /\ n.given = o.given /\ n.no_log_file = o.no_log_file
      /\ n.rest = o.rest
  BY <1>3 DEF Arguments
<1> HIDE DEF n
<1> QED BY <1>2, <1>4 DEF seen

LEMMA PassesNeeding ==
  ASSUME NEW o \in Arguments, NEW letter \in Options
  PROVE  LET n == [Passed(o) EXCEPT !.needs = letter]
         IN  /\ n \in Arguments /\ n.seen = o.seen + 1 /\ n.chars = 0
             /\ n.did = o.did /\ n.ended = o.ended /\ n.needs = letter
             /\ n.given = o.given /\ n.no_log_file = o.no_log_file
             /\ n.rest = o.rest
<1> DEFINE m == Passed(o)
<1>1. /\ m \in Arguments /\ m.seen = o.seen + 1 /\ m.chars = 0
      /\ m.did = o.did /\ m.ended = o.ended /\ m.needs = o.needs
      /\ m.given = o.given /\ m.no_log_file = o.no_log_file
      /\ m.rest = o.rest
  BY Passes
<1> HIDE DEF m
<1> QED BY <1>1 DEF Arguments, m

LEMMA PassesEnding ==
  ASSUME NEW o \in Arguments
  PROVE  LET n == [Passed(o) EXCEPT !.ended = TRUE]
         IN  /\ n \in Arguments /\ n.seen = o.seen + 1 /\ n.chars = 0
             /\ n.did = o.did /\ n.needs = o.needs
             /\ n.given = o.given /\ n.no_log_file = o.no_log_file
             /\ n.rest = o.rest
<1> DEFINE m == Passed(o)
<1>1. /\ m \in Arguments /\ m.seen = o.seen + 1 /\ m.chars = 0
      /\ m.did = o.did /\ m.ended = o.ended /\ m.needs = o.needs
      /\ m.given = o.given /\ m.no_log_file = o.no_log_file
      /\ m.rest = o.rest
  BY Passes
<1> HIDE DEF m
<1> QED BY <1>1 DEF Arguments, m

LEMMA PassesWord ==
  ASSUME NEW o \in Arguments, NEW arg \in Seq(STRING)
  PROVE  LET n == [Passed(o) EXCEPT !.rest = Append(@, arg)]
         IN  /\ n \in Arguments /\ n.seen = o.seen + 1 /\ n.chars = 0
             /\ n.did = o.did /\ n.ended = o.ended /\ n.needs = o.needs
             /\ n.given = o.given /\ n.no_log_file = o.no_log_file
             /\ n.rest = Append(o.rest, arg)
<1> DEFINE m == Passed(o)
           rest == Append(m.rest, arg)
<1>1. /\ m \in Arguments /\ m.seen = o.seen + 1 /\ m.chars = 0
      /\ m.did = o.did /\ m.ended = o.ended /\ m.needs = o.needs
      /\ m.given = o.given /\ m.no_log_file = o.no_log_file
      /\ m.rest = o.rest
  BY Passes
<1>2. rest \in Seq(Seq(STRING)) /\ rest = Append(o.rest, arg)
  <2>1. o.rest \in Seq(Seq(STRING))
    BY DEF Arguments
  <2> HIDE DEF m
  <2> QED BY <1>1, <2>1, AppendProperties
<1> DEFINE n == [m EXCEPT !.rest = rest]
<1> HIDE DEF m, rest
<1>3. /\ n \in Arguments /\ n.seen = o.seen + 1 /\ n.chars = 0
      /\ n.did = o.did /\ n.ended = o.ended /\ n.needs = o.needs
      /\ n.given = o.given /\ n.no_log_file = o.no_log_file
      /\ n.rest = rest
  BY <1>1, <1>2 DEF Arguments
<1> QED BY <1>2, <1>3 DEF n, m, rest

LEMMA PassesGiving ==
  ASSUME NEW o \in Arguments, NEW letter \in Options, NEW word \in Seq(STRING)
  PROVE  LET n == Give(o, letter, word)
         IN  /\ n \in Arguments /\ n.seen = o.seen + 1 /\ n.chars = 0
             /\ n.did = o.did /\ n.ended = o.ended /\ n.needs = "none"
             /\ DOMAIN n.given = DOMAIN o.given \cup {letter}
             /\ \A k \in DOMAIN n.given :
                  n.given[k] = IF k = letter THEN word ELSE o.given[k]
             /\ n.no_log_file = o.no_log_file /\ n.rest = o.rest
<1> DEFINE m == Passed(o)
           given == [k \in DOMAIN m.given \cup {letter} |->
                       IF k = letter THEN word ELSE m.given[k]]
           l == [m EXCEPT !.given = given]
           n == [l EXCEPT !.needs = "none"]
<1>1. /\ m \in Arguments /\ m.seen = o.seen + 1 /\ m.chars = 0
      /\ m.did = o.did /\ m.ended = o.ended /\ m.needs = o.needs
      /\ m.given = o.given /\ m.no_log_file = o.no_log_file
      /\ m.rest = o.rest
  BY Passes
<1>2. given \in Words
  <2>1. PICK S \in SUBSET Options : m.given \in [S -> Seq(STRING)]
    BY <1>1 DEF Arguments, Words
  <2> HIDE DEF m
  <2>2. given \in [S \cup {letter} -> Seq(STRING)]
    BY <2>1
  <2>3. S \cup {letter} \in SUBSET Options
    OBVIOUS
  <2> QED BY <2>2, <2>3 DEF Words
<1>3. /\ DOMAIN given = DOMAIN o.given \cup {letter}
      /\ \A k \in DOMAIN given :
           given[k] = IF k = letter THEN word ELSE o.given[k]
  <2> HIDE DEF m
  <2> QED BY <1>1
<1>4. Give(o, letter, word) = n
  <2>1. Give(o, letter, word)
          = [m EXCEPT !.given = [k \in DOMAIN @ \cup {letter} |->
                                   IF k = letter THEN word ELSE @[k]],
                      !.needs = "none"]
    BY DEF Give
  <2>2. "given" \in DOMAIN m
    BY <1>1 DEF Arguments
  <2> HIDE DEF m
  <2> QED BY <2>1, <2>2
<1> HIDE DEF m, given
<1>5. /\ l \in Arguments /\ l.seen = o.seen + 1 /\ l.chars = 0
      /\ l.did = o.did /\ l.ended = o.ended
      /\ l.given = given /\ l.no_log_file = o.no_log_file
      /\ l.rest = o.rest
  BY <1>1, <1>2 DEF Arguments
<1> HIDE DEF l
<1>6. /\ n \in Arguments /\ n.seen = o.seen + 1 /\ n.chars = 0
      /\ n.did = o.did /\ n.ended = o.ended /\ n.needs = "none"
      /\ n.given = given /\ n.no_log_file = o.no_log_file
      /\ n.rest = o.rest
  BY <1>5 DEF Arguments
<1> HIDE DEF n
<1> QED BY <1>3, <1>4, <1>6

LEMMA MovesOn ==
  ASSUME NEW o \in Arguments, NEW chars \in Nat
  PROVE  LET n == [o EXCEPT !.chars = chars]
         IN  /\ n \in Arguments /\ n.seen = o.seen /\ n.chars = chars
             /\ n.did = o.did /\ n.ended = o.ended /\ n.needs = o.needs
             /\ n.given = o.given /\ n.no_log_file = o.no_log_file
             /\ n.rest = o.rest
BY DEF Arguments

LEMMA MovesOnLogless ==
  ASSUME NEW o \in Arguments, NEW chars \in Nat
  PROVE  LET n == [o EXCEPT !.chars = chars, !.no_log_file = TRUE]
         IN  /\ n \in Arguments /\ n.seen = o.seen /\ n.chars = chars
             /\ n.did = o.did /\ n.ended = o.ended /\ n.needs = o.needs
             /\ n.given = o.given /\ n.rest = o.rest
BY DEF Arguments

LEMMA Does ==
  ASSUME NEW o \in Arguments, NEW did \in Deeds
  PROVE  LET n == [o EXCEPT !.did = did]
         IN  /\ n \in Arguments /\ n.seen = o.seen /\ n.chars = o.chars
             /\ n.did = did /\ n.ended = o.ended /\ n.needs = o.needs
             /\ n.given = o.given /\ n.no_log_file = o.no_log_file
             /\ n.rest = o.rest
BY DEF Arguments

(* One more letter or argument has been seen.                              *)
More(argv, o, n) ==
  /\ n \in Arguments /\ n.seen \in {o.seen, o.seen + 1}
  /\ \A k \in DOMAIN n.given :
       \/ k \in DOMAIN o.given /\ n.given[k] = o.given[k]
       \/ Said(argv, k) /\ GivenAs(argv, k, n.given[k])
  /\ n.chars > 0 => n.needs = "none" /\ IsOption(argv[n.seen + 1])
  /\ n.needs # "none" =>
       /\ n.seen >= 1 /\ IsOption(argv[n.seen])
       /\ argv[n.seen][Len(argv[n.seen])] = n.needs
  /\ \A r \in 1..Len(n.rest) :
       \/ r \in 1..Len(o.rest) /\ n.rest[r] = o.rest[r]
       \/ n.rest[r] = argv[o.seen + 1]
  /\ n.no_log_file = TRUE => o.no_log_file = TRUE \/ Said(argv, "n")
  /\ n.seen = 0 => n.ended = FALSE /\ n.rest = <<>>
  /\ n.seen = 1 /\ n.rest # <<>> => ~IsOption(argv[1])

LEMMA SeesMore ==
  ASSUME NEW argv, NEW o, Seen(argv, o), o.seen < Len(argv), Len(argv) \in Nat,
         NEW n, More(argv, o, n)
  PROVE  Seen(argv, n)
<1>1. o.seen \in Nat /\ o.seen + 1 \in 1..Len(argv) /\ n.seen <= Len(argv)
  BY DEF Seen, Arguments, More
<1>2. \A k \in DOMAIN n.given : Said(argv, k) /\ GivenAs(argv, k, n.given[k])
  BY DEF Seen, More
<1>3. \A r \in 1..Len(n.rest) : \E i \in 1..Len(argv) : argv[i] = n.rest[r]
  <2> SUFFICES ASSUME NEW r \in 1..Len(n.rest)
               PROVE  \E i \in 1..Len(argv) : argv[i] = n.rest[r]
    OBVIOUS
  <2>1. CASE n.rest[r] = argv[o.seen + 1]
    BY <1>1, <2>1
  <2>2. CASE r \in 1..Len(o.rest) /\ n.rest[r] = o.rest[r]
    BY <2>2 DEF Seen
  <2> QED BY <2>1, <2>2 DEF More
<1>4. n.no_log_file = TRUE => Said(argv, "n")
  BY DEF Seen, More
<1> QED BY <1>1, <1>2, <1>3, <1>4 DEF Seen, More

LEMMA GetoptSees ==
  ASSUME NEW argv \in Seq(Seq(STRING)), NEW o, Seen(argv, o), o.did = "reads",
         o.seen < Len(argv)
  PROVE  LET n == getopt(o, argv[o.seen + 1])
         IN  /\ Seen(argv, n)
             /\ n.did \in {"reads", "usage", "version", "throws"}
<1> DEFINE now == o.seen + 1
           arg == argv[now]
           n   == getopt(o, arg)
           length == Len(arg)
<1>1. /\ arg \in Seq(STRING) /\ length \in Nat /\ Len(argv) \in Nat
      /\ o \in Arguments /\ o.seen \in Nat /\ o.chars \in Nat
      /\ now \in 1..Len(argv) /\ now \in Nat
  BY DEF Seen, Arguments
<1>2. o.seen = 0 => o.ended = FALSE /\ o.rest = <<>>
  BY DEF Seen
<1>3. o.needs # "none" => o.needs \in Options
  BY <1>1 DEF Arguments
<1>4. IsOption(arg) => length > 1 /\ length \in 2..length
  BY <1>1 DEF IsOption
<1> SUFFICES Seen(argv, n) /\ n.did \in {"reads", "usage", "version", "throws"}
  OBVIOUS
<1>5. CASE o.needs # "none"
  <2>1. n = Give(o, o.needs, arg)
    BY <1>5 DEF getopt
  <2> HIDE DEF n, arg
  <2>2. /\ n \in Arguments /\ n.seen = now /\ n.chars = 0
        /\ n.did = o.did /\ n.ended = o.ended /\ n.needs = "none"
        /\ DOMAIN n.given = DOMAIN o.given \cup {o.needs}
        /\ \A k \in DOMAIN n.given :
             n.given[k] = IF k = o.needs THEN arg ELSE o.given[k]
        /\ n.no_log_file = o.no_log_file /\ n.rest = o.rest
    BY <1>1, <1>3, <1>5, <2>1, PassesGiving
  <2> DEFINE last == argv[o.seen]
  <2>3. /\ o.seen >= 1 /\ IsOption(last) /\ last[Len(last)] = o.needs
        /\ o.seen \in 1..Len(argv) /\ last \in Seq(STRING)
    BY <1>1, <1>5 DEF Seen
  <2>4. Len(last) \in 2..Len(last)
    <3> HIDE DEF last
    <3>1. Len(last) \in Nat
      BY <2>3
    <3> QED BY <2>3, <3>1 DEF IsOption
  <2>5. Said(argv, o.needs)
    BY <2>3, <2>4 DEF Said
  <2>6. GivenAs(argv, o.needs, arg)
    <3>1. o.seen < Len(argv) /\ arg = argv[o.seen + 1]
      BY DEF arg
    <3> QED BY <2>3, <2>4, <3>1 DEF GivenAs
  <2>7. \A k \in DOMAIN n.given :
          \/ k \in DOMAIN o.given /\ n.given[k] = o.given[k]
          \/ Said(argv, k) /\ GivenAs(argv, k, n.given[k])
    BY <2>2, <2>5, <2>6
  <2>8. Seen(argv, n)
    <3>1. More(argv, o, n)
      BY <1>1, <2>2, <2>3, <2>7 DEF More
    <3> QED BY <1>1, <3>1, SeesMore
  <2> QED BY <2>2, <2>8
<1>6. CASE o.needs = "none" /\ o.chars > 0
  <2> DEFINE i == o.chars + 1
             Fine(m) == /\ m \in Arguments
                        /\ \A k \in DOMAIN m.given :
                             \/ k \in DOMAIN o.given /\ m.given[k] = o.given[k]
                             \/ Said(argv, k) /\ GivenAs(argv, k, m.given[k])
                        /\ m.rest = o.rest
                        /\ m.no_log_file = TRUE =>
                             o.no_log_file = TRUE \/ Said(argv, "n")
  <2>1. n = Letter(o, arg) /\ IsOption(arg) /\ i \in Nat /\ i >= 2
    <3>1. n = Letter(o, arg)
      BY <1>6 DEF getopt
    <3> QED BY <1>1, <1>6, <3>1 DEF Seen
  <2> HIDE DEF n, arg, now, length
  <2>2. ASSUME NEW m, Fine(m), m.did \in {"reads", "usage", "version", "throws"},
               n = m, m.seen = now, m.chars = 0,
               \/ m.needs = "none"
               \/ arg[length] = m.needs
        PROVE  Seen(argv, n) /\ n.did \in {"reads", "usage", "version", "throws"}
    <3>1. m.needs # "none" => m.seen >= 1 /\ IsOption(argv[m.seen])
            /\ argv[m.seen][Len(argv[m.seen])] = m.needs
      BY <1>1, <2>1, <2>2 DEF arg, length
    <3>2. m.seen = 1 => m.rest = <<>>
      BY <1>1, <1>2, <2>2 DEF now
    <3>3. m.seen = o.seen + 1 /\ m.seen # 0
      BY <1>1, <2>2 DEF now
    <3>4. \A r \in 1..Len(m.rest) : r \in 1..Len(o.rest) /\ m.rest[r] = o.rest[r]
      BY <2>2
    <3>5. Seen(argv, m)
      <4>1. More(argv, o, m)
        BY <1>1, <2>2, <3>1, <3>2, <3>3, <3>4 DEF More
      <4> QED BY <1>1, <4>1, SeesMore
    <3> QED BY <2>2, <3>5
  <2>3. ASSUME NEW m, Fine(m), m.did \in {"reads", "usage", "version", "throws"},
               n = m, m.seen = o.seen, m.needs = "none", m.ended = o.ended
        PROVE  Seen(argv, n) /\ n.did \in {"reads", "usage", "version", "throws"}
    <3>1. m.seen = 1 /\ m.rest # <<>> => ~IsOption(argv[1])
      BY <2>3 DEF Seen
    <3>2. IsOption(argv[m.seen + 1])
      BY <2>1, <2>3 DEF arg, now
    <3>3. \A r \in 1..Len(m.rest) : r \in 1..Len(o.rest) /\ m.rest[r] = o.rest[r]
      BY <2>3
    <3>4. Seen(argv, m)
      <4>1. More(argv, o, m)
        BY <1>1, <1>2, <2>3, <3>1, <3>2, <3>3 DEF More
      <4> QED BY <1>1, <4>1, SeesMore
    <3> QED BY <2>3, <3>4
  <2>4. CASE i > length
    <3>1. n = Passed(o)
      BY <2>1, <2>4 DEF Letter, length
    <3>2. /\ n \in Arguments /\ n.seen = now /\ n.chars = 0
          /\ n.did = o.did /\ n.ended = o.ended /\ n.needs = o.needs
          /\ n.given = o.given /\ n.no_log_file = o.no_log_file
          /\ n.rest = o.rest
      BY <1>1, <3>1, Passes DEF now
    <3> QED BY <1>6, <2>2, <3>2
  <2>5. CASE i <= length
    <3>1. i \in 2..length
      BY <1>1, <2>1, <2>5
    <3>2. \A letter : arg[i] = letter => Said(argv, letter)
      BY <1>1, <2>1, <3>1 DEF Said, arg, length
    <3>3. CASE arg[i] \in Options /\ i < length
      <4> DEFINE word == SubSeq(arg, i + 1, length)
      <4>1. n = Give(o, arg[i], word)
        BY <2>1, <2>5, <3>3 DEF Letter, Options, length
      <4>2. word \in Seq(STRING)
        <5>1. \A k \in (i + 1)..length : k \in 1..length
          BY <1>1, <3>1
        <5> QED BY <1>1, <3>1, <5>1, SubSeqProperties DEF length
      <4>3. GivenAs(argv, arg[i], word)
        BY <1>1, <3>1 DEF GivenAs, arg, length
      <4> HIDE DEF word
      <4>4. /\ n \in Arguments /\ n.seen = now /\ n.chars = 0
            /\ n.did = o.did /\ n.ended = o.ended /\ n.needs = "none"
            /\ DOMAIN n.given = DOMAIN o.given \cup {arg[i]}
            /\ \A k \in DOMAIN n.given :
                 n.given[k] = IF k = arg[i] THEN word ELSE o.given[k]
            /\ n.no_log_file = o.no_log_file /\ n.rest = o.rest
        <5> DEFINE letter == arg[i]
        <5>1. n = Give(o, letter, word) /\ letter \in Options
          BY <3>3, <4>1
        <5> DEFINE g == Give(o, letter, word)
        <5> HIDE DEF letter
        <5>2. /\ g \in Arguments /\ g.seen = o.seen + 1 /\ g.chars = 0
              /\ g.did = o.did /\ g.ended = o.ended /\ g.needs = "none"
              /\ DOMAIN g.given = DOMAIN o.given \cup {letter}
              /\ \A k \in DOMAIN g.given :
                   g.given[k] = IF k = letter THEN word ELSE o.given[k]
              /\ g.no_log_file = o.no_log_file /\ g.rest = o.rest
          <6>1. o \in Arguments
            BY <1>1
          <6> QED BY <4>2, <5>1, <6>1, PassesGiving
        <5>3. n = g /\ now = o.seen + 1
          BY <5>1 DEF now
        <5> HIDE DEF g
        <5> QED BY <5>2, <5>3 DEF letter
      <4>5. \A k \in DOMAIN n.given :
              \/ k \in DOMAIN o.given /\ n.given[k] = o.given[k]
              \/ Said(argv, k) /\ GivenAs(argv, k, n.given[k])
        BY <3>2, <4>3, <4>4
      <4> QED BY <2>2, <4>4, <4>5
    <3>4. CASE arg[i] \in Options /\ ~(i < length)
      <4>1. n = [Passed(o) EXCEPT !.needs = arg[i]] /\ i = length
        BY <1>1, <2>1, <2>5, <3>4 DEF Letter, Options, length
      <4>2. /\ n \in Arguments /\ n.seen = now /\ n.chars = 0
            /\ n.did = o.did /\ n.ended = o.ended /\ n.needs = arg[i]
            /\ n.given = o.given /\ n.no_log_file = o.no_log_file
            /\ n.rest = o.rest
        BY <1>1, <3>4, <4>1, PassesNeeding DEF now
      <4> QED BY <2>2, <4>1, <4>2
    <3>5. CASE arg[i] = "n"
      <4>1. n = [o EXCEPT !.chars = i, !.no_log_file = TRUE]
        BY <2>1, <2>5, <3>5 DEF Letter, length
      <4> HIDE DEF i
      <4>2. /\ n \in Arguments /\ n.seen = o.seen /\ n.chars = i
            /\ n.did = o.did /\ n.ended = o.ended /\ n.needs = o.needs
            /\ n.given = o.given /\ n.rest = o.rest
        <5>1. o \in Arguments /\ i \in Nat
          BY <1>1, <2>1
        <5> QED BY <4>1, <5>1, MovesOnLogless
      <4> QED BY <1>6, <2>3, <3>2, <3>5, <4>2
    <3>6. CASE arg[i] \notin Options \cup {"n"}
      <4>1. PICK did \in {"usage", "version", "throws"} : n = [o EXCEPT !.did = did]
        BY <2>1, <2>5, <3>6 DEF Letter, Options, length
      <4>2. did \in Deeds
        BY <4>1 DEF Deeds
      <4>3. /\ n \in Arguments /\ n.seen = o.seen /\ n.chars = o.chars
            /\ n.did = did /\ n.ended = o.ended /\ n.needs = o.needs
            /\ n.given = o.given /\ n.no_log_file = o.no_log_file
            /\ n.rest = o.rest
        BY <1>1, <4>1, <4>2, Does
      <4> QED BY <1>6, <2>3, <4>1, <4>3
    <3> QED BY <3>3, <3>4, <3>5, <3>6
  <2> QED BY <1>1, <2>1, <2>4, <2>5
<1>7. CASE o.needs = "none" /\ ~(o.chars > 0)
  <2>0. o.chars = 0
    BY <1>1, <1>7
  <2>1. CASE o.ended \/ ~IsOption(arg)
    <3> DEFINE rest == Append(o.rest, arg)
    <3>1. n = [Passed(o) EXCEPT !.rest = Append(@, arg)]
      BY <1>7, <2>0, <2>1 DEF getopt
    <3>2. \A r \in 1..Len(rest) :
            \/ r \in 1..Len(o.rest) /\ rest[r] = o.rest[r]
            \/ rest[r] = arg
      <4>1. o.rest \in Seq(Seq(STRING))
        BY <1>1 DEF Arguments
      <4>2. /\ Len(rest) = Len(o.rest) + 1 /\ rest[Len(o.rest) + 1] = arg
            /\ \A r \in 1..Len(o.rest) : rest[r] = o.rest[r]
        BY <1>1, <4>1, AppendProperties
      <4>3. Len(o.rest) \in Nat
        BY <4>1
      <4> HIDE DEF rest, arg
      <4> QED BY <4>2, <4>3
    <3> HIDE DEF n, arg, rest
    <3>3. /\ n \in Arguments /\ n.seen = now /\ n.chars = 0
          /\ n.did = o.did /\ n.ended = o.ended /\ n.needs = o.needs
          /\ n.given = o.given /\ n.no_log_file = o.no_log_file
          /\ n.rest = rest
      BY <1>1, <3>1, PassesWord DEF rest
    <3>4. n.seen = 1 => ~IsOption(argv[1])
      BY <1>1, <1>2, <2>1, <3>3 DEF arg
    <3>5. Seen(argv, n)
      <4>1. More(argv, o, n)
        BY <1>1, <1>7, <3>2, <3>3, <3>4 DEF More, arg
      <4> QED BY <1>1, <4>1, SeesMore
    <3> QED BY <3>3, <3>5
  <2>2. CASE ~(o.ended \/ ~IsOption(arg)) /\ arg = <<"-", "-">>
    <3>1. n = [Passed(o) EXCEPT !.ended = TRUE]
      BY <1>7, <2>0, <2>2 DEF getopt
    <3> HIDE DEF n, arg
    <3>2. /\ n \in Arguments /\ n.seen = now /\ n.chars = 0
          /\ n.did = o.did /\ n.needs = o.needs
          /\ n.given = o.given /\ n.no_log_file = o.no_log_file
          /\ n.rest = o.rest
      BY <1>1, <3>1, PassesEnding
    <3>3. n.seen = 1 => n.rest = <<>>
      BY <1>1, <1>2, <3>2
    <3>4. Seen(argv, n)
      <4>1. More(argv, o, n)
        BY <1>1, <1>7, <3>2, <3>3 DEF More
      <4> QED BY <1>1, <4>1, SeesMore
    <3> QED BY <3>2, <3>4
  <2>3. CASE ~(o.ended \/ ~IsOption(arg)) /\ arg # <<"-", "-">>
    <3>1. n = [o EXCEPT !.chars = 1]
      BY <1>7, <2>0, <2>3 DEF getopt
    <3> HIDE DEF n
    <3>2. /\ n \in Arguments /\ n.seen = o.seen /\ n.chars = 1
          /\ n.did = o.did /\ n.ended = o.ended /\ n.needs = o.needs
          /\ n.given = o.given /\ n.no_log_file = o.no_log_file
          /\ n.rest = o.rest
      BY <1>1, <3>1, MovesOn
    <3>3. n.seen = 1 /\ n.rest # <<>> => ~IsOption(argv[1])
      BY <3>2 DEF Seen
    <3>4. Seen(argv, n)
      <4>1. More(argv, o, n)
        BY <1>1, <1>2, <1>7, <2>3, <3>2, <3>3 DEF More
      <4> QED BY <1>1, <4>1, SeesMore
    <3> QED BY <3>2, <3>4
  <2> QED BY <2>1, <2>2, <2>3
<1> QED BY <1>5, <1>6, <1>7

(* What main decides is what was asked for.                                *)
Asked(argv, did) ==
  /\ did \in Deeds
  /\ did = "serve" => (\A letter \in Options : ~Said(argv, letter)) \/ Said(argv, "n")
  /\ did = "send_file_to" => \E word \in Paths : GivenAs(argv, "f", word)
  /\ did = "send_msg_to" => Said(argv, "m")
  /\ did = "get_file_from" => Said(argv, "g")
  /\ did \in {"send_file_to", "send_msg_to", "get_file_from"} =>
       \E i \in 1..Len(argv) : argv[i] \in Addresses
  /\ did = "undefined" => Said(argv, "n")

LEMMA DecisionIsAsked ==
  ASSUME NEW argv \in Seq(Seq(STRING)), NEW o, Seen(argv, o),
         ~(o.seen < Len(argv)), NEW did,
         did = Decision(argv, o, Addresses, Paths)
  PROVE  Asked(argv, did)
<1>1. Len(argv) \in Nat /\ o.seen = Len(argv) /\ o.rest \in Seq(Seq(STRING))
      /\ o.no_log_file \in BOOLEAN
  BY DEF Seen, Arguments
<1>2. ASSUME did = "serve", ~Said(argv, "n"), NEW letter \in Options
      PROVE  ~Said(argv, letter)
  <2>1. Len(argv) <= 1 /\ (argv = <<>> \/ o.rest # <<>> \/ o.no_log_file = TRUE)
    BY <1>1, <1>2 DEF Decision, Client
  <2>2. o.no_log_file # TRUE
    BY <1>2 DEF Seen
  <2>3. CASE Len(argv) = 0
    BY <2>3 DEF Said
  <2>4. CASE Len(argv) = 1 /\ o.rest # <<>>
    <3>1. ~IsOption(argv[1])
      BY <1>1, <2>4 DEF Seen
    <3>2. \A i \in 1..Len(argv) : i = 1
      BY <2>4
    <3> QED BY <3>1, <3>2 DEF Said
  <2>5. argv = <<>> => Len(argv) = 0
    OBVIOUS
  <2>6. Len(argv) = 0 \/ Len(argv) = 1
    <3>1. \A n \in Nat : n <= 1 => n = 0 \/ n = 1
      OBVIOUS
    <3>2. Len(argv) \in Nat /\ Len(argv) <= 1
      BY <1>1, <2>1
    <3> QED BY <3>1, <3>2, Zenon
  <2>7. Len(argv) = 1 => o.rest # <<>>
    <3>1. 1 # 0
      OBVIOUS
    <3> QED BY <3>1, <2>1, <2>2, <2>5, Zenon
  <2> QED BY <2>3, <2>4, <2>6, <2>7
<1>3. o.rest # <<>> => \E i \in 1..Len(argv) : argv[i] = o.rest[1]
  BY <1>1 DEF Seen
<1>4. did = "send_file_to" =>
        "f" \in DOMAIN o.given /\ o.given["f"] \in Paths
  BY DEF Decision, Client
<1>5. /\ did = "send_msg_to" => "m" \in DOMAIN o.given
      /\ did = "get_file_from" => "g" \in DOMAIN o.given
      /\ did \in {"send_file_to", "send_msg_to", "get_file_from"} =>
           o.rest # <<>> /\ o.rest[1] \in Addresses
  BY DEF Decision, Client
<1>6. did = "undefined" => o.no_log_file = TRUE
  <2>1. did = "undefined" => o.rest = <<>> /\ argv # <<>>
    BY <1>1 DEF Decision, Client
  <2>2. did = "undefined" => did # "no address"
    OBVIOUS
  <2> QED BY <1>1, <2>1, <2>2 DEF Decision
<1>7. did \in Deeds
  BY DEF Deeds, Decision, Client
<1>8. did = "send_file_to" => \E word \in Paths : GivenAs(argv, "f", word)
  BY <1>4 DEF Seen
<1>9. did \in {"send_file_to", "send_msg_to", "get_file_from"} =>
         \E i \in 1..Len(argv) : argv[i] \in Addresses
  BY <1>3, <1>5
<1>10. did = "undefined" => Said(argv, "n")
  BY <1>6 DEF Seen
<1>11. /\ did = "send_msg_to" => Said(argv, "m")
       /\ did = "get_file_from" => Said(argv, "g")
  BY <1>5 DEF Seen
<1> QED BY <1>2, <1>7, <1>8, <1>9, <1>10, <1>11 DEF Asked

LEMMA DidAsked ==
  ASSUME Reads("argv"), Asked(input.of, state.did)
  PROVE  TransferAsAsked
<1> DEFINE argv == input.of
           did  == state.did
<1>1. did = "send_file_to" =>
        \E i \in 1..Len(argv) :
          \E k \in 2..Len(argv[i]) :
            /\ argv[i][k] = "f"
            /\ \/ SubSeq(argv[i], k + 1, Len(argv[i])) \in Paths
               \/ k = Len(argv[i]) /\ i < Len(argv) /\ argv[i + 1] \in Paths
  BY DEF Asked, GivenAs
<1> QED BY <1>1 DEF Asked, Said, Options, TransferAsAsked

LEMMA ArgvStart ==
  ASSUME NEW a \in ArgvS, Input("argv", a), state = MainStart
  PROVE  ArgvInv
<1>1. input.of = a /\ a \in Seq(Seq(STRING)) /\ Reads("argv")
  BY ParsingAssumption DEF Input, Reads
<1>2. <<>> \in Words
  <2>1. <<>> \in [{} -> Seq(STRING)]
    BY EmptySeq
  <2> QED BY <2>1 DEF Words
<1>3. MainStart \in Arguments
  BY <1>2 DEF MainStart, Arguments, Deeds
<1>4. Seen(a, MainStart)
  BY <1>1, <1>3 DEF Seen, MainStart
<1>5. state.did = "reads"
  BY DEF MainStart
<1>6. Asked(input.of, state.did)
  BY <1>5 DEF Asked, Deeds
<1> QED BY <1>1, <1>4, <1>6, DidAsked DEF ArgvInv

LEMMA ArgvStep ==
  ASSUME ArgvInv, ReadArgv
  PROVE  ArgvInv'
<1> DEFINE argv == input.of
           o    == state
<1>1. Reads("argv") /\ argv \in Seq(Seq(STRING)) /\ Seen(argv, o)
      /\ o.did = "reads" /\ state' = main(argv, o, Addresses, Paths)
      /\ input' = input /\ Reads("argv")'
  BY DEF ArgvInv, ReadArgv, Reads
<1>2. CASE o.seen < Len(argv)
  <2>1. state' = getopt(o, argv[o.seen + 1])
    BY <1>1, <1>2 DEF main
  <2>2. Seen(argv, state') /\ state'.did \in {"reads", "usage", "version", "throws"}
    BY <1>1, <1>2, <2>1, GetoptSees
  <2>3. TransferAsAsked'
    BY <1>1, <2>2 DEF TransferAsAsked, Reads
  <2> QED BY <1>1, <2>2, <2>3 DEF ArgvInv, Seen
<1>3. CASE ~(o.seen < Len(argv))
  <2> DEFINE did == Decision(argv, o, Addresses, Paths)
             n   == [o EXCEPT !.did = did]
  <2>1. state' = n
    BY <1>1, <1>3 DEF main
  <2>2. o \in Arguments
    BY <1>1 DEF Seen
  <2>3. Asked(argv, did)
    BY <1>1, <1>3, DecisionIsAsked
  <2>4. did \in Deeds
    BY <2>3 DEF Asked
  <2> HIDE DEF did
  <2>5. /\ n \in Arguments /\ n.seen = o.seen /\ n.chars = o.chars
        /\ n.did = did /\ n.ended = o.ended /\ n.needs = o.needs
        /\ n.given = o.given /\ n.no_log_file = o.no_log_file
        /\ n.rest = o.rest
    BY <2>2, <2>4, Does
  <2> HIDE DEF n
  <2>6. Seen(argv, n)
    BY <1>1, <2>5 DEF Seen
  <2>7. Asked(argv, state'.did) /\ argv = input'.of
    BY <1>1, <2>1, <2>3, <2>5
  <2>8. TransferAsAsked'
    <3>1. did = "send_file_to" =>
            \E i \in 1..Len(argv) :
              \E k \in 2..Len(argv[i]) :
                /\ argv[i][k] = "f"
                /\ \/ SubSeq(argv[i], k + 1, Len(argv[i])) \in Paths
                   \/ k = Len(argv[i]) /\ i < Len(argv) /\ argv[i + 1] \in Paths
      BY <2>3 DEF Asked, GivenAs
    <3> QED BY <1>1, <2>1, <2>3, <2>5, <3>1
            DEF Asked, Said, Options, TransferAsAsked, Reads
  <2> QED BY <1>1, <2>1, <2>6, <2>8 DEF ArgvInv, Seen
<1> QED BY <1>2, <1>3

(* A transfer is one that was asked for, and no server is started instead, *)
(* for any arguments; but with a -n a server may be, or worse.             *)
THEOREM TransfersAreAsked == Spec => []TransferAsAsked
<1>1. Init => ArgvInv
  <2> SUFFICES ASSUME Init, Reads("argv") PROVE ArgvInv
    BY DEF ArgvInv
  <2>1. \E a \in ArgvS : Input("argv", a) /\ state = MainStart
    BY DEF Init, Input, Reads
  <2> QED BY <2>1, ArgvStart
<1>2. ArgvInv /\ [Next]_vars => ArgvInv'
  <2> SUFFICES ASSUME ArgvInv, [Next]_vars, Reads("argv")' PROVE ArgvInv'
    BY DEF ArgvInv
  <2>1. CASE ReadArgv
    BY <2>1, ArgvStep
  <2>2. CASE UNCHANGED vars
    BY <2>2 DEF vars, ArgvInv, Reads, TransferAsAsked
  <2>3. ASSUME Reads("url") \/ Reads("head") \/ Reads("span") \/ Reads("json") \/ Reads("config"),
               UNCHANGED input
        PROVE  FALSE
    BY <2>3 DEF Reads
  <2> QED BY <2>1, <2>2, <2>3 DEF Next, ReadUrl, ReadRequest, ReadRange, ReadJson, OpenConfig, ReadConfig
<1>3. ArgvInv => TransferAsAsked
  BY DEF ArgvInv, TransferAsAsked
<1> QED BY <1>1, <1>2, <1>3, PTL DEF Spec

=============================================================================
