--------------------------- MODULE WdcCborProofs ---------------------------
(***************************************************************************)
(* Proofs about the CBOR subset (WdcCbor), for requests of any length and  *)
(* any nesting, and events and statuses with fields of any value.          *)
(***************************************************************************)
EXTENDS WdcCbor, FiniteSetTheorems, SequenceTheorems, WellFoundedInduction, TLAPS

-----------------------------------------------------------------------------
(***************************************************************************)
(* The smallest of a set                                                   *)
(***************************************************************************)

\* A non-empty set of naturals has a smallest element, and Min finds it.
LEMMA MinIsMember ==
    ASSUME NEW S \in SUBSET Nat, S # {}
    PROVE  Min(S) \in S /\ \A y \in S : Min(S) <= y
<1>. DEFINE R == OpToRel(<, Nat)
<1>1. IsWellFoundedOn(R, Nat)
  BY NatLessThanWellFounded
<1>2. \A x, y \in Nat : <<y, x>> \in R <=> y < x
  BY DEF OpToRel
<1>. HIDE DEF R
<1>3. PICK x \in S : \A y \in S : ~(<<y, x>> \in R)
  BY <1>1, WFMin
<1>4. ASSUME NEW y \in S PROVE x <= y
  <2>1. x \in Nat /\ y \in Nat /\ ~(y < x)
    BY <1>2, <1>3
  <2>. QED  BY <2>1
<1>5. \E z \in S : \A y \in S : z <= y
  BY <1>4
<1>. QED  BY <1>5 DEF Min

-----------------------------------------------------------------------------
(***************************************************************************)
(* Numbers                                                                 *)
(***************************************************************************)

LEMMA BytesAreNat == \A x \in Byte : x \in Nat /\ x <= 255
  BY DEF Byte

\* Stripping zeros leaves bytes: none, or those from the first that is not 0.
LEMMA StripFacts ==
    ASSUME NEW s \in Seq(Byte)
    PROVE  /\ Strip(s) \in Seq(Byte) /\ Len(Strip(s)) <= Len(s)
           /\ \/ Strip(s) = <<>> /\ \A i \in 1..Len(s) : s[i] = 0
              \/ \E k \in 1..Len(s) : /\ s[k] # 0 /\ \A i \in 1..k - 1 : s[i] = 0
                                      /\ Strip(s) = SubSeq(s, k, Len(s))
<1>. DEFINE nonzero == {i \in DOMAIN s : s[i] # 0}
<1>1. CASE nonzero = {}
  BY <1>1 DEF Strip
<1>2. CASE nonzero # {}
  <2>0. DOMAIN s = 1..Len(s) /\ Len(s) \in Nat
    OBVIOUS
  <2>1. nonzero \in SUBSET Nat
    BY <2>0
  <2>. DEFINE m == Min(nonzero)
  <2>2. m \in nonzero /\ \A j \in nonzero : m <= j
    <3>. HIDE DEF nonzero
    <3>. QED  BY <1>2, <2>1, MinIsMember
  <2>3. Strip(s) = SubSeq(s, m, Len(s))
    BY <1>2 DEF Strip
  <2>. HIDE DEF m
  <2>4. m \in 1..Len(s) /\ s[m] # 0
    BY <2>0, <2>2
  <2>5. \A i \in 1..m - 1 : s[i] = 0
    <3>. SUFFICES ASSUME NEW i \in 1..m - 1, s[i] # 0 PROVE FALSE
      OBVIOUS
    <3>1. i \in 1..Len(s) /\ ~(m <= i)
      BY <2>0, <2>4
    <3>. QED  BY <2>0, <2>2, <3>1
  <2>6. SubSeq(s, m, Len(s)) \in Seq(Byte) /\ Len(SubSeq(s, m, Len(s))) <= Len(s)
    BY <2>4
  <2>. QED  BY <2>3, <2>4, <2>5, <2>6
<1>. QED  BY <1>1, <1>2

\* The four bytes of a word.
LEMMA QuadFacts ==
    ASSUME NEW n, IsWord(n)
    PROVE  /\ Quad(n) \in Seq(Byte) /\ Len(Quad(n)) = 4
           /\ \A i \in 1..4 : Quad(n)[i] \in Byte
           /\ n = 256 * (256 * (256 * Quad(n)[1] + Quad(n)[2]) + Quad(n)[3]) + Quad(n)[4]
<1>1. PICK q : q = n \div 256
  OBVIOUS
<1>2. PICK r : r = q \div 256
  OBVIOUS
<1>3. Quad(n) = <<r \div 256, r % 256, q % 256, n % 256>>
  BY <1>1, <1>2 DEF Quad
<1>4. n \in Nat /\ r \div 256 \in Byte
  BY <1>1, <1>2 DEF IsWord
<1>5. q \in Nat /\ n = 256 * q + (n % 256) /\ n % 256 \in Byte
  BY <1>1, <1>4 DEF Byte
<1>6. r \in Nat /\ q = 256 * r + (q % 256) /\ q % 256 \in Byte
  BY <1>2, <1>5 DEF Byte
<1>7. r = 256 * (r \div 256) + (r % 256) /\ r % 256 \in Byte
  BY <1>6 DEF Byte
<1>8. \A a, b, c, d \in Byte :
         /\ <<a, b, c, d>> \in Seq(Byte) /\ Len(<<a, b, c, d>>) = 4
         /\ \A i \in 1..4 : <<a, b, c, d>>[i] \in Byte
  OBVIOUS
<1>9. /\ Quad(n)[1] = r \div 256 /\ Quad(n)[2] = r % 256
      /\ Quad(n)[3] = q % 256 /\ Quad(n)[4] = n % 256
  BY <1>3
<1>. QED  BY <1>3, <1>4, <1>5, <1>6, <1>7, <1>8, <1>9

\* The number of up to four digits.
LEMMA NumberFacts ==
    ASSUME NEW d \in Seq(Byte)
    PROVE  /\ Number(d) \in Nat
           /\ Len(d) = 0 => Number(d) = 0
           /\ Len(d) = 1 => Number(d) = d[1]
           /\ Len(d) = 2 => Number(d) = 256 * d[1] + d[2]
           /\ Len(d) = 3 => Number(d) = 256 * (256 * d[1] + d[2]) + d[3]
           /\ Len(d) = 4 => Number(d) = 256 * (256 * (256 * d[1] + d[2]) + d[3]) + d[4]
<1>. DEFINE p == Padded(d, 4)
<1>0. Len(d) \in Nat /\ \A i \in 1..Len(d) : d[i] \in Byte
  OBVIOUS
<1>1. \A i \in 1..4 : p[i] = IF i + Len(d) <= 4 THEN 0 ELSE d[i + Len(d) - 4]
  BY DEF Padded
<1>2. Number(d) = 256 * (256 * (256 * p[1] + p[2]) + p[3]) + p[4]
  BY DEF Number
<1>. HIDE DEF p
<1>3. ASSUME NEW i \in 1..4 PROVE p[i] \in Byte
  <2>1. i + Len(d) <= 4 \/ i + Len(d) - 4 \in 1..Len(d)
    BY <1>0
  <2>2. 0 \in Byte
    BY DEF Byte
  <2>. QED  BY <1>0, <1>1, <2>1, <2>2
<1>4. p[1] \in Nat /\ p[2] \in Nat /\ p[3] \in Nat /\ p[4] \in Nat
  <2>1. p[1] \in Byte /\ p[2] \in Byte /\ p[3] \in Byte /\ p[4] \in Byte
    BY <1>3
  <2>. QED  BY <2>1, BytesAreNat
<1>5. Number(d) \in Nat
  BY <1>2, <1>4
<1>6. CASE Len(d) = 0
  <2>1. p[1] = 0 /\ p[2] = 0 /\ p[3] = 0 /\ p[4] = 0
    BY <1>1, <1>6
  <2>. QED  BY <1>2, <1>5, <1>6, <2>1
<1>7. CASE Len(d) = 1
  <2>1. p[1] = 0 /\ p[2] = 0 /\ p[3] = 0 /\ p[4] = d[1]
    BY <1>1, <1>7
  <2>. QED  BY <1>2, <1>4, <1>5, <1>7, <2>1
<1>8. CASE Len(d) = 2
  <2>1. p[1] = 0 /\ p[2] = 0 /\ p[3] = d[1] /\ p[4] = d[2]
    BY <1>1, <1>8
  <2>. QED  BY <1>2, <1>4, <1>5, <1>8, <2>1
<1>9. CASE Len(d) = 3
  <2>1. p[1] = 0 /\ p[2] = d[1] /\ p[3] = d[2] /\ p[4] = d[3]
    BY <1>1, <1>9
  <2>. QED  BY <1>2, <1>4, <1>5, <1>9, <2>1
<1>10. CASE Len(d) = 4
  <2>1. p[1] = d[1] /\ p[2] = d[2] /\ p[3] = d[3] /\ p[4] = d[4]
    BY <1>1, <1>10
  <2>. QED  BY <1>2, <1>5, <1>10, <2>1
<1>. QED  BY <1>5, <1>6, <1>7, <1>8, <1>9, <1>10

\* A number of digits that is at most a word, digit by digit, is at most it.
LEMMA AtMostIsLeq ==
    ASSUME NEW d \in Seq(Byte), NEW n, IsWord(n), AtMost(d, Digits(n))
    PROVE  Number(d) <= n
<1>. DEFINE q == Quad(n)
            p == Padded(d, 4)
            L == Len(d)
<1>1. /\ q \in Seq(Byte) /\ Len(q) = 4 /\ \A i \in 1..4 : q[i] \in Byte
      /\ n = 256 * (256 * (256 * q[1] + q[2]) + q[3]) + q[4]
  BY QuadFacts
<1>2. Digits(n) = Strip(q)
  BY DEF Digits
<1>3. L \in Nat /\ \A i \in 1..L : d[i] \in Byte
  OBVIOUS
<1>4. \A i \in 1..4 : p[i] = IF i + L <= 4 THEN 0 ELSE d[i + L - 4]
  BY DEF Padded
<1>5. Number(d) = 256 * (256 * (256 * p[1] + p[2]) + p[3]) + p[4]
  BY DEF Number
<1>a. \/ L < Len(Strip(q))
      \/ /\ L = Len(Strip(q))
         /\ \A i \in 1..L :
               d[i] > Strip(q)[i] => \E j \in 1..i - 1 : d[j] < Strip(q)[j]
  <2>1. DOMAIN d = 1..L
    OBVIOUS
  <2>2. AtMost(d, Strip(q))
    BY <1>2
  <2>. HIDE DEF q
  <2>. QED  BY <2>1, <2>2 DEF AtMost
<1>. HIDE DEF q, p, L
<1>6. ASSUME NEW i \in 1..4 PROVE p[i] \in Byte
  <2>1. i + L <= 4 \/ i + L - 4 \in 1..L
    BY <1>3
  <2>2. 0 \in Byte
    BY DEF Byte
  <2>. QED  BY <1>3, <1>4, <2>1, <2>2
<1>7. \A i \in 1..4 : p[i] > q[i] => \E j \in 1..i - 1 : p[j] < q[j]
  <2>0. \A i \in 1..4 : q[i] \in Nat /\ p[i] \in Nat
    BY <1>1, <1>6, BytesAreNat
  <2>1. CASE Strip(q) = <<>>
    <3>1. L = 0
      BY <1>3, <1>a, <2>1
    <3>2. \A i \in 1..4 : p[i] = 0
      BY <1>4, <3>1
    <3>. QED  BY <2>0, <3>2
  <2>2. ASSUME NEW k \in 1..4, q[k] # 0, \A i \in 1..k - 1 : q[i] = 0,
               Strip(q) = SubSeq(q, k, 4)
        PROVE  \A i \in 1..4 : p[i] > q[i] => \E j \in 1..i - 1 : p[j] < q[j]
    <3>. SUFFICES ASSUME NEW i \in 1..4, p[i] > q[i]
                  PROVE  \E j \in 1..i - 1 : p[j] < q[j]
      OBVIOUS
    <3>1. Len(Strip(q)) = 5 - k /\ \A j \in 1..5 - k : Strip(q)[j] = q[k + j - 1]
      BY <1>1, <2>2
    <3>2. i + L > 4 /\ p[i] = d[i + L - 4]
      <4>1. p[i] # 0
        BY <2>0
      <4>2. ~(i + L <= 4)
        BY <1>4, <4>1
      <4>. QED  BY <1>3, <1>4, <4>2
    <3>3. CASE L < 5 - k
      <4>1. k \in 1..i - 1 /\ p[k] = 0
        BY <1>3, <1>4, <3>2, <3>3
      <4>2. q[k] > 0
        <5>1. \A x \in Nat : x # 0 => x > 0
          OBVIOUS
        <5>. QED  BY <2>0, <2>2, <5>1
      <4>. QED  BY <4>1, <4>2
    <3>4. CASE L = 5 - k
      <4>. DEFINE m == i + L - 4
      <4>1. m \in 1..L /\ i = k + m - 1
        BY <1>3, <3>2, <3>4
      <4>2. d[m] > Strip(q)[m]
        <5>1. Strip(q)[m] = q[i]
          BY <3>1, <3>4, <4>1
        <5>. QED  BY <3>2, <5>1
      <4>. HIDE DEF m
      <4>3. PICK j \in 1..m - 1 : d[j] < Strip(q)[j]
        BY <1>3, <1>a, <3>1, <3>4, <4>1, <4>2
      <4>4. /\ k + j - 1 \in 1..4 /\ k + j - 1 \in 1..i - 1
            /\ (k + j - 1) + L > 4 /\ (k + j - 1) + L - 4 = j /\ j \in 1..5 - k
        BY <1>3, <3>4, <4>1
      <4>5. p[k + j - 1] = d[j]
        <5>1. PICK m1 : m1 = k + j - 1
          OBVIOUS
        <5>2. m1 \in 1..4 /\ ~(m1 + L <= 4) /\ m1 + L - 4 = j
          BY <1>3, <4>4, <5>1
        <5>. QED  BY <1>4, <5>1, <5>2
      <4>6. q[k + j - 1] = Strip(q)[j]
        BY <3>1, <4>4
      <4>. QED  BY <4>3, <4>4, <4>5, <4>6
    <3>. QED  BY <1>3, <1>a, <3>1, <3>3, <3>4
  <2>3. \/ Strip(q) = <<>>
        \/ \E k \in 1..4 : /\ q[k] # 0 /\ \A i \in 1..k - 1 : q[i] = 0
                           /\ Strip(q) = SubSeq(q, k, 4)
    BY <1>1, StripFacts
  <2>. QED  BY <2>1, <2>2, <2>3
<1>8. /\ ~(p[1] > q[1])
      /\ p[2] > q[2] => p[1] < q[1]
      /\ p[3] > q[3] => p[1] < q[1] \/ p[2] < q[2]
      /\ p[4] > q[4] => p[1] < q[1] \/ p[2] < q[2] \/ p[3] < q[3]
  BY <1>7
<1>9. /\ p[1] \in Byte /\ p[2] \in Byte /\ p[3] \in Byte /\ p[4] \in Byte
      /\ q[1] \in Byte /\ q[2] \in Byte /\ q[3] \in Byte /\ q[4] \in Byte
  BY <1>1, <1>6
<1>10. 256 * (256 * (256 * p[1] + p[2]) + p[3]) + p[4]
          <= 256 * (256 * (256 * q[1] + q[2]) + q[3]) + q[4]
  <2>1. PICK a1 \in Byte, a2 \in Byte, a3 \in Byte, a4 \in Byte :
           a1 = p[1] /\ a2 = p[2] /\ a3 = p[3] /\ a4 = p[4]
    BY <1>9
  <2>2. PICK b1 \in Byte, b2 \in Byte, b3 \in Byte, b4 \in Byte :
           b1 = q[1] /\ b2 = q[2] /\ b3 = q[3] /\ b4 = q[4]
    BY <1>9
  <2>3. /\ ~(a1 > b1)
        /\ (a2 > b2) => (a1 < b1)
        /\ (a3 > b3) => (a1 < b1 \/ a2 < b2)
        /\ (a4 > b4) => (a1 < b1 \/ a2 < b2 \/ a3 < b3)
    BY <1>8, <2>1, <2>2
  <2>4. 256 * (256 * (256 * a1 + a2) + a3) + a4 <= 256 * (256 * (256 * b1 + b2) + b3) + b4
    BY <2>3 DEF Byte
  <2>. QED  BY <2>1, <2>2, <2>4
<1>. QED  BY <1>1, <1>5, <1>10

-----------------------------------------------------------------------------
(***************************************************************************)
(* Heads and items                                                         *)
(***************************************************************************)

\* What can be read of a buffer of N bytes, and at every offset: an item ends
\* behind its first byte, and in the buffer
Items(N) == [ok : BOOLEAN, major : 0..7, value : Seq(Byte), payload : Seq(Byte),
             bool : {"none", "true", "false"}, next : 0..N]
Good(N) == {f \in [0..N -> Items(N)] : \A p \in 0..N : f[p].ok => f[p].next > p}

LEMMA BadItemFacts ==
    ASSUME NEW N \in Nat
    PROVE  /\ BadItem \in Items(N) /\ ~BadItem.ok /\ BadItem.bool = "none"
           /\ BadItem.payload = <<>>
<1>1. <<>> \in Seq(Byte) /\ 7 \in 0..7 /\ 0 \in 0..N
  OBVIOUS
<1>2. BadItem \in Items(N)
  <2>1. \A e \in Seq(Byte), m \in 0..7, x \in 0..N :
           [ok |-> FALSE, major |-> m, value |-> e, payload |-> e, bool |-> "none",
            next |-> x] \in Items(N)
    BY DEF Items
  <2>. QED  BY <1>1, <2>1 DEF BadItem, Simple
<1>3. ~BadItem.ok /\ BadItem.bool = "none" /\ BadItem.payload = <<>>
  BY DEF BadItem
<1>. QED  BY <1>2, <1>3

LEMMA SmallWords == \A n \in 0..255 : IsWord(n)
  BY DEF IsWord, Byte

LEMMA ArgLenFacts ==
    ASSUME NEW b \in Byte
    PROVE  /\ ArgLen(b % 32) \in {-1, 0, 1, 2, 4, 8}
           /\ b \div 32 \in 0..7 /\ b % 32 \in 0..31
           /\ b \in {False, True} => ArgLen(b % 32) = 0 /\ b \div 32 = 7
<1>1. b % 32 \in 0..31 /\ b \div 32 \in 0..7
  BY DEF Byte
<1>2. ASSUME NEW a \in 0..31 PROVE ArgLen(a) \in {-1, 0, 1, 2, 4, 8}
  BY DEF ArgLen
<1>3. b \in {False, True} => ArgLen(b % 32) = 0 /\ b \div 32 = 7
  BY DEF False, True, ArgLen
<1>. QED  BY <1>1, <1>2, <1>3

\* The head at an offset.
LEMMA HeadFacts ==
    ASSUME NEW buf \in Seq(Byte), NEW o \in 0..Len(buf), NEW h,
           h = ReadTypeValue(buf, o)
    PROVE  /\ h \in Items(Len(buf))
           /\ h.ok => o < Len(buf) /\ h.next > o
           /\ h.bool = "none" /\ h.payload = <<>>
           /\ o < Len(buf) /\ buf[o + 1] \in {False, True}
                => h.ok /\ h.major = Simple /\ h.next = o + 1
<1>. DEFINE N == Len(buf)
<1>0. N \in Nat /\ BadItem \in Items(N) /\ ~BadItem.ok /\ BadItem.bool = "none" /\ BadItem.payload = <<>>
  <2>1. N \in Nat
    OBVIOUS
  <2>. QED  BY <2>1, BadItemFacts
<1>1. CASE o >= Len(buf)
  <2>1. h = BadItem /\ ~(o < Len(buf))
    BY <1>0, <1>1 DEF ReadTypeValue
  <2>. QED  BY <1>0, <2>1
<1>2. CASE o < Len(buf)
  <2>1. PICK b \in Byte : b = buf[o + 1]
    BY <1>2
  <2>2. PICK n \in {-1, 0, 1, 2, 4, 8} : n = ArgLen(b % 32)
    BY ArgLenFacts
  <2>3. h = HeadAt(buf, o, n)
    BY <1>2, <2>1, <2>2 DEF ReadTypeValue
  <2>4. b \in {False, True} => n = 0 /\ b \div 32 = 7
    BY <2>2, ArgLenFacts
  <2>5. CASE n = -1 \/ Len(buf) - (o + 1) < n
    <3>1. h = BadItem
      BY <2>3, <2>5 DEF HeadAt
    <3>2. ~(b \in {False, True})
      BY <1>2, <2>4, <2>5
    <3>. QED  BY <1>0, <2>1, <3>1, <3>2
  <2>6. CASE ~(n = -1 \/ Len(buf) - (o + 1) < n)
    <3>. DEFINE v == IF n = 0 THEN Digits(b % 32) ELSE Strip(SubSeq(buf, o + 2, o + 1 + n))
    <3>1. v \in Seq(Byte)
      <4>1. CASE n = 0
        <5>1. IsWord(b % 32)
          <6>1. b % 32 \in 0..255
            BY DEF Byte
          <6>. QED  BY <6>1, SmallWords
        <5>2. Quad(b % 32) \in Seq(Byte)
          BY <5>1, QuadFacts
        <5>3. Digits(b % 32) \in Seq(Byte)
          BY <5>2, StripFacts DEF Digits
        <5>. QED  BY <4>1, <5>3
      <4>2. CASE n # 0
        <5>1. SubSeq(buf, o + 2, o + 1 + n) \in Seq(Byte)
          BY <2>6, <4>2
        <5>2. Strip(SubSeq(buf, o + 2, o + 1 + n)) \in Seq(Byte)
          BY <5>1, StripFacts
        <5>. QED  BY <4>2, <5>2
      <4>. QED  BY <4>1, <4>2
    <3>2. h = [BadItem EXCEPT !.ok = TRUE, !.major = b \div 32, !.value = v, !.next = o + 1 + n]
      BY <2>1, <2>3, <2>6 DEF HeadAt
    <3>. HIDE DEF v
    <3>3. b \div 32 \in 0..7
      BY ArgLenFacts
    <3>4. o + 1 + n \in 0..N /\ o + 1 + n > o
      BY <2>6
    <3>5. /\ h.ok = TRUE /\ h.major = b \div 32 /\ h.next = o + 1 + n
          /\ h.bool = "none" /\ h.payload = <<>>
      BY <3>2 DEF BadItem
    <3>6. h \in Items(N)
      BY <1>0, <3>1, <3>2, <3>3, <3>4 DEF Items
    <3>7. b \in {False, True} => h.major = Simple /\ h.next = o + 1
      BY <2>4, <3>5 DEF Simple
    <3>. QED  BY <1>2, <2>1, <3>4, <3>5, <3>6, <3>7
  <2>. QED  BY <2>5, <2>6
<1>. QED  BY <1>0, <1>1, <1>2

-----------------------------------------------------------------------------
(***************************************************************************)
(* Successive items.  After(item, p, n) is where n items from p on end.    *)
(***************************************************************************)

\* Induction, for a set that a property defines.
LEMMA Induction ==
    ASSUME NEW S \in SUBSET Nat, 0 \in S, \A n \in S : n + 1 \in S
    PROVE  \A n \in Nat : n \in S
<1>. SUFFICES ASSUME NEW n \in Nat, n \notin S PROVE FALSE
  OBVIOUS
<1>. DEFINE T == Nat \ S
<1>1. T \in SUBSET Nat /\ T # {}
  OBVIOUS
<1>2. PICK m \in T : \A y \in T : m <= y
  <2>. HIDE DEF T
  <2>. QED  BY <1>1, MinIsMember
<1>3. m \in Nat /\ m \notin S /\ m # 0
  BY <1>2
<1>4. m - 1 \in Nat /\ ~(m <= m - 1)
  BY <1>3
<1>5. m - 1 \in S
  BY <1>2, <1>4
<1>6. (m - 1) + 1 = m
  BY <1>3
<1>. QED  BY <1>3, <1>5, <1>6

After(item, p, n) == Successive(item, p, n)[n]

\* The function Successive recurses with exists.
LEMMA SuccessiveFacts ==
    ASSUME NEW item, NEW from, NEW n \in Nat
    PROVE  LET at == Successive(item, from, n)
           IN  /\ DOMAIN at = 0..n /\ at[0] = from
               /\ \A i \in 1..n : at[i] = Skip(item, at[i - 1])
<1>. DEFINE Solves(at, m) == at = [i \in 0..m |-> IF i = 0 THEN from ELSE Skip(item, at[i - 1])]
            S == {m \in Nat : \E at : Solves(at, m)}
<1>1. S \in SUBSET Nat
  OBVIOUS
<1>2. 0 \in S
  <2>1. Solves([i \in 0..0 |-> from], 0)
    OBVIOUS
  <2>. QED  BY <2>1
<1>3. ASSUME NEW m \in S PROVE m + 1 \in S
  <2>1. PICK at : Solves(at, m)
    OBVIOUS
  <2>2. m \in Nat
    OBVIOUS
  <2>. DEFINE more == [i \in 0..m + 1 |-> IF i <= m THEN at[i] ELSE Skip(item, at[m])]
  <2>3. ASSUME NEW i \in 0..m + 1
        PROVE  more[i] = IF i = 0 THEN from ELSE Skip(item, more[i - 1])
    <3>1. CASE i = 0
      BY <2>1, <2>2, <3>1
    <3>2. CASE i \in 1..m
      <4>1. i \in 0..m /\ i <= m /\ i - 1 \in 0..m + 1 /\ i - 1 <= m /\ i # 0
        BY <2>2, <3>2
      <4>2. more[i] = at[i] /\ more[i - 1] = at[i - 1]
        BY <4>1
      <4>. QED  BY <2>1, <4>1, <4>2
    <3>3. CASE i = m + 1
      <4>1. ~(i <= m) /\ i # 0 /\ i - 1 = m /\ m \in 0..m + 1 /\ m <= m
        BY <2>2, <3>3
      <4>2. more[i] = Skip(item, at[m]) /\ more[i - 1] = at[m]
        BY <4>1
      <4>. QED  BY <4>1, <4>2
    <3>. QED  BY <2>2, <3>1, <3>2, <3>3
  <2>4. Solves(more, m + 1)
    BY <2>3
  <2>5. m + 1 \in Nat /\ \E to : Solves(to, m + 1)
    <3>. HIDE DEF more, Solves
    <3>. QED  BY <2>2, <2>4
  <2>. QED  BY <2>5
<1>4. n \in S
  <2>. HIDE DEF S
  <2>. QED  BY <1>1, <1>2, <1>3, Induction
<1>. DEFINE f == CHOOSE at : Solves(at, n)
<1>5. Successive(item, from, n) = f
  BY DEF Successive
<1>6. Solves(f, n)
  BY <1>4
<1>. HIDE DEF f
<1>7. DOMAIN f = 0..n /\ f[0] = from
  BY <1>6
<1>8. ASSUME NEW i \in 1..n PROVE f[i] = Skip(item, f[i - 1])
  <2>1. i \in 0..n /\ i # 0
    OBVIOUS
  <2>. QED  BY <1>6, <2>1
<1>. QED  BY <1>5, <1>7, <1>8

\* Where one stops makes no difference to what comes before.
LEMMA SuccessiveIsAfter ==
    ASSUME NEW item, NEW from, NEW n \in Nat, NEW i \in 0..n
    PROVE  Successive(item, from, n)[i] = After(item, from, i)
<1>. DEFINE at == Successive(item, from, n)
            to == Successive(item, from, i)
            S == {m \in Nat : m <= i => at[m] = to[m]}
<1>0. i \in Nat
  OBVIOUS
<1>1. /\ at[0] = from /\ \A j \in 1..n : at[j] = Skip(item, at[j - 1])
      /\ to[0] = from /\ \A j \in 1..i : to[j] = Skip(item, to[j - 1])
  BY <1>0, SuccessiveFacts
<1>. HIDE DEF at, to
<1>2. 0 \in S
  BY <1>1
<1>3. ASSUME NEW m \in S PROVE m + 1 \in S
  <2>. SUFFICES ASSUME m + 1 <= i PROVE at[m + 1] = to[m + 1]
    OBVIOUS
  <2>1. m + 1 \in 1..n /\ m + 1 \in 1..i /\ (m + 1) - 1 = m /\ m <= i
    BY <1>0
  <2>. QED  BY <1>1, <2>1
<1>4. i \in S
  <2>1. S \in SUBSET Nat
    OBVIOUS
  <2>. HIDE DEF S
  <2>. QED  BY <1>0, <1>2, <1>3, <2>1, Induction
<1>. QED  BY <1>0, <1>4 DEF After, at, to

LEMMA AfterFacts ==
    ASSUME NEW item, NEW p, NEW n \in Nat
    PROVE  /\ After(item, p, 0) = p
           /\ After(item, p, n + 1) = Skip(item, After(item, p, n))
           /\ After(item, p, 1) = Skip(item, p)
<1>1. ASSUME NEW m \in Nat PROVE After(item, p, m + 1) = Skip(item, After(item, p, m))
  <2>1. m + 1 \in Nat /\ m + 1 \in 1..m + 1 /\ m \in 0..m + 1 /\ (m + 1) - 1 = m
    OBVIOUS
  <2>2. Successive(item, p, m + 1)[m + 1] = Skip(item, Successive(item, p, m + 1)[m])
    <3>1. \A j \in 1..m + 1 : Successive(item, p, m + 1)[j]
                                = Skip(item, Successive(item, p, m + 1)[j - 1])
      BY <2>1, SuccessiveFacts
    <3>. QED  BY <2>1, <3>1
  <2>3. Successive(item, p, m + 1)[m] = After(item, p, m)
    BY <2>1, SuccessiveIsAfter
  <2>. QED  BY <2>2, <2>3 DEF After
<1>2. After(item, p, 0) = p
  BY SuccessiveFacts DEF After
<1>3. After(item, p, 0 + 1) = Skip(item, After(item, p, 0))
  BY <1>1
<1>4. 0 + 1 = 1
  OBVIOUS
<1>. QED  BY <1>1, <1>2, <1>3, <1>4

\* n items and then m more.
LEMMA AfterBoth ==
    ASSUME NEW item, NEW p, NEW n \in Nat, NEW m \in Nat
    PROVE  After(item, p, n + m) = After(item, After(item, p, n), m)
<1>. DEFINE q == After(item, p, n)
            S == {k \in Nat : After(item, p, n + k) = After(item, q, k)}
<1>1. 0 \in S
  <2>1. n + 0 = n
    OBVIOUS
  <2>. QED  BY <2>1, AfterFacts
<1>2. ASSUME NEW k \in S PROVE k + 1 \in S
  <2>1. n + (k + 1) = (n + k) + 1 /\ n + k \in Nat /\ k \in Nat
    OBVIOUS
  <2>2. After(item, p, (n + k) + 1) = Skip(item, After(item, p, n + k))
    BY <2>1, AfterFacts
  <2>3. After(item, q, k + 1) = Skip(item, After(item, q, k))
    BY <2>1, AfterFacts
  <2>. QED  BY <2>1, <2>2, <2>3
<1>3. m \in S
  <2>1. S \in SUBSET Nat
    OBVIOUS
  <2>. HIDE DEF S
  <2>. QED  BY <1>1, <1>2, <2>1, Induction
<1>. QED  BY <1>3

\* After an item that cannot be read there are no more.
LEMMA AfterError ==
    ASSUME NEW item, NEW n \in Nat
    PROVE  After(item, -1, n) = -1
<1>. DEFINE S == {k \in Nat : After(item, -1, k) = -1}
<1>1. 0 \in S
  BY AfterFacts
<1>2. ASSUME NEW k \in S PROVE k + 1 \in S
  <2>1. After(item, -1, k + 1) = Skip(item, -1)
    BY AfterFacts
  <2>. QED  BY <2>1 DEF Skip
<1>3. n \in S
  <2>1. S \in SUBSET Nat
    OBVIOUS
  <2>. HIDE DEF S
  <2>. QED  BY <1>1, <1>2, <2>1, Induction
<1>. QED  BY <1>3

\* Items end where they begin or behind it, and only those from there on count.
LEMMA AfterGood ==
    ASSUME NEW N \in Nat, NEW g \in Good(N), NEW p \in 0..N, NEW n \in Nat,
           NEW f, \A q \in p..N : f[q] = g[q]
    PROVE  /\ After(g, p, n) \in {-1} \cup p..N
           /\ After(f, p, n) = After(g, p, n)
<1>. DEFINE S == {k \in Nat : /\ After(g, p, k) \in {-1} \cup p..N
                              /\ After(f, p, k) = After(g, p, k)}
<1>1. 0 \in S
  BY AfterFacts
<1>2. ASSUME NEW k \in S PROVE k + 1 \in S
  <2>. DEFINE a == After(g, p, k)
  <2>1. /\ After(g, p, k + 1) = Skip(g, a)
        /\ After(f, p, k + 1) = Skip(f, a)
    BY AfterFacts
  <2>2. a \in {-1} \cup p..N
    OBVIOUS
  <2>. HIDE DEF a
  <2>3. CASE a = -1
    BY <2>1, <2>3 DEF Skip
  <2>4. CASE a \in p..N
    <3>1. f[a] = g[a] /\ a # -1
      BY <2>4
    <3>2. g[a] \in Items(N) /\ (g[a].ok => g[a].next > a)
      BY <2>4 DEF Good
    <3>3. g[a].ok => g[a].next \in p..N
      BY <2>4, <3>2 DEF Items
    <3>4. Skip(f, a) = Skip(g, a) /\ Skip(g, a) \in {-1} \cup p..N
      BY <3>1, <3>3 DEF Skip
    <3>. QED  BY <2>1, <3>4
  <2>. QED  BY <2>2, <2>3, <2>4
<1>3. n \in S
  <2>1. S \in SUBSET Nat
    OBVIOUS
  <2>. HIDE DEF S
  <2>. QED  BY <1>1, <1>2, <2>1, Induction
<1>. QED  BY <1>3

-----------------------------------------------------------------------------
(***************************************************************************)
(* The function ReadItem recurses with exists: an item is determined by    *)
(* those behind it.                                                        *)
(***************************************************************************)

LEMMA SmallerWord ==
    ASSUME NEW n, IsWord(n), NEW m \in 0..n
    PROVE  IsWord(m)
<1>1. n \in Nat /\ m \in Nat /\ m <= n
  BY DEF IsWord
<1>2. \A x, y \in Nat : x <= y => x \div 256 <= y \div 256 /\ x \div 256 \in Nat /\ y \div 256 \in Nat
  OBVIOUS
<1>3. m \div 256 <= n \div 256 /\ m \div 256 \in Nat /\ n \div 256 \in Nat
  BY <1>1, <1>2
<1>4. /\ (m \div 256) \div 256 <= (n \div 256) \div 256
      /\ (m \div 256) \div 256 \in Nat /\ (n \div 256) \div 256 \in Nat
  BY <1>2, <1>3
<1>5. /\ ((m \div 256) \div 256) \div 256 <= ((n \div 256) \div 256) \div 256
      /\ ((m \div 256) \div 256) \div 256 \in Nat /\ ((n \div 256) \div 256) \div 256 \in Nat
  BY <1>2, <1>4
<1>6. ((n \div 256) \div 256) \div 256 \in Byte
  BY DEF IsWord
<1>7. ((m \div 256) \div 256) \div 256 \in Byte
  BY <1>5, <1>6 DEF Byte
<1>. QED  BY <1>1, <1>7 DEF IsWord

LEMMA ChildrenFacts ==
    ASSUME NEW major, NEW n \in Nat
    PROVE  Children(major, n) \in Nat
  BY DEF Children

\* A string ends in the buffer.
LEMMA StringFacts ==
    ASSUME NEW buf \in Seq(Byte), IsWord(Len(buf)), NEW h \in Items(Len(buf)),
           AtMost(h.value, Digits(Len(buf) - h.next))
    PROVE  /\ Number(h.value) \in Nat /\ h.next + Number(h.value) \in h.next..Len(buf)
           /\ String(buf, h) \in Items(Len(buf))
           /\ String(buf, h).ok = h.ok /\ String(buf, h).major = h.major
           /\ String(buf, h).value = h.value /\ String(buf, h).bool = h.bool
           /\ String(buf, h).next = h.next + Number(h.value)
           /\ String(buf, h).payload = SubSeq(buf, h.next + 1, h.next + Number(h.value))
<1>1. h.next \in 0..Len(buf) /\ h.value \in Seq(Byte) /\ Len(buf) \in Nat
  BY DEF Items
<1>2. Len(buf) - h.next \in 0..Len(buf)
  BY <1>1
<1>3. IsWord(Len(buf) - h.next)
  BY <1>2, SmallerWord
<1>4. Number(h.value) <= Len(buf) - h.next
  BY <1>1, <1>3, AtMostIsLeq
<1>5. Number(h.value) \in Nat
  BY <1>1, NumberFacts
<1>6. h.next + Number(h.value) \in h.next..Len(buf)
  BY <1>1, <1>4, <1>5
<1>. DEFINE e == h.next + Number(h.value)
            s == SubSeq(buf, h.next + 1, e)
<1>7. String(buf, h) = [h EXCEPT !.payload = s, !.next = e]
  BY DEF String
<1>8. s \in Seq(Byte) /\ e \in 0..Len(buf)
  BY <1>1, <1>6
<1>. HIDE DEF s, e
<1>9. String(buf, h) \in Items(Len(buf))
  BY <1>7, <1>8 DEF Items
<1>10. /\ String(buf, h).ok = h.ok /\ String(buf, h).major = h.major
       /\ String(buf, h).value = h.value /\ String(buf, h).bool = h.bool
       /\ String(buf, h).next = e /\ String(buf, h).payload = s
  BY <1>7 DEF Items
<1>. QED  BY <1>5, <1>6, <1>9, <1>10 DEF s, e

\* What read_item does at offset o, given the items behind it
ItemAt(buf, o, item) ==
    IF o < Len(buf) /\ buf[o + 1] \in {False, True} THEN Boolean(buf[o + 1], o)
    ELSE ItemOf(buf, ReadTypeValue(buf, o), item)

LEMMA BooleanFacts ==
    ASSUME NEW N \in Nat, NEW o \in 0..N - 1, NEW b
    PROVE  /\ Boolean(b, o) \in Items(N)
           /\ Boolean(b, o).ok = TRUE /\ Boolean(b, o).next = o + 1
           /\ Boolean(b, o).major = Simple /\ Boolean(b, o).value = <<>>
           /\ Boolean(b, o).bool = IF b = True THEN "true" ELSE "false"
<1>. DEFINE t == IF b = True THEN "true" ELSE "false"
<1>1. Boolean(b, o) = [BadItem EXCEPT !.ok = TRUE, !.next = o + 1, !.bool = t]
  BY DEF Boolean
<1>2. t \in {"none", "true", "false"}
  OBVIOUS
<1>3. o + 1 \in 0..N
  OBVIOUS
<1>4. BadItem \in Items(N)
  BY BadItemFacts
<1>. HIDE DEF t
<1>5. Boolean(b, o) \in Items(N)
  BY <1>1, <1>2, <1>3, <1>4 DEF Items
<1>6. /\ Boolean(b, o).ok = TRUE /\ Boolean(b, o).next = o + 1
      /\ Boolean(b, o).major = Simple /\ Boolean(b, o).value = <<>> /\ Boolean(b, o).bool = t
  BY <1>1 DEF BadItem
<1>. QED  BY <1>5, <1>6 DEF t

\* An item is one of the buffer, and depends on the items behind it only.
LEMMA ItemAtFacts ==
    ASSUME NEW buf \in Seq(Byte), IsWord(Len(buf)), NEW g \in Good(Len(buf)),
           NEW o \in 0..Len(buf), NEW f, \A q \in o + 1..Len(buf) : f[q] = g[q]
    PROVE  /\ ItemAt(buf, o, g) \in Items(Len(buf))
           /\ ItemAt(buf, o, g).ok => ItemAt(buf, o, g).next > o
           /\ ItemAt(buf, o, f) = ItemAt(buf, o, g)
<1>. DEFINE N == Len(buf)
<1>0. N \in Nat /\ BadItem \in Items(N) /\ ~BadItem.ok
  <2>1. N \in Nat
    OBVIOUS
  <2>. QED  BY <2>1, BadItemFacts
<1>1. CASE o < Len(buf) /\ buf[o + 1] \in {False, True}
  <2>1. /\ ItemAt(buf, o, g) = Boolean(buf[o + 1], o)
        /\ ItemAt(buf, o, f) = Boolean(buf[o + 1], o)
    BY <1>1 DEF ItemAt
  <2>2. o \in 0..N - 1
    BY <1>0, <1>1
  <2>3. /\ Boolean(buf[o + 1], o) \in Items(N) /\ Boolean(buf[o + 1], o).next = o + 1
    BY <1>0, <2>2, BooleanFacts
  <2>4. o + 1 > o
    OBVIOUS
  <2>. QED  BY <2>1, <2>3, <2>4
<1>2. CASE ~(o < Len(buf) /\ buf[o + 1] \in {False, True})
  <2>1. PICK h : h = ReadTypeValue(buf, o)
    OBVIOUS
  <2>2. h \in Items(N) /\ (h.ok => h.next > o)
    BY <2>1, HeadFacts
  <2>3. ItemAt(buf, o, g) = ItemOf(buf, h, g) /\ ItemAt(buf, o, f) = ItemOf(buf, h, f)
    BY <1>2, <2>1 DEF ItemAt
  <2>4. h.ok \in BOOLEAN /\ h.major \in 0..7 /\ h.next \in 0..N /\ h.value \in Seq(Byte)
    BY <2>2 DEF Items
  <2>5. CASE ~h.ok \/ h.major = Tag
    <3>1. ItemOf(buf, h, g) = BadItem /\ ItemOf(buf, h, f) = BadItem
      BY <2>5 DEF ItemOf, Tag, Bytes, Txt, Array, Map
    <3>. QED  BY <1>0, <2>3, <3>1
  <2>6. CASE h.ok /\ h.major \in {Bytes, Txt}
    <3>1. ItemOf(buf, h, g) = String(buf, h) /\ ItemOf(buf, h, f) = String(buf, h)
      BY <2>6 DEF ItemOf, Tag, Bytes, Txt, Array, Map
    <3>2. CASE AtMost(h.value, Digits(Len(buf) - h.next))
      <4>1. /\ String(buf, h) \in Items(N) /\ String(buf, h).next \in h.next..N
        BY <2>2, <3>2, StringFacts
      <4>2. String(buf, h).next > o
        BY <2>2, <2>4, <2>6, <4>1
      <4>. QED  BY <2>3, <3>1, <4>1, <4>2
    <3>3. CASE ~AtMost(h.value, Digits(Len(buf) - h.next))
      <4>1. String(buf, h) = BadItem
        BY <3>3 DEF String
      <4>. QED  BY <1>0, <2>3, <3>1, <4>1
    <3>. QED  BY <3>2, <3>3
  <2>7. CASE h.ok /\ h.major \in {Array, Map}
    <3>. DEFINE c == Children(h.major, Number(h.value))
                last == After(g, h.next, c)
    <3>1. Number(h.value) \in Nat
      BY <2>4, NumberFacts
    <3>2. c \in Nat
      BY <3>1, ChildrenFacts
    <3>3. /\ ItemOf(buf, h, g) = Collection(h, After(g, h.next, c))
          /\ ItemOf(buf, h, f) = Collection(h, After(f, h.next, c))
      BY <2>7 DEF ItemOf, Tag, Bytes, Txt, Array, Map, EndOf, After
    <3>. HIDE DEF c
    <3>4. \A q \in h.next..N : f[q] = g[q]
      BY <1>0, <2>2, <2>4, <2>7
    <3>5. After(f, h.next, c) = last /\ last \in {-1} \cup h.next..N
      BY <1>0, <2>4, <3>2, <3>4, AfterGood
    <3>. HIDE DEF last
    <3>6. CASE AtMost(h.value, <<32>>) /\ last # -1
      <4>1. Collection(h, last) = [h EXCEPT !.next = last]
        BY <3>6 DEF Collection
      <4>2. last \in 0..N /\ last > o
        BY <1>0, <2>2, <2>4, <2>7, <3>5, <3>6
      <4>3. Collection(h, last) \in Items(N) /\ Collection(h, last).next = last
        BY <2>2, <4>1, <4>2 DEF Items
      <4>. QED  BY <2>3, <3>3, <3>5, <4>2, <4>3 DEF last
    <3>7. CASE ~(AtMost(h.value, <<32>>) /\ last # -1)
      <4>1. Collection(h, last) = BadItem
        BY <3>7 DEF Collection
      <4>. QED  BY <1>0, <2>3, <3>3, <3>5, <4>1 DEF last
    <3>. QED  BY <3>6, <3>7
  <2>8. CASE h.ok /\ h.major \in {Unsigned, Negative, Simple}
    <3>1. ItemOf(buf, h, g) = h /\ ItemOf(buf, h, f) = h
      BY <2>8 DEF ItemOf, Tag, Bytes, Txt, Array, Map, Unsigned, Negative, Simple
    <3>. QED  BY <2>2, <2>3, <3>1
  <2>9. h.major \in {Unsigned, Negative, Bytes, Txt, Array, Map, Tag, Simple}
    BY <2>4 DEF Unsigned, Negative, Bytes, Txt, Array, Map, Tag, Simple
  <2>. QED  BY <2>5, <2>6, <2>7, <2>8, <2>9
<1>. QED  BY <1>1, <1>2

\* The reader at every offset: its items are items of the buffer, each what
\* read_item makes of its head and the items behind it.
LEMMA ReadItemFacts ==
    ASSUME NEW buf \in Seq(Byte), IsWord(Len(buf))
    PROVE  /\ ReadItem(buf) \in Good(Len(buf))
           /\ \A o \in 0..Len(buf) : ReadItem(buf)[o] = ItemAt(buf, o, ReadItem(buf))
<1>. DEFINE N == Len(buf)
            From(k) == {q \in 0..N : q >= N + 1 - k}
            S == {k \in Nat : \E f \in Good(N) : \A q \in From(k) : f[q] = ItemAt(buf, q, f)}
<1>0. N \in Nat
  OBVIOUS
<1>1. 0 \in S
  <2>. DEFINE f == [p \in 0..N |-> BadItem]
  <2>1. BadItem \in Items(N) /\ ~BadItem.ok
    BY <1>0, BadItemFacts
  <2>2. f \in Good(N)
    BY <2>1 DEF Good
  <2>3. From(0) = {}
    BY <1>0
  <2>. HIDE DEF f, From
  <2>. QED  BY <2>2, <2>3
<1>2. ASSUME NEW k \in S PROVE k + 1 \in S
  <2>1. PICK f \in Good(N) : \A q \in From(k) : f[q] = ItemAt(buf, q, f)
    OBVIOUS
  <2>2. k \in Nat /\ k + 1 \in Nat
    OBVIOUS
  <2>3. CASE N - k < 0
    <3>1. From(k + 1) = From(k)
      BY <1>0, <2>2, <2>3
    <3>. HIDE DEF From
    <3>. QED  BY <2>1, <2>2, <3>1
  <2>4. CASE N - k >= 0
    <3>. DEFINE o == N - k
                g == [f EXCEPT ![o] = ItemAt(buf, o, f)]
    <3>1. o \in 0..N /\ (\A q \in From(k + 1) : q \in 0..N /\ (q = o \/ (q \in From(k) /\ q > o)))
      BY <1>0, <2>2, <2>4
    <3>. HIDE DEF o, From
    <3>2. /\ ItemAt(buf, o, f) \in Items(N)
          /\ ItemAt(buf, o, f).ok => ItemAt(buf, o, f).next > o
      BY <3>1, ItemAtFacts
    <3>3. f \in [0..N -> Items(N)] /\ \A p \in 0..N : f[p].ok => f[p].next > p
      BY DEF Good
    <3>4. /\ g \in [0..N -> Items(N)] /\ g[o] = ItemAt(buf, o, f)
          /\ \A p \in 0..N : p # o => g[p] = f[p]
      BY <3>1, <3>2, <3>3
    <3>. HIDE DEF g
    <3>5. g \in Good(N)
      BY <3>2, <3>3, <3>4 DEF Good
    <3>6. ASSUME NEW q \in From(k + 1) PROVE g[q] = ItemAt(buf, q, g)
      <4>1. q \in 0..N /\ o \in 0..N /\ (q = o \/ (q \in From(k) /\ q > o))
        BY <3>1
      <4>2. \A r \in q + 1..Len(buf) : r \in 0..N /\ r # o
        BY <1>0, <4>1
      <4>3. \A r \in q + 1..Len(buf) : g[r] = f[r]
        BY <3>4, <4>2
      <4>4. ItemAt(buf, q, g) = ItemAt(buf, q, f)
        BY <4>1, <4>3, ItemAtFacts
      <4>5. g[q] = ItemAt(buf, q, f)
        <5>1. CASE q = o
          BY <3>4, <5>1
        <5>2. CASE q \in From(k) /\ q > o
          <6>1. q # o
            BY <4>1, <5>2
          <6>. QED  BY <2>1, <3>4, <4>1, <5>2, <6>1
        <5>. QED  BY <4>1, <5>1, <5>2
      <4>. QED  BY <4>4, <4>5
    <3>. QED  BY <2>2, <3>5, <3>6
  <2>. QED  BY <1>0, <2>2, <2>3, <2>4
<1>3. N + 1 \in S
  <2>1. S \in SUBSET Nat
    OBVIOUS
  <2>. HIDE DEF S
  <2>. QED  BY <1>0, <1>1, <1>2, <2>1, Induction
<1>4. PICK g \in Good(N) : \A q \in 0..N : g[q] = ItemAt(buf, q, g)
  <2>1. From(N + 1) = 0..N
    BY <1>0
  <2>. HIDE DEF From
  <2>. QED  BY <1>3, <2>1
<1>5. g = [q \in 0..N |-> ItemAt(buf, q, g)]
  BY <1>4 DEF Good
<1>. DEFINE r == CHOOSE item : item = [q \in 0..N |-> ItemAt(buf, q, item)]
<1>6. ReadItem(buf) = r
  BY DEF ReadItem, ItemAt
<1>7. r = [q \in 0..N |-> ItemAt(buf, q, r)]
  BY <1>5
<1>. HIDE DEF r
<1>. DEFINE T == {k \in Nat : \A q \in From(k) : r[q] = g[q]}
<1>8. 0 \in T
  BY <1>0
<1>9. ASSUME NEW k \in T PROVE k + 1 \in T
  <2>1. k \in Nat /\ k + 1 \in Nat /\ \A q \in From(k) : r[q] = g[q]
    OBVIOUS
  <2>2. ASSUME NEW q \in From(k + 1) PROVE r[q] = g[q]
    <3>1. q \in 0..N /\ \A p \in q + 1..Len(buf) : p \in From(k)
      BY <1>0, <2>1
    <3>. HIDE DEF From
    <3>2. ItemAt(buf, q, r) = ItemAt(buf, q, g)
      BY <2>1, <3>1, ItemAtFacts
    <3>. QED  BY <1>4, <1>7, <3>1, <3>2
  <2>. QED  BY <2>1, <2>2
<1>10. N + 1 \in T
  <2>1. T \in SUBSET Nat
    OBVIOUS
  <2>. HIDE DEF T
  <2>. QED  BY <1>0, <1>8, <1>9, <2>1, Induction
<1>11. \A q \in 0..N : r[q] = g[q]
  <2>1. From(N + 1) = 0..N
    BY <1>0
  <2>. HIDE DEF From
  <2>. QED  BY <1>10, <2>1
<1>12. r = g
  <2>1. g = [q \in 0..N |-> g[q]] /\ r = [q \in 0..N |-> r[q]]
    BY <1>7 DEF Good
  <2>. QED  BY <1>11, <2>1
<1>. QED  BY <1>4, <1>6, <1>12

-----------------------------------------------------------------------------
(***************************************************************************)
(* The scan with one counter                                               *)
(***************************************************************************)

\* The offset and the items to come, -1 after an error; and where those end
ScanStates(N) == {<<p, c>> : p \in 0..N, c \in Nat} \cup {<<N, -1>>}
Rest(item, st) == IF st[2] = -1 THEN -1 ELSE After(item, st[1], st[2])

\* How the reader skips an item, by its head.
LEMMA SkipByHead ==
    ASSUME NEW buf \in Seq(Byte), IsWord(Len(buf)), NEW p \in 0..Len(buf), NEW h,
           h = ReadTypeValue(buf, p), NEW item, item = ReadItem(buf)
    PROVE  /\ ~h.ok \/ h.major = Tag => Skip(item, p) = -1
           /\ h.ok /\ h.major \in {Bytes, Txt}
                => Skip(item, p) = IF AtMost(h.value, Digits(Len(buf) - h.next))
                                   THEN h.next + Number(h.value) ELSE -1
           /\ h.ok /\ h.major \in {Array, Map}
                => Skip(item, p) = IF AtMost(h.value, <<32>>)
                                   THEN After(item, h.next, Children(h.major, Number(h.value)))
                                   ELSE -1
           /\ h.ok /\ h.major \in {Unsigned, Negative, Simple} => Skip(item, p) = h.next
<1>. DEFINE N == Len(buf)
<1>0. N \in Nat /\ ~BadItem.ok
  <2>1. N \in Nat
    OBVIOUS
  <2>. QED  BY <2>1, BadItemFacts
<1>1. item[p] = ItemAt(buf, p, item) /\ item \in Good(N)
  BY ReadItemFacts
<1>2. /\ h \in Items(N)
      /\ p < Len(buf) /\ buf[p + 1] \in {False, True}
           => h.ok /\ h.major = Simple /\ h.next = p + 1
  BY HeadFacts
<1>3. h.ok \in BOOLEAN /\ h.next \in 0..N /\ h.value \in Seq(Byte)
  BY <1>2 DEF Items
<1>4. p # -1
  OBVIOUS
<1>5. CASE p < Len(buf) /\ buf[p + 1] \in {False, True}
  <2>1. h.ok /\ h.major = Simple /\ h.next = p + 1
    BY <1>2, <1>5
  <2>2. p \in 0..N - 1
    BY <1>0, <1>5
  <2>3. Boolean(buf[p + 1], p).ok = TRUE /\ Boolean(buf[p + 1], p).next = p + 1
    BY <1>0, <2>2, BooleanFacts
  <2>4. item[p] = Boolean(buf[p + 1], p)
    BY <1>1, <1>5 DEF ItemAt
  <2>5. Skip(item, p) = p + 1
    BY <1>4, <2>3, <2>4 DEF Skip
  <2>. QED  BY <2>1, <2>5 DEF Tag, Bytes, Txt, Array, Map, Simple
<1>6. CASE ~(p < Len(buf) /\ buf[p + 1] \in {False, True})
  <2>0. item[p] = ItemOf(buf, h, item)
    BY <1>1, <1>6 DEF ItemAt
  <2>1. ASSUME ~h.ok \/ h.major = Tag PROVE Skip(item, p) = -1
    <3>1. item[p] = BadItem
      BY <2>0, <2>1 DEF ItemOf, Tag, Bytes, Txt, Array, Map
    <3>. QED  BY <1>0, <3>1 DEF Skip
  <2>2. ASSUME h.ok /\ h.major \in {Bytes, Txt}
        PROVE  Skip(item, p) = IF AtMost(h.value, Digits(Len(buf) - h.next))
                               THEN h.next + Number(h.value) ELSE -1
    <3>1. item[p] = String(buf, h)
      BY <2>0, <2>2 DEF ItemOf, Tag, Bytes, Txt, Array, Map
    <3>2. CASE AtMost(h.value, Digits(Len(buf) - h.next))
      <4>1. String(buf, h).ok = h.ok /\ String(buf, h).next = h.next + Number(h.value)
        BY <1>2, <3>2, StringFacts
      <4>. QED  BY <1>4, <2>2, <3>1, <3>2, <4>1 DEF Skip
    <3>3. CASE ~AtMost(h.value, Digits(Len(buf) - h.next))
      <4>1. String(buf, h) = BadItem
        BY <3>3 DEF String
      <4>. QED  BY <1>0, <3>1, <3>3, <4>1 DEF Skip
    <3>. QED  BY <3>2, <3>3
  <2>3. ASSUME h.ok /\ h.major \in {Array, Map}
        PROVE  Skip(item, p) = IF AtMost(h.value, <<32>>)
                               THEN After(item, h.next, Children(h.major, Number(h.value)))
                               ELSE -1
    <3>. DEFINE last == After(item, h.next, Children(h.major, Number(h.value)))
    <3>1. item[p] = Collection(h, last)
      BY <2>0, <2>3 DEF ItemOf, Tag, Bytes, Txt, Array, Map, EndOf, After
    <3>. HIDE DEF last
    <3>2. CASE AtMost(h.value, <<32>>) /\ last # -1
      <4>1. item[p] = [h EXCEPT !.next = last]
        BY <3>1, <3>2 DEF Collection
      <4>2. item[p].ok = h.ok /\ item[p].next = last
        BY <1>2, <4>1 DEF Items
      <4>3. Skip(item, p) = last
        BY <1>4, <2>3, <4>2 DEF Skip
      <4>. QED  BY <3>2, <4>3 DEF last
    <3>3. CASE ~(AtMost(h.value, <<32>>) /\ last # -1)
      <4>1. item[p] = BadItem
        BY <3>1, <3>3 DEF Collection
      <4>2. Skip(item, p) = -1
        BY <1>0, <4>1 DEF Skip
      <4>. QED  BY <3>3, <4>2 DEF last
    <3>. QED  BY <3>2, <3>3
  <2>4. ASSUME h.ok /\ h.major \in {Unsigned, Negative, Simple} PROVE Skip(item, p) = h.next
    <3>1. item[p] = h
      BY <2>0, <2>4 DEF ItemOf, Tag, Bytes, Txt, Array, Map, Unsigned, Negative, Simple
    <3>. QED  BY <1>4, <2>4, <3>1 DEF Skip
  <2>. QED  BY <2>1, <2>2, <2>3, <2>4
<1>. QED  BY <1>5, <1>6

\* A step of the scan does not move the end it is looking for, and goes
\* forward while there are items to come.
LEMMA ScanStepFacts ==
    ASSUME NEW buf \in Seq(Byte), IsWord(Len(buf)), NEW item, item = ReadItem(buf),
           NEW st \in ScanStates(Len(buf))
    PROVE  LET t == Scanned(buf, st)
           IN  /\ t \in ScanStates(Len(buf)) /\ Rest(item, t) = Rest(item, st)
               /\ t[2] > 0 => st[2] > 0 /\ t[1] > st[1]
<1>. DEFINE N == Len(buf)
            t == Scanned(buf, st)
<1>0. N \in Nat
  OBVIOUS
<1>1. PICK p \in 0..N, c \in Nat \cup {-1} : st = <<p, c>> /\ (c = -1 => p = N)
  BY <1>0 DEF ScanStates
<1>2. st[1] = p /\ st[2] = c
  BY <1>1
<1>3. PICK h : h = ReadTypeValue(buf, p)
  OBVIOUS
<1>4. /\ h \in Items(N)
      /\ h.ok => p < N /\ h.next > p
  BY <1>3, HeadFacts
<1>5. h.ok \in BOOLEAN /\ h.next \in 0..N /\ h.value \in Seq(Byte) /\ h.major \in 0..7
  BY <1>4 DEF Items
<1>6. Number(h.value) \in Nat /\ Children(h.major, Number(h.value)) \in Nat
  BY <1>5, NumberFacts, ChildrenFacts
<1>7. t = ScanStep(buf, st, h)
  BY <1>2, <1>3 DEF Scanned
<1>8. CASE c = 0
  <2>1. t = st
    BY <1>2, <1>7, <1>8 DEF ScanStep
  <2>. QED  BY <1>2, <1>8, <2>1
<1>9. CASE c = -1
  <2>1. ~h.ok
    BY <1>0, <1>1, <1>4, <1>9
  <2>2. t = <<N, -1>>
    BY <1>2, <1>7, <1>9, <2>1 DEF ScanStep
  <2>3. st = t
    BY <1>1, <1>9, <2>2
  <2>. QED  BY <2>2, <2>3
<1>10. CASE c \in Nat /\ c # 0
  <2>1. Rest(item, st) = After(item, Skip(item, p), c - 1) /\ c - 1 \in Nat /\ c > 0
    <3>1. c = 1 + (c - 1) /\ c - 1 \in Nat /\ c # -1 /\ c > 0
      BY <1>10
    <3>2. After(item, p, 1 + (c - 1)) = After(item, After(item, p, 1), c - 1)
      BY <3>1, AfterBoth
    <3>3. After(item, p, 1) = Skip(item, p)
      BY AfterFacts
    <3>. QED  BY <1>2, <3>1, <3>2, <3>3 DEF Rest
  <2>2. ASSUME Skip(item, p) = -1, t = <<N, -1>>
        PROVE  /\ t \in ScanStates(N) /\ Rest(item, t) = Rest(item, st)
               /\ t[2] > 0 => st[2] > 0 /\ t[1] > st[1]
    <3>1. Rest(item, st) = -1
      BY <2>1, <2>2, AfterError
    <3>2. t \in ScanStates(N)
      BY <2>2 DEF ScanStates
    <3>3. t[2] = -1
      BY <2>2
    <3>. QED  BY <3>1, <3>2, <3>3 DEF Rest
  <2>3. ASSUME NEW e \in 0..N, NEW d \in Nat, e > p, t = <<e, (c - 1) + d>>,
               After(item, e, d) = Skip(item, p)
        PROVE  /\ t \in ScanStates(N) /\ Rest(item, t) = Rest(item, st)
               /\ t[2] > 0 => st[2] > 0 /\ t[1] > st[1]
    <3>1. t[1] = e /\ t[2] = (c - 1) + d /\ (c - 1) + d = d + (c - 1) /\ d + (c - 1) \in Nat
      BY <2>1, <2>3
    <3>2. t \in ScanStates(N)
      BY <2>3, <3>1 DEF ScanStates
    <3>3. After(item, e, d + (c - 1)) = After(item, After(item, e, d), c - 1)
      BY <2>1, AfterBoth
    <3>4. Rest(item, t) = Rest(item, st)
      <4>1. t[2] # -1
        BY <3>1
      <4>. QED  BY <2>1, <2>3, <3>1, <3>3, <4>1 DEF Rest
    <3>. QED  BY <1>2, <2>1, <2>3, <3>1, <3>2, <3>4
  <2>4. CASE ~h.ok \/ h.major = Tag
    <3>1. Skip(item, p) = -1
      BY <1>3, <2>4, SkipByHead
    <3>2. t = <<N, -1>>
      BY <1>2, <1>7, <1>10, <2>4
         DEF ScanStep, Tag, Bytes, Txt, Array, Map, Unsigned, Negative, Simple
    <3>. QED  BY <2>2, <3>1, <3>2
  <2>5. CASE h.ok /\ h.major \in {Bytes, Txt}
    <3>1. CASE AtMost(h.value, Digits(Len(buf) - h.next))
      <4>. DEFINE e == h.next + Number(h.value)
      <4>1. Skip(item, p) = e
        BY <1>3, <2>5, <3>1, SkipByHead
      <4>2. e \in h.next..N
        BY <1>4, <3>1, StringFacts
      <4>3. t = <<e, c - 1>>
        BY <1>2, <1>7, <1>10, <2>5, <3>1
           DEF ScanStep, Tag, Bytes, Txt, Array, Map, Unsigned, Negative, Simple
      <4>. HIDE DEF e
      <4>4. e \in 0..N /\ e > p /\ (c - 1) + 0 = c - 1
        BY <1>0, <1>4, <1>5, <2>1, <2>5, <4>2
      <4>5. After(item, e, 0) = e
        BY AfterFacts
      <4>6. t = <<e, (c - 1) + 0>>
        BY <4>3, <4>4
      <4>. QED  BY <2>3, <4>1, <4>4, <4>5, <4>6
    <3>2. CASE ~AtMost(h.value, Digits(Len(buf) - h.next))
      <4>1. Skip(item, p) = -1
        BY <1>3, <2>5, <3>2, SkipByHead
      <4>2. t = <<N, -1>>
        BY <1>2, <1>7, <1>10, <2>5, <3>2
           DEF ScanStep, Tag, Bytes, Txt, Array, Map, Unsigned, Negative, Simple
      <4>. QED  BY <2>2, <4>1, <4>2
    <3>. QED  BY <3>1, <3>2
  <2>6. CASE h.ok /\ h.major \in {Array, Map}
    <3>1. CASE AtMost(h.value, <<32>>)
      <4>. DEFINE d == Children(h.major, Number(h.value))
      <4>1. After(item, h.next, d) = Skip(item, p)
        BY <1>3, <2>6, <3>1, SkipByHead
      <4>2. t = <<h.next, c - 1 + (IF h.major = Map THEN 2 ELSE 1) * Number(h.value)>>
        BY <1>2, <1>7, <1>10, <2>6, <3>1
           DEF ScanStep, Tag, Bytes, Txt, Array, Map, Unsigned, Negative, Simple
      <4>3. (IF h.major = Map THEN 2 ELSE 1) * Number(h.value) = d
        BY <1>6 DEF Children
      <4>4. t = <<h.next, (c - 1) + d>> /\ d \in Nat
        BY <1>6, <4>2, <4>3
      <4>. HIDE DEF d
      <4>5. h.next > p
        BY <1>4, <2>6
      <4>. QED  BY <1>5, <2>3, <4>1, <4>4, <4>5
    <3>2. CASE ~AtMost(h.value, <<32>>)
      <4>1. Skip(item, p) = -1
        BY <1>3, <2>6, <3>2, SkipByHead
      <4>2. t = <<N, -1>>
        BY <1>2, <1>7, <1>10, <2>6, <3>2
           DEF ScanStep, Tag, Bytes, Txt, Array, Map, Unsigned, Negative, Simple
      <4>. QED  BY <2>2, <4>1, <4>2
    <3>. QED  BY <3>1, <3>2
  <2>7. CASE h.ok /\ h.major \in {Unsigned, Negative, Simple}
    <3>1. Skip(item, p) = h.next
      BY <1>3, <2>7, SkipByHead
    <3>2. t = <<h.next, c - 1>>
      BY <1>2, <1>7, <1>10, <2>7
         DEF ScanStep, Tag, Bytes, Txt, Array, Map, Unsigned, Negative, Simple
    <3>3. h.next \in 0..N /\ h.next > p /\ (c - 1) + 0 = c - 1
      BY <1>4, <1>5, <2>1, <2>7
    <3>4. After(item, h.next, 0) = h.next
      BY AfterFacts
    <3>5. t = <<h.next, (c - 1) + 0>>
      BY <3>2, <3>3
    <3>. QED  BY <2>3, <3>1, <3>3, <3>4, <3>5
  <2>8. h.major \in {Unsigned, Negative, Bytes, Txt, Array, Map, Tag, Simple}
    BY <1>5 DEF Unsigned, Negative, Bytes, Txt, Array, Map, Tag, Simple
  <2>. QED  BY <2>4, <2>5, <2>6, <2>7, <2>8
<1>. QED  BY <1>8, <1>9, <1>10

\* The function ScanEnd recurses with exists.
LEMMA ScanExists ==
    ASSUME NEW buf \in Seq(Byte), NEW o \in 0..Len(buf)
    PROVE  \E s : /\ s[0] = <<o, 1>>
                  /\ \A k \in 1..Len(buf) - o : s[k] = Scanned(buf, s[k - 1])
                  /\ ScanEnd(buf, o) = IF s[Len(buf) - o][2] = 0 THEN s[Len(buf) - o][1] ELSE -1
<1>. DEFINE Solves(s, m) == s = [k \in 0..m |-> IF k = 0 THEN <<o, 1>> ELSE Scanned(buf, s[k - 1])]
            S == {m \in Nat : \E s : Solves(s, m)}
            n == Len(buf) - o
<1>0. n \in Nat
  OBVIOUS
<1>1. S \in SUBSET Nat
  OBVIOUS
<1>2. 0 \in S
  <2>1. Solves([k \in 0..0 |-> <<o, 1>>], 0)
    OBVIOUS
  <2>. HIDE DEF Solves
  <2>. QED  BY <2>1
<1>3. ASSUME NEW m \in S PROVE m + 1 \in S
  <2>1. PICK s : Solves(s, m)
    OBVIOUS
  <2>2. m \in Nat
    OBVIOUS
  <2>. DEFINE more == [k \in 0..m + 1 |-> IF k <= m THEN s[k] ELSE Scanned(buf, s[m])]
  <2>3. ASSUME NEW k \in 0..m + 1
        PROVE  more[k] = IF k = 0 THEN <<o, 1>> ELSE Scanned(buf, more[k - 1])
    <3>1. CASE k = 0
      BY <2>1, <2>2, <3>1
    <3>2. CASE k \in 1..m
      <4>1. k \in 0..m /\ k <= m /\ k - 1 \in 0..m + 1 /\ k - 1 <= m /\ k # 0
        BY <2>2, <3>2
      <4>2. more[k] = s[k] /\ more[k - 1] = s[k - 1]
        BY <4>1
      <4>. QED  BY <2>1, <4>1, <4>2
    <3>3. CASE k = m + 1
      <4>1. ~(k <= m) /\ k # 0 /\ k - 1 = m /\ m \in 0..m + 1 /\ m <= m
        BY <2>2, <3>3
      <4>2. more[k] = Scanned(buf, s[m]) /\ more[k - 1] = s[m]
        BY <4>1
      <4>. QED  BY <4>1, <4>2
    <3>. QED  BY <2>2, <3>1, <3>2, <3>3
  <2>4. Solves(more, m + 1)
    BY <2>3
  <2>5. m + 1 \in Nat /\ \E t : Solves(t, m + 1)
    <3>. HIDE DEF more, Solves
    <3>. QED  BY <2>2, <2>4
  <2>. QED  BY <2>5
<1>4. n \in S
  <2>. HIDE DEF S
  <2>. QED  BY <1>0, <1>1, <1>2, <1>3, Induction
<1>. DEFINE f == CHOOSE s : Solves(s, n)
<1>5. ScanEnd(buf, o) = IF f[n][2] = 0 THEN f[n][1] ELSE -1
  BY DEF ScanEnd
<1>6. Solves(f, n)
  BY <1>4
<1>. HIDE DEF f
<1>7. f[0] = <<o, 1>>
  BY <1>0, <1>6
<1>8. ASSUME NEW k \in 1..n PROVE f[k] = Scanned(buf, f[k - 1])
  <2>1. k \in 0..n /\ k # 0
    OBVIOUS
  <2>. QED  BY <1>6, <2>1
<1>. QED  BY <1>5, <1>7, <1>8

\* The scan ends where the reader does.
LEMMA ScanEndIsSkip ==
    ASSUME NEW buf \in Seq(Byte), IsWord(Len(buf)), NEW o \in 0..Len(buf)
    PROVE  /\ ScanEnd(buf, o) = Skip(ReadItem(buf), o)
           /\ Skip(ReadItem(buf), o) \in {-1} \cup o + 1..Len(buf)
<1>. DEFINE N == Len(buf)
            item == ReadItem(buf)
            n == N - o
<1>0. N \in Nat /\ n \in Nat /\ item \in Good(N)
  <2>1. N \in Nat /\ n \in Nat
    OBVIOUS
  <2>. QED  BY <2>1, ReadItemFacts
<1>1. PICK s : /\ s[0] = <<o, 1>>
               /\ \A k \in 1..n : s[k] = Scanned(buf, s[k - 1])
               /\ ScanEnd(buf, o) = IF s[n][2] = 0 THEN s[n][1] ELSE -1
  BY ScanExists
<1>. HIDE DEF item
<1>2. ASSUME NEW p \in 0..N
      PROVE  /\ item[p].ok \in BOOLEAN
             /\ item[p].ok => item[p].next \in p + 1..N
             /\ Skip(item, p) = IF item[p].ok THEN item[p].next ELSE -1
  <2>1. item[p] \in Items(N) /\ (item[p].ok => item[p].next > p)
    BY <1>0 DEF Good
  <2>2. item[p].ok \in BOOLEAN /\ item[p].next \in 0..N
    BY <2>1 DEF Items
  <2>. QED  BY <1>0, <2>1, <2>2 DEF Skip
<1>. DEFINE E == Skip(item, o)
            S == {k \in Nat : k <= n => /\ s[k] \in ScanStates(N) /\ Rest(item, s[k]) = E
                                        /\ s[k][2] > 0 => s[k][1] >= o + k}
<1>3. 0 \in S
  <2>1. <<o, 1>> \in ScanStates(N)
    BY DEF ScanStates
  <2>2. Rest(item, <<o, 1>>) = E
    BY AfterFacts DEF Rest
  <2>3. <<o, 1>>[1] >= o + 0
    OBVIOUS
  <2>. HIDE DEF E
  <2>. QED  BY <1>1, <2>1, <2>2, <2>3
<1>4. ASSUME NEW k \in S PROVE k + 1 \in S
  <2>. SUFFICES ASSUME k + 1 <= n
                PROVE  /\ s[k + 1] \in ScanStates(N) /\ Rest(item, s[k + 1]) = E
                       /\ s[k + 1][2] > 0 => s[k + 1][1] >= o + (k + 1)
    OBVIOUS
  <2>1. k \in Nat /\ k <= n /\ k + 1 \in 1..n /\ (k + 1) - 1 = k
    BY <1>0
  <2>2. PICK st \in ScanStates(N) : /\ st = s[k] /\ Rest(item, st) = E
                                    /\ st[2] > 0 => st[1] >= o + k
    BY <2>1
  <2>3. PICK t : t = Scanned(buf, st)
    OBVIOUS
  <2>4. s[k + 1] = t
    BY <1>1, <2>1, <2>2, <2>3
  <2>5. /\ t \in ScanStates(N) /\ Rest(item, t) = Rest(item, st)
        /\ t[2] > 0 => st[2] > 0 /\ t[1] > st[1]
    BY <2>3, ScanStepFacts DEF item
  <2>6. t[1] \in Int /\ st[1] \in Int
    BY <1>0, <2>2, <2>5 DEF ScanStates
  <2>7. t[2] > 0 => t[1] >= o + (k + 1)
    BY <2>1, <2>2, <2>5, <2>6
  <2>. QED  BY <2>2, <2>4, <2>5, <2>7
<1>5. n \in S
  <2>1. S \in SUBSET Nat
    OBVIOUS
  <2>. HIDE DEF S
  <2>. QED  BY <1>0, <1>3, <1>4, <2>1, Induction
<1>6. /\ s[n] \in ScanStates(N) /\ Rest(item, s[n]) = E
      /\ s[n][2] > 0 => s[n][1] >= o + n
  BY <1>0, <1>5
<1>. HIDE DEF S, E
<1>7. PICK p \in 0..N, c \in Nat \cup {-1} : s[n] = <<p, c>>
  BY <1>0, <1>6 DEF ScanStates
<1>8. s[n][1] = p /\ s[n][2] = c
  BY <1>7
<1>9. CASE c = 0
  <2>1. Rest(item, s[n]) = p
    BY <1>8, <1>9, AfterFacts DEF Rest
  <2>2. ScanEnd(buf, o) = E
    BY <1>1, <1>6, <1>8, <1>9, <2>1
  <2>. QED  BY <1>2, <2>2 DEF E, item
<1>10. CASE c = -1
  <2>1. Rest(item, s[n]) = -1
    BY <1>8, <1>10 DEF Rest
  <2>2. ScanEnd(buf, o) = E
    BY <1>1, <1>6, <1>8, <1>10, <2>1
  <2>. QED  BY <1>2, <2>2 DEF E, item
<1>11. CASE c \in Nat /\ c # 0
  <2>1. p = N /\ c = 1 + (c - 1) /\ c - 1 \in Nat /\ c # -1
    BY <1>0, <1>6, <1>8, <1>11
  <2>2. Skip(item, p) = -1
    BY <1>0, <1>2, <2>1
  <2>3. After(item, p, 1 + (c - 1)) = After(item, After(item, p, 1), c - 1)
    BY <2>1, AfterBoth
  <2>4. After(item, p, 1) = -1
    BY <2>2, AfterFacts
  <2>5. After(item, -1, c - 1) = -1
    BY <2>1, AfterError
  <2>6. Rest(item, s[n]) = -1
    BY <1>8, <2>1, <2>3, <2>4, <2>5 DEF Rest
  <2>7. ScanEnd(buf, o) = E
    BY <1>1, <1>6, <1>8, <1>11, <2>6
  <2>. QED  BY <1>2, <2>7 DEF E, item
<1>. QED  BY <1>9, <1>10, <1>11

\* What item i at offset p, if it can be read, has to do with its head h
FromHead(buf, p, h, item, i) ==
    /\ h.ok /\ i.major = h.major /\ i.value \in Seq(Byte)
    /\ p < Len(buf) /\ i.next \in p + 1..Len(buf) /\ Skip(item, p) = i.next
    /\ h.major # Simple => i.value = h.value
    /\ h.major \in {Bytes, Txt} => i.payload = SubSeq(buf, h.next + 1, i.next)
    /\ h.major \in {Array, Map}
         => /\ AtMost(h.value, <<32>>)
            /\ i.next = After(item, h.next, Children(h.major, Number(h.value)))
    /\ i.bool # "none" <=> buf[p + 1] \in {False, True}
    /\ buf[p + 1] \in {False, True} => i.next = p + 1

LEMMA ItemByHead ==
    ASSUME NEW buf \in Seq(Byte), IsWord(Len(buf)), NEW p \in 0..Len(buf), NEW h,
           h = ReadTypeValue(buf, p), NEW item, item = ReadItem(buf), NEW i,
           i = item[p], i.ok
    PROVE  FromHead(buf, p, h, item, i)
<1>. USE DEF FromHead
<1>. DEFINE N == Len(buf)
<1>0. N \in Nat /\ ~BadItem.ok
  <2>1. N \in Nat
    OBVIOUS
  <2>. QED  BY <2>1, BadItemFacts
<1>1. item[p] = ItemAt(buf, p, item) /\ item \in Good(N)
  BY ReadItemFacts
<1>2. i \in Items(N) /\ i.next > p
  BY <1>1 DEF Good
<1>3. i.next \in 0..N /\ i.value \in Seq(Byte)
  BY <1>2 DEF Items
<1>4. p < N /\ i.next \in p + 1..N
  BY <1>0, <1>2, <1>3
<1>5. Skip(item, p) = i.next
  <2>1. p # -1
    OBVIOUS
  <2>. QED  BY <2>1 DEF Skip
<1>6. /\ h \in Items(N) /\ h.bool = "none"
      /\ p < Len(buf) /\ buf[p + 1] \in {False, True}
           => h.ok /\ h.major = Simple /\ h.next = p + 1
  BY HeadFacts
<1>7. h.ok \in BOOLEAN /\ h.next \in 0..N /\ h.value \in Seq(Byte) /\ h.major \in 0..7
  BY <1>6 DEF Items
<1>8. CASE buf[p + 1] \in {False, True}
  <2>1. h.ok /\ h.major = Simple
    BY <1>4, <1>6, <1>8
  <2>2. p \in 0..N - 1
    BY <1>0, <1>4
  <2>3. i = Boolean(buf[p + 1], p)
    BY <1>1, <1>4, <1>8 DEF ItemAt
  <2>4. i.next = p + 1 /\ i.major = Simple
    BY <1>0, <2>2, <2>3, BooleanFacts
  <2>5. i.bool # "none"
    <3>1. PICK b : b = buf[p + 1]
      OBVIOUS
    <3>2. Boolean(b, p).bool = IF b = True THEN "true" ELSE "false"
      BY <1>0, <2>2, BooleanFacts
    <3>. QED  BY <2>3, <3>1, <3>2
  <2>. QED  BY <1>3, <1>4, <1>5, <1>8, <2>1, <2>4, <2>5
            DEF Bytes, Txt, Array, Map, Simple
<1>9. CASE ~(buf[p + 1] \in {False, True})
  <2>0. i = ItemOf(buf, h, item)
    BY <1>1, <1>9 DEF ItemAt
  <2>1. ASSUME ~h.ok \/ h.major = Tag PROVE FALSE
    <3>1. i = BadItem
      BY <2>0, <2>1 DEF ItemOf, Tag, Bytes, Txt, Array, Map
    <3>. QED  BY <1>0, <3>1
  <2>2. CASE h.ok /\ h.major \in {Bytes, Txt}
    <3>1. i = String(buf, h)
      BY <2>0, <2>2 DEF ItemOf, Tag, Bytes, Txt, Array, Map
    <3>2. AtMost(h.value, Digits(Len(buf) - h.next))
      BY <1>0, <3>1 DEF String
    <3>3. /\ i.major = h.major /\ i.value = h.value /\ i.bool = h.bool
          /\ i.payload = SubSeq(buf, h.next + 1, i.next)
      <4>1. PICK s : s = String(buf, h)
        OBVIOUS
      <4>2. PICK e : e = h.next + Number(h.value)
        OBVIOUS
      <4>3. /\ s.major = h.major /\ s.value = h.value /\ s.bool = h.bool
            /\ s.next = e /\ s.payload = SubSeq(buf, h.next + 1, e)
        BY <1>6, <3>2, <4>1, <4>2, StringFacts
      <4>. QED  BY <3>1, <4>1, <4>3
    <3>. QED  BY <1>3, <1>4, <1>5, <1>6, <1>9, <2>2, <3>3
              DEF Bytes, Txt, Array, Map, Simple
  <2>3. CASE h.ok /\ h.major \in {Array, Map}
    <3>. DEFINE last == After(item, h.next, Children(h.major, Number(h.value)))
    <3>1. i = Collection(h, last)
      BY <2>0, <2>3 DEF ItemOf, Tag, Bytes, Txt, Array, Map, EndOf, After
    <3>. HIDE DEF last
    <3>2. AtMost(h.value, <<32>>) /\ i = [h EXCEPT !.next = last]
      BY <1>0, <3>1 DEF Collection
    <3>3. i.major = h.major /\ i.value = h.value /\ i.bool = h.bool /\ i.next = last
      BY <1>6, <3>2 DEF Items
    <3>. QED  BY <1>3, <1>4, <1>5, <1>6, <1>9, <2>3, <3>2, <3>3
              DEF Bytes, Txt, Array, Map, Simple, last
  <2>4. CASE h.ok /\ h.major \in {Unsigned, Negative, Simple}
    <3>1. i = h
      BY <2>0, <2>4 DEF ItemOf, Tag, Bytes, Txt, Array, Map, Unsigned, Negative, Simple
    <3>. QED  BY <1>3, <1>4, <1>5, <1>6, <1>9, <2>4, <3>1
              DEF Bytes, Txt, Array, Map, Unsigned, Negative, Simple
  <2>5. h.major \in {Unsigned, Negative, Bytes, Txt, Array, Map, Tag, Simple}
    BY <1>7 DEF Unsigned, Negative, Bytes, Txt, Array, Map, Tag, Simple
  <2>. QED  BY <2>1, <2>2, <2>3, <2>4, <2>5
<1>. QED  BY <1>8, <1>9

\* A map that ends with the buffer: every key and every value in it can be read.
LEMMA MapFacts ==
    ASSUME NEW buf \in Seq(Byte), IsWord(Len(buf)), buf # <<>>, IsEmptyOrMap(buf),
           NEW h, h = ReadTypeValue(buf, 0), NEW item, item = ReadItem(buf),
           NEW n, n = Number(h.value), NEW at, at = Successive(item, h.next, 2 * n)
    PROVE  /\ h.ok /\ h.major = Map /\ AtMost(h.value, <<32>>)
           /\ n \in Nat /\ DOMAIN at = 0..2 * n
           /\ at[0] = h.next /\ at[2 * n] = Len(buf)
           /\ \A i \in 0..2 * n : at[i] \in 0..Len(buf)
           /\ \A i \in 1..2 * n : at[i] = Skip(item, at[i - 1]) /\ item[at[i - 1]].ok
<1>. DEFINE N == Len(buf)
<1>0. N \in Nat /\ 0 \in 0..Len(buf)
  OBVIOUS
<1>1. item[0].ok /\ item[0].major = Map /\ item[0].next = N
  BY DEF IsEmptyOrMap
<1>2. /\ h.ok /\ h.major = Map /\ AtMost(h.value, <<32>>)
      /\ N = After(item, h.next, Children(h.major, Number(h.value)))
  <2>1. h.ok /\ item[0].major = h.major
    BY <1>0, <1>1, ItemByHead DEF FromHead
  <2>2. h.major \in {Array, Map}
    BY <1>1, <2>1
  <2>3. /\ AtMost(h.value, <<32>>)
        /\ item[0].next = After(item, h.next, Children(h.major, Number(h.value)))
    BY <1>0, <1>1, <2>2, ItemByHead DEF FromHead
  <2>. QED  BY <1>1, <2>1, <2>3
<1>3. h \in Items(N)
  BY <1>0, HeadFacts
<1>4. h.value \in Seq(Byte) /\ h.next \in 0..N
  BY <1>3 DEF Items
<1>5. n \in Nat /\ 2 * n \in Nat
  <2>1. n \in Nat
    BY <1>4, NumberFacts
  <2>. QED  BY <2>1
<1>6. N = After(item, h.next, 2 * n)
  BY <1>2 DEF Children
<1>7. /\ DOMAIN at = 0..2 * n /\ at[0] = h.next
      /\ \A i \in 1..2 * n : at[i] = Skip(item, at[i - 1])
  <2>1. PICK m \in Nat : m = 2 * n
    BY <1>5
  <2>2. PICK from : from = h.next
    OBVIOUS
  <2>3. at = Successive(item, from, m)
    BY <2>1, <2>2
  <2>4. /\ DOMAIN at = 0..m /\ at[0] = from
        /\ \A i \in 1..m : at[i] = Skip(item, at[i - 1])
    BY <2>3, SuccessiveFacts
  <2>. QED  BY <2>1, <2>2, <2>4
<1>8. \A i \in 0..2 * n : at[i] = After(item, h.next, i)
  BY <1>5, SuccessiveIsAfter
<1>9. ASSUME NEW i \in 0..2 * n PROVE at[i] \in 0..N
  <2>1. i \in Nat /\ 2 * n - i \in Nat /\ i + (2 * n - i) = 2 * n
    BY <1>5
  <2>2. item \in Good(N)
    BY ReadItemFacts
  <2>3. After(item, h.next, i) \in {-1} \cup h.next..N
    BY <1>0, <1>4, <2>1, <2>2, AfterGood
  <2>4. After(item, h.next, i + (2 * n - i)) = After(item, After(item, h.next, i), 2 * n - i)
    BY <2>1, AfterBoth
  <2>5. After(item, -1, 2 * n - i) = -1
    BY <2>1, AfterError
  <2>6. After(item, h.next, i) # -1
    BY <1>0, <1>6, <2>1, <2>4, <2>5
  <2>. QED  BY <1>4, <1>8, <2>3, <2>6
<1>10. ASSUME NEW i \in 1..2 * n PROVE item[at[i - 1]].ok
  <2>1. i \in 0..2 * n
    BY <1>5
  <2>2. at[i] # -1
    BY <1>9, <2>1
  <2>. QED  BY <1>7, <2>2 DEF Skip
<1>11. at[2 * n] = N
  BY <1>5, <1>6, <1>8
<1>. QED  BY <1>2, <1>5, <1>7, <1>9, <1>10, <1>11

\* The offsets as the scan finds them are those the reader goes through.
LEMMA OffsetsAgree ==
    ASSUME NEW buf \in Seq(Byte), IsWord(Len(buf)), buf # <<>>, IsEmptyOrMap(buf),
           NEW h, h = ReadTypeValue(buf, 0), NEW n, n = Number(h.value),
           NEW at, at = Successive(ReadItem(buf), h.next, 2 * n)
    PROVE  Offsets(buf, h.next, 2 * n) = at
<1>. DEFINE Solves(to) == to = [i \in 0..2 * n |-> IF i = 0 THEN h.next
                                                  ELSE ScanEnd(buf, to[i - 1])]
            f == CHOOSE to : Solves(to)
<1>1. PICK item : item = ReadItem(buf)
  OBVIOUS
<1>2. n \in Nat /\ DOMAIN at = 0..2 * n /\ at[0] = h.next
  BY <1>1, MapFacts
<1>3. \A i \in 0..2 * n : at[i] \in 0..Len(buf)
  BY <1>1, MapFacts
<1>4. \A i \in 1..2 * n : at[i] = Skip(item, at[i - 1])
  BY <1>1, MapFacts
<1>5. ASSUME NEW i \in 1..2 * n PROVE at[i] = ScanEnd(buf, at[i - 1])
  <2>1. i - 1 \in 0..2 * n
    BY <1>2
  <2>2. at[i - 1] \in 0..Len(buf)
    BY <1>3, <2>1
  <2>. QED  BY <1>1, <1>4, <2>2, ScanEndIsSkip
<1>6. at = [i \in 0..2 * n |-> at[i]]
  <2>1. PICK m \in Nat : m = 2 * n
    BY <1>2
  <2>2. at = Successive(item, h.next, m) /\ DOMAIN at = 0..m
    BY <1>1, <1>2, <2>1
  <2>3. \E g : g = [i \in 0..m |-> IF i = 0 THEN h.next ELSE Skip(item, g[i - 1])]
    <3>1. \A i \in 0..m : i # 0 => i \in 1..2 * n
      BY <2>1
    <3>. DEFINE g == [i \in 0..m |-> at[i]]
    <3>2. ASSUME NEW i \in 0..m PROVE g[i] = IF i = 0 THEN h.next ELSE Skip(item, g[i - 1])
      <4>1. CASE i = 0
        BY <1>2, <4>1
      <4>2. CASE i # 0
        <5>1. i \in 1..2 * n /\ i - 1 \in 0..m
          BY <3>1, <4>2
        <5>. QED  BY <1>4, <4>2, <5>1
      <4>. QED  BY <4>1, <4>2
    <3>3. g = [i \in 0..m |-> IF i = 0 THEN h.next ELSE Skip(item, g[i - 1])]
      BY <3>2
    <3>. HIDE DEF g
    <3>. QED  BY <3>3
  <2>4. at = [i \in 0..m |-> IF i = 0 THEN h.next ELSE Skip(item, at[i - 1])]
    BY <2>2, <2>3 DEF Successive
  <2>. QED  BY <2>1, <2>4
<1>7. Solves(at)
  <2>1. ASSUME NEW i \in 0..2 * n
        PROVE  at[i] = IF i = 0 THEN h.next ELSE ScanEnd(buf, at[i - 1])
    <3>1. i = 0 \/ i \in 1..2 * n
      BY <1>2
    <3>2. CASE i = 0
      BY <1>2, <3>2
    <3>3. CASE i # 0
      BY <1>5, <3>1, <3>3
    <3>. QED  BY <3>2, <3>3
  <2>. QED  BY <1>6, <2>1
<1>8. Solves(f)
  <2>. HIDE DEF Solves
  <2>. QED  BY <1>7
<1>. HIDE DEF f
<1>. DEFINE S == {k \in Nat : k <= 2 * n => f[k] = at[k]}
<1>9. 0 \in S
  BY <1>2, <1>8
<1>10. ASSUME NEW k \in S PROVE k + 1 \in S
  <2>. SUFFICES ASSUME k + 1 <= 2 * n PROVE f[k + 1] = at[k + 1]
    OBVIOUS
  <2>1. /\ k + 1 \in 0..2 * n /\ k + 1 \in 1..2 * n /\ k + 1 # 0 /\ (k + 1) - 1 = k
        /\ k <= 2 * n
    BY <1>2
  <2>2. f[k] = at[k]
    BY <2>1
  <2>3. f[k + 1] = ScanEnd(buf, f[k])
    BY <1>8, <2>1
  <2>. QED  BY <1>5, <2>1, <2>2, <2>3
<1>11. \A k \in Nat : k \in S
  <2>1. S \in SUBSET Nat
    OBVIOUS
  <2>. HIDE DEF S
  <2>. QED  BY <1>9, <1>10, <2>1, Induction
<1>12. \A k \in 0..2 * n : f[k] = at[k]
  BY <1>2, <1>11
<1>13. f = [k \in 0..2 * n |-> f[k]]
  BY <1>8
<1>14. f = at
  <2>. HIDE DEF Solves
  <2>. QED  BY <1>6, <1>12, <1>13
<1>. QED  BY <1>14 DEF f, Offsets

Finds(buf, key, item, at, n, named) ==
    /\ named = {} => FindItem(buf, key).status = "NOT_AVAILABLE"
    /\ named # {} => /\ Min(named) \in 0..n - 1
                     /\ FindItem(buf, key).status = "OK"
                     /\ FindItem(buf, key).item = item[at[2 * Min(named) + 1]]

\* In a request the gate lets in, find_item returns the value of the first pair
\* with the key, and that there is none if there is none.
LEMMA FindItemFacts ==
    ASSUME NEW buf \in Seq(Byte), IsWord(Len(buf)), buf # <<>>, IsEmptyOrMap(buf),
           NEW h, h = ReadTypeValue(buf, 0), NEW item, item = ReadItem(buf),
           NEW n, n = Number(h.value), NEW at, at = Successive(item, h.next, 2 * n),
           NEW key, NEW named, named = WithKey(buf, at, n, key)
    PROVE  Finds(buf, key, item, at, n, named)
<1>. USE DEF Finds
<1>1. h.ok /\ h.major = Map /\ AtMost(h.value, <<32>>)
  BY MapFacts
<1>2. n \in Nat /\ at[2 * n] = Len(buf)
  BY MapFacts
<1>3. \A i \in 0..2 * n : at[i] \in 0..Len(buf)
  BY MapFacts
<1>4. \A i \in 1..2 * n : item[at[i - 1]].ok
  BY MapFacts
<1>5. Named(item, at, n, key) = named
  <2>1. ASSUME NEW i \in 0..n - 1
        PROVE  /\ at[2 * i + 2] # -1
               /\ (/\ item[at[2 * i]].major = Unsigned
                   /\ item[at[2 * i]].value = Digits(key))
                  <=> (/\ ReadTypeValue(buf, at[2 * i]).major = Unsigned
                       /\ ReadTypeValue(buf, at[2 * i]).value = Digits(key))
    <3>1. /\ 2 * i \in 0..2 * n /\ 2 * i + 2 \in 0..2 * n /\ 2 * i + 1 \in 1..2 * n
          /\ (2 * i + 1) - 1 = 2 * i
      BY <1>2
    <3>2. PICK p \in 0..Len(buf) : p = at[2 * i]
      BY <1>3, <3>1
    <3>3. item[p].ok /\ at[2 * i + 2] # -1
      BY <1>3, <1>4, <3>1, <3>2
    <3>4. PICK k : k = ReadTypeValue(buf, p)
      OBVIOUS
    <3>5. item[p].major = k.major /\ (k.major # Simple => item[p].value = k.value)
      <4>1. PICK m : m = item[p]
        OBVIOUS
      <4>2. FromHead(buf, p, k, item, m)
        BY <3>3, <3>4, <4>1, ItemByHead
      <4>. QED  BY <4>1, <4>2 DEF FromHead
    <3>. QED  BY <3>2, <3>3, <3>4, <3>5 DEF Unsigned, Simple
  <2>. QED  BY <2>1 DEF Named, WithKey
<1>6. FindItem(buf, key) = Scan(Len(buf), item, at, n, named)
  BY <1>1, <1>5 DEF FindItem, FindIn
<1>7. CASE named = {}
  BY <1>2, <1>6, <1>7 DEF Scan, Without
<1>8. CASE named # {}
  <2>1. FindItem(buf, key) = [status |-> "OK", item |-> item[at[2 * Min(named) + 1]]]
    BY <1>6, <1>8 DEF Scan, Chosen
  <2>2. named \in SUBSET Nat
    BY <1>2 DEF WithKey
  <2>3. Min(named) \in named
    BY <1>8, <2>2, MinIsMember
  <2>4. Min(named) \in 0..n - 1
    BY <2>3 DEF WithKey
  <2>5. /\ FindItem(buf, key).status = "OK"
        /\ FindItem(buf, key).item = item[at[2 * Min(named) + 1]]
    BY <2>1
  <2>. QED  BY <1>8, <2>4, <2>5
<1>. QED  BY <1>7, <1>8

LEMMA FitsUint32 ==
    ASSUME NEW d \in Seq(Byte)
    PROVE  AtMost(d, Uint32Max) <=> Len(d) <= 4
<1>1. Len(d) \in Nat /\ DOMAIN d = 1..Len(d) /\ \A i \in 1..Len(d) : d[i] \in Byte
  OBVIOUS
<1>2. Len(Uint32Max) = 4 /\ \A i \in 1..4 : Uint32Max[i] = 255
  BY DEF Uint32Max
<1>3. ASSUME NEW i \in 1..Len(d) PROVE ~(d[i] > 255)
  <2>1. d[i] \in Nat /\ d[i] <= 255
    BY <1>1, BytesAreNat
  <2>. QED  BY <2>1
<1>. QED  BY <1>1, <1>2, <1>3 DEF AtMost

\* A piece of the buffer is one of the two booleans exactly if it is a byte and
\* that one is.
LEMMA RawBoolean ==
    ASSUME NEW buf \in Seq(Byte), NEW p \in 0..Len(buf) - 1, NEW e \in p + 1..Len(buf),
           buf[p + 1] \in {False, True} => e = p + 1
    PROVE  SubSeq(buf, p + 1, e) \in {<<False>>, <<True>>} <=> buf[p + 1] \in {False, True}
<1>0. Len(buf) \in Nat
  OBVIOUS
<1>1. SubSeq(buf, p + 1, e)[1] = buf[p + 1]
  BY <1>0
<1>2. <<False>>[1] = False /\ <<True>>[1] = True
  OBVIOUS
<1>3. ASSUME e = p + 1 PROVE SubSeq(buf, p + 1, e) = <<buf[p + 1]>>
  <2>1. p + 1 \in 1..Len(buf) /\ buf[p + 1] \in Byte
    BY <1>0
  <2>2. /\ SubSeq(buf, p + 1, e) \in Seq(Byte) /\ Len(SubSeq(buf, p + 1, e)) = 1
        /\ <<buf[p + 1]>> \in Seq(Byte) /\ Len(<<buf[p + 1]>>) = 1
    BY <1>3, <2>1
  <2>3. \A j \in 1..1 : SubSeq(buf, p + 1, e)[j] = <<buf[p + 1]>>[j]
    <3>1. \A j \in 1..1 : j = 1
      OBVIOUS
    <3>2. <<buf[p + 1]>>[1] = buf[p + 1]
      OBVIOUS
    <3>. QED  BY <1>1, <3>1, <3>2
  <2>. QED  BY <2>2, <2>3, SeqEqual
<1>. QED  BY <1>1, <1>2, <1>3

\* What a handler gets for a key, against the heads of the pairs: named are
\* those with the key, v is the value of the first of them, and hv its head.
HandlerGets(buf, at, named, v, hv, r, type) ==
    /\ r.status = "NOT_AVAILABLE" <=> named = {}
    /\ named # {} /\ type \in {"bytes", "text"} =>
          /\ r.status = "OK" <=> hv.major = IF type = "bytes" THEN Bytes ELSE Txt
          /\ r.status = "OK" => r.value = SubSeq(buf, hv.next + 1, at[v + 1])
    /\ named # {} /\ type = "bool" =>
          (r.status = "OK" <=> SubSeq(buf, at[v] + 1, at[v + 1]) \in {<<False>>, <<True>>})
    /\ named # {} /\ type = "u32" =>
          /\ r.status = "OK" <=> hv.major = Unsigned /\ Len(hv.value) <= 4
          /\ r.status = "OK" => r.value = hv.value

LEMMA FindIsFirst ==
    ASSUME NEW buf \in Seq(Byte), IsWord(Len(buf)), buf # <<>>, IsEmptyOrMap(buf),
           NEW h, h = ReadTypeValue(buf, 0), NEW n, n = Number(h.value),
           NEW at, at = Successive(ReadItem(buf), h.next, 2 * n),
           NEW key, NEW type \in Types, NEW r, r = MapFind(buf, key, type),
           NEW named, named = WithKey(buf, at, n, key),
           NEW v, v = 2 * Min(named) + 1, NEW hv, hv = ReadTypeValue(buf, at[v])
    PROVE  HandlerGets(buf, at, named, v, hv, r, type)
<1>. USE DEF HandlerGets
<1>1. PICK item : item = ReadItem(buf)
  OBVIOUS
<1>2. PICK f : f = FindItem(buf, key)
  OBVIOUS
<1>a. at = Successive(item, h.next, 2 * n)
  BY <1>1
<1>3. r = As(type, f)
  BY <1>2 DEF MapFind
<1>4. CASE named = {}
  <2>1. f.status = "NOT_AVAILABLE"
    <3>1. Finds(buf, key, item, at, n, named)
      BY <1>1, <1>a, FindItemFacts
    <3>. QED  BY <1>2, <1>4, <3>1 DEF Finds
  <2>2. r.status = "NOT_AVAILABLE"
    BY <1>3, <2>1 DEF As
  <2>. QED  BY <1>4, <2>2
<1>5. CASE named # {}
  <2>1. PICK m : m = Min(named)
    OBVIOUS
  <2>2. m \in 0..n - 1 /\ f.status = "OK" /\ f.item = item[at[2 * m + 1]]
    <3>1. Finds(buf, key, item, at, n, named)
      BY <1>1, <1>a, FindItemFacts
    <3>. QED  BY <1>2, <1>5, <2>1, <3>1 DEF Finds
  <2>3. n \in Nat
    BY <1>1, MapFacts
  <2>4. /\ v = 2 * m + 1 /\ v \in 0..2 * n /\ v + 1 \in 1..2 * n /\ (v + 1) - 1 = v
    <3>1. v = 2 * m + 1
      BY <2>1
    <3>. QED  BY <2>2, <2>3, <3>1
  <2>5. PICK p \in 0..Len(buf) : p = at[v]
    <3>1. \A i \in 0..2 * n : at[i] \in 0..Len(buf)
      BY <1>1, MapFacts
    <3>. QED  BY <2>4, <3>1
  <2>6. PICK i : i = item[p]
    OBVIOUS
  <2>7. i.ok /\ at[v + 1] = Skip(item, p) /\ f.item = i
    <3>1. \A j \in 1..2 * n : at[j] = Skip(item, at[j - 1]) /\ item[at[j - 1]].ok
      BY <1>1, MapFacts
    <3>. QED  BY <2>2, <2>4, <2>5, <2>6, <3>1
  <2>8. hv = ReadTypeValue(buf, p)
    BY <2>5
  <2>9. PICK e : e = i.next
    OBVIOUS
  <2>10. /\ hv.ok /\ i.major = hv.major /\ i.value \in Seq(Byte)
         /\ p < Len(buf) /\ e \in p + 1..Len(buf) /\ Skip(item, p) = e
         /\ hv.major # Simple => i.value = hv.value
         /\ hv.major \in {Bytes, Txt} => i.payload = SubSeq(buf, hv.next + 1, e)
         /\ i.bool # "none" <=> buf[p + 1] \in {False, True}
         /\ buf[p + 1] \in {False, True} => e = p + 1
    <3>1. FromHead(buf, p, hv, item, i)
      BY <1>1, <2>6, <2>7, <2>8, ItemByHead
    <3>. QED  BY <2>9, <3>1 DEF FromHead
  <2>11. at[v + 1] = e
    BY <2>7, <2>10
  <2>12. r.status \in {"OK", "BAD_ENCODING"}
    BY <1>3, <2>2 DEF As
  <2>13. r.status = "OK" <=> Takes(type, i)
    BY <1>3, <2>2, <2>7 DEF As
  <2>14. r.status = "OK" => r.value = Taken(type, i)
    BY <1>3, <2>2, <2>7 DEF As
  <2>15. ASSUME type = "bytes"
         PROVE  /\ r.status = "OK" <=> hv.major = Bytes
                /\ r.status = "OK" => r.value = SubSeq(buf, hv.next + 1, e)
    <3>1. Takes(type, i) <=> i.major = Bytes
      BY <2>15 DEF Takes
    <3>2. Taken(type, i) = i.payload
      BY <2>15 DEF Taken
    <3>. QED  BY <2>10, <2>13, <2>14, <3>1, <3>2
  <2>16. ASSUME type = "text"
         PROVE  /\ r.status = "OK" <=> hv.major = Txt
                /\ r.status = "OK" => r.value = SubSeq(buf, hv.next + 1, e)
    <3>1. Takes(type, i) <=> i.major = Txt
      BY <2>16 DEF Takes
    <3>2. Taken(type, i) = i.payload
      BY <2>16 DEF Taken
    <3>. QED  BY <2>10, <2>13, <2>14, <3>1, <3>2
  <2>17. ASSUME type = "bool"
         PROVE  r.status = "OK" <=> SubSeq(buf, p + 1, e) \in {<<False>>, <<True>>}
    <3>1. Takes(type, i) <=> i.bool # "none"
      BY <2>17 DEF Takes
    <3>2. Len(buf) \in Nat /\ p \in 0..Len(buf) - 1
      <4>1. Len(buf) \in Nat /\ p < Len(buf)
        BY <2>10
      <4>. QED  BY <4>1
    <3>3. SubSeq(buf, p + 1, e) \in {<<False>>, <<True>>} <=> buf[p + 1] \in {False, True}
      BY <2>10, <3>2, RawBoolean
    <3>. QED  BY <2>10, <2>13, <3>1, <3>3
  <2>18. ASSUME type = "u32"
         PROVE  /\ r.status = "OK" <=> hv.major = Unsigned /\ Len(hv.value) <= 4
                /\ r.status = "OK" => r.value = hv.value
    <3>1. Takes(type, i) <=> i.major = Unsigned /\ AtMost(i.value, Uint32Max)
      BY <2>18 DEF Takes
    <3>2. Taken(type, i) = i.value
      BY <2>18 DEF Taken
    <3>3. AtMost(i.value, Uint32Max) <=> Len(i.value) <= 4
      BY <2>10, FitsUint32
    <3>4. hv.major = Unsigned => i.value = hv.value
      <4>1. Unsigned # Simple
        BY DEF Unsigned, Simple
      <4>. QED  BY <2>10, <4>1
    <3>. QED  BY <2>10, <2>13, <2>14, <3>1, <3>2, <3>3, <3>4
  <2>19. r.status # "NOT_AVAILABLE"
    BY <2>12
  <2>. QED  BY <1>5, <2>5, <2>11, <2>15, <2>16, <2>17, <2>18, <2>19
<1>. QED  BY <1>4, <1>5

-----------------------------------------------------------------------------
(***************************************************************************)
(* Numbers are read as they are written.                                   *)
(***************************************************************************)

LEMMA PaddedFacts ==
    ASSUME NEW d \in Seq(Byte), NEW n \in Nat, Len(d) <= n
    PROVE  /\ Padded(d, n) \in Seq(Byte) /\ Len(Padded(d, n)) = n
           /\ \A i \in 1..n : /\ Padded(d, n)[i] \in Byte
                              /\ i + Len(d) <= n => Padded(d, n)[i] = 0
                              /\ i + Len(d) > n => Padded(d, n)[i] = d[i + Len(d) - n]
           /\ Len(d) = n => Padded(d, n) = d
<1>. DEFINE p == Padded(d, n)
<1>0. Len(d) \in Nat /\ \A i \in 1..Len(d) : d[i] \in Byte
  OBVIOUS
<1>1. p = [i \in 1..n |-> IF i + Len(d) <= n THEN 0 ELSE d[i + Len(d) - n]]
  BY DEF Padded
<1>. HIDE DEF p
<1>2. ASSUME NEW i \in 1..n
      PROVE  /\ p[i] \in Byte
             /\ i + Len(d) <= n => p[i] = 0
             /\ i + Len(d) > n => p[i] = d[i + Len(d) - n]
  <2>1. p[i] = IF i + Len(d) <= n THEN 0 ELSE d[i + Len(d) - n]
    BY <1>1
  <2>2. i + Len(d) <= n \/ (~(i + Len(d) <= n) /\ i + Len(d) - n \in 1..Len(d))
    BY <1>0
  <2>3. 0 \in Byte
    BY DEF Byte
  <2>4. i + Len(d) > n <=> ~(i + Len(d) <= n)
    BY <1>0
  <2>. QED  BY <1>0, <2>1, <2>2, <2>3, <2>4
<1>3. p \in Seq(Byte) /\ Len(p) = n
  <2>1. p \in [1..n -> Byte]
    BY <1>1, <1>2
  <2>. QED  BY <2>1
<1>4. ASSUME Len(d) = n PROVE p = d
  <2>1. ASSUME NEW i \in 1..n PROVE p[i] = d[i]
    <3>1. i + Len(d) > n /\ i + Len(d) - n = i
      BY <1>4
    <3>. QED  BY <1>2, <3>1
  <2>. QED  BY <1>3, <1>4, <2>1, SeqEqual
<1>. QED  BY <1>2, <1>3, <1>4 DEF p

\* Stripping takes off what padding has put before a number.
LEMMA StripPadded ==
    ASSUME NEW n \in Nat, NEW d, IsNumber(d, n)
    PROVE  Strip(Padded(d, n)) = d
<1>. DEFINE p == Padded(d, n)
            L == Len(d)
<1>0. d \in Seq(Byte) /\ L \in Nat /\ L <= n /\ (d # <<>> => d[1] # 0)
  BY DEF IsNumber
<1>1. /\ p \in Seq(Byte) /\ Len(p) = n
      /\ \A i \in 1..n : i + L <= n => p[i] = 0
      /\ \A i \in 1..n : i + L > n => p[i] = d[i + L - n]
  BY <1>0, PaddedFacts
<1>2. \/ Strip(p) = <<>> /\ \A i \in 1..n : p[i] = 0
      \/ \E k \in 1..n : /\ p[k] # 0 /\ \A i \in 1..k - 1 : p[i] = 0
                         /\ Strip(p) = SubSeq(p, k, n)
  BY <1>1, StripFacts
<1>. HIDE DEF p
<1>3. CASE L = 0
  <2>1. d = <<>>
    BY <1>0, <1>3
  <2>2. \A i \in 1..n : p[i] = 0
    BY <1>1, <1>3
  <2>. QED  BY <1>2, <2>1, <2>2 DEF p
<1>4. CASE L # 0
  <2>1. PICK m \in 1..n : m = n - L + 1
    BY <1>0, <1>4
  <2>2. p[m] # 0
    <3>1. m + L > n /\ m + L - n = 1 /\ d # <<>>
      BY <1>0, <1>4, <2>1
    <3>. QED  BY <1>0, <1>1, <2>1, <3>1
  <2>3. \A i \in 1..m - 1 : p[i] = 0
    <3>1. \A i \in 1..m - 1 : i \in 1..n /\ i + L <= n
      BY <1>0, <2>1
    <3>. QED  BY <1>1, <3>1
  <2>4. PICK k \in 1..n : /\ p[k] # 0 /\ \A i \in 1..k - 1 : p[i] = 0
                          /\ Strip(p) = SubSeq(p, k, n)
    BY <1>2, <2>2
  <2>5. k = m
    <3>1. ~(k \in 1..m - 1) /\ ~(m \in 1..k - 1)
      BY <2>2, <2>3, <2>4
    <3>. QED  BY <3>1
  <2>6. SubSeq(p, m, n) \in Seq(Byte) /\ Len(SubSeq(p, m, n)) = L
    BY <1>0, <1>1, <2>1
  <2>7. ASSUME NEW i \in 1..L PROVE SubSeq(p, m, n)[i] = d[i]
    <3>1. SubSeq(p, m, n)[i] = p[m + i - 1]
      BY <1>0, <1>1, <2>1
    <3>2. PICK j : j = m + i - 1
      OBVIOUS
    <3>3. j \in 1..n /\ j + L > n /\ j + L - n = i
      BY <1>0, <2>1, <3>2
    <3>. QED  BY <1>1, <3>1, <3>2, <3>3
  <2>8. SubSeq(p, m, n) = d
    BY <1>0, <2>6, <2>7, SeqEqual
  <2>. QED  BY <2>4, <2>5, <2>8 DEF p
<1>. QED  BY <1>3, <1>4

\* The digits of a word, and the number they make.
LEMMA DigitsFacts ==
    ASSUME NEW n, IsWord(n)
    PROVE  IsNumber(Digits(n), 4) /\ Number(Digits(n)) = n
<1>. DEFINE q == Quad(n)
            d == Strip(q)
<1>1. /\ q \in Seq(Byte) /\ Len(q) = 4
      /\ n = 256 * (256 * (256 * q[1] + q[2]) + q[3]) + q[4]
  BY QuadFacts
<1>2. Digits(n) = d
  BY DEF Digits
<1>3. /\ d \in Seq(Byte) /\ Len(d) <= 4
      /\ \/ d = <<>> /\ \A i \in 1..4 : q[i] = 0
         \/ \E k \in 1..4 : /\ q[k] # 0 /\ \A i \in 1..k - 1 : q[i] = 0
                            /\ d = SubSeq(q, k, 4)
  BY <1>1, StripFacts
<1>. HIDE DEF q, d
<1>. DEFINE p == Padded(d, 4)
<1>4. Number(d) = 256 * (256 * (256 * p[1] + p[2]) + p[3]) + p[4]
  BY DEF Number
<1>5. /\ \A i \in 1..4 : i + Len(d) <= 4 => p[i] = 0
      /\ \A i \in 1..4 : i + Len(d) > 4 => p[i] = d[i + Len(d) - 4]
  BY <1>3, PaddedFacts
<1>. HIDE DEF p
<1>6. (\A i \in 1..4 : p[i] = q[i]) /\ (d # <<>> => d[1] # 0)
  <2>1. CASE d = <<>> /\ \A i \in 1..4 : q[i] = 0
    BY <1>5, <2>1
  <2>2. ASSUME NEW k \in 1..4, q[k] # 0, \A i \in 1..k - 1 : q[i] = 0, d = SubSeq(q, k, 4)
        PROVE  (\A i \in 1..4 : p[i] = q[i]) /\ d[1] # 0
    <3>1. Len(d) = 5 - k /\ \A i \in 1..5 - k : d[i] = q[k + i - 1]
      BY <1>1, <2>2
    <3>2. d[1] # 0
      BY <2>2, <3>1
    <3>3. ASSUME NEW i \in 1..4 PROVE p[i] = q[i]
      <4>1. CASE i < k
        <5>1. i + Len(d) <= 4 /\ i \in 1..k - 1
          BY <3>1, <4>1
        <5>. QED  BY <1>5, <2>2, <5>1
      <4>2. CASE i >= k
        <5>1. PICK j : j = i + Len(d) - 4
          OBVIOUS
        <5>2. i + Len(d) > 4 /\ j \in 1..5 - k /\ k + j - 1 = i
          BY <3>1, <4>2, <5>1
        <5>. QED  BY <1>5, <3>1, <5>1, <5>2
      <4>. QED  BY <4>1, <4>2
    <3>. QED  BY <3>2, <3>3
  <2>. QED  BY <1>3, <2>1, <2>2
<1>7. p[1] = q[1] /\ p[2] = q[2] /\ p[3] = q[3] /\ p[4] = q[4]
  BY <1>6
<1>8. Number(d) = n
  BY <1>1, <1>4, <1>7
<1>9. IsNumber(d, 4)
  BY <1>3, <1>6 DEF IsNumber
<1>. QED  BY <1>2, <1>8, <1>9

\* What put_type_value writes
Encoded(major, d) ==
    IF AtMost(d, <<23>>) THEN <<32 * major + Number(d)>>
    ELSE CASE Len(d) = 1 -> <<32 * major + 24>> \o d
           [] Len(d) = 2 -> <<32 * major + 25>> \o d
           [] Len(d) \in 3..4 -> <<32 * major + 26>> \o Padded(d, 4)
           [] Len(d) \in 5..8 -> <<32 * major + 27>> \o Padded(d, 8)

LEMMA SmallDigits ==
    ASSUME NEW d, IsNumber(d, 8), AtMost(d, << 23 >>)
    PROVE  Number(d) \in 0..23 /\ Digits(Number(d)) = d /\ Len(d) <= 1
<1>0. d \in Seq(Byte) /\ Len(d) \in Nat /\ (d # <<>> => d[1] # 0)
  BY DEF IsNumber
<1>1. <<23>>[1] = 23 /\ Len(<<23>>) = 1 /\ DOMAIN d = 1..Len(d)
  BY <1>0
<1>2. Len(d) = 0 \/ (Len(d) = 1 /\ ~(d[1] > 23))
  BY <1>0, <1>1 DEF AtMost
<1>3. CASE Len(d) = 0
  <2>1. d = <<>> /\ Number(d) = 0
    <3>1. d = <<>>
      BY <1>0, <1>3, EmptySeq
    <3>2. Number(d) = 0
      BY <1>0, <1>3, NumberFacts
    <3>. QED  BY <3>1, <3>2
  <2>2. Digits(0) = <<>>
    <3>1. Quad(0) \in Seq(Byte) /\ Len(Quad(0)) = 4 /\ \A i \in 1..4 : Quad(0)[i] = 0
      BY DEF Quad, Byte
    <3>. QED  BY <3>1, StripFacts DEF Digits
  <2>. QED  BY <1>3, <2>1, <2>2
<1>4. CASE Len(d) = 1 /\ ~(d[1] > 23)
  <2>1. d[1] \in Byte /\ d[1] # 0 /\ Number(d) = d[1]
    BY <1>0, <1>4, NumberFacts
  <2>2. PICK x \in 1..23 : x = d[1]
    <3>1. d[1] \in Nat
      BY <2>1, BytesAreNat
    <3>. QED  BY <1>4, <2>1, <3>1
  <2>3. IsWord(x)
    BY SmallWords
  <2>4. IsNumber(Digits(x), 4) /\ Number(Digits(x)) = x
    BY <2>3, DigitsFacts
  <2>. DEFINE q == Quad(x)
  <2>5. q \in Seq(Byte) /\ Len(q) = 4 /\ q[1] = 0 /\ q[2] = 0 /\ q[3] = 0 /\ q[4] = x
    <3>1. (x \div 256) = 0 /\ x % 256 = x /\ 0 \div 256 = 0 /\ 0 % 256 = 0
      OBVIOUS
    <3>2. q = <<0, 0, 0, x>>
      BY <3>1 DEF Quad
    <3>3. x \in Byte /\ 0 \in Byte
      BY DEF Byte
    <3>. QED  BY <3>2, <3>3
  <2>. HIDE DEF q
  <2>6. PICK k \in 1..4 : q[k] # 0 /\ Strip(q) = SubSeq(q, k, 4)
    <3>1. \/ Strip(q) = <<>> /\ \A i \in 1..4 : q[i] = 0
          \/ \E k \in 1..4 : q[k] # 0 /\ Strip(q) = SubSeq(q, k, 4)
      BY <2>5, StripFacts
    <3>. QED  BY <2>5, <3>1
  <2>7. k = 4
    BY <2>5, <2>6
  <2>8. /\ Strip(q) \in Seq(Byte) /\ Len(Strip(q)) = 1 /\ Strip(q)[1] = x
    BY <2>5, <2>6, <2>7
  <2>9. Strip(q) = d
    <3>1. \A i \in 1..1 : i = 1
      OBVIOUS
    <3>2. \A i \in 1..Len(Strip(q)) : Strip(q)[i] = d[i]
      BY <2>2, <2>8, <3>1
    <3>. QED  BY <1>0, <1>4, <2>8, <3>2, SeqEqual
  <2>. QED  BY <1>4, <2>1, <2>2, <2>9 DEF q, Digits
<1>. QED  BY <1>2, <1>3, <1>4

\* A head: a byte with the major type and how the n bytes of the value follow.
Form(major, d, s, a, n) ==
    /\ s \in Seq(Byte) /\ Len(s) = 1 + n /\ s[1] = 32 * major + a
    /\ n = 0 => Digits(a) = d
    /\ n # 0 => IsNumber(d, n) /\ \A i \in 1..n : s[1 + i] = Padded(d, n)[i]

LEMMA LongForm ==
    ASSUME NEW major \in 0..7, NEW a \in 24..27, NEW n \in {1, 2, 4, 8},
           NEW d, IsNumber(d, n)
    PROVE  Form(major, d, <<32 * major + a>> \o Padded(d, n), a, n)
<1>1. 32 * major + a \in Byte
  BY DEF Byte
<1>2. Padded(d, n) \in Seq(Byte) /\ Len(Padded(d, n)) = n
  BY PaddedFacts DEF IsNumber
<1>. DEFINE p == Padded(d, n)
            x == 32 * major + a
<1>. HIDE DEF p, x
<1>3. /\ <<x>> \o p \in Seq(Byte) /\ Len(<<x>> \o p) = 1 + n /\ (<<x>> \o p)[1] = x
      /\ \A i \in 1..n : (<<x>> \o p)[1 + i] = p[i]
  BY <1>1, <1>2 DEF p, x
<1>. QED  BY <1>3 DEF Form, p, x

LEMMA EncodedFacts ==
    ASSUME NEW major \in 0..7, NEW d, IsNumber(d, 8)
    PROVE  \E a \in 0..27, n \in {0, 1, 2, 4, 8} :
              /\ n = ArgLen(a) /\ Form(major, d, Encoded(major, d), a, n)
              /\ Len(d) <= 4 => n <= 4
              /\ AtMost(d, <<23>>) => n = 0
<1>0. d \in Seq(Byte) /\ Len(d) \in 0..8
  <2>1. d \in Seq(Byte) /\ Len(d) <= 8
    BY DEF IsNumber
  <2>2. PICK l \in Nat : l = Len(d)
    BY <2>1
  <2>3. l <= 8
    BY <2>1, <2>2
  <2>4. l \in 0..8
    BY <2>3
  <2>. QED  BY <2>1, <2>2, <2>4
<1>a. \A l \in 0..8 : /\ l \in 3..4 => l # 1 /\ l # 2 /\ ~(l \in 5..8) /\ l <= 4
                      /\ l \in 5..8 => l # 1 /\ l # 2 /\ ~(l \in 3..4) /\ ~(l <= 4)
  OBVIOUS
<1>1. /\ ArgLen(24) = 1 /\ ArgLen(25) = 2 /\ ArgLen(26) = 4 /\ ArgLen(27) = 8
      /\ \A x \in 0..23 : ArgLen(x) = 0
  BY DEF ArgLen
<1>4. /\ 24 \in 24..27 /\ 25 \in 24..27 /\ 26 \in 24..27 /\ 27 \in 24..27
      /\ 1 \in {1, 2, 4, 8} /\ 2 \in {1, 2, 4, 8} /\ 4 \in {1, 2, 4, 8} /\ 8 \in {1, 2, 4, 8}
  OBVIOUS
<1>2. CASE AtMost(d, <<23>>)
  <2>1. Number(d) \in 0..23 /\ Digits(Number(d)) = d
    BY <1>2, SmallDigits
  <2>2. PICK x \in 0..23 : x = Number(d)
    BY <2>1
  <2>3. Encoded(major, d) = <<32 * major + x>>
    BY <1>2, <2>2 DEF Encoded
  <2>4. 32 * major + x \in Byte
    BY DEF Byte
  <2>5. Form(major, d, <<32 * major + x>>, x, 0)
    BY <2>1, <2>2, <2>4 DEF Form
  <2>6. x \in 0..27 /\ 0 = ArgLen(x) /\ 0 <= 4
    BY <1>1
  <2>. QED  BY <2>3, <2>5, <2>6
<1>3. CASE ~AtMost(d, <<23>>)
  <2>0. Len(d) # 0
    BY <1>0, <1>3 DEF AtMost
  <2>1. ASSUME NEW n \in Nat, Len(d) <= n PROVE IsNumber(d, n)
    BY <2>1 DEF IsNumber
  <2>2. CASE Len(d) = 1
    <3>1. Padded(d, 1) = d
      BY <1>0, <2>2, PaddedFacts
    <3>2. Encoded(major, d) = <<32 * major + 24>> \o Padded(d, 1)
      BY <1>3, <2>2, <3>1 DEF Encoded
    <3>3. IsNumber(d, 1)
      BY <2>1, <2>2
    <3>4. Form(major, d, Encoded(major, d), 24, 1)
      BY <3>2, <3>3, <1>4, LongForm, Zenon
    <3>. QED  BY <1>1, <1>3, <3>4
  <2>3. CASE Len(d) = 2
    <3>1. Padded(d, 2) = d
      BY <1>0, <2>3, PaddedFacts
    <3>2. Encoded(major, d) = <<32 * major + 25>> \o Padded(d, 2)
      BY <1>3, <2>3, <3>1 DEF Encoded
    <3>3. IsNumber(d, 2)
      BY <2>1, <2>3
    <3>4. Form(major, d, Encoded(major, d), 25, 2)
      BY <3>2, <3>3, <1>4, LongForm, Zenon
    <3>. QED  BY <1>1, <1>3, <3>4
  <2>4. CASE Len(d) \in 3..4
    <3>1. Len(d) # 1 /\ Len(d) # 2 /\ ~(Len(d) \in 5..8) /\ Len(d) <= 4
      BY <1>0, <1>a, <2>4
    <3>2. Encoded(major, d) = <<32 * major + 26>> \o Padded(d, 4)
      BY <1>3, <2>4, <3>1 DEF Encoded
    <3>3. IsNumber(d, 4)
      BY <2>1, <3>1
    <3>4. Form(major, d, Encoded(major, d), 26, 4)
      BY <3>2, <3>3, <1>4, LongForm, Zenon
    <3>. QED  BY <1>1, <1>3, <3>4
  <2>5. CASE Len(d) \in 5..8
    <3>1. Len(d) # 1 /\ Len(d) # 2 /\ ~(Len(d) \in 3..4)
      BY <1>0, <1>a, <2>5
    <3>2. Encoded(major, d) = <<32 * major + 27>> \o Padded(d, 8)
      BY <1>3, <2>5, <3>1 DEF Encoded
    <3>4. Form(major, d, Encoded(major, d), 27, 8)
      BY <3>2, <1>4, LongForm, Zenon
    <3>5. ~(Len(d) <= 4)
      BY <1>0, <1>a, <2>5
    <3>. QED  BY <1>1, <1>3, <3>4, <3>5
  <2>. QED  BY <1>0, <2>0, <2>2, <2>3, <2>4, <2>5
<1>. QED  BY <1>2, <1>3

\* The buffer has c at offset o.
At(buf, o, c) == o + Len(c) <= Len(buf) /\ \A i \in 1..Len(c) : buf[o + i] = c[i]

\* A head is read as it is written.
IsHead(buf, o, major, d, h) ==
    /\ h.ok /\ h.major = major /\ h.value = d
    /\ h.next = o + Len(Encoded(major, d)) /\ h.next \in o + 1..Len(buf)

LEMMA HeadIsRead ==
    ASSUME NEW buf \in Seq(Byte), NEW o \in Nat, NEW major \in 0..7, NEW d, IsNumber(d, 8),
           At(buf, o, Encoded(major, d)), NEW h, h = ReadTypeValue(buf, o)
    PROVE  IsHead(buf, o, major, d, h)
<1>1. PICK s : s = Encoded(major, d)
  OBVIOUS
<1>2. PICK a \in 0..27, n \in {0, 1, 2, 4, 8} : n = ArgLen(a) /\ Form(major, d, s, a, n)
  BY <1>1, EncodedFacts
<1>3. /\ s \in Seq(Byte) /\ Len(s) = 1 + n /\ s[1] = 32 * major + a
      /\ n = 0 => Digits(a) = d
      /\ n # 0 => IsNumber(d, n) /\ \A i \in 1..n : s[1 + i] = Padded(d, n)[i]
  BY <1>2 DEF Form
<1>4. Len(buf) \in Nat /\ o + 1 + n <= Len(buf) /\ \A i \in 1..1 + n : buf[o + i] = s[i]
  <2>1. o + Len(s) <= Len(buf) /\ \A i \in 1..Len(s) : buf[o + i] = s[i]
    BY <1>1 DEF At
  <2>. QED  BY <1>3, <2>1
<1>5. PICK b : b = buf[o + 1]
  OBVIOUS
<1>6. b = 32 * major + a
  <2>1. 1 \in 1..1 + n
    OBVIOUS
  <2>. QED  BY <1>3, <1>4, <1>5, <2>1
<1>7. b % 32 = a /\ b \div 32 = major
  BY <1>6
<1>8. h = HeadAt(buf, o, n)
  <2>1. ~(o >= Len(buf))
    BY <1>4
  <2>. QED  BY <1>2, <1>5, <1>7, <2>1 DEF ReadTypeValue
<1>. DEFINE v == IF n = 0 THEN Digits(a) ELSE Strip(SubSeq(buf, o + 2, o + 1 + n))
<1>9. v = d
  <2>1. CASE n = 0
    BY <1>3, <2>1
  <2>2. CASE n # 0
    <3>. DEFINE t == SubSeq(buf, o + 2, o + 1 + n)
                p == Padded(d, n)
    <3>1. t \in Seq(Byte) /\ Len(t) = n
      BY <1>4, <2>2
    <3>2. p \in Seq(Byte) /\ Len(p) = n
      BY <1>3, <2>2, PaddedFacts DEF IsNumber
    <3>3. ASSUME NEW i \in 1..n PROVE t[i] = p[i]
      <4>1. t[i] = buf[o + 2 + i - 1]
        BY <1>4
      <4>2. o + 2 + i - 1 = o + (1 + i) /\ 1 + i \in 1..1 + n
        OBVIOUS
      <4>3. buf[o + (1 + i)] = s[1 + i]
        BY <1>4, <4>2
      <4>. QED  BY <1>3, <2>2, <4>1, <4>2, <4>3
    <3>. HIDE DEF t, p
    <3>4. t = p
      BY <3>1, <3>2, <3>3, SeqEqual
    <3>5. Strip(p) = d
      BY <1>3, <2>2, StripPadded DEF p
    <3>. QED  BY <2>2, <3>4, <3>5 DEF t
  <2>. QED  BY <2>1, <2>2
<1>10. h = [BadItem EXCEPT !.ok = TRUE, !.major = major, !.value = v, !.next = o + 1 + n]
  <2>1. ~(n = -1 \/ Len(buf) - (o + 1) < n)
    BY <1>4
  <2>. QED  BY <1>5, <1>7, <1>8, <2>1 DEF HeadAt
<1>. HIDE DEF v
<1>11. h.ok = TRUE /\ h.major = major /\ h.value = v /\ h.next = o + 1 + n
  BY <1>10 DEF BadItem
<1>12. o + 1 + n = o + Len(s) /\ o + 1 + n \in o + 1..Len(buf)
  BY <1>3, <1>4
<1>. QED  BY <1>1, <1>9, <1>11, <1>12 DEF IsHead

-----------------------------------------------------------------------------
(***************************************************************************)
(* The builder.  It holds w: that is what has been put into it, all of it  *)
(* or, if the buffer has no room for it, with an error.                    *)
(***************************************************************************)

Holds(b, cap, w) ==
    /\ b \in [cap : {cap}, bytes : Seq(Byte), ok : BOOLEAN]
    /\ b.ok <=> Len(w) <= cap
    /\ b.ok => b.bytes = w

LEMMA SmallerOf ==
    ASSUME NEW x \in Nat, NEW y \in Nat
    PROVE  Min({x, y}) \in Nat /\ Min({x, y}) <= x /\ (Min({x, y}) = x <=> x <= y)
<1>1. {x, y} \in SUBSET Nat /\ {x, y} # {}
  OBVIOUS
<1>2. Min({x, y}) \in {x, y} /\ \A z \in {x, y} : Min({x, y}) <= z
  BY <1>1, MinIsMember
<1>. QED  BY <1>2

LEMMA HoldsU8s ==
    ASSUME NEW cap \in Nat, NEW w \in Seq(Byte), NEW b, Holds(b, cap, w), NEW s \in Seq(Byte)
    PROVE  Holds(PutU8s(b, s), cap, w \o s) /\ w \o s \in Seq(Byte)
<1>. DEFINE n == IF b.ok THEN Min({Len(s), b.cap - Len(b.bytes)}) ELSE 0
            t == SubSeq(s, 1, n)
            r == PutU8s(b, s)
<1>0. /\ b \in [cap : {cap}, bytes : Seq(Byte), ok : BOOLEAN]
      /\ b.ok <=> Len(w) <= cap
      /\ b.ok => b.bytes = w
  BY DEF Holds
<1>1. /\ Len(w) \in Nat /\ Len(s) \in Nat /\ w \o s \in Seq(Byte)
      /\ Len(w \o s) = Len(w) + Len(s)
  OBVIOUS
<1>2. r = [b EXCEPT !.bytes = b.bytes \o t, !.ok = b.ok /\ n = Len(s)]
  BY DEF PutU8s
<1>3. n \in 0..Len(s) /\ ((b.ok /\ n = Len(s)) <=> Len(w) + Len(s) <= cap)
  <2>1. CASE b.ok
    <3>1. b.bytes = w /\ b.cap = cap /\ Len(w) <= cap
      BY <1>0, <2>1
    <3>2. PICK m \in Nat : m = cap - Len(w)
      <4>1. \A l \in Nat : l <= cap => cap - l \in Nat
        OBVIOUS
      <4>. QED  BY <1>1, <3>1, <4>1
    <3>3. n = Min({Len(s), m})
      BY <2>1, <3>1, <3>2
    <3>4. PICK k \in Nat : k = Len(s)
      BY <1>1
    <3>5. Min({k, m}) \in Nat /\ Min({k, m}) <= k /\ (Min({k, m}) = k <=> k <= m)
      BY SmallerOf
    <3>6. n \in Nat /\ n <= k /\ (n = k <=> k <= m)
      BY <3>3, <3>4, <3>5
    <3>. HIDE DEF n
    <3>7. k <= m <=> Len(w) + k <= cap
      BY <1>1, <3>2
    <3>8. n \in 0..k
      BY <3>6
    <3>. QED  BY <2>1, <3>4, <3>6, <3>7, <3>8
  <2>2. CASE ~b.ok
    <3>1. n = 0 /\ ~(Len(w) <= cap)
      BY <1>0, <2>2
    <3>2. ~(Len(w) + Len(s) <= cap)
      BY <1>1, <3>1
    <3>. HIDE DEF n
    <3>. QED  BY <1>1, <2>2, <3>1, <3>2
  <2>. QED  BY <1>0, <2>1, <2>2
<1>. HIDE DEF n, r
<1>4. t \in Seq(Byte) /\ (n = Len(s) => t = s)
  <2>1. t \in Seq(Byte) /\ Len(t) = n /\ \A i \in 1..n : t[i] = s[i]
    BY <1>1, <1>3
  <2>. HIDE DEF t
  <2>2. ASSUME n = Len(s) PROVE t = s
    BY <2>1, <2>2, SeqEqual
  <2>. QED  BY <2>1, <2>2
<1>. HIDE DEF t
<1>5. b.bytes \o t \in Seq(Byte)
  <2>1. b.bytes \in Seq(Byte)
    BY <1>0
  <2>. QED  BY <1>4, <2>1
<1>6. PICK u \in Seq(Byte) : u = b.bytes \o t
  BY <1>5
<1>7. PICK o \in BOOLEAN : o = (b.ok /\ n = Len(s))
  OBVIOUS
<1>8. r = [b EXCEPT !.bytes = u, !.ok = o]
  BY <1>2, <1>6, <1>7
<1>9. r \in [cap : {cap}, bytes : Seq(Byte), ok : BOOLEAN] /\ r.ok = o /\ r.bytes = u
  BY <1>0, <1>8
<1>10. o <=> Len(w \o s) <= cap
  BY <1>1, <1>3, <1>7
<1>11. o => u = w \o s
  BY <1>0, <1>4, <1>6, <1>7
<1>12. Holds(r, cap, w \o s)
  BY <1>9, <1>10, <1>11 DEF Holds
<1>. QED  BY <1>1, <1>12 DEF r

LEMMA HoldsRaw ==
    ASSUME NEW cap \in Nat, NEW w \in Seq(Byte), NEW b, Holds(b, cap, w), NEW s \in Seq(Byte)
    PROVE  Holds(PutRaw(b, s), cap, w \o s) /\ w \o s \in Seq(Byte)
<1>. DEFINE r == PutRaw(b, s)
<1>0. /\ b \in [cap : {cap}, bytes : Seq(Byte), ok : BOOLEAN]
      /\ b.ok <=> Len(w) <= cap
      /\ b.ok => b.bytes = w
  BY DEF Holds
<1>1. PICK u \in Seq(Byte) : u = w \o s /\ Len(u) = Len(w) + Len(s)
  <2>1. w \o s \in Seq(Byte) /\ Len(w \o s) = Len(w) + Len(s)
    OBVIOUS
  <2>. QED  BY <2>1
<1>2. Len(w) \in Nat /\ Len(s) \in Nat
  OBVIOUS
<1>3. CASE b.ok /\ Len(w) + Len(s) <= cap
  <2>1. Len(b.bytes) <= b.cap - Len(s)
    BY <1>0, <1>2, <1>3
  <2>2. r = [b EXCEPT !.bytes = u]
    BY <1>0, <1>1, <1>3, <2>1 DEF PutRaw
  <2>3. r \in [cap : {cap}, bytes : Seq(Byte), ok : BOOLEAN] /\ r.ok = b.ok /\ r.bytes = u
    BY <1>0, <2>2
  <2>. QED  BY <1>1, <1>3, <2>3 DEF Holds
<1>4. CASE ~(b.ok /\ Len(w) + Len(s) <= cap)
  <2>1. ~(b.ok /\ Len(b.bytes) <= b.cap - Len(s))
    BY <1>0, <1>2, <1>4
  <2>2. r = [b EXCEPT !.ok = FALSE]
    BY <2>1 DEF PutRaw
  <2>3. r \in [cap : {cap}, bytes : Seq(Byte), ok : BOOLEAN] /\ r.ok = FALSE
    BY <1>0, <2>2
  <2>4. ~(Len(w) + Len(s) <= cap)
    BY <1>0, <1>2, <1>4
  <2>. QED  BY <1>1, <2>3, <2>4 DEF Holds
<1>. QED  BY <1>3, <1>4

LEMMA HoldsTypeValue ==
    ASSUME NEW cap \in Nat, NEW w \in Seq(Byte), NEW b, Holds(b, cap, w),
           NEW major \in 0..7, NEW d, IsNumber(d, 8)
    PROVE  /\ Holds(PutTypeValue(b, major, d), cap, w \o Encoded(major, d))
           /\ w \o Encoded(major, d) \in Seq(Byte)
<1>1. PICK s : s = Encoded(major, d)
  OBVIOUS
<1>2. s \in Seq(Byte)
  BY <1>1, EncodedFacts DEF Form
<1>3. PutTypeValue(b, major, d) = PutU8s(b, s)
  BY <1>1 DEF PutTypeValue, Encoded
<1>. QED  BY <1>1, <1>2, <1>3, HoldsU8s

-----------------------------------------------------------------------------
(***************************************************************************)
(* The text of a map: its head, and pair after pair.                       *)
(***************************************************************************)

\* A key, the head of its value, and the bytes of a string
IsPair(x) ==
    /\ x.key \in 0..23 /\ x.major \in {Unsigned, Negative, Bytes}
    /\ IsNumber(x.value, 8) /\ x.raw \in Seq(Byte)
    /\ x.major = Bytes => x.value = Digits(Len(x.raw)) /\ IsWord(Len(x.raw))
    /\ x.major # Bytes => x.raw = <<>>

\* w with a pair put behind it
With(w, x) ==
    ((w \o Encoded(Unsigned, Digits(x.key))) \o Encoded(x.major, x.value)) \o x.raw

\* Pair x is at offsets o to e.
PairAt(w, o, e, x) ==
    /\ o \in Nat /\ At(w, o, Encoded(Unsigned, Digits(x.key)))
    /\ At(w, o + 1, Encoded(x.major, x.value))
    /\ At(w, o + 1 + Len(Encoded(x.major, x.value)), x.raw)
    /\ e = o + 1 + Len(Encoded(x.major, x.value)) + Len(x.raw)

\* A map for n pairs, with the first m of them
Laid(w, n, m, L, off) ==
    /\ w \in Seq(Byte) /\ At(w, 0, Encoded(Map, Digits(n)))
    /\ off[0] = 1 /\ off[m] = Len(w)
    /\ \A j \in 1..m : PairAt(w, off[j - 1], off[j], L[j])

LEMMA SmallAtMost ==
    ASSUME NEW c \in 0..255, NEW k \in 0..c
    PROVE  IsNumber(Digits(k), 4) /\ Number(Digits(k)) = k /\ AtMost(Digits(k), <<c>>)
<1>0. IsWord(k)
  BY SmallWords
<1>1. IsNumber(Digits(k), 4) /\ Number(Digits(k)) = k
  BY <1>0, DigitsFacts
<1>2. PICK d : d = Digits(k)
  OBVIOUS
<1>3. d \in Seq(Byte) /\ Len(d) <= 4 /\ (d # <<>> => d[1] # 0)
  BY <1>1, <1>2 DEF IsNumber
<1>4. PICK l \in Nat : l = Len(d)
  BY <1>3
<1>5. \A i \in 1..l : d[i] \in Nat
  BY <1>3, <1>4, BytesAreNat
<1>6. l = 0 \/ l = 1
  <2>. SUFFICES ASSUME l # 0, l # 1 PROVE FALSE
    OBVIOUS
  <2>1. l \in 2..4 /\ d # <<>>
    <3>1. l <= 4
      BY <1>3, <1>4
    <3>2. d # <<>>
      BY <1>4
    <3>. QED  BY <3>1, <3>2
  <2>2. d[1] \in Nat /\ d[1] >= 1
    <3>1. 1 \in 1..l
      BY <2>1
    <3>2. d[1] \in Nat /\ d[1] # 0
      BY <1>3, <1>5, <2>1, <3>1
    <3>. QED  BY <3>2
  <2>3. Number(d) = k
    BY <1>1, <1>2
  <2>4. CASE l = 2
    <3>1. k = 256 * d[1] + d[2]
      BY <1>3, <1>4, <2>3, <2>4, NumberFacts
    <3>2. d[2] \in Nat
      BY <1>5, <2>4
    <3>. QED  BY <2>2, <3>1, <3>2
  <2>5. CASE l = 3
    <3>1. k = 256 * (256 * d[1] + d[2]) + d[3]
      BY <1>3, <1>4, <2>3, <2>5, NumberFacts
    <3>2. d[2] \in Nat /\ d[3] \in Nat
      BY <1>5, <2>5
    <3>. QED  BY <2>2, <3>1, <3>2
  <2>6. CASE l = 4
    <3>1. k = 256 * (256 * (256 * d[1] + d[2]) + d[3]) + d[4]
      BY <1>3, <1>4, <2>3, <2>6, NumberFacts
    <3>2. d[2] \in Nat /\ d[3] \in Nat /\ d[4] \in Nat
      BY <1>5, <2>6
    <3>. QED  BY <2>2, <3>1, <3>2
  <2>. QED  BY <2>1, <2>4, <2>5, <2>6
<1>7. Len(<<c>>) = 1 /\ <<c>>[1] = c /\ DOMAIN d = 1..Len(d)
  BY <1>3
<1>8. CASE l = 0
  <2>1. Len(d) < Len(<<c>>)
    BY <1>4, <1>7, <1>8
  <2>. QED  BY <1>1, <1>2, <2>1 DEF AtMost
<1>9. CASE l = 1
  <2>1. d[1] = k
    BY <1>1, <1>2, <1>3, <1>4, <1>9, NumberFacts
  <2>2. ~(d[1] > <<c>>[1])
    BY <1>7, <2>1
  <2>3. \A i \in DOMAIN d : i = 1
    BY <1>4, <1>7, <1>9
  <2>4. Len(d) = Len(<<c>>)
    BY <1>4, <1>7, <1>9
  <2>. QED  BY <1>1, <1>2, <2>2, <2>3, <2>4 DEF AtMost
<1>. QED  BY <1>6, <1>8, <1>9

\* A key, or a number of pairs, is one byte.
LEMMA OneByte ==
    ASSUME NEW k \in 0..23, NEW major \in 0..7
    PROVE  /\ IsNumber(Digits(k), 8) /\ Number(Digits(k)) = k
           /\ Encoded(major, Digits(k)) \in Seq(Byte) /\ Len(Encoded(major, Digits(k))) = 1
<1>1. IsNumber(Digits(k), 4) /\ Number(Digits(k)) = k /\ AtMost(Digits(k), <<23>>)
  <2>1. 23 \in 0..255
    OBVIOUS
  <2>. QED  BY <2>1, SmallAtMost
<1>2. IsNumber(Digits(k), 8)
  BY <1>1 DEF IsNumber
<1>3. PICK n : n = 0 /\ \E a : Form(major, Digits(k), Encoded(major, Digits(k)), a, n)
  BY <1>1, <1>2, EncodedFacts
<1>. QED  BY <1>1, <1>2, <1>3 DEF Form

LEMMA EncodedSize ==
    ASSUME NEW major \in 0..7, NEW d, IsNumber(d, 8)
    PROVE  /\ Encoded(major, d) \in Seq(Byte) /\ Len(Encoded(major, d)) \in 1..9
           /\ Len(d) <= 4 => Len(Encoded(major, d)) <= 5
<1>1. PICK a \in 0..27, n \in {0, 1, 2, 4, 8} :
         Form(major, d, Encoded(major, d), a, n) /\ (Len(d) <= 4 => n <= 4)
  BY EncodedFacts
<1>2. Encoded(major, d) \in Seq(Byte) /\ Len(Encoded(major, d)) = 1 + n
  BY <1>1 DEF Form
<1>. QED  BY <1>1, <1>2

LEMMA AtConcat ==
    ASSUME NEW w \in Seq(Byte), NEW s \in Seq(Byte)
    PROVE  /\ w \o s \in Seq(Byte) /\ Len(w \o s) = Len(w) + Len(s)
           /\ At(w \o s, Len(w), s)
           /\ \A o \in Nat, c \in Seq(Byte) : At(w, o, c) => At(w \o s, o, c)
<1>. DEFINE u == w \o s
<1>1. /\ u \in Seq(Byte) /\ Len(u) = Len(w) + Len(s) /\ Len(w) \in Nat /\ Len(s) \in Nat
      /\ \A i \in 1..Len(w) : u[i] = w[i]
      /\ \A i \in 1..Len(s) : u[Len(w) + i] = s[i]
  OBVIOUS
<1>. HIDE DEF u
<1>2. At(u, Len(w), s)
  BY <1>1 DEF At
<1>3. ASSUME NEW o \in Nat, NEW c \in Seq(Byte), At(w, o, c) PROVE At(u, o, c)
  <2>1. o + Len(c) <= Len(w) /\ Len(c) \in Nat /\ \A i \in 1..Len(c) : w[o + i] = c[i]
    BY <1>3 DEF At
  <2>2. o + Len(c) <= Len(u)
    BY <1>1, <2>1
  <2>3. \A i \in 1..Len(c) : o + i \in 1..Len(w)
    BY <1>1, <2>1
  <2>. QED  BY <1>1, <2>1, <2>2, <2>3 DEF At
<1>. QED  BY <1>1, <1>2, <1>3 DEF u

LEMMA PairFacts ==
    ASSUME NEW x, IsPair(x)
    PROVE  /\ Encoded(Unsigned, Digits(x.key)) \in Seq(Byte)
           /\ Len(Encoded(Unsigned, Digits(x.key))) = 1
           /\ Encoded(x.major, x.value) \in Seq(Byte)
           /\ Len(Encoded(x.major, x.value)) \in 1..9
           /\ x.raw \in Seq(Byte) /\ x.key \in 0..23 /\ x.major \in 0..7
           /\ IsNumber(Digits(x.key), 8) /\ IsNumber(x.value, 8) /\ Unsigned \in 0..7
<1>1. x.key \in 0..23 /\ x.major \in 0..7 /\ IsNumber(x.value, 8) /\ x.raw \in Seq(Byte)
  BY DEF IsPair, Unsigned, Negative, Bytes
<1>2. Unsigned \in 0..7
  BY DEF Unsigned
<1>3. PICK k \in 0..23 : k = x.key
  BY <1>1
<1>4. /\ IsNumber(Digits(k), 8) /\ Encoded(Unsigned, Digits(k)) \in Seq(Byte)
      /\ Len(Encoded(Unsigned, Digits(k))) = 1
  BY <1>2, OneByte
<1>5. Encoded(x.major, x.value) \in Seq(Byte) /\ Len(Encoded(x.major, x.value)) \in 1..9
  BY <1>1, EncodedSize
<1>. QED  BY <1>1, <1>2, <1>3, <1>4, <1>5

\* A pair put behind the text is there, and what was there stays.
LEMMA WithFacts ==
    ASSUME NEW w \in Seq(Byte), NEW x, IsPair(x), NEW u, u = With(w, x)
    PROVE  /\ u \in Seq(Byte)
           /\ Len(u) = Len(w) + 1 + Len(Encoded(x.major, x.value)) + Len(x.raw)
           /\ PairAt(u, Len(w), Len(u), x)
           /\ \A o \in Nat, c \in Seq(Byte) : At(w, o, c) => At(u, o, c)
<1>. DEFINE k == Encoded(Unsigned, Digits(x.key))
            v == Encoded(x.major, x.value)
            r == x.raw
            wk == w \o k
            wv == wk \o v
<1>1. k \in Seq(Byte) /\ Len(k) = 1 /\ v \in Seq(Byte) /\ Len(v) \in 1..9 /\ r \in Seq(Byte)
  BY PairFacts
<1>2. u = wv \o r
  BY DEF With
<1>. HIDE DEF k, v, r
<1>3. /\ wk \in Seq(Byte) /\ Len(wk) = Len(w) + Len(k) /\ At(wk, Len(w), k)
      /\ \A o \in Nat, c \in Seq(Byte) : At(w, o, c) => At(wk, o, c)
  BY <1>1, AtConcat
<1>. HIDE DEF wk
<1>4. /\ wv \in Seq(Byte) /\ Len(wv) = Len(wk) + Len(v) /\ At(wv, Len(wk), v)
      /\ \A o \in Nat, c \in Seq(Byte) : At(wk, o, c) => At(wv, o, c)
  BY <1>1, <1>3, AtConcat
<1>. HIDE DEF wv
<1>5. /\ u \in Seq(Byte) /\ Len(u) = Len(wv) + Len(r) /\ At(u, Len(wv), r)
      /\ \A o \in Nat, c \in Seq(Byte) : At(wv, o, c) => At(u, o, c)
  BY <1>1, <1>2, <1>4, AtConcat
<1>6. /\ Len(w) \in Nat /\ Len(v) \in Nat /\ Len(r) \in Nat /\ Len(wk) \in Nat
  BY <1>1, <1>3
<1>7. /\ Len(wk) = Len(w) + 1 /\ Len(wv) = Len(w) + 1 + Len(v)
      /\ Len(u) = Len(w) + 1 + Len(v) + Len(r)
  BY <1>1, <1>3, <1>4, <1>5, <1>6
<1>8. At(u, Len(w), k) /\ At(u, Len(wk), v) /\ At(u, Len(wv), r)
  BY <1>1, <1>3, <1>4, <1>5, <1>6
<1>9. PairAt(u, Len(w), Len(u), x)
  BY <1>6, <1>7, <1>8 DEF PairAt, k, v, r
<1>10. \A o \in Nat, c \in Seq(Byte) : At(w, o, c) => At(u, o, c)
  BY <1>3, <1>4, <1>5
<1>. QED  BY <1>5, <1>7, <1>9, <1>10 DEF v, r

\* The builder after a pair.
LEMMA HoldsPair ==
    ASSUME NEW cap \in Nat, NEW w \in Seq(Byte), NEW b, Holds(b, cap, w), NEW x, IsPair(x)
    PROVE  /\ x.raw = <<>> => Holds(PutTypeValue(PutKey(b, x.key), x.major, x.value), cap, With(w, x))
           /\ Holds(PutRaw(PutTypeValue(PutKey(b, x.key), x.major, x.value), x.raw), cap, With(w, x))
<1>. DEFINE k == Encoded(Unsigned, Digits(x.key))
            v == Encoded(x.major, x.value)
            bk == PutKey(b, x.key)
            bv == PutTypeValue(bk, x.major, x.value)
            wk == w \o k
            wv == wk \o v
<1>1. /\ IsNumber(Digits(x.key), 8) /\ IsNumber(x.value, 8) /\ Unsigned \in 0..7
      /\ x.major \in 0..7 /\ x.raw \in Seq(Byte)
  BY PairFacts
<1>2. bk = PutTypeValue(b, Unsigned, Digits(x.key))
  BY DEF PutKey
<1>. HIDE DEF bk
<1>3. Holds(bk, cap, wk) /\ wk \in Seq(Byte)
  BY <1>1, <1>2, HoldsTypeValue
<1>. HIDE DEF wk
<1>4. Holds(bv, cap, wv) /\ wv \in Seq(Byte)
  BY <1>1, <1>3, HoldsTypeValue
<1>. HIDE DEF wv, bv
<1>5. With(w, x) = wv \o x.raw
  BY DEF With, wv, wk
<1>6. Holds(PutRaw(bv, x.raw), cap, wv \o x.raw)
  BY <1>1, <1>4, HoldsRaw
<1>7. ASSUME x.raw = <<>> PROVE wv \o x.raw = wv
  BY <1>4, <1>7, ConcatEmptySeq
<1>. QED  BY <1>4, <1>5, <1>6, <1>7 DEF bv, bk

LEMMA LaidFirst ==
    ASSUME NEW n \in 0..23, NEW L
    PROVE  LET w == <<>> \o Encoded(Map, Digits(n))
           IN  Laid(w, n, 0, L, [j \in 0..0 |-> 1]) /\ Len(w) = 1
<1>. DEFINE s == Encoded(Map, Digits(n))
            w == <<>> \o s
<1>0. Map \in 0..7
  BY DEF Map
<1>1. s \in Seq(Byte) /\ Len(s) = 1
  BY <1>0, OneByte
<1>. HIDE DEF s
<1>2. <<>> \in Seq(Byte) /\ Len(<<>>) = 0
  OBVIOUS
<1>3. w \in Seq(Byte) /\ Len(w) = Len(<<>>) + Len(s) /\ At(w, Len(<<>>), s)
  BY <1>1, <1>2, AtConcat
<1>. HIDE DEF w
<1>4. Len(w) = 1 /\ At(w, 0, s)
  BY <1>1, <1>2, <1>3
<1>. DEFINE off == [j \in 0..0 |-> 1]
<1>5. off[0] = 1 /\ \A j \in 1..0 : FALSE
  OBVIOUS
<1>. HIDE DEF off
<1>6. Laid(w, n, 0, L, off)
  BY <1>3, <1>4, <1>5 DEF Laid, s
<1>. QED  BY <1>4, <1>6 DEF w, s, off

LEMMA LaidMore ==
    ASSUME NEW n, NEW m \in Nat, NEW L, NEW off, NEW w, Laid(w, n, m, L, off),
           n \in 0..23, \A j \in 1..m + 1 : IsPair(L[j])
    PROVE  \E to : Laid(With(w, L[m + 1]), n, m + 1, L, to)
<1>. DEFINE x == L[m + 1]
            u == With(w, x)
            to == [j \in 0..m + 1 |-> IF j = m + 1 THEN Len(u) ELSE off[j]]
<1>0. /\ w \in Seq(Byte) /\ At(w, 0, Encoded(Map, Digits(n)))
      /\ off[0] = 1 /\ off[m] = Len(w)
      /\ \A j \in 1..m : PairAt(w, off[j - 1], off[j], L[j])
  BY DEF Laid
<1>1. IsPair(x)
  OBVIOUS
<1>. HIDE DEF x
<1>2. /\ u \in Seq(Byte) /\ PairAt(u, Len(w), Len(u), x)
      /\ \A o \in Nat, c \in Seq(Byte) : At(w, o, c) => At(u, o, c)
  BY <1>0, <1>1, WithFacts
<1>. HIDE DEF u
<1>3. At(u, 0, Encoded(Map, Digits(n)))
  <2>1. Map \in 0..7
    BY DEF Map
  <2>2. Encoded(Map, Digits(n)) \in Seq(Byte)
    BY <2>1, OneByte
  <2>. QED  BY <1>0, <1>2, <2>2
<1>4. /\ to[0] = 1 /\ to[m + 1] = Len(u) /\ to[m] = Len(w)
      /\ \A j \in 0..m : to[j] = off[j]
  <2>1. /\ 0 \in 0..m + 1 /\ 0 # m + 1 /\ m \in 0..m + 1 /\ m # m + 1 /\ m + 1 \in 0..m + 1
        /\ \A j \in 0..m : j \in 0..m + 1 /\ j # m + 1
    OBVIOUS
  <2>. QED  BY <1>0, <2>1
<1>. HIDE DEF to
<1>5. ASSUME NEW j \in 1..m + 1 PROVE PairAt(u, to[j - 1], to[j], L[j])
  <2>1. CASE j = m + 1
    <3>1. j - 1 = m
      BY <2>1
    <3>. QED  BY <1>2, <1>4, <2>1, <3>1 DEF x
  <2>2. CASE j \in 1..m
    <3>1. j \in 0..m /\ j - 1 \in 0..m /\ IsPair(L[j])
      BY <2>2
    <3>2. PICK y : y = L[j]
      OBVIOUS
    <3>3. PICK o, e : o = off[j - 1] /\ e = off[j]
      OBVIOUS
    <3>4. PairAt(w, o, e, y) /\ IsPair(y)
      BY <1>0, <2>2, <3>1, <3>2, <3>3
    <3>5. /\ Encoded(Unsigned, Digits(y.key)) \in Seq(Byte)
          /\ Encoded(y.major, y.value) \in Seq(Byte)
          /\ Len(Encoded(y.major, y.value)) \in 1..9 /\ y.raw \in Seq(Byte)
      BY <3>4, PairFacts
    <3>6. o \in Nat /\ o + 1 \in Nat /\ o + 1 + Len(Encoded(y.major, y.value)) \in Nat
      BY <3>4, <3>5 DEF PairAt
    <3>7. PairAt(u, o, e, y)
      BY <1>2, <3>4, <3>5, <3>6 DEF PairAt
    <3>. QED  BY <1>4, <3>1, <3>2, <3>3, <3>7
  <2>3. j = m + 1 \/ j \in 1..m
    OBVIOUS
  <2>. QED  BY <2>1, <2>2, <2>3
<1>6. Laid(u, n, m + 1, L, to)
  BY <1>2, <1>3, <1>4, <1>5 DEF Laid
<1>. QED  BY <1>6 DEF u, x

\* A pair in a buffer is read as it was put there.  A string in it ends with
\* the buffer.
LEMMA PairIsRead ==
    ASSUME NEW buf \in Seq(Byte), IsWord(Len(buf)), NEW x, IsPair(x), NEW o, NEW e,
           PairAt(buf, o, e, x), x.major = Bytes => e = Len(buf),
           NEW item, item = ReadItem(buf)
    PROVE  /\ o \in 0..Len(buf) /\ o + 1 \in 0..Len(buf) /\ e \in 0..Len(buf)
           /\ Skip(item, o) = o + 1 /\ Skip(item, o + 1) = e
           /\ ReadTypeValue(buf, o).major = Unsigned
           /\ ReadTypeValue(buf, o).value = Digits(x.key)
           /\ item[o + 1].major = x.major /\ item[o + 1].value = x.value
           /\ x.major = Bytes => item[o + 1].payload = x.raw
<1>. DEFINE k == Encoded(Unsigned, Digits(x.key))
            v == Encoded(x.major, x.value)
<1>1. /\ Len(k) = 1 /\ Len(v) \in 1..9 /\ x.raw \in Seq(Byte) /\ x.major \in 0..7
      /\ IsNumber(Digits(x.key), 8) /\ IsNumber(x.value, 8) /\ Unsigned \in 0..7
  BY PairFacts
<1>2. /\ o \in Nat /\ At(buf, o, k) /\ At(buf, o + 1, v)
      /\ At(buf, o + 1 + Len(v), x.raw) /\ e = o + 1 + Len(v) + Len(x.raw)
  BY DEF PairAt
<1>3. PICK h : h = ReadTypeValue(buf, o)
  OBVIOUS
<1>4. PICK g : g = ReadTypeValue(buf, o + 1)
  OBVIOUS
<1>5. /\ h.ok /\ h.major = Unsigned /\ h.value = Digits(x.key)
      /\ h.next = o + Len(k) /\ h.next \in o + 1..Len(buf)
  <2>1. IsHead(buf, o, Unsigned, Digits(x.key), h)
    BY <1>1, <1>2, <1>3, HeadIsRead
  <2>. QED  BY <2>1 DEF IsHead
<1>6. o + 1 \in Nat
  BY <1>2
<1>7. /\ g.ok /\ g.major = x.major /\ g.value = x.value
      /\ g.next = o + 1 + Len(v) /\ g.next \in o + 1 + 1..Len(buf)
  <2>1. IsHead(buf, o + 1, x.major, x.value, g)
    BY <1>1, <1>2, <1>4, <1>6, HeadIsRead
  <2>. QED  BY <2>1 DEF IsHead
<1>. HIDE DEF k, v
<1>8. Len(buf) \in Nat /\ o \in 0..Len(buf) /\ o + 1 \in 0..Len(buf) /\ h.next = o + 1
  <2>1. Len(buf) \in Nat
    OBVIOUS
  <2>. QED  BY <1>1, <1>2, <1>5, <2>1
<1>9. Skip(item, o) = o + 1
  <2>1. Skip(item, o) = h.next
    BY <1>3, <1>5, <1>8, SkipByHead
  <2>. QED  BY <1>8, <2>1
<1>10. Len(x.raw) \in Nat /\ o + 1 + Len(v) + Len(x.raw) <= Len(buf)
  <2>1. Len(x.raw) \in Nat
    BY <1>1
  <2>. QED  BY <1>2, <2>1 DEF At
<1>11. e \in 0..Len(buf)
  <2>1. PICK p \in Nat : p = o + 1 + Len(v)
    BY <1>1, <1>2
  <2>2. e = p + Len(x.raw) /\ p + Len(x.raw) <= Len(buf)
    BY <1>2, <1>10, <2>1
  <2>. QED  BY <1>8, <1>10, <2>2
<1>12. Skip(item, o + 1) = e
  <2>1. CASE x.major = Bytes
    <3>1. x.value = Digits(Len(x.raw)) /\ IsWord(Len(x.raw))
      BY <2>1 DEF IsPair
    <3>2. Number(x.value) = Len(x.raw) /\ IsNumber(Digits(Len(x.raw)), 4)
      BY <3>1, DigitsFacts
    <3>3. Len(buf) - g.next = Len(x.raw)
      BY <1>1, <1>2, <1>7, <1>8, <1>10, <2>1
    <3>4. AtMost(g.value, Digits(Len(buf) - g.next))
      <4>1. PICK d \in Seq(Byte) : d = Digits(Len(x.raw))
        BY <3>2 DEF IsNumber
      <4>2. AtMost(d, d)
        <5>1. \A i \in DOMAIN d : d[i] \in Nat
          BY BytesAreNat
        <5>2. \A i \in DOMAIN d : ~(d[i] > d[i])
          BY <5>1
        <5>. QED  BY <5>2 DEF AtMost
      <4>. QED  BY <1>7, <3>1, <3>3, <4>1, <4>2
    <3>5. g.major \in {Bytes, Txt}
      BY <1>7, <2>1
    <3>6. Skip(item, o + 1) = g.next + Number(g.value)
      BY <1>4, <1>7, <1>8, <3>4, <3>5, SkipByHead
    <3>. QED  BY <1>2, <1>7, <3>2, <3>6
  <2>2. CASE x.major # Bytes
    <3>1. x.major \in {Unsigned, Negative, Simple} /\ x.raw = <<>>
      BY <2>2 DEF IsPair
    <3>2. Skip(item, o + 1) = g.next
      BY <1>4, <1>7, <1>8, <3>1, SkipByHead
    <3>3. Len(x.raw) = 0
      BY <3>1
    <3>. QED  BY <1>1, <1>2, <1>7, <3>2, <3>3
  <2>. QED  BY <2>1, <2>2
<1>13. PICK i : i = item[o + 1]
  OBVIOUS
<1>14. i.ok
  <2>1. Skip(item, o + 1) # -1
    BY <1>11, <1>12
  <2>. QED  BY <1>13, <2>1 DEF Skip
<1>15. FromHead(buf, o + 1, g, item, i)
  BY <1>4, <1>8, <1>13, <1>14, ItemByHead
<1>16. i.major = x.major /\ Skip(item, o + 1) = i.next
  BY <1>7, <1>15 DEF FromHead
<1>17. i.value = x.value
  <2>1. x.major # Simple
    BY DEF IsPair, Unsigned, Negative, Bytes, Simple
  <2>. QED  BY <1>7, <1>15, <2>1 DEF FromHead
<1>18. ASSUME x.major = Bytes PROVE i.payload = x.raw
  <2>1. i.payload = SubSeq(buf, g.next + 1, e)
    BY <1>7, <1>12, <1>15, <1>16, <1>18 DEF FromHead
  <2>. DEFINE s == SubSeq(buf, g.next + 1, e)
  <2>2. PICK p \in Nat : p = g.next /\ p = o + 1 + Len(v)
    BY <1>1, <1>2, <1>7
  <2>3. PICK l \in Nat : l = Len(x.raw)
    BY <1>10
  <2>4. e = p + l /\ p + l <= Len(buf)
    BY <1>2, <1>10, <2>2, <2>3
  <2>5. s = SubSeq(buf, p + 1, p + l)
    BY <2>2, <2>4
  <2>6. SubSeq(buf, p + 1, p + l) \in Seq(Byte) /\ Len(SubSeq(buf, p + 1, p + l)) = l
    BY <1>8, <2>4
  <2>7. ASSUME NEW j \in 1..l PROVE SubSeq(buf, p + 1, p + l)[j] = x.raw[j]
    <3>1. SubSeq(buf, p + 1, p + l)[j] = buf[p + 1 + j - 1]
      BY <1>8, <2>4
    <3>2. p + 1 + j - 1 = p + j
      OBVIOUS
    <3>3. \A q \in 1..Len(x.raw) : buf[o + 1 + Len(v) + q] = x.raw[q]
      BY <1>2 DEF At
    <3>4. buf[p + j] = x.raw[j]
      BY <2>2, <2>3, <3>3
    <3>. QED  BY <3>1, <3>2, <3>4
  <2>8. SubSeq(buf, p + 1, p + l) = x.raw
    BY <1>1, <2>3, <2>6, <2>7, SeqEqual
  <2>. QED  BY <2>1, <2>5, <2>8
<1>. QED  BY <1>3, <1>5, <1>8, <1>9, <1>11, <1>12, <1>13, <1>16, <1>17, <1>18

\* A map of pairs with different keys that has been put together reads back as
\* what it was put together from.
IsFound(buf, x) ==
    /\ FindItem(buf, x.key).status = "OK"
    /\ FindItem(buf, x.key).item.major = x.major
    /\ FindItem(buf, x.key).item.value = x.value
    /\ x.major = Bytes => FindItem(buf, x.key).item.payload = x.raw

LEMMA MapIsRead ==
    ASSUME NEW buf, NEW n \in 1..23, NEW L, NEW off, Laid(buf, n, n, L, off),
           IsWord(Len(buf)), \A j \in 1..n : IsPair(L[j]),
           \A j \in 1..n : L[j].major = Bytes => j = n,
           \A i, j \in 1..n : L[i].key = L[j].key => i = j
    PROVE  /\ IsEmptyOrMap(buf)
           /\ \A j \in 1..n : IsFound(buf, L[j])
           /\ \A key \in 0..23 : (\A j \in 1..n : L[j].key # key)
                                   => FindItem(buf, key).status = "NOT_AVAILABLE"
<1>. DEFINE N == Len(buf)
<1>0. /\ buf \in Seq(Byte) /\ At(buf, 0, Encoded(Map, Digits(n)))
      /\ off[0] = 1 /\ off[n] = N
      /\ \A j \in 1..n : PairAt(buf, off[j - 1], off[j], L[j])
  BY DEF Laid
<1>1. PICK item : item = ReadItem(buf)
  OBVIOUS
<1>2. ASSUME NEW j \in 1..n
      PROVE  LET o == off[j - 1]
                 x == L[j]
             IN  /\ o \in 0..N /\ o + 1 \in 0..N /\ off[j] \in 0..N
                 /\ Skip(item, o) = o + 1 /\ Skip(item, o + 1) = off[j]
                 /\ ReadTypeValue(buf, o).major = Unsigned
                 /\ ReadTypeValue(buf, o).value = Digits(x.key)
                 /\ item[o + 1].major = x.major /\ item[o + 1].value = x.value
                 /\ x.major = Bytes => item[o + 1].payload = x.raw
  <2>1. PICK o, e, x : o = off[j - 1] /\ e = off[j] /\ x = L[j]
    OBVIOUS
  <2>2. PairAt(buf, o, e, x) /\ IsPair(x) /\ (x.major = Bytes => e = N)
    BY <1>0, <2>1
  <2>3. /\ o \in 0..N /\ o + 1 \in 0..N /\ e \in 0..N
        /\ Skip(item, o) = o + 1 /\ Skip(item, o + 1) = e
        /\ ReadTypeValue(buf, o).major = Unsigned
        /\ ReadTypeValue(buf, o).value = Digits(x.key)
        /\ item[o + 1].major = x.major /\ item[o + 1].value = x.value
        /\ x.major = Bytes => item[o + 1].payload = x.raw
    BY <1>0, <1>1, <2>2, PairIsRead
  <2>. QED  BY <2>1, <2>3
<1>3. PICK h : h = ReadTypeValue(buf, 0)
  OBVIOUS
<1>4. h.ok /\ h.major = Map /\ h.value = Digits(n) /\ h.next = 1 /\ Number(Digits(n)) = n /\ N \in Nat /\ N >= 1
  <2>1. Map \in 0..7 /\ n \in 0..23 /\ 0 \in Nat
    BY DEF Map
  <2>2. /\ IsNumber(Digits(n), 8) /\ Number(Digits(n)) = n
        /\ Len(Encoded(Map, Digits(n))) = 1
    BY <2>1, OneByte
  <2>3. IsHead(buf, 0, Map, Digits(n), h)
    BY <1>0, <1>3, <2>1, <2>2, HeadIsRead
  <2>4. /\ h.ok /\ h.major = Map /\ h.value = Digits(n)
        /\ h.next = 0 + 1 /\ h.next \in 0 + 1..N
    BY <2>2, <2>3 DEF IsHead
  <2>5. N \in Nat
    BY <1>0
  <2>. QED  BY <2>2, <2>4, <2>5
<1>. DEFINE S == {j \in Nat : j <= n => After(item, 1, 2 * j) = off[j]}
<1>5. 0 \in S
  BY <1>0, AfterFacts
<1>6. ASSUME NEW j \in Nat, j + 1 <= n, After(item, 1, 2 * j) = off[j]
      PROVE  After(item, 1, 2 * j + 1) = off[j] + 1 /\ After(item, 1, 2 * (j + 1)) = off[j + 1]
  <2>1. /\ j + 1 \in 1..n /\ (j + 1) - 1 = j /\ 2 * j \in Nat /\ 2 * j + 1 \in Nat
        /\ 2 * (j + 1) = (2 * j + 1) + 1
    BY <1>6
  <2>2. Skip(item, off[j]) = off[j] + 1 /\ Skip(item, off[j] + 1) = off[j + 1]
    BY <1>2, <2>1
  <2>3. After(item, 1, 2 * j + 1) = Skip(item, After(item, 1, 2 * j))
    BY <2>1, AfterFacts
  <2>4. After(item, 1, (2 * j + 1) + 1) = Skip(item, After(item, 1, 2 * j + 1))
    BY <2>1, AfterFacts
  <2>. QED  BY <1>6, <2>1, <2>2, <2>3, <2>4
<1>7. ASSUME NEW j \in S PROVE j + 1 \in S
  <2>. SUFFICES ASSUME j + 1 <= n PROVE After(item, 1, 2 * (j + 1)) = off[j + 1]
    OBVIOUS
  <2>1. j \in Nat /\ j <= n
    OBVIOUS
  <2>. QED  BY <1>6, <2>1
<1>8. \A j \in 0..n : After(item, 1, 2 * j) = off[j]
  <2>1. S \in SUBSET Nat
    OBVIOUS
  <2>2. \A j \in Nat : j \in S
    <3>. HIDE DEF S
    <3>. QED  BY <1>5, <1>7, <2>1, Induction
  <2>. QED  BY <2>2
<1>. HIDE DEF S
<1>9. \A j \in 0..n - 1 : After(item, 1, 2 * j + 1) = off[j] + 1
  <2>1. \A j \in 0..n - 1 : j \in 0..n /\ j \in Nat /\ j + 1 <= n
    OBVIOUS
  <2>. QED  BY <1>6, <1>8, <2>1
<1>10. IsEmptyOrMap(buf)
  <2>1. AtMost(h.value, <<32>>)
    <3>1. 32 \in 0..255 /\ n \in 0..32
      OBVIOUS
    <3>2. AtMost(Digits(n), <<32>>)
      BY <3>1, SmallAtMost
    <3>. QED  BY <1>4, <3>2
  <2>2. 0 \in 0..N /\ h.major \in {Array, Map}
    BY <1>4
  <2>3. Skip(item, 0) = After(item, h.next, Children(h.major, Number(h.value)))
    BY <1>0, <1>1, <1>3, <1>4, <2>1, <2>2, SkipByHead
  <2>4. Children(h.major, Number(h.value)) = 2 * n
    BY <1>4 DEF Children
  <2>5. Skip(item, 0) = N
    <3>1. n \in 0..n
      OBVIOUS
    <3>. QED  BY <1>0, <1>4, <1>8, <2>3, <2>4, <3>1
  <2>6. PICK i : i = item[0]
    OBVIOUS
  <2>7. i.ok
    <3>1. N # -1
      BY <1>4
    <3>. QED  BY <2>5, <2>6, <3>1 DEF Skip
  <2>8. FromHead(buf, 0, h, item, i)
    BY <1>0, <1>1, <1>3, <2>2, <2>6, <2>7, ItemByHead
  <2>9. i.major = Map /\ i.next = N
    BY <1>4, <2>5, <2>8 DEF FromHead
  <2>. QED  BY <1>1, <2>6, <2>7, <2>9 DEF IsEmptyOrMap
<1>11. buf # <<>>
  BY <1>4
<1>12. PICK at : at = Successive(item, h.next, 2 * n)
  OBVIOUS
<1>13. ASSUME NEW i \in 0..n - 1 PROVE at[2 * i] = off[i] /\ at[2 * i + 1] = off[i] + 1
  <2>1. 2 * n \in Nat /\ 2 * i \in 0..2 * n /\ 2 * i + 1 \in 0..2 * n /\ i \in 0..n
    OBVIOUS
  <2>2. at = Successive(item, 1, 2 * n)
    BY <1>4, <1>12
  <2>3. at[2 * i] = After(item, 1, 2 * i) /\ at[2 * i + 1] = After(item, 1, 2 * i + 1)
    BY <2>1, <2>2, SuccessiveIsAfter
  <2>. QED  BY <1>8, <1>9, <2>1, <2>3
<1>14. ASSUME NEW key \in 0..23, NEW i \in 0..n - 1
       PROVE  i \in WithKey(buf, at, n, key) <=> L[i + 1].key = key
  <2>1. i + 1 \in 1..n /\ (i + 1) - 1 = i
    OBVIOUS
  <2>2. PICK k \in 0..23 : k = L[i + 1].key
    BY <2>1 DEF IsPair
  <2>3. /\ ReadTypeValue(buf, at[2 * i]).major = Unsigned
        /\ ReadTypeValue(buf, at[2 * i]).value = Digits(k)
    <3>1. PICK j \in 1..n : j = i + 1 /\ j - 1 = i
      BY <2>1
    <3>2. /\ ReadTypeValue(buf, off[j - 1]).major = Unsigned
          /\ ReadTypeValue(buf, off[j - 1]).value = Digits(L[j].key)
      BY <1>2
    <3>3. at[2 * i] = off[i]
      BY <1>13
    <3>. QED  BY <2>2, <3>1, <3>2, <3>3
  <2>4. Unsigned \in 0..7
    BY DEF Unsigned
  <2>5. Number(Digits(k)) = k /\ Number(Digits(key)) = key
    BY <2>4, OneByte
  <2>. QED  BY <2>2, <2>3, <2>5 DEF WithKey
<1>15. ASSUME NEW key PROVE Finds(buf, key, item, at, n, WithKey(buf, at, n, key))
  <2>1. PICK named : named = WithKey(buf, at, n, key)
    OBVIOUS
  <2>2. n = Number(h.value)
    BY <1>4
  <2>3. Finds(buf, key, item, at, n, named)
    BY <1>0, <1>1, <1>3, <1>10, <1>11, <1>12, <2>1, <2>2, FindItemFacts
  <2>. QED  BY <2>1, <2>3
<1>16. ASSUME NEW j \in 1..n PROVE IsFound(buf, L[j])
  <2>1. PICK x, i : x = L[j] /\ i = j - 1
    OBVIOUS
  <2>2. i \in 0..n - 1 /\ i + 1 = j /\ IsPair(x)
    BY <2>1
  <2>3. PICK named : named = WithKey(buf, at, n, x.key)
    OBVIOUS
  <2>4. x.key \in 0..23
    BY <2>2 DEF IsPair
  <2>5. i \in named
    BY <1>14, <2>1, <2>2, <2>3, <2>4
  <2>6. ASSUME NEW k \in named PROVE k = i
    <3>1. k \in 0..n - 1
      BY <2>3 DEF WithKey
    <3>2. L[k + 1].key = x.key
      BY <1>14, <2>3, <2>4, <3>1
    <3>3. k + 1 \in 1..n
      BY <3>1
    <3>4. k + 1 = j
      BY <2>1, <3>2, <3>3
    <3>. QED  BY <2>2, <3>1, <3>4
  <2>7. Min(named) = i
    <3>1. named \in SUBSET Nat /\ named # {}
      BY <2>2, <2>5, <2>6
    <3>2. Min(named) \in named
      BY <3>1, MinIsMember
    <3>. QED  BY <2>6, <3>2
  <2>8. /\ FindItem(buf, x.key).status = "OK"
        /\ FindItem(buf, x.key).item = item[at[2 * i + 1]]
    BY <1>15, <2>3, <2>5, <2>7 DEF Finds
  <2>9. at[2 * i + 1] = off[i] + 1
    BY <1>13, <2>2
  <2>10. /\ item[off[i] + 1].major = x.major /\ item[off[i] + 1].value = x.value
         /\ x.major = Bytes => item[off[i] + 1].payload = x.raw
    BY <1>2, <2>1
  <2>11. IsFound(buf, x)
    BY <2>8, <2>9, <2>10 DEF IsFound
  <2>. QED  BY <2>1, <2>11
<1>17. ASSUME NEW key \in 0..23, \A j \in 1..n : L[j].key # key
       PROVE  FindItem(buf, key).status = "NOT_AVAILABLE"
  <2>1. WithKey(buf, at, n, key) = {}
    <3>. SUFFICES ASSUME NEW i \in WithKey(buf, at, n, key) PROVE FALSE
      OBVIOUS
    <3>1. i \in 0..n - 1
      BY DEF WithKey
    <3>2. i + 1 \in 1..n
      BY <3>1
    <3>. QED  BY <1>14, <1>17, <3>1, <3>2
  <2>. QED  BY <1>15, <2>1 DEF Finds
<1>. QED  BY <1>10, <1>16, <1>17

-----------------------------------------------------------------------------
(***************************************************************************)
(* What the two writers of the model put together.                         *)
(***************************************************************************)

\* The text of a map for n pairs with m of them, size bytes at most
Built(w, n, m, L, size) ==
    w \in Seq(Byte) /\ Len(w) <= size /\ \E off : Laid(w, n, m, L, off)

Start(n) == <<>> \o Encoded(Map, Digits(n))

\* The builder holds the same, whatever its buffer has room for.
LEMMA StartsMap ==
    ASSUME NEW n \in 0..23, NEW L, NEW w, w = Start(n)
    PROVE  /\ Built(w, n, 0, L, 1)
           /\ \A cap \in Nat : Holds(BeginMap(NewBuilder(cap), n), cap, w)
<1>1. Map \in 0..7 /\ <<>> \in Seq(Byte) /\ Len(<<>>) = 0
  BY DEF Map
<1>2. Encoded(Map, Digits(n)) \in Seq(Byte) /\ IsNumber(Digits(n), 8)
  BY <1>1, OneByte
<1>3. w \in Seq(Byte)
  BY <1>1, <1>2, AtConcat DEF Start
<1>4. Laid(w, n, 0, L, [j \in 0..0 |-> 1]) /\ Len(w) = 1
  BY LaidFirst DEF Start
<1>5. ASSUME NEW cap \in Nat PROVE Holds(BeginMap(NewBuilder(cap), n), cap, w)
  <2>1. PICK b : b = NewBuilder(cap)
    OBVIOUS
  <2>2. b = [cap |-> cap, bytes |-> <<>>, ok |-> TRUE]
    BY <2>1 DEF NewBuilder
  <2>3. b \in [cap : {cap}, bytes : Seq(Byte), ok : BOOLEAN] /\ b.ok /\ b.bytes = <<>>
    BY <1>1, <2>2
  <2>4. Holds(b, cap, <<>>)
    BY <1>1, <2>3 DEF Holds
  <2>5. Holds(PutTypeValue(b, Map, Digits(n)), cap, w)
    BY <1>1, <1>2, <2>4, HoldsTypeValue DEF Start
  <2>. QED  BY <2>1, <2>5 DEF BeginMap
<1>6. \E off : Laid(w, n, 0, L, off)
  <2>1. PICK off : off = [j \in 0..0 |-> 1]
    OBVIOUS
  <2>2. Laid(w, n, 0, L, off)
    BY <1>4, <2>1
  <2>. QED  BY <2>2
<1>7. Built(w, n, 0, L, 1)
  <2>1. Len(w) = 1
    BY <1>4, Zenon
  <2>2. Len(w) <= 1
    BY <2>1
  <2>. QED  BY <1>3, <1>6, <2>2 DEF Built
<1>. QED  BY <1>5, <1>7

LEMMA BuildsPair ==
    ASSUME NEW n \in 0..23, NEW m \in Nat, NEW L, NEW w, NEW size \in Nat,
           Built(w, n, m, L, size), \A j \in 1..m + 1 : IsPair(L[j]),
           NEW x, x = L[m + 1], NEW u, u = With(w, x),
           NEW more \in Nat, Len(Encoded(x.major, x.value)) + Len(x.raw) <= more
    PROVE  /\ Built(u, n, m + 1, L, size + 1 + more)
           /\ \A cap \in Nat : \A b : Holds(b, cap, w) =>
                 /\ x.raw = <<>>
                      => Holds(PutTypeValue(PutKey(b, x.key), x.major, x.value), cap, u)
                 /\ Holds(PutRaw(PutTypeValue(PutKey(b, x.key), x.major, x.value), x.raw), cap, u)
<1>1. IsPair(x)
  OBVIOUS
<1>2. w \in Seq(Byte) /\ Len(w) <= size /\ \E off : Laid(w, n, m, L, off)
  BY DEF Built
<1>3. /\ u \in Seq(Byte)
      /\ Len(u) = Len(w) + 1 + Len(Encoded(x.major, x.value)) + Len(x.raw)
  BY <1>1, <1>2, WithFacts
<1>4. \E to : Laid(u, n, m + 1, L, to)
  BY <1>2, LaidMore
<1>5. Len(u) <= size + 1 + more
  <2>1. Len(Encoded(x.major, x.value)) \in Nat /\ Len(x.raw) \in Nat /\ Len(w) \in Nat
    BY <1>1, <1>2, PairFacts
  <2>2. PICK a, b, c : a = Len(w) /\ b = Len(Encoded(x.major, x.value)) /\ c = Len(x.raw)
    OBVIOUS
  <2>3. /\ a \in Nat /\ b \in Nat /\ c \in Nat /\ a <= size /\ b + c <= more
        /\ Len(u) = a + 1 + b + c
    BY <1>2, <1>3, <2>1, <2>2
  <2>4. a + 1 + b + c <= size + 1 + more
    BY <2>3
  <2>. QED  BY <2>3, <2>4
<1>. QED  BY <1>1, <1>2, <1>3, <1>4, <1>5, HoldsPair DEF Built

\* A number that is written with its key
Num(key, major, d) == [key |-> key, major |-> major, value |-> d, raw |-> <<>>]

IsNum(x, key, major, d, n) ==
    /\ IsPair(x) /\ x.key = key /\ x.major = major /\ x.value = d /\ x.raw = <<>>
    /\ Len(Encoded(x.major, x.value)) + Len(x.raw) <= n + 1

LEMMA NumIsPair ==
    ASSUME NEW key \in 0..23, NEW major \in {Unsigned, Negative}, NEW d,
           NEW n \in {4, 8}, IsNumber(d, n), NEW x, x = Num(key, major, d)
    PROVE  IsNum(x, key, major, d, n)
<1>1. x.key = key /\ x.major = major /\ x.value = d /\ x.raw = <<>>
  BY DEF Num
<1>2. IsNumber(d, 8) /\ (n = 4 => Len(d) <= 4)
  BY DEF IsNumber
<1>3. major # Bytes /\ major \in {Unsigned, Negative, Bytes} /\ major \in 0..7
  BY DEF Unsigned, Negative, Bytes
<1>4. <<>> \in Seq(Byte) /\ Len(<<>>) = 0
  OBVIOUS
<1>5. IsPair(x)
  BY <1>1, <1>2, <1>3, <1>4 DEF IsPair
<1>6. /\ Len(Encoded(major, d)) \in 1..9
      /\ Len(d) <= 4 => Len(Encoded(major, d)) <= 5
  BY <1>2, <1>3, EncodedSize
<1>7. Len(Encoded(major, d)) <= n + 1
  <2>1. PICK l \in 1..9 : l = Len(Encoded(major, d))
    BY <1>6
  <2>2. n = 4 => l <= 5
    BY <1>2, <1>6, <2>1
  <2>3. l <= n + 1
    BY <2>2
  <2>. QED  BY <2>1, <2>3
<1>8. Len(Encoded(x.major, x.value)) + Len(x.raw) <= n + 1
  BY <1>1, <1>4, <1>6, <1>7
<1>. QED  BY <1>1, <1>5, <1>8 DEF IsNum

\* The magnitude of a signed number of 32 bits
IsHalfWord(n) == n \in Nat /\ ((n \div 256) \div 256) \div 256 \in 0..127

LEMMA TopByte ==
    ASSUME NEW n, IsHalfWord(n)
    PROVE  /\ IsWord(n) /\ IsNumber(Digits(n), 4) /\ Number(Digits(n)) = n
           /\ AtMost(Digits(n), Int32Max)
<1>1. IsWord(n)
  BY DEF IsWord, IsHalfWord, Byte
<1>a. PICK d : d = Digits(n)
  OBVIOUS
<1>b. PICK q : q = Quad(n)
  OBVIOUS
<1>2. IsNumber(d, 4) /\ Number(d) = n
  BY <1>1, <1>a, DigitsFacts
<1>3. q \in Seq(Byte) /\ Len(q) = 4 /\ q[1] \in 0..127
  BY <1>1, <1>b, QuadFacts DEF Quad, IsHalfWord
<1>4. d = Strip(q)
  BY <1>a, <1>b DEF Digits
<1>5. d \in Seq(Byte) /\ Len(d) <= 4 /\ Len(d) \in Nat
  BY <1>2 DEF IsNumber
<1>6. Len(Int32Max) = 4 /\ Int32Max[1] = 127 /\ \A i \in 2..4 : Int32Max[i] = 255
  BY DEF Int32Max
<1>7. AtMost(d, Int32Max)
  <2>1. CASE Len(d) = 4
    <3>1. d = q
      <4>1. \/ d = <<>>
            \/ \E k \in 1..4 : d = SubSeq(q, k, 4)
        BY <1>3, <1>4, StripFacts
      <4>0. d # <<>>
        <5>. SUFFICES ASSUME d = <<>> PROVE FALSE
          OBVIOUS
        <5>1. Len(d) = 0
          OBVIOUS
        <5>. QED  BY <2>1, <5>1
      <4>2. PICK k \in 1..4 : d = SubSeq(q, k, 4)
        BY <4>0, <4>1, Zenon
      <4>3. k = 1
        BY <1>3, <2>1, <4>2
      <4>4. SubSeq(q, 1, 4) = q
        BY <1>3
      <4>. QED  BY <4>2, <4>3, <4>4
    <3>2. \A i \in DOMAIN d : ~(d[i] > Int32Max[i])
      <4>. SUFFICES ASSUME NEW i \in DOMAIN d PROVE ~(d[i] > Int32Max[i])
        OBVIOUS
      <4>1. i \in 1..4 /\ d[i] \in Byte
        BY <1>5, <2>1
      <4>2. CASE i = 1
        <5>1. PICK b \in 0..127 : b = d[i]
          BY <1>3, <3>1, <4>2
        <5>2. ~(b > 127)
          OBVIOUS
        <5>3. Int32Max[i] = 127
          BY <1>6, <4>2
        <5>. QED  BY <5>1, <5>2, <5>3
      <4>3. CASE i \in 2..4
        BY <1>6, <4>1, <4>3, BytesAreNat
      <4>. QED  BY <4>1, <4>2, <4>3
    <3>. QED  BY <1>6, <2>1, <3>2 DEF AtMost
  <2>2. CASE Len(d) # 4
    <3>1. Len(d) < 4
      <4>1. PICK l \in Nat : l = Len(d)
        BY <1>5
      <4>2. l <= 4 /\ l # 4
        BY <1>5, <2>2, <4>1
      <4>3. l < 4
        BY <4>2
      <4>. QED  BY <4>1, <4>3
    <3>. QED  BY <1>6, <3>1 DEF AtMost
  <2>. QED  BY <2>1, <2>2
<1>. QED  BY <1>1, <1>2, <1>7, <1>a

\* The status a builder with room for it holds is the one that is read.
IsStatusText(code, w) ==
    /\ w \in Seq(Byte) /\ Len(w) <= WidestEnvelope
    /\ \A cap \in Nat : Holds(StatusResponse(code, cap), cap, w)
    /\ MapFind(w, StatusKey, "i32") = [status |-> "OK", value |-> code]

LEMMA StatusIsRead ==
    ASSUME NEW code \in Int, IsHalfWord(IF code >= 0 THEN code ELSE -1 - code)
    PROVE  \E w : IsStatusText(code, w)
<1>1. PICK n : n = IF code >= 0 THEN code ELSE -1 - code
  OBVIOUS
<1>2. /\ IsNumber(Digits(n), 4) /\ Number(Digits(n)) = n
      /\ AtMost(Digits(n), Int32Max)
  BY <1>1, TopByte
<1>3. PICK major : major = IF code >= 0 THEN Unsigned ELSE Negative
  OBVIOUS
<1>4. /\ major \in {Unsigned, Negative} /\ Unsigned # Negative /\ StatusKey = 0
      /\ code = IF major = Negative THEN -1 - n ELSE n
  BY <1>1, <1>3 DEF Unsigned, Negative, StatusKey
<1>5. PICK x : x = Num(0, major, Digits(n))
  OBVIOUS
<1>6. /\ IsPair(x) /\ x.key = 0 /\ x.major = major /\ x.value = Digits(n) /\ x.raw = <<>>
      /\ Len(Encoded(x.major, x.value)) + Len(x.raw) <= 4 + 1
  <2>1. PICK d, k, c : d = Digits(n) /\ k = 4 /\ c = 0
    OBVIOUS
  <2>2. k \in {4, 8} /\ IsNumber(d, k) /\ c \in 0..23 /\ x = Num(c, major, d)
    BY <1>2, <1>5, <2>1
  <2>3. IsNum(x, c, major, d, k)
    BY <1>4, <2>1, <2>2, NumIsPair
  <2>. QED  BY <2>1, <2>3 DEF IsNum
<1>7. PICK L : L = [j \in 1..1 |-> x]
  OBVIOUS
<1>8. \A j \in 1..1 : L[j] = x /\ j = 1
  BY <1>7
<1>9. PICK w0 : w0 = Start(1)
  OBVIOUS
<1>10. /\ Built(w0, 1, 0, L, 1)
       /\ \A cap \in Nat : Holds(BeginMap(NewBuilder(cap), 1), cap, w0)
  BY <1>9, StartsMap
<1>11. PICK w : w = With(w0, x)
  OBVIOUS
<1>12. /\ Built(w, 1, 1, L, 7)
       /\ \A cap \in Nat : \A b : Holds(b, cap, w0) =>
             Holds(PutTypeValue(PutKey(b, 0), major, Digits(n)), cap, w)
  <2>1. /\ 0 + 1 = 1 /\ 1 + 1 + 5 = 7 /\ 5 \in Nat /\ 4 + 1 = 5 /\ 1 \in 0..23
        /\ 0 \in Nat /\ 1 \in Nat /\ 1 \in 1..1
    OBVIOUS
  <2>2. \A j \in 1..0 + 1 : IsPair(L[j])
    BY <1>6, <1>8
  <2>3. x = L[0 + 1]
    BY <1>8, <2>1
  <2>4. Len(Encoded(x.major, x.value)) + Len(x.raw) <= 5
    BY <1>6
  <2>5. /\ Built(w, 1, 0 + 1, L, 1 + 1 + 5)
        /\ \A cap \in Nat : \A b : Holds(b, cap, w0) =>
             (x.raw = <<>> => Holds(PutTypeValue(PutKey(b, x.key), x.major, x.value), cap, w))
    BY <1>10, <1>11, <2>1, <2>2, <2>3, <2>4, BuildsPair
  <2>. QED  BY <1>6, <2>1, <2>5
<1>13. ASSUME NEW cap \in Nat PROVE Holds(StatusResponse(code, cap), cap, w)
  <2>1. PICK b : b = BeginMap(NewBuilder(cap), 1)
    OBVIOUS
  <2>2. StatusResponse(code, cap) = PutTypeValue(PutKey(b, 0), major, Digits(n))
    BY <1>1, <1>3, <1>4, <2>1 DEF StatusResponse, PutKeyInt
  <2>. QED  BY <1>10, <1>12, <2>1, <2>2
<1>14. w \in Seq(Byte) /\ Len(w) <= 7 /\ \E off : Laid(w, 1, 1, L, off)
  BY <1>12 DEF Built
<1>15. Len(w) <= WidestEnvelope /\ IsWord(Len(w))
  <2>1. PICK l \in Nat : l = Len(w) /\ l <= 7
    BY <1>14
  <2>2. PICK m \in Nat : m = PayloadMax
    BY CborAssumption
  <2>3. \A p, q \in Nat : p <= 7 => p <= 41 + q /\ p \in 0..255
    OBVIOUS
  <2>4. l <= 41 + m /\ l \in 0..255
    BY <2>1, <2>2, <2>3
  <2>. QED  BY <2>1, <2>2, <2>4, SmallWords DEF WidestEnvelope
<1>16. IsFound(w, x)
  <2>1. PICK off : Laid(w, 1, 1, L, off)
    BY <1>14
  <2>2. /\ 1 \in 1..23 /\ 1 \in 1..1
        /\ \A j \in 1..1 : IsPair(L[j])
        /\ \A j \in 1..1 : L[j].major = Bytes => j = 1
        /\ \A i, j \in 1..1 : L[i].key = L[j].key => i = j
    BY <1>6, <1>8
  <2>3. \A j \in 1..1 : IsFound(w, L[j])
    BY <1>15, <2>1, <2>2, MapIsRead
  <2>. QED  BY <1>8, <2>2, <2>3
<1>17. MapFind(w, StatusKey, "i32") = [status |-> "OK", value |-> code]
  <2>1. PICK f : f = FindItem(w, 0)
    OBVIOUS
  <2>2. f.status = "OK" /\ f.item.major = major /\ f.item.value = Digits(n)
    BY <1>6, <1>16, <2>1 DEF IsFound
  <2>3. PICK i : i = f.item
    OBVIOUS
  <2>4. Takes("i32", i)
    BY <1>2, <1>4, <2>2, <2>3 DEF Takes
  <2>5. Taken("i32", i) = code
    BY <1>2, <1>4, <2>2, <2>3 DEF Taken
  <2>6. As("i32", f) = [status |-> "OK", value |-> code]
    BY <2>2, <2>3, <2>4, <2>5 DEF As
  <2>. QED  BY <1>4, <2>1, <2>6 DEF MapFind
<1>. QED  BY <1>13, <1>14, <1>15, <1>17 DEF IsStatusText

-----------------------------------------------------------------------------
(***************************************************************************)
(* An event, pair after pair.                                              *)
(***************************************************************************)

IsEvent(e) ==
    /\ e \in [type : Seq(Byte), id : Seq(Byte), time : Seq(Byte),
              resource : Seq(Byte), payload : Seq(Byte)]
    /\ IsNumber(e.type, 4) /\ IsNumber(e.id, 4)
    /\ IsNumber(e.time, 8) /\ IsNumber(e.resource, 4)
    /\ Len(e.payload) <= PayloadMax

\* The payload with its key
Payload(e) ==
    [key |-> 16, major |-> Bytes, value |-> Digits(Len(e.payload)), raw |-> e.payload]

EventPairs(e) ==
    <<Num(12, Unsigned, AbiVersion), Num(13, Unsigned, e.type),
      Num(14, Unsigned, e.id), Num(15, Unsigned, e.time),
      IF e.resource # <<>> THEN Num(3, Unsigned, e.resource) ELSE Payload(e),
      Payload(e)>>

IsPayload(x, s) ==
    /\ IsPair(x) /\ x.key = 16 /\ x.major = Bytes
    /\ x.value = Digits(Len(s)) /\ x.raw = s
    /\ Len(Encoded(x.major, x.value)) + Len(x.raw) <= 5 + PayloadMax

LEMMA EventPairsFacts ==
    ASSUME NEW e, IsEvent(e), NEW L, L = EventPairs(e)
    PROVE  /\ IsNum(L[1], 12, Unsigned, AbiVersion, 4)
           /\ IsNum(L[2], 13, Unsigned, e.type, 4)
           /\ IsNum(L[3], 14, Unsigned, e.id, 4)
           /\ IsNum(L[4], 15, Unsigned, e.time, 8)
           /\ e.resource # <<>> => IsNum(L[5], 3, Unsigned, e.resource, 4)
           /\ e.resource = <<>> => L[5] = L[6]
           /\ IsPayload(L[6], e.payload)
<1>1. /\ L[1] = Num(12, Unsigned, AbiVersion) /\ L[2] = Num(13, Unsigned, e.type)
      /\ L[3] = Num(14, Unsigned, e.id) /\ L[4] = Num(15, Unsigned, e.time)
      /\ e.resource # <<>> => L[5] = Num(3, Unsigned, e.resource)
      /\ e.resource = <<>> => L[5] = Payload(e)
      /\ L[6] = Payload(e)
  BY DEF EventPairs
<1>2. /\ IsNumber(AbiVersion, 4) /\ IsNumber(e.type, 4) /\ IsNumber(e.id, 4)
      /\ IsNumber(e.time, 8) /\ IsNumber(e.resource, 4)
  BY CborAssumption DEF IsEvent
<1>3. /\ 12 \in 0..23 /\ 13 \in 0..23 /\ 14 \in 0..23 /\ 15 \in 0..23 /\ 3 \in 0..23
      /\ Unsigned \in {Unsigned, Negative} /\ 4 \in {4, 8} /\ 8 \in {4, 8}
  OBVIOUS
<1>4. IsNum(L[1], 12, Unsigned, AbiVersion, 4)
  BY <1>1, <1>2, <1>3, NumIsPair, Zenon
<1>5. IsNum(L[2], 13, Unsigned, e.type, 4)
  BY <1>1, <1>2, <1>3, NumIsPair, Zenon
<1>6. IsNum(L[3], 14, Unsigned, e.id, 4)
  BY <1>1, <1>2, <1>3, NumIsPair, Zenon
<1>7. IsNum(L[4], 15, Unsigned, e.time, 8)
  BY <1>1, <1>2, <1>3, NumIsPair, Zenon
<1>8. e.resource # <<>> => IsNum(L[5], 3, Unsigned, e.resource, 4)
  BY <1>1, <1>2, <1>3, NumIsPair, Zenon
<1>9. IsPayload(L[6], e.payload)
  <2>1. PICK x : x = L[6]
    OBVIOUS
  <2>2. PICK s : s = e.payload
    OBVIOUS
  <2>3. x.key = 16 /\ x.major = Bytes /\ x.value = Digits(Len(s)) /\ x.raw = s
    BY <1>1, <2>1, <2>2 DEF Payload
  <2>4. s \in Seq(Byte) /\ Len(s) <= PayloadMax
    BY <2>2 DEF IsEvent
  <2>5. PICK l \in Nat : l = Len(s)
    BY <2>4
  <2>6. PICK m \in Nat : m = PayloadMax /\ l <= m /\ IsWord(41 + m)
    BY <2>4, <2>5, CborAssumption DEF WidestEnvelope
  <2>7. IsWord(l)
    <3>1. \A p, q \in Nat : p <= q => p \in 0..41 + q
      OBVIOUS
    <3>2. l \in 0..41 + m
      BY <2>5, <2>6, <3>1
    <3>. QED  BY <2>6, <3>2, SmallerWord
  <2>8. IsNumber(Digits(l), 4)
    BY <2>7, DigitsFacts
  <2>9. IsNumber(Digits(l), 8) /\ Len(Digits(l)) <= 4
    BY <2>8 DEF IsNumber
  <2>10. Bytes \in 0..7 /\ Bytes \in {Unsigned, Negative, Bytes} /\ 16 \in 0..23
    BY DEF Bytes
  <2>11. IsPair(x)
    BY <2>3, <2>4, <2>5, <2>7, <2>9, <2>10 DEF IsPair
  <2>12. Len(Encoded(Bytes, Digits(l))) \in 1..9 /\ Len(Encoded(Bytes, Digits(l))) <= 5
    BY <2>9, <2>10, EncodedSize
  <2>13. PICK c \in 1..9 : c = Len(Encoded(Bytes, Digits(l))) /\ c <= 5
    BY <2>12
  <2>14. c + l <= 5 + m
    BY <2>5, <2>6, <2>13
  <2>15. Len(Encoded(x.major, x.value)) + Len(x.raw) <= 5 + PayloadMax
    BY <2>3, <2>5, <2>6, <2>13, <2>14
  <2>. QED  BY <2>1, <2>2, <2>3, <2>11, <2>15 DEF IsPayload
<1>. QED  BY <1>1, <1>4, <1>5, <1>6, <1>7, <1>8, <1>9

\* What one step of the writer does to the text
PutsNum(w, u, key, d) ==
    \A cap \in Nat : \A b : Holds(b, cap, w) => Holds(PutKeyUint(b, key, d), cap, u)

PutsString(w, u, key, s) ==
    \A cap \in Nat : \A b : Holds(b, cap, w) => Holds(PutKeyString(b, key, Bytes, s), cap, u)

LEMMA AddsNum ==
    ASSUME NEW n \in 0..23, NEW m \in Nat, NEW m1, m1 = m + 1, NEW L, NEW w,
           NEW size \in Nat, Built(w, n, m, L, size), \A j \in 1..m1 : IsPair(L[j]),
           NEW key, NEW d, NEW k \in {4, 8}, IsNum(L[m1], key, Unsigned, d, k),
           NEW more, more = size + 2 + k
    PROVE  \E u : Built(u, n, m1, L, more) /\ PutsNum(w, u, key, d)
<1>1. PICK x : x = L[m + 1]
  OBVIOUS
<1>2. /\ IsPair(x) /\ x.key = key /\ x.major = Unsigned /\ x.value = d /\ x.raw = <<>>
      /\ Len(Encoded(x.major, x.value)) + Len(x.raw) <= k + 1
  BY <1>1 DEF IsNum
<1>3. PICK u : u = With(w, x)
  OBVIOUS
<1>4. k + 1 \in Nat /\ size + 1 + (k + 1) = more
  OBVIOUS
<1>5. /\ Built(u, n, m + 1, L, size + 1 + (k + 1))
      /\ \A cap \in Nat : \A b : Holds(b, cap, w) =>
            (x.raw = <<>> => Holds(PutTypeValue(PutKey(b, x.key), x.major, x.value), cap, u))
  BY <1>1, <1>2, <1>3, <1>4, BuildsPair
<1>6. PutsNum(w, u, key, d)
  BY <1>2, <1>5 DEF PutsNum, PutKeyUint
<1>. QED  BY <1>4, <1>5, <1>6

LEMMA AddsPayload ==
    ASSUME NEW n \in 0..23, NEW m \in Nat, NEW m1, m1 = m + 1, NEW L, NEW w,
           NEW size \in Nat, Built(w, n, m, L, size), \A j \in 1..m1 : IsPair(L[j]),
           NEW s, IsPayload(L[m1], s), size <= 35
    PROVE  \E u : Built(u, n, m1, L, WidestEnvelope) /\ PutsString(w, u, 16, s)
<1>1. PICK x : x = L[m + 1]
  OBVIOUS
<1>2. /\ IsPair(x) /\ x.key = 16 /\ x.major = Bytes
      /\ x.value = Digits(Len(s)) /\ x.raw = s
      /\ Len(Encoded(x.major, x.value)) + Len(x.raw) <= 5 + PayloadMax
  BY <1>1 DEF IsPayload
<1>3. PICK u : u = With(w, x)
  OBVIOUS
<1>4. PICK p \in Nat : p = 5 + PayloadMax
  <2>1. PICK q \in Nat : q = PayloadMax
    BY CborAssumption
  <2>2. 5 + q \in Nat
    BY <2>1
  <2>. QED  BY <2>1, <2>2
<1>5. /\ Built(u, n, m + 1, L, size + 1 + p)
      /\ \A cap \in Nat : \A b : Holds(b, cap, w) =>
            Holds(PutRaw(PutTypeValue(PutKey(b, x.key), x.major, x.value), x.raw), cap, u)
  BY <1>1, <1>2, <1>3, <1>4, BuildsPair
<1>6. PutsString(w, u, 16, s)
  BY <1>2, <1>5 DEF PutsString, PutKeyString
<1>7. size + 1 + p <= WidestEnvelope
  <2>1. PICK q \in Nat : q = PayloadMax
    BY CborAssumption
  <2>2. size + 1 + (5 + q) <= 41 + q
    BY <2>1
  <2>. QED  BY <1>4, <2>1, <2>2 DEF WidestEnvelope
<1>8. Built(u, n, m1, L, WidestEnvelope)
  <2>1. u \in Seq(Byte) /\ Len(u) <= size + 1 + p /\ \E off : Laid(u, n, m1, L, off)
    BY <1>5 DEF Built
  <2>2. PICK q, l \in Nat : q = WidestEnvelope /\ l = Len(u)
    <3>1. WidestEnvelope \in Nat
      BY CborAssumption DEF WidestEnvelope
    <3>. QED  BY <2>1, <3>1
  <2>3. l <= q
    BY <1>4, <1>7, <2>1, <2>2
  <2>. QED  BY <2>1, <2>2, <2>3 DEF Built
<1>. QED  BY <1>6, <1>8

\* How many pairs there are
LEMMA PairsOfEvent ==
    ASSUME NEW e
    PROVE  /\ e.resource # <<>> /\ e.payload # <<>> => Pairs(e) = 6
           /\ e.resource # <<>> /\ e.payload = <<>> => Pairs(e) = 5
           /\ e.resource = <<>> /\ e.payload # <<>> => Pairs(e) = 5
           /\ e.resource = <<>> /\ e.payload = <<>> => Pairs(e) = 4
<1>. DEFINE F == {f \in {"resource", "payload"} : e[f] # <<>>}
<1>1. /\ Cardinality({}) = 0 /\ Cardinality({"resource"}) = 1 /\ Cardinality({"payload"}) = 1
      /\ IsFiniteSet({"resource"})
  BY FS_EmptySet, FS_Singleton
<1>2. Cardinality({"resource"} \cup {"payload"}) = 2
  <2>1. "payload" \notin {"resource"}
    OBVIOUS
  <2>2. Cardinality({"resource"} \cup {"payload"}) = Cardinality({"resource"}) + 1
    BY <1>1, <2>1, FS_AddElement
  <2>. QED  BY <1>1, <2>2
<1>3. /\ e.resource # <<>> /\ e.payload # <<>> => F = {"resource"} \cup {"payload"}
      /\ e.resource # <<>> /\ e.payload = <<>> => F = {"resource"}
      /\ e.resource = <<>> /\ e.payload # <<>> => F = {"payload"}
      /\ e.resource = <<>> /\ e.payload = <<>> => F = {}
  OBVIOUS
<1>4. Pairs(e) = 4 + Cardinality(F)
  BY DEF Pairs
<1>. HIDE DEF F
<1>5. PICK c : c = Cardinality(F)
  OBVIOUS
<1>6. /\ e.resource # <<>> /\ e.payload # <<>> => c = 2
      /\ e.resource # <<>> /\ e.payload = <<>> => c = 1
      /\ e.resource = <<>> /\ e.payload # <<>> => c = 1
      /\ e.resource = <<>> /\ e.payload = <<>> => c = 0
  BY <1>1, <1>2, <1>3, <1>5, Zenon
<1>. QED  BY <1>4, <1>5, <1>6

\* The envelope up to the time, and all of it, for n pairs
Timed(e, n, cap) ==
    PutKeyUint(PutKeyUint(PutKeyUint(
        PutKeyUint(BeginMap(NewBuilder(cap), n), AbiVersionKey, AbiVersion),
        EventTypeKey, e.type), EventIdKey, e.id), TimestampKey, e.time)

LEMMA TimedText ==
    ASSUME NEW e, IsEvent(e), NEW L, L = EventPairs(e), NEW n \in 4..6
    PROVE  \E w : /\ Built(w, n, 4, L, 29)
                  /\ \A cap \in Nat : Holds(Timed(e, n, cap), cap, w)
<1>1. /\ IsNum(L[1], 12, Unsigned, AbiVersion, 4) /\ IsNum(L[2], 13, Unsigned, e.type, 4)
      /\ IsNum(L[3], 14, Unsigned, e.id, 4) /\ IsNum(L[4], 15, Unsigned, e.time, 8)
  BY EventPairsFacts
<1>2. IsPair(L[1]) /\ IsPair(L[2]) /\ IsPair(L[3]) /\ IsPair(L[4])
  BY <1>1 DEF IsNum
<1>3. /\ \A j \in 1..1 : IsPair(L[j])
      /\ \A j \in 1..2 : IsPair(L[j])
      /\ \A j \in 1..3 : IsPair(L[j])
      /\ \A j \in 1..4 : IsPair(L[j])
  <2>1. /\ \A j \in 1..1 : j = 1
        /\ \A j \in 1..2 : j = 1 \/ j = 2
        /\ \A j \in 1..3 : j = 1 \/ j = 2 \/ j = 3
        /\ \A j \in 1..4 : j = 1 \/ j = 2 \/ j = 3 \/ j = 4
    OBVIOUS
  <2>. QED  BY <1>2, <2>1
<1>4. n \in 0..23 /\ 4 \in {4, 8} /\ 8 \in {4, 8}
  OBVIOUS
<1>5. PICK w0 : w0 = Start(n)
  OBVIOUS
<1>6. /\ Built(w0, n, 0, L, 1)
      /\ \A cap \in Nat : Holds(BeginMap(NewBuilder(cap), n), cap, w0)
  BY <1>4, <1>5, StartsMap
<1>7. PICK w1 : Built(w1, n, 1, L, 7) /\ PutsNum(w0, w1, 12, AbiVersion)
  <2>1. 1 = 0 + 1 /\ 7 = 1 + 2 + 4 /\ 0 \in Nat /\ 1 \in Nat
    OBVIOUS
  <2>. QED  BY <1>1, <1>3, <1>4, <1>6, <2>1, AddsNum
<1>8. PICK w2 : Built(w2, n, 2, L, 13) /\ PutsNum(w1, w2, 13, e.type)
  <2>1. 2 = 1 + 1 /\ 13 = 7 + 2 + 4 /\ 1 \in Nat /\ 7 \in Nat
    OBVIOUS
  <2>. QED  BY <1>1, <1>3, <1>4, <1>7, <2>1, AddsNum
<1>9. PICK w3 : Built(w3, n, 3, L, 19) /\ PutsNum(w2, w3, 14, e.id)
  <2>1. 3 = 2 + 1 /\ 19 = 13 + 2 + 4 /\ 2 \in Nat /\ 13 \in Nat
    OBVIOUS
  <2>. QED  BY <1>1, <1>3, <1>4, <1>8, <2>1, AddsNum
<1>10. PICK w4 : Built(w4, n, 4, L, 29) /\ PutsNum(w3, w4, 15, e.time)
  <2>1. 4 = 3 + 1 /\ 29 = 19 + 2 + 8 /\ 3 \in Nat /\ 19 \in Nat
    OBVIOUS
  <2>. QED  BY <1>1, <1>3, <1>4, <1>9, <2>1, AddsNum
<1>11. ASSUME NEW cap \in Nat PROVE Holds(Timed(e, n, cap), cap, w4)
  <2>1. PICK b0 : b0 = BeginMap(NewBuilder(cap), n)
    OBVIOUS
  <2>2. PICK b1 : b1 = PutKeyUint(b0, 12, AbiVersion)
    OBVIOUS
  <2>3. PICK b2 : b2 = PutKeyUint(b1, 13, e.type)
    OBVIOUS
  <2>4. PICK b3 : b3 = PutKeyUint(b2, 14, e.id)
    OBVIOUS
  <2>5. PICK b4 : b4 = PutKeyUint(b3, 15, e.time)
    OBVIOUS
  <2>6. Holds(b0, cap, w0)
    BY <1>6, <2>1
  <2>7. Holds(b1, cap, w1)
    BY <1>7, <2>2, <2>6 DEF PutsNum
  <2>8. Holds(b2, cap, w2)
    BY <1>8, <2>3, <2>7 DEF PutsNum
  <2>9. Holds(b3, cap, w3)
    BY <1>9, <2>4, <2>8 DEF PutsNum
  <2>10. Holds(b4, cap, w4)
    BY <1>10, <2>5, <2>9 DEF PutsNum
  <2>11. Timed(e, n, cap) = b4
    BY <2>1, <2>2, <2>3, <2>4, <2>5
       DEF Timed, AbiVersionKey, EventTypeKey, EventIdKey, TimestampKey
  <2>. QED  BY <2>10, <2>11
<1>. QED  BY <1>10, <1>11

\* Up to the resource, if there is one, which is pair m then
Resourced(e, n, cap) ==
    IF e.resource = <<>> THEN Timed(e, n, cap)
    ELSE PutKeyUint(Timed(e, n, cap), ResourceKey, e.resource)

LEMMA ResourcedText ==
    ASSUME NEW e, IsEvent(e), NEW L, L = EventPairs(e), NEW n \in 4..6,
           NEW m, m = IF e.resource = <<>> THEN 4 ELSE 5
    PROVE  \E w : \E size \in 0..35 :
              /\ Built(w, n, m, L, size)
              /\ \A cap \in Nat : Holds(Resourced(e, n, cap), cap, w)
<1>1. PICK w : /\ Built(w, n, 4, L, 29)
               /\ \A cap \in Nat : Holds(Timed(e, n, cap), cap, w)
  BY TimedText
<1>2. CASE e.resource = <<>>
  <2>1. 29 \in 0..35 /\ m = 4
    BY <1>2
  <2>2. \A cap \in Nat : Holds(Resourced(e, n, cap), cap, w)
    BY <1>1, <1>2 DEF Resourced
  <2>. QED  BY <1>1, <2>1, <2>2
<1>3. CASE e.resource # <<>>
  <2>1. 35 \in 0..35 /\ m = 5 /\ 5 = 4 + 1 /\ 35 = 29 + 2 + 4 /\ 4 \in Nat /\ 29 \in Nat
        /\ n \in 0..23 /\ 4 \in {4, 8}
    BY <1>3
  <2>2. /\ IsNum(L[1], 12, Unsigned, AbiVersion, 4) /\ IsNum(L[2], 13, Unsigned, e.type, 4)
        /\ IsNum(L[3], 14, Unsigned, e.id, 4) /\ IsNum(L[4], 15, Unsigned, e.time, 8)
        /\ IsNum(L[5], 3, Unsigned, e.resource, 4)
    BY <1>3, EventPairsFacts
  <2>3. \A j \in 1..5 : IsPair(L[j])
    <3>1. IsPair(L[1]) /\ IsPair(L[2]) /\ IsPair(L[3]) /\ IsPair(L[4]) /\ IsPair(L[5])
      BY <2>2 DEF IsNum
    <3>2. \A j \in 1..5 : j = 1 \/ j = 2 \/ j = 3 \/ j = 4 \/ j = 5
      OBVIOUS
    <3>. QED  BY <3>1, <3>2
  <2>4. PICK u : Built(u, n, 5, L, 35) /\ PutsNum(w, u, 3, e.resource)
    BY <1>1, <2>1, <2>2, <2>3, AddsNum
  <2>5. ASSUME NEW cap \in Nat PROVE Holds(Resourced(e, n, cap), cap, u)
    <3>1. PICK b : b = Timed(e, n, cap)
      OBVIOUS
    <3>2. Holds(PutKeyUint(b, 3, e.resource), cap, u)
      BY <1>1, <2>4, <3>1 DEF PutsNum
    <3>. QED  BY <1>3, <3>1, <3>2 DEF Resourced, ResourceKey
  <2>. QED  BY <2>1, <2>4, <2>5
<1>. QED  BY <1>2, <1>3

\* The whole envelope, and the pairs it is made of
IsEnvelope(e, n, L, w) ==
    /\ n \in 4..6 /\ n = Pairs(e)
    /\ Built(w, n, n, L, WidestEnvelope)
    /\ \A cap \in Nat : Holds(Envelope(e, cap), cap, w)
    /\ \A j \in 1..n : IsPair(L[j])

LEMMA EnvelopeText ==
    ASSUME NEW e, IsEvent(e), NEW L, L = EventPairs(e), NEW n, n = Pairs(e)
    PROVE  \E w : IsEnvelope(e, n, L, w)
<1>1. PICK m : m = IF e.resource = <<>> THEN 4 ELSE 5
  OBVIOUS
<1>2. n \in 4..6 /\ n = IF e.payload = <<>> THEN m ELSE m + 1
  BY <1>1, PairsOfEvent
<1>3. PICK w : \E size \in 0..35 :
         /\ Built(w, n, m, L, size)
         /\ \A cap \in Nat : Holds(Resourced(e, n, cap), cap, w)
  BY <1>1, <1>2, ResourcedText
<1>4. PICK size \in 0..35 :
         /\ Built(w, n, m, L, size)
         /\ \A cap \in Nat : Holds(Resourced(e, n, cap), cap, w)
  BY <1>3
<1>5. \A j \in 1..n : IsPair(L[j])
  <2>1. /\ IsNum(L[1], 12, Unsigned, AbiVersion, 4) /\ IsNum(L[2], 13, Unsigned, e.type, 4)
        /\ IsNum(L[3], 14, Unsigned, e.id, 4) /\ IsNum(L[4], 15, Unsigned, e.time, 8)
        /\ e.resource # <<>> => IsNum(L[5], 3, Unsigned, e.resource, 4)
        /\ e.resource = <<>> => L[5] = L[6]
        /\ IsPayload(L[6], e.payload)
    BY EventPairsFacts
  <2>2. IsPair(L[1]) /\ IsPair(L[2]) /\ IsPair(L[3]) /\ IsPair(L[4]) /\ IsPair(L[6])
    BY <2>1 DEF IsNum, IsPayload
  <2>3. IsPair(L[5])
    BY <2>1, <2>2 DEF IsNum
  <2>4. \A j \in 1..n : j = 1 \/ j = 2 \/ j = 3 \/ j = 4 \/ j = 5 \/ j = 6
    BY <1>2
  <2>. QED  BY <2>2, <2>3, <2>4
<1>6. ASSUME NEW cap \in Nat
      PROVE  Envelope(e, cap) = IF e.payload = <<>> THEN Resourced(e, n, cap)
                                ELSE PutKeyString(Resourced(e, n, cap), 16, Bytes, e.payload)
  BY DEF Envelope, Resourced, Timed, PayloadKey
<1>7. CASE e.payload = <<>>
  <2>1. n = m
    BY <1>2, <1>7
  <2>2. \A cap \in Nat : Holds(Envelope(e, cap), cap, w)
    BY <1>4, <1>6, <1>7
  <2>3. w \in Seq(Byte) /\ Len(w) <= size /\ \E off : Laid(w, n, n, L, off)
    BY <1>4, <2>1 DEF Built
  <2>4. Len(w) <= WidestEnvelope
    <3>1. PICK q, l \in Nat : q = PayloadMax /\ l = Len(w)
      BY <2>3, CborAssumption
    <3>2. \A a, b, s \in Nat : a <= s /\ s <= 35 => a <= 41 + b
      OBVIOUS
    <3>3. l <= 41 + q
      <4>1. size \in Nat /\ size <= 35
        BY <1>4
      <4>. QED  BY <2>3, <3>1, <3>2, <4>1
    <3>. QED  BY <3>1, <3>3 DEF WidestEnvelope
  <2>5. Built(w, n, n, L, WidestEnvelope)
    BY <2>3, <2>4 DEF Built
  <2>. QED  BY <1>2, <1>5, <2>2, <2>5 DEF IsEnvelope
<1>8. CASE e.payload # <<>>
  <2>1. n = m + 1 /\ m \in Nat /\ n \in 0..23 /\ size \in Nat /\ size <= 35
    <3>1. m \in Nat
      BY <1>1
    <3>. QED  BY <1>2, <1>4, <1>8, <3>1
  <2>2. IsPayload(L[n], e.payload)
    <3>1. /\ e.resource = <<>> => L[5] = L[6]
          /\ IsPayload(L[6], e.payload)
      BY EventPairsFacts
    <3>2. n = 6 \/ (n = 5 /\ e.resource = <<>>)
      BY <1>1, <2>1
    <3>. QED  BY <3>1, <3>2
  <2>3. PICK u : Built(u, n, n, L, WidestEnvelope) /\ PutsString(w, u, 16, e.payload)
    BY <1>4, <1>5, <2>1, <2>2, AddsPayload
  <2>4. ASSUME NEW cap \in Nat PROVE Holds(Envelope(e, cap), cap, u)
    <3>1. PICK b : b = Resourced(e, n, cap)
      OBVIOUS
    <3>2. Holds(PutKeyString(b, 16, Bytes, e.payload), cap, u)
      BY <1>4, <2>3, <3>1 DEF PutsString
    <3>. QED  BY <1>6, <1>8, <3>1, <3>2
  <2>. QED  BY <1>2, <1>5, <2>3, <2>4 DEF IsEnvelope
<1>. QED  BY <1>7, <1>8

LEMMA NumIsFound ==
    ASSUME NEW w, NEW x, NEW key, NEW d, NEW k, IsNum(x, key, Unsigned, d, k),
           IsFound(w, x), NEW type \in {"u32", "u64"}, type = "u32" => IsNumber(d, 4)
    PROVE  MapFind(w, key, type) = [status |-> "OK", value |-> d]
<1>1. x.key = key /\ x.major = Unsigned /\ x.value = d
  BY DEF IsNum
<1>2. PICK f : f = FindItem(w, key)
  OBVIOUS
<1>3. f.status = "OK" /\ f.item.major = Unsigned /\ f.item.value = d
  BY <1>1, <1>2 DEF IsFound
<1>4. PICK i : i = f.item
  OBVIOUS
<1>5. Takes(type, i)
  <2>1. type = "u32" => AtMost(d, Uint32Max)
    BY FitsUint32 DEF IsNumber
  <2>. QED  BY <1>3, <1>4, <2>1 DEF Takes
<1>6. Taken(type, i) = d
  BY <1>3, <1>4 DEF Taken
<1>7. As(type, f) = [status |-> "OK", value |-> d]
  BY <1>3, <1>4, <1>5, <1>6 DEF As
<1>. QED  BY <1>2, <1>7 DEF MapFind

LEMMA PayloadIsFound ==
    ASSUME NEW w, NEW x, NEW s, IsPayload(x, s), IsFound(w, x)
    PROVE  MapFind(w, 16, "bytes") = [status |-> "OK", value |-> s]
<1>1. x.key = 16 /\ x.major = Bytes /\ x.raw = s
  BY DEF IsPayload
<1>2. PICK f : f = FindItem(w, 16)
  OBVIOUS
<1>3. f.status = "OK" /\ f.item.major = Bytes /\ f.item.payload = s
  BY <1>1, <1>2 DEF IsFound
<1>4. PICK i : i = f.item
  OBVIOUS
<1>5. Takes("bytes", i) /\ Taken("bytes", i) = s
  BY <1>3, <1>4 DEF Takes, Taken
<1>6. As("bytes", f) = [status |-> "OK", value |-> s]
  BY <1>3, <1>4, <1>5 DEF As
<1>. QED  BY <1>2, <1>6 DEF MapFind

LEMMA NoneIsFound ==
    ASSUME NEW w, NEW key, NEW type, FindItem(w, key).status = "NOT_AVAILABLE"
    PROVE  MapFind(w, key, type) = [status |-> "NOT_AVAILABLE", value |-> <<>>]
  BY DEF MapFind, As

\* An event whose envelope fits reads back as it was.
IsEventText(e, w) ==
    /\ w \in Seq(Byte) /\ Len(w) <= WidestEnvelope
    /\ \A cap \in Nat : Holds(Envelope(e, cap), cap, w)
    /\ DecodeEnvelope(w) = [status |-> "OK", event |-> e]

IsGiven(f, v) == f = [status |-> "OK", value |-> v]
IsOptional(f, v) == f.status \in {"OK", "NOT_AVAILABLE"} /\ f.value = v

AllGiven(e, abi, type, id, time, resource, payload) ==
    /\ IsGiven(abi, AbiVersion) /\ IsGiven(type, e.type) /\ IsGiven(id, e.id)
    /\ IsGiven(time, e.time) /\ IsOptional(resource, e.resource)
    /\ IsOptional(payload, e.payload)

ReadsAs(e, abi, type, id, time, resource, payload) ==
    Decoded(TRUE, abi, type, id, time, resource, payload) = [status |-> "OK", event |-> e]

LEMMA DecodesAs ==
    ASSUME NEW e, IsEvent(e),
           NEW abi, NEW type, NEW id, NEW time, NEW resource, NEW payload,
           AllGiven(e, abi, type, id, time, resource, payload)
    PROVE  ReadsAs(e, abi, type, id, time, resource, payload)
<1>1. /\ abi.status = "OK" /\ abi.value = AbiVersion
      /\ type.status = "OK" /\ id.status = "OK" /\ time.status = "OK"
      /\ type.value = e.type /\ id.value = e.id /\ time.value = e.time
  BY DEF AllGiven, IsGiven
<1>2. /\ Optional(resource) /\ resource.value = e.resource
      /\ Optional(payload) /\ payload.value = e.payload
  BY DEF AllGiven, IsOptional, Optional
<1>3. Len(payload.value) <= PayloadMax
  BY <1>2 DEF IsEvent
<1>4. PICK c1, c2, c3, c4, c5, c6 :
         /\ c1 = Check(TRUE, "BAD_ENCODING")
         /\ c2 = Check(abi.status = "OK", "BAD_ENCODING")
         /\ c3 = Check(abi.value = AbiVersion, "UNSUPPORTED_ABI")
         /\ c4 = Check("OK" = type.status /\ "OK" = id.status /\ "OK" = time.status,
                       "BAD_ENCODING")
         /\ c5 = Check(Optional(resource) /\ Optional(payload), "BAD_ENCODING")
         /\ c6 = Check(Len(payload.value) <= PayloadMax, "BAD_LENGTH")
  OBVIOUS
<1>5. FirstError(<<c1, c2, c3, c4, c5, c6>>) = "OK"
  <2>1. c1.ok /\ c2.ok /\ c3.ok
    BY <1>1, <1>4 DEF Check
  <2>2. c4.ok
    BY <1>1, <1>4 DEF Check
  <2>3. c5.ok /\ c6.ok
    BY <1>2, <1>3, <1>4 DEF Check
  <2>4. PICK s : s = <<c1, c2, c3, c4, c5, c6>>
    OBVIOUS
  <2>5. \A i \in DOMAIN s : s[i].ok
    BY <2>1, <2>2, <2>3, <2>4
  <2>6. {i \in DOMAIN s : ~s[i].ok} = {}
    BY <2>5
  <2>7. FirstError(s) = "OK"
    BY <2>6 DEF FirstError
  <2>. QED  BY <2>4, <2>7
<1>6. e =
           [type |-> e.type, id |-> e.id, time |-> e.time,
           resource |-> e.resource, payload |-> e.payload]
  BY DEF IsEvent
<1>7. e = [type |-> type.value, id |-> id.value, time |-> time.value,
           resource |-> resource.value, payload |-> payload.value]
  BY <1>1, <1>2, <1>6
<1>. QED  BY <1>4, <1>5, <1>7 DEF Decoded, ReadsAs

LEMMA EventIsRead ==
    ASSUME NEW e, IsEvent(e)
    PROVE  \E w : IsEventText(e, w)
<1>1. PICK L, n : L = EventPairs(e) /\ n = Pairs(e)
  OBVIOUS
<1>2. PICK w : IsEnvelope(e, n, L, w)
  BY <1>1, EnvelopeText
<1>3. /\ n \in 4..6 /\ Built(w, n, n, L, WidestEnvelope)
      /\ \A cap \in Nat : Holds(Envelope(e, cap), cap, w)
      /\ \A j \in 1..n : IsPair(L[j])
  BY <1>2 DEF IsEnvelope
<1>4. PICK off : Laid(w, n, n, L, off)
  BY <1>3 DEF Built
<1>5. w \in Seq(Byte) /\ Len(w) <= WidestEnvelope
  BY <1>3 DEF Built
<1>6. IsWord(Len(w))
  <2>1. PICK q, l \in Nat : q = WidestEnvelope /\ l = Len(w)
    <3>1. WidestEnvelope \in Nat
      BY CborAssumption DEF WidestEnvelope
    <3>. QED  BY <1>5, <3>1
  <2>2. l \in 0..q
    BY <1>5, <2>1
  <2>. QED  BY <2>1, <2>2, CborAssumption, SmallerWord
<1>7. /\ IsNum(L[1], 12, Unsigned, AbiVersion, 4) /\ IsNum(L[2], 13, Unsigned, e.type, 4)
      /\ IsNum(L[3], 14, Unsigned, e.id, 4) /\ IsNum(L[4], 15, Unsigned, e.time, 8)
      /\ e.resource # <<>> => IsNum(L[5], 3, Unsigned, e.resource, 4)
      /\ e.resource = <<>> => L[5] = L[6]
      /\ IsPayload(L[6], e.payload)
  BY <1>1, EventPairsFacts
<1>8. /\ L[1].key = 12 /\ L[2].key = 13 /\ L[3].key = 14 /\ L[4].key = 15 /\ L[6].key = 16
      /\ e.resource # <<>> => L[5].key = 3
      /\ e.resource = <<>> => L[5].key = 16
      /\ L[1].major = Unsigned /\ L[2].major = Unsigned
      /\ L[3].major = Unsigned /\ L[4].major = Unsigned
      /\ e.resource # <<>> => L[5].major = Unsigned
  BY <1>7 DEF IsNum, IsPayload
<1>9. /\ n = 4 => e.resource = <<>> /\ e.payload = <<>>
      /\ n = 5 => (e.resource = <<>> <=> e.payload # <<>>)
      /\ n = 6 => e.resource # <<>> /\ e.payload # <<>>
  BY <1>1, PairsOfEvent
<1>10. \A j \in 1..n : j = 1 \/ j = 2 \/ j = 3 \/ j = 4 \/ (j = 5 /\ n >= 5) \/ (j = 6 /\ n = 6)
  BY <1>3
<1>11. \A j \in 1..n : L[j].major = Bytes => j = n
  <2>1. Unsigned # Bytes
    BY DEF Unsigned, Bytes
  <2>2. ASSUME NEW j \in 1..n, L[j].major = Bytes PROVE j = n
    <3>1. (j = 5 /\ n >= 5 /\ e.resource = <<>>) \/ (j = 6 /\ n = 6)
      BY <1>8, <1>10, <2>1, <2>2
    <3>2. n = 4 \/ n = 5 \/ n = 6
      BY <1>3
    <3>. QED  BY <1>9, <3>1, <3>2
  <2>. QED  BY <2>2
<1>12. \A i, j \in 1..n : L[i].key = L[j].key => i = j
  <2>1. n = 4 \/ n = 5 \/ n = 6
    BY <1>3
  <2>2. n = 6 => L[5].key = 3
    BY <1>8, <1>9
  <2>3. L[5].key = 3 \/ L[5].key = 16
    BY <1>8
  <2>. QED  BY <1>8, <1>10, <2>1, <2>2, <2>3
<1>13. /\ IsEmptyOrMap(w)
       /\ \A j \in 1..n : IsFound(w, L[j])
       /\ \A key \in 0..23 : (\A j \in 1..n : L[j].key # key)
                               => FindItem(w, key).status = "NOT_AVAILABLE"
  <2>1. n \in 1..23
    BY <1>3
  <2>. QED  BY <1>3, <1>4, <1>6, <1>11, <1>12, <2>1, MapIsRead
<1>14. /\ MapFind(w, 12, "u32") = [status |-> "OK", value |-> AbiVersion]
       /\ MapFind(w, 13, "u32") = [status |-> "OK", value |-> e.type]
       /\ MapFind(w, 14, "u32") = [status |-> "OK", value |-> e.id]
       /\ MapFind(w, 15, "u64") = [status |-> "OK", value |-> e.time]
  <2>1. IsFound(w, L[1]) /\ IsFound(w, L[2]) /\ IsFound(w, L[3]) /\ IsFound(w, L[4])
    <3>1. 1 \in 1..n /\ 2 \in 1..n /\ 3 \in 1..n /\ 4 \in 1..n
      BY <1>3
    <3>. QED  BY <1>13, <3>1
  <2>2. IsNumber(AbiVersion, 4) /\ IsNumber(e.type, 4) /\ IsNumber(e.id, 4)
    BY CborAssumption DEF IsEvent
  <2>3. "u32" \in {"u32", "u64"} /\ "u64" \in {"u32", "u64"} /\ "u64" # "u32"
    OBVIOUS
  <2>4. MapFind(w, 12, "u32") = [status |-> "OK", value |-> AbiVersion]
    BY <1>7, <2>1, <2>2, <2>3, NumIsFound, Zenon
  <2>5. MapFind(w, 13, "u32") = [status |-> "OK", value |-> e.type]
    <3>1. PICK x, d : x = L[2] /\ d = e.type
      OBVIOUS
    <3>2. IsNum(x, 13, Unsigned, d, 4) /\ IsFound(w, x) /\ IsNumber(d, 4)
      BY <1>7, <2>1, <2>2, <3>1
    <3>. QED  BY <2>3, <3>1, <3>2, NumIsFound
  <2>6. MapFind(w, 14, "u32") = [status |-> "OK", value |-> e.id]
    <3>1. PICK x, d : x = L[3] /\ d = e.id
      OBVIOUS
    <3>2. IsNum(x, 14, Unsigned, d, 4) /\ IsFound(w, x) /\ IsNumber(d, 4)
      BY <1>7, <2>1, <2>2, <3>1
    <3>. QED  BY <2>3, <3>1, <3>2, NumIsFound
  <2>7. MapFind(w, 15, "u64") = [status |-> "OK", value |-> e.time]
    <3>1. PICK x, d : x = L[4] /\ d = e.time
      OBVIOUS
    <3>2. IsNum(x, 15, Unsigned, d, 8) /\ IsFound(w, x)
      BY <1>7, <2>1, <3>1
    <3>. QED  BY <2>3, <3>1, <3>2, NumIsFound
  <2>. QED  BY <2>4, <2>5, <2>6, <2>7
<1>15. PICK r : r = MapFind(w, 3, "u32")
  OBVIOUS
<1>16. r.status \in {"OK", "NOT_AVAILABLE"} /\ r.value = e.resource
  <2>1. CASE e.resource # <<>>
    <3>1. 5 \in 1..n
      BY <1>3, <1>9, <2>1
    <3>2. IsFound(w, L[5])
      BY <1>13, <3>1
    <3>3. IsNumber(e.resource, 4) /\ "u32" \in {"u32", "u64"}
      BY DEF IsEvent
    <3>4. r = [status |-> "OK", value |-> e.resource]
      BY <1>7, <1>15, <2>1, <3>2, <3>3, NumIsFound, Zenon
    <3>. QED  BY <3>4
  <2>2. CASE e.resource = <<>>
    <3>1. \A j \in 1..n : L[j].key # 3
      BY <1>8, <1>10, <2>2
    <3>2. 3 \in 0..23
      OBVIOUS
    <3>3. FindItem(w, 3).status = "NOT_AVAILABLE"
      BY <1>13, <3>1, <3>2
    <3>4. r = [status |-> "NOT_AVAILABLE", value |-> <<>>]
      BY <1>15, <3>3, NoneIsFound, Zenon
    <3>. QED  BY <2>2, <3>4
  <2>. QED  BY <2>1, <2>2
<1>17. PICK p : p = MapFind(w, 16, "bytes")
  OBVIOUS
<1>18. p.status \in {"OK", "NOT_AVAILABLE"} /\ p.value = e.payload
  <2>1. CASE e.payload # <<>>
    <3>1. n \in 1..n /\ IsPayload(L[n], e.payload)
      <4>1. n = 6 \/ (n = 5 /\ e.resource = <<>>)
        BY <1>3, <1>9, <2>1
      <4>2. n \in 1..n
        BY <1>3
      <4>. QED  BY <1>7, <4>1, <4>2
    <3>2. IsFound(w, L[n])
      BY <1>13, <3>1
    <3>3. p = [status |-> "OK", value |-> e.payload]
      BY <1>17, <3>1, <3>2, PayloadIsFound, Zenon
    <3>. QED  BY <3>3
  <2>2. CASE e.payload = <<>>
    <3>1. n = 4 \/ (n = 5 /\ e.resource # <<>>)
      BY <1>3, <1>9, <2>2
    <3>2. \A j \in 1..n : L[j].key # 16
      BY <1>8, <1>10, <3>1
    <3>3. 16 \in 0..23
      OBVIOUS
    <3>4. FindItem(w, 16).status = "NOT_AVAILABLE"
      BY <1>13, <3>2, <3>3
    <3>5. p = [status |-> "NOT_AVAILABLE", value |-> <<>>]
      BY <1>17, <3>4, NoneIsFound, Zenon
    <3>. QED  BY <2>2, <3>5
  <2>. QED  BY <2>1, <2>2
<1>19. DecodeEnvelope(w) = [status |-> "OK", event |-> e]
  <2>1. PICK a, t, i, c : /\ a = MapFind(w, 12, "u32") /\ t = MapFind(w, 13, "u32")
                          /\ i = MapFind(w, 14, "u32") /\ c = MapFind(w, 15, "u64")
    OBVIOUS
  <2>2. Decoded(TRUE, a, t, i, c, r, p) = [status |-> "OK", event |-> e]
    <3>1. /\ IsGiven(a, AbiVersion) /\ IsGiven(t, e.type) /\ IsGiven(i, e.id)
          /\ IsGiven(c, e.time)
      BY <1>14, <2>1 DEF IsGiven
    <3>2. IsOptional(r, e.resource) /\ IsOptional(p, e.payload)
      BY <1>16, <1>18 DEF IsOptional
    <3>3. AllGiven(e, a, t, i, c, r, p)
      BY <3>1, <3>2 DEF AllGiven
    <3>4. ReadsAs(e, a, t, i, c, r, p)
      BY <3>3, DecodesAs
    <3>. QED  BY <3>4 DEF ReadsAs
  <2>3. IsEmptyOrMap(w) = TRUE
    BY <1>13 DEF IsEmptyOrMap
  <2>4. DecodeEnvelope(w) = Decoded(TRUE, a, t, i, c, r, p)
    BY <1>15, <1>17, <2>1, <2>3
       DEF DecodeEnvelope, AbiVersionKey, EventTypeKey, EventIdKey, TimestampKey,
           ResourceKey, PayloadKey
  <2>. QED  BY <2>2, <2>4
<1>. QED  BY <1>3, <1>5, <1>19 DEF IsEventText

-----------------------------------------------------------------------------
(***************************************************************************)
(* The theorems                                                            *)
(***************************************************************************)

IsJob == job \in Jobs

LEMMA StepJob == IsJob /\ [Next]_vars => IsJob'
  BY DEF IsJob, Next, vars, EncodeEvent, EventTooLong, DecodeEvent, AnswerStatus, ReadStatus,
         Gate, Handle, Done, Handed, Read

\* For requests of any length and any nesting, the recursive reader takes from
\* every offset exactly the bytes of one item, as the scan with one counter
\* finds them, never past the end, and refuses what has no end.
THEOREM CborReadIsExact == Spec => []ReadIsExact
<1>1. IsJob => ReadIsExact
  <2>. SUFFICES ASSUME IsJob, job.kind = "request", NEW o \in 0..Len(job.bytes)
                PROVE  /\ ReadItem(job.bytes)[o].ok <=> ScanEnd(job.bytes, o) # -1
                       /\ ReadItem(job.bytes)[o].ok
                            => ReadItem(job.bytes)[o].next = ScanEnd(job.bytes, o)
    BY DEF ReadIsExact
  <2>1. PICK buf : buf = job.bytes
    OBVIOUS
  <2>2. buf \in Seq(Byte) /\ IsWord(Len(buf)) /\ o \in 0..Len(buf)
    BY <2>1, CborAssumption DEF IsJob
  <2>3. PICK item : item = ReadItem(buf)
    OBVIOUS
  <2>4. ScanEnd(buf, o) = Skip(item, o)
    BY <2>2, <2>3, ScanEndIsSkip
  <2>5. item \in Good(Len(buf))
    BY <2>2, <2>3, ReadItemFacts
  <2>6. item[o] \in Items(Len(buf)) /\ Len(buf) \in Nat
    BY <2>2, <2>5 DEF Good
  <2>7. item[o].ok \in BOOLEAN /\ item[o].next \in 0..Len(buf)
    BY <2>6 DEF Items
  <2>8. o # -1 /\ item[o].next # -1
    BY <2>2, <2>6, <2>7
  <2>9. Skip(item, o) = IF item[o].ok THEN item[o].next ELSE -1
    BY <2>8 DEF Skip
  <2>. QED  BY <2>1, <2>3, <2>4, <2>7, <2>8, <2>9
<1>2. Init => IsJob
  BY DEF Init, IsJob
<1>. QED  BY <1>1, <1>2, StepJob, PTL DEF Spec

\* A request behind the gate, and what a handler has got from it
FInv ==
    /\ IsJob
    /\ job.kind = "request" /\ stage \in {"sent", "done"}
         => wire = job.bytes /\ IsEmptyOrMap(wire)
    /\ job.kind = "request" /\ stage = "done"
         => \E key \in Keys, type \in Types :
               got = [status |-> MapFind(wire, key, type).status,
                      value |-> MapFind(wire, key, type).value, key |-> key, type |-> type]

LEMMA StepFInv == FInv /\ [Next]_vars => FInv'
<1>. SUFFICES ASSUME FInv, [Next]_vars PROVE FInv'
  OBVIOUS
<1>0. IsJob'
  BY StepJob DEF FInv
<1>1. CASE EncodeEvent
  BY <1>0, <1>1 DEF FInv, EncodeEvent, Handed
<1>2. CASE EventTooLong
  BY <1>0, <1>2 DEF FInv, EventTooLong
<1>3. CASE DecodeEvent
  BY <1>0, <1>3 DEF FInv, DecodeEvent, Read
<1>4. CASE AnswerStatus
  BY <1>0, <1>4 DEF FInv, AnswerStatus, Handed
<1>5. CASE ReadStatus
  BY <1>0, <1>5 DEF FInv, ReadStatus, Read
<1>6. CASE Gate
  <2>1. job' = job /\ job.kind = "request" /\ stage' \in {"sent", "refused"}
    BY <1>6 DEF Gate
  <2>2. stage' = "sent" => wire' = job.bytes /\ IsEmptyOrMap(job.bytes)
    BY <1>6 DEF Gate
  <2>3. stage' = "sent" => wire' = job'.bytes /\ IsEmptyOrMap(wire')
    BY <2>1, <2>2
  <2>4. stage' # "done"
    BY <2>1
  <2>. QED  BY <1>0, <2>1, <2>3, <2>4 DEF FInv
<1>7. ASSUME NEW k \in Keys, NEW t \in Types, Handle(k, t) PROVE FInv'
  <2>1. /\ stage = "sent" /\ job.kind = "request" /\ job' = job /\ wire' = wire
        /\ got' = [status |-> MapFind(wire, k, t).status,
                   value |-> MapFind(wire, k, t).value, key |-> k, type |-> t]
    BY <1>7 DEF Handle, Read
  <2>2. wire = job.bytes /\ IsEmptyOrMap(wire)
    BY <2>1 DEF FInv
  <2>3. wire' = job'.bytes /\ IsEmptyOrMap(wire')
    BY <2>1, <2>2
  <2>4. got' = [status |-> MapFind(wire', k, t).status,
                value |-> MapFind(wire', k, t).value, key |-> k, type |-> t]
    BY <2>1
  <2>. QED  BY <1>0, <2>3, <2>4 DEF FInv
<1>8. CASE Done
  BY <1>0, <1>8 DEF FInv, Done, vars
<1>9. CASE UNCHANGED vars
  BY <1>0, <1>9 DEF FInv, vars
<1>. QED  BY <1>1, <1>2, <1>3, <1>4, <1>5, <1>6, <1>7, <1>8, <1>9 DEF Next

\* For requests of any length and nesting that the gate lets in, and every key
\* and type: a handler finds the value of the first pair with its key, and
\* NOT_AVAILABLE if and only if there is none.
THEOREM CborFindsFirst == Spec => []FindsFirst
<1>1. FInv => FindsFirst
  <2>. SUFFICES ASSUME FInv, stage = "done", job.kind = "request", wire # <<>>
                PROVE  FindsFirst
    BY DEF FindsFirst
  <2>1. PICK buf : buf = wire
    OBVIOUS
  <2>2. buf = job.bytes /\ IsEmptyOrMap(buf) /\ buf # <<>>
    BY <2>1 DEF FInv
  <2>3. buf \in Seq(Byte) /\ IsWord(Len(buf))
    BY <2>2, CborAssumption DEF FInv, IsJob
  <2>4. PICK key \in Keys, type \in Types :
           got = [status |-> MapFind(buf, key, type).status,
                  value |-> MapFind(buf, key, type).value, key |-> key, type |-> type]
    BY <2>1 DEF FInv
  <2>5. PICK r : r = MapFind(buf, key, type)
    OBVIOUS
  <2>6. got.status = r.status /\ got.value = r.value /\ got.key = key /\ got.type = type
    BY <2>4, <2>5
  <2>7. PICK h : h = ReadTypeValue(buf, 0)
    OBVIOUS
  <2>8. PICK n : n = Number(h.value)
    OBVIOUS
  <2>9. PICK at : at = Successive(ReadItem(buf), h.next, 2 * n)
    OBVIOUS
  <2>10. Offsets(buf, h.next, 2 * n) = at
    BY <2>2, <2>3, <2>7, <2>8, <2>9, OffsetsAgree
  <2>11. PICK named : named = WithKey(buf, at, n, key)
    OBVIOUS
  <2>12. PICK v : v = 2 * Min(named) + 1
    OBVIOUS
  <2>13. PICK hv : hv = ReadTypeValue(buf, at[v])
    OBVIOUS
  <2>14. HandlerGets(buf, at, named, v, hv, r, type)
    BY <2>2, <2>3, <2>5, <2>7, <2>8, <2>9, <2>11, <2>12, <2>13, FindIsFirst
  <2>15. FindsFirst <=> HandlerGets(buf, at, named, v, hv, r, type)
    BY <2>1, <2>6, <2>7, <2>8, <2>10, <2>11, <2>12, <2>13 DEF FindsFirst, HandlerGets
  <2>. QED  BY <2>14, <2>15
<1>2. Init => FInv
  BY DEF Init, FInv, IsJob
<1>. QED  BY <1>1, <1>2, StepFInv, PTL DEF Spec

\* What has been written for a job, and what the reader has made of it
Sent(b) ==
    /\ stage = "too_small" <=> ~b.ok
    /\ b.ok => wire = b.bytes

WInv ==
    /\ IsJob
    /\ job.kind = "event" /\ stage \in {"sent", "too_small", "done"} =>
          /\ Len(job.event.payload) <= PayloadMax
          /\ Sent(Envelope(job.event, job.cap))
          /\ stage = "done" => got = DecodeEnvelope(wire)
    /\ job.kind = "status" /\ stage \in {"sent", "too_small", "done"} =>
          /\ Sent(StatusResponse(job.code, job.cap))
          /\ stage = "done" => got = MapFind(wire, StatusKey, "i32")

LEMMA StepWInv == WInv /\ [Next]_vars => WInv'
<1>. SUFFICES ASSUME WInv, [Next]_vars PROVE WInv'
  OBVIOUS
<1>0. IsJob'
  BY StepJob DEF WInv
<1>1. CASE EncodeEvent
  <2>1. PICK b : b = Envelope(job.event, job.cap)
    OBVIOUS
  <2>2. /\ job' = job /\ job.kind = "event" /\ Len(job.event.payload) <= PayloadMax
        /\ stage' = IF b.ok THEN "sent" ELSE "too_small"
        /\ wire' = IF b.ok THEN b.bytes ELSE <<>>
    BY <1>1, <2>1 DEF EncodeEvent, Handed
  <2>3. (stage' = "too_small" <=> ~b.ok) /\ stage' # "done" /\ (b.ok => wire' = b.bytes)
    BY <2>2
  <2>4. Envelope(job'.event, job'.cap) = b
    BY <2>1, <2>2
  <2>. QED  BY <1>0, <2>2, <2>3, <2>4 DEF WInv, Sent
<1>2. CASE EventTooLong
  BY <1>0, <1>2 DEF WInv, EventTooLong
<1>3. CASE DecodeEvent
  <2>1. /\ job' = job /\ wire' = wire /\ job.kind = "event" /\ stage = "sent"
        /\ stage' = "done" /\ got' = DecodeEnvelope(wire)
    BY <1>3 DEF DecodeEvent, Read
  <2>2. PICK b : b = Envelope(job.event, job.cap)
    OBVIOUS
  <2>3. Len(job.event.payload) <= PayloadMax /\ b.ok /\ wire = b.bytes
    BY <2>1, <2>2 DEF WInv, Sent
  <2>4. Envelope(job'.event, job'.cap) = b /\ got' = DecodeEnvelope(wire')
    BY <2>1, <2>2
  <2>. QED  BY <1>0, <2>1, <2>3, <2>4 DEF WInv, Sent
<1>4. CASE AnswerStatus
  <2>1. PICK b : b = StatusResponse(job.code, job.cap)
    OBVIOUS
  <2>2. /\ job' = job /\ job.kind = "status"
        /\ stage' = IF b.ok THEN "sent" ELSE "too_small"
        /\ wire' = IF b.ok THEN b.bytes ELSE <<>>
    BY <1>4, <2>1 DEF AnswerStatus, Handed
  <2>3. (stage' = "too_small" <=> ~b.ok) /\ stage' # "done" /\ (b.ok => wire' = b.bytes)
    BY <2>2
  <2>4. StatusResponse(job'.code, job'.cap) = b
    BY <2>1, <2>2
  <2>. QED  BY <1>0, <2>2, <2>3, <2>4 DEF WInv, Sent
<1>5. CASE ReadStatus
  <2>1. /\ job' = job /\ wire' = wire /\ job.kind = "status" /\ stage = "sent"
        /\ stage' = "done" /\ got' = MapFind(wire, StatusKey, "i32")
    BY <1>5 DEF ReadStatus, Read
  <2>2. PICK b : b = StatusResponse(job.code, job.cap)
    OBVIOUS
  <2>3. b.ok /\ wire = b.bytes
    BY <2>1, <2>2 DEF WInv, Sent
  <2>4. StatusResponse(job'.code, job'.cap) = b /\ got' = MapFind(wire', StatusKey, "i32")
    BY <2>1, <2>2
  <2>. QED  BY <1>0, <2>1, <2>3, <2>4 DEF WInv, Sent
<1>6. CASE Gate
  BY <1>0, <1>6 DEF WInv, Gate
<1>7. ASSUME NEW k \in Keys, NEW t \in Types, Handle(k, t) PROVE WInv'
  BY <1>0, <1>7 DEF WInv, Handle, Read
<1>8. CASE UNCHANGED vars
  BY <1>0, <1>8 DEF WInv, Sent, vars
<1>9. CASE Done
  BY <1>8, <1>9 DEF Done
<1>. QED  BY <1>1, <1>2, <1>3, <1>4, <1>5, <1>6, <1>7, <1>8, <1>9 DEF Next

\* For events with fields of any value and any payload up to the longest, and
\* for every status: what the builder hands over reads back as what was
\* written, and it is handed over if and only if it fits the buffer.
THEOREM CborWrittenIsRead == Spec => []WrittenIsRead
<1>1. WInv => WrittenIsRead
  <2>. SUFFICES ASSUME WInv PROVE WrittenIsRead
    OBVIOUS
  <2>1. CASE job.kind = "event"
    <3>. SUFFICES ASSUME stage \in {"sent", "too_small", "done"} PROVE WrittenIsRead
      BY <2>1 DEF WrittenIsRead
    <3>1. PICK e, cap : e = job.event /\ cap = job.cap
      OBVIOUS
    <3>2. IsEvent(e) /\ cap \in Nat
      BY <2>1, <3>1, JobAssumption DEF WInv, IsJob, IsEvent
    <3>3. PICK b : b = Envelope(e, cap)
      OBVIOUS
    <3>4. /\ stage = "too_small" <=> ~b.ok
          /\ b.ok => wire = b.bytes
          /\ stage = "done" => got = DecodeEnvelope(wire)
      BY <2>1, <3>1, <3>3 DEF WInv, Sent
    <3>5. PICK w : IsEventText(e, w)
      BY <3>2, EventIsRead
    <3>6. (b.ok <=> Len(w) <= cap) /\ (b.ok => b.bytes = w)
      BY <3>2, <3>3, <3>5 DEF IsEventText, Holds
    <3>7. Needed(job) = Len(w)
      <4>1. WidestEnvelope \in Nat /\ Len(w) <= WidestEnvelope
        BY <3>5, CborAssumption DEF IsEventText, WidestEnvelope
      <4>2. Envelope(e, WidestEnvelope).bytes = w
        BY <3>5, <4>1 DEF IsEventText, Holds
      <4>. QED  BY <2>1, <3>1, <4>2 DEF Needed
    <3>8. stage = "done" => got = [status |-> "OK", event |-> job.event]
      BY <3>1, <3>4, <3>5, <3>6 DEF IsEventText
    <3>9. stage \in {"sent", "too_small"} => (stage = "sent" <=> Needed(job) <= job.cap)
      BY <3>1, <3>4, <3>6, <3>7
    <3>. QED  BY <2>1, <3>8, <3>9 DEF WrittenIsRead
  <2>2. CASE job.kind = "status"
    <3>. SUFFICES ASSUME stage \in {"sent", "too_small", "done"} PROVE WrittenIsRead
      BY <2>2 DEF WrittenIsRead
    <3>1. PICK code, cap : code = job.code /\ cap = job.cap
      OBVIOUS
    <3>2. code \in Int /\ cap \in Nat /\ IsHalfWord(IF code >= 0 THEN code ELSE -1 - code)
      <4>1. /\ cap \in Nat /\ code \in Int
            /\ LET n == IF code >= 0 THEN code ELSE -1 - code
               IN  ((n \div 256) \div 256) \div 256 \in 0..127
        BY <2>2, <3>1, JobAssumption DEF WInv, IsJob
      <4>2. (IF code >= 0 THEN code ELSE -1 - code) \in Nat
        BY <4>1
      <4>. QED  BY <4>1, <4>2 DEF IsHalfWord
    <3>3. PICK b : b = StatusResponse(code, cap)
      OBVIOUS
    <3>4. /\ stage = "too_small" <=> ~b.ok
          /\ b.ok => wire = b.bytes
          /\ stage = "done" => got = MapFind(wire, StatusKey, "i32")
      BY <2>2, <3>1, <3>3 DEF WInv, Sent
    <3>5. PICK w : IsStatusText(code, w)
      BY <3>2, StatusIsRead
    <3>6. (b.ok <=> Len(w) <= cap) /\ (b.ok => b.bytes = w)
      BY <3>2, <3>3, <3>5 DEF IsStatusText, Holds
    <3>7. Needed(job) = Len(w)
      <4>1. WidestEnvelope \in Nat /\ Len(w) <= WidestEnvelope
        BY <3>5, CborAssumption DEF IsStatusText, WidestEnvelope
      <4>2. StatusResponse(code, WidestEnvelope).bytes = w
        BY <3>5, <4>1 DEF IsStatusText, Holds
      <4>. QED  BY <2>2, <3>1, <4>2 DEF Needed
    <3>8. stage = "done" => got = [status |-> "OK", value |-> job.code]
      BY <3>1, <3>4, <3>5, <3>6 DEF IsStatusText
    <3>9. stage \in {"sent", "too_small"} => (stage = "sent" <=> Needed(job) <= job.cap)
      BY <3>1, <3>4, <3>6, <3>7
    <3>. QED  BY <2>2, <3>8, <3>9 DEF WrittenIsRead
  <2>3. CASE job.kind = "request"
    BY <2>3 DEF WrittenIsRead
  <2>4. job.kind \in {"event", "status", "request"}
    BY CborAssumption DEF WInv, IsJob
  <2>. QED  BY <2>1, <2>2, <2>3, <2>4
<1>2. Init => WInv
  BY DEF Init, WInv, IsJob
<1>. QED  BY <1>1, <1>2, StepWInv, PTL DEF Spec

=============================================================================
