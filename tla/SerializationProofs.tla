------------------------------ MODULE SerializationProofs ------------------------------
(***************************************************************************)
(* Theorems about Serialization, for every buffer, every document that is  *)
(* known to be in it and every call: the type invariant, that the strict   *)
(* checks accept canonical items and nothing else, that the decoders hand  *)
(* out what is there, and that the search finds what the path means.       *)
(***************************************************************************)
EXTENDS Serialization, SequenceTheorems, Induction, TLAPS

(* A byte is the major type and the additional information of a head.      *)
LEMMA ByteDivision ==
  ASSUME NEW x \in Byte
  PROVE  x % 32 \in 0..31 /\ x \div 32 \in 0..7 /\ x = (32 * (x \div 32)) + (x % 32)
  BY SMT DEF Byte

(* A head has up to eight bytes of argument.                               *)
LEMMA ExtraType ==
  ASSUME NEW info \in 0..31
  PROVE  /\ Extra(info) \in {0, 1, 2, 4, 8} /\ (Extra(info) = 0 <=> info \notin 24..27)
         /\ info = 24 => Extra(info) = 1
         /\ info = 25 => Extra(info) = 2
         /\ info = 26 => Extra(info) = 4
         /\ info = 27 => Extra(info) = 8
  BY DEF Extra

(* A part of a sequence of bytes that lies within it.                      *)
LEMMA SliceType ==
  ASSUME NEW b \in Seq(Byte), NEW m \in Nat \ {0}, NEW n \in Nat, m <= n + 1, n <= Len(b)
  PROVE  /\ SubSeq(b, m, n) \in Seq(Byte) /\ Len(SubSeq(b, m, n)) = n - m + 1
         /\ \A k \in 1..(n - m + 1) : SubSeq(b, m, n)[k] = b[m + k - 1]
<1>1. \A i \in m..n : b[i] \in Byte
  BY ElementOfSeq, LenProperties
<1>2. m \in Int /\ n \in Int
  OBVIOUS
<1>3. /\ SubSeq(b, m, n) \in Seq(Byte) /\ Len(SubSeq(b, m, n)) = (IF m <= n THEN n - m + 1 ELSE 0)
      /\ \A i \in 1..(n - m + 1) : SubSeq(b, m, n)[i] = b[m + i - 1]
  BY <1>1, <1>2, SubSeqProperties
<1> QED BY <1>3

(* What is cut out of a sequence of bytes is one, even if it is empty.     *)
LEMMA CutType ==
  ASSUME NEW b \in Seq(Byte), NEW m \in Position, NEW n \in Nat, n <= Len(b)
  PROVE  SubSeq(b, m, n) \in Seq(Byte)
<1>1. \A i \in m..n : b[i] \in Byte
  BY ElementOfSeq, LenProperties DEF Position
<1>2. m \in Int /\ n \in Int
  BY DEF Position
<1> QED BY <1>1, <1>2, SubSeqProperties

(* What a head consists of, and that one that is read lies in the buffer.  *)
LEMMA HeadType ==
  ASSUME NEW b \in Seq(Byte), NEW p \in Nat \ {0}
  PROVE  LET h == ReadHead(b, p)
         IN /\ h.ok \in BOOLEAN /\ h.major \in 0..8 /\ h.info \in 0..31 /\ h.at \in Nat
            /\ h.arg \in Seq(Byte) /\ Len(h.arg) \in {1, 2, 4, 8} /\ p <= h.at
            /\ h.ok =>
                 /\ p \in DOMAIN b /\ p < h.at /\ h.at <= Len(b) + 1 /\ h.major \in 0..7 /\ h.info \notin 28..30
                 /\ h.at = p + 1 + Extra(h.info) /\ Len(h.arg) = (IF h.info \in 24..27 THEN Extra(h.info) ELSE 1)
                 /\ h.info \notin 24..27 => h.arg = <<h.info>>
                 /\ b[p] = (32 * h.major) + h.info
<1>0. Len(b) \in Nat /\ DOMAIN b = 1..Len(b)
  BY LenProperties
<1>1. CASE p > Len(b)
  <2>1. ReadHead(b, p) = [ok |-> FALSE, major |-> 8, info |-> 0, arg |-> <<0>>, at |-> p]
    BY <1>1 DEF ReadHead
  <2>2. <<0>> \in Seq(Byte) /\ Len(<<0>>) = 1
    BY DEF Byte
  <2> QED BY <2>1, <2>2
<1>2. CASE p <= Len(b)
  <2> DEFINE x == b[p]
             info == x % 32
             e == Extra(info)
             arg == IF e = 0 THEN <<info>> ELSE IF p + e <= Len(b) THEN SubSeq(b, p + 1, p + e) ELSE <<0>>
  <2>1. x \in Byte
    BY <1>0, <1>2, ElementOfSeq
  <2>2. info \in 0..31 /\ x \div 32 \in 0..7 /\ x = (32 * (x \div 32)) + info
    BY <2>1, ByteDivision
  <2>3. e \in {0, 1, 2, 4, 8} /\ (e = 0 <=> info \notin 24..27)
    BY <2>2, ExtraType
  <2>4. ReadHead(b, p) = [ok |-> info \notin 28..30 /\ p + e <= Len(b), major |-> x \div 32, info |-> info,
             arg |-> arg, at |-> p + 1 + e]
    BY <1>0, <1>2 DEF ReadHead
  <2> HIDE DEF info, x, e
  <2>5. /\ arg \in Seq(Byte) /\ Len(arg) \in {1, 2, 4, 8} /\ (e = 0 => arg = <<info>>)
        /\ p + e <= Len(b) /\ e # 0 => Len(arg) = e
    <3>1. CASE e = 0
      <4>1. info \in Byte
        BY <2>2 DEF Byte
      <4> QED BY <3>1, <4>1
    <3>2. CASE e # 0 /\ ~(p + e <= Len(b))
      <4>1. 0 \in Byte
        BY DEF Byte
      <4> QED BY <3>2, <4>1, <2>3
    <3>3. CASE e # 0 /\ p + e <= Len(b)
      <4>1. p + 1 \in Nat \ {0} /\ p + e \in Nat /\ p + 1 <= p + e + 1 /\ (p + e) - (p + 1) + 1 = e
        BY <2>3
      <4>2. SubSeq(b, p + 1, p + e) \in Seq(Byte) /\ Len(SubSeq(b, p + 1, p + e)) = e
        BY <4>1, <3>3, SliceType
      <4> QED BY <4>2, <3>3, <2>3
    <3> QED BY <3>1, <3>2, <3>3
  <2>6. info \notin 24..27 => Len(arg) = 1
    BY <2>3
  <2> HIDE DEF arg
  <2> DEFINE h == ReadHead(b, p)
  <2>7. /\ h.ok = (info \notin 28..30 /\ p + e <= Len(b)) /\ h.major = x \div 32 /\ h.info = info
        /\ h.arg = arg /\ h.at = p + 1 + e
    BY <2>4
  <2> HIDE DEF h
  <2>70. h.ok \in BOOLEAN /\ (h.ok => (info \notin 28..30 /\ p + e <= Len(b)))
    BY <2>7, Zenon
  <2>8. e = Extra(info) /\ x = b[p]
    BY DEF e, x
  <2>9. /\ h.ok \in BOOLEAN /\ h.major \in 0..8 /\ h.info \in 0..31 /\ h.at \in Nat
        /\ h.arg \in Seq(Byte) /\ Len(h.arg) \in {1, 2, 4, 8} /\ p <= h.at
    BY <2>2, <2>3, <2>5, <2>7, <2>70
  <2>10. h.ok => p \in DOMAIN b /\ p < h.at /\ h.at <= Len(b) + 1
    <3>1. p \in DOMAIN b
      BY <1>0, <1>2
    <3>2. e \in Nat /\ h.at = p + 1 + e /\ (h.ok => p + e <= Len(b))
      BY <2>3, <2>7, <2>70
    <3> QED BY <3>1, <3>2, <1>0
  <2>11. h.ok => h.major \in 0..7 /\ h.info \notin 28..30 /\ b[p] = (32 * h.major) + h.info
    BY <2>2, <2>7, <2>70, <2>8
  <2>12. h.ok => h.at = p + 1 + Extra(h.info) /\ Len(h.arg) = (IF h.info \in 24..27 THEN Extra(h.info) ELSE 1)
    BY <2>3, <2>5, <2>6, <2>7, <2>70, <2>8
  <2>13. h.info \notin 24..27 => h.arg = <<h.info>>
    BY <2>3, <2>5, <2>7
  <2> QED BY <2>9, <2>10, <2>11, <2>12, <2>13 DEF h
<1> QED BY <1>0, <1>1, <1>2

(* The k-th last digit of a number.                                        *)
Digit(arg, k) == IF k < Len(arg) THEN arg[Len(arg) - k] ELSE 0
(* A digit of a number that is written in bytes.                           *)
LEMMA DigitType ==
  ASSUME NEW arg \in Seq(Byte), NEW k \in 0..7
  PROVE  Digit(arg, k) \in 0..255
<1>1. CASE k < Len(arg)
  <2>1. Len(arg) - k \in 1..Len(arg)
    BY <1>1, LenProperties
  <2> QED BY <1>1, <2>1, ElementOfSeq DEF Digit, Byte
<1>2. CASE ~(k < Len(arg))
  BY <1>2 DEF Digit
<1> QED BY <1>1, <1>2

(* The number of an argument, digit by digit.                              *)
LEMMA ValueByDigits ==
  ASSUME NEW arg \in Seq(Byte)
  PROVE  LET zero(n) == \A k \in n..7 : Digit(arg, k) = 0
         IN /\ Value(arg) \in Nat
            /\ Value(arg) < 256 * 256 * 256 * 256 <=> zero(4)
            /\ Value(arg) < 256 * 256 <=> zero(2)
            /\ Value(arg) < 256 <=> zero(1)
            /\ Value(arg) <= 23 <=> (Digit(arg, 0) <= 23 /\ zero(1))
<1>1. PICK d0, d1, d2, d3, d4, d5, d6, d7 :
        /\ d0 = Digit(arg, 0) /\ d1 = Digit(arg, 1) /\ d2 = Digit(arg, 2) /\ d3 = Digit(arg, 3)
        /\ d4 = Digit(arg, 4) /\ d5 = Digit(arg, 5) /\ d6 = Digit(arg, 6) /\ d7 = Digit(arg, 7)
  OBVIOUS
<1>2. /\ d0 \in 0..255 /\ d1 \in 0..255 /\ d2 \in 0..255 /\ d3 \in 0..255
      /\ d4 \in 0..255 /\ d5 \in 0..255 /\ d6 \in 0..255 /\ d7 \in 0..255
  <2>1. \A k \in 0..7 : Digit(arg, k) \in 0..255
    BY DigitType
  <2> QED BY <2>1, <1>1
<1>3. Value(arg) = d0 + 256 * (d1 + 256 * (d2 + 256 * (d3 + 256 * (d4 + 256 * (d5 + 256 * (d6 + 256 * d7))))))
  BY <1>1 DEF Value, Digit
<1>4. 1..7 = {1, 2, 3, 4, 5, 6, 7} /\ 2..7 = {2, 3, 4, 5, 6, 7} /\ 4..7 = {4, 5, 6, 7}
  OBVIOUS
<1>5. /\ (\A k \in 1..7 : Digit(arg, k) = 0) <=> (d1 = 0 /\ d2 = 0 /\ d3 = 0 /\ d4 = 0 /\ d5 = 0 /\ d6 = 0 /\ d7 = 0)
      /\ (\A k \in 2..7 : Digit(arg, k) = 0) <=> (d2 = 0 /\ d3 = 0 /\ d4 = 0 /\ d5 = 0 /\ d6 = 0 /\ d7 = 0)
      /\ (\A k \in 4..7 : Digit(arg, k) = 0) <=> (d4 = 0 /\ d5 = 0 /\ d6 = 0 /\ d7 = 0)
  BY <1>1, <1>4
<1> DEFINE v == Value(arg)
<1>6. /\ v \in Nat
      /\ v < 256 * 256 * 256 * 256 <=> (d4 = 0 /\ d5 = 0 /\ d6 = 0 /\ d7 = 0)
      /\ v < 256 * 256 <=> (d2 = 0 /\ d3 = 0 /\ d4 = 0 /\ d5 = 0 /\ d6 = 0 /\ d7 = 0)
      /\ v < 256 <=> (d1 = 0 /\ d2 = 0 /\ d3 = 0 /\ d4 = 0 /\ d5 = 0 /\ d6 = 0 /\ d7 = 0)
      /\ v <= 23 <=> (d0 <= 23 /\ d1 = 0 /\ d2 = 0 /\ d3 = 0 /\ d4 = 0 /\ d5 = 0 /\ d6 = 0 /\ d7 = 0)
  <2> HIDE DEF v
  <2>1. v = d0 + 256 * (d1 + 256 * (d2 + 256 * (d3 + 256 * (d4 + 256 * (d5 + 256 * (d6 + 256 * d7))))))
    BY <1>3 DEF v
  <2> QED BY SMT, <1>2, <2>1
<1>7. Value(arg) = v
  OBVIOUS
<1> HIDE DEF v
<1>8. Digit(arg, 0) = d0
  BY <1>1
<1> QED BY SMT, <1>5, <1>6, <1>7, <1>8

(* An argument says a natural number.                                      *)
LEMMA ValueType ==
  ASSUME NEW arg \in Seq(Byte)
  PROVE  Value(arg) \in Nat
  BY ValueByDigits

(* An argument of one byte says that byte.                                 *)
LEMMA ValueOfOne ==
  ASSUME NEW x \in Byte
  PROVE  Value(<<x>>) = x
  BY DEF Value, Byte

(* What fits in fewer bytes, in numbers.                                   *)
LEMMA FitsInMeans ==
  ASSUME NEW arg \in Seq(Byte), Len(arg) \in {1, 2, 4, 8}
  PROVE  /\ FitsIn(arg, 0) <=> Value(arg) <= 23
         /\ FitsIn(arg, 1) <=> Value(arg) < 256
         /\ FitsIn(arg, 2) <=> Value(arg) < 256 * 256
         /\ FitsIn(arg, 4) <=> Value(arg) < 256 * 256 * 256 * 256
<1> DEFINE n == Len(arg)
<1>0. n \in {1, 2, 4, 8}
  OBVIOUS
<1>1. ASSUME NEW w \in {1, 2, 4} PROVE FitsIn(arg, w) <=> \A k \in w..7 : Digit(arg, k) = 0
  <2>0. FitsIn(arg, w) <=> \A k \in 1..(n - w) : arg[k] = 0
    BY DEF FitsIn
  <2> HIDE DEF n
  <2>1. ASSUME FitsIn(arg, w), NEW k \in w..7 PROVE Digit(arg, k) = 0
    <3>1. CASE k < n
      <4>1. n - k \in 1..(n - w)
        BY <3>1, <1>0
      <4> QED BY <4>1, <2>0, <2>1, <3>1 DEF n, Digit
    <3> QED BY <3>1 DEF n, Digit
  <2>2. ASSUME \A k \in w..7 : Digit(arg, k) = 0, NEW k \in 1..(n - w) PROVE arg[k] = 0
    <3>1. n - k \in w..7 /\ n - k < n /\ n - (n - k) = k
      BY <1>0
    <3>2. Digit(arg, n - k) = arg[k]
      BY <3>1 DEF n, Digit
    <3> QED BY <3>1, <3>2, <2>2
  <2> QED BY <2>0, <2>1, <2>2
<1>2. FitsIn(arg, 0) <=> (FitsIn(arg, 1) /\ Digit(arg, 0) <= 23)
  <2>1. arg[Len(arg)] = Digit(arg, 0)
    <3>1. Digit(arg, 0) = arg[n - 0] /\ n - 0 = n
      BY <1>0 DEF Digit
    <3> QED BY <3>1
  <2> QED BY <2>1 DEF FitsIn
<1> QED BY SMT, <1>1, <1>2, ValueByDigits

(* What a sequence of bytes consists of.                                   *)
LEMMA BytesType ==
  ASSUME NEW s \in Seq(Byte)
  PROVE  DOMAIN s = 1..Len(s) /\ Len(s) \in Nat /\ \A j \in DOMAIN s : s[j] \in Byte /\ s[j] \in Int
<1>1. DOMAIN s = 1..Len(s) /\ Len(s) \in Nat
  BY LenProperties
<1>2. \A j \in DOMAIN s : s[j] \in Byte
  BY <1>1, ElementOfSeq
<1>3. Byte \subseteq Int
  BY DEF Byte
<1> QED BY <1>1, <1>2, <1>3

(* The two checks of a head's width are one, for each kind of head.        *)
HeadOk(h) ==
  /\ h.info \in 0..27 /\ h.arg \in Seq(Byte)
  /\ Len(h.arg) = (IF h.info \in 24..27 THEN Extra(h.info) ELSE 1)
  /\ h.info \notin 24..27 => h.arg = <<h.info>>
(* The upper bytes that the code finds to be zero are those that a shorter *)
(* argument does without.                                                  *)
LEMMA BelowFits ==
  ASSUME NEW arg \in Seq(Byte), Len(arg) \in {1, 2, 4, 8}
  PROVE  /\ \A w \in {1, 2, 4} : Below(arg, w) <=> FitsIn(arg, w)
         /\ FitsIn(arg, 0) <=> Below(arg, 1) /\ arg[Len(arg)] <= 23
         /\ Below(arg, 1) => Below(arg, 2)
         /\ Below(arg, 2) => Below(arg, 4)
         /\ Len(arg) = 1 => Below(arg, 1)
<1>1. \A w \in {1, 2, 4} : Below(arg, w) <=> FitsIn(arg, w)
  BY DEF Below, FitsIn
<1>2. FitsIn(arg, 0) <=> (Below(arg, 1) /\ arg[Len(arg)] <= 23)
  BY DEF Below, FitsIn
<1>3. (Below(arg, 1) => Below(arg, 2)) /\ (Below(arg, 2) => Below(arg, 4)) /\ (Len(arg) = 1 => Below(arg, 1))
  <2> DEFINE n == Len(arg)
  <2>1. n \in Nat /\ (n = 1 => 1..(n - 1) = {})
    <3>1. n \in Nat
      BY BytesType
    <3> HIDE DEF n
    <3> QED BY <3>1
  <2>2. 1..(n - 2) \subseteq 1..(n - 1) /\ 1..(n - 4) \subseteq 1..(n - 2)
    BY <2>1
  <2> HIDE DEF n
  <2>3. \A w \in {1, 2, 4} : Below(arg, w) <=> \A k \in 1..(n - w) : arg[k] = 0
    BY DEF Below, n
  <2> QED BY <2>1, <2>2, <2>3 DEF n
<1> QED BY <1>1, <1>2, <1>3

(* The checks of integers and of lengths (`check_shortest_int`,            *)
(* `check_shortest_length_from_bytes`) ask for the least width.            *)
LEMMA WidthChecks ==
  ASSUME NEW h, HeadOk(h)
  PROVE  /\ ShortestInt(h) <=> MinimalHead(h)
         /\ ShortestLength(h) <=> MinimalHead(h)
<1> DEFINE a == h.arg
<1>1. /\ h.info \in 0..27 /\ a \in Seq(Byte)
      /\ Len(a) = (IF h.info \in 24..27 THEN Extra(h.info) ELSE 1)
  BY DEF HeadOk
<1>2. /\ h.info = 24 => Extra(h.info) = 1
      /\ h.info = 25 => Extra(h.info) = 2
      /\ h.info = 26 => Extra(h.info) = 4
      /\ h.info = 27 => Extra(h.info) = 8
      /\ h.info \notin 24..27 => Extra(h.info) = 0
  <2>1. h.info \in 0..31
    BY <1>1
  <2> QED BY <2>1, ExtraType
<1>3. Len(a) \in {1, 2, 4, 8}
  BY <1>1, <1>2
<1>4. /\ \A w \in {1, 2, 4} : Below(a, w) <=> FitsIn(a, w)
      /\ FitsIn(a, 0) <=> (Below(a, 1) /\ a[Len(a)] <= 23)
      /\ Below(a, 1) => Below(a, 2)
      /\ Below(a, 2) => Below(a, 4)
      /\ Len(a) = 1 => Below(a, 1)
  BY <1>1, <1>3, BelowFits
<1>5. a[Len(a)] \in Int
  BY <1>1, <1>3, BytesType
<1>6. MinimalHead(h) <=> (h.info \in 24..27 => \A w \in {0, 1, 2, 4} : w < Len(a) => ~FitsIn(a, w))
  BY DEF MinimalHead
<1>7. ShortestInt(h) <=> Extra(h.info) <= ExtraBytes(a)
  BY DEF ShortestInt
<1>8. ExtraBytes(a) = IF Below(a, 1) THEN (IF a[Len(a)] <= 23 THEN 0 ELSE 1)
                      ELSE IF Below(a, 2) THEN 2 ELSE IF Below(a, 4) THEN 4 ELSE 8
  BY DEF ExtraBytes
<1>9. ShortestLength(h) <=>
        /\ h.info = 24 => a[1] > 23
        /\ h.info = 25 => ~Below(a, 1)
        /\ h.info = 26 => ~Below(a, 2)
        /\ h.info = 27 => ~Below(a, 4)
  BY DEF ShortestLength
<1> HIDE DEF a
<1>10. CASE h.info = 24
  BY <1>1, <1>2, <1>4, <1>5, <1>6, <1>7, <1>8, <1>9, <1>10
<1>11. CASE h.info = 25
  BY <1>1, <1>2, <1>4, <1>5, <1>6, <1>7, <1>8, <1>9, <1>11
<1>12. CASE h.info = 26
  BY <1>1, <1>2, <1>4, <1>5, <1>6, <1>7, <1>8, <1>9, <1>12
<1>13. CASE h.info = 27
  BY <1>1, <1>2, <1>4, <1>5, <1>6, <1>7, <1>8, <1>9, <1>13
<1>14. CASE h.info \notin 24..27
  BY <1>1, <1>2, <1>4, <1>5, <1>6, <1>7, <1>8, <1>9, <1>14
<1> QED BY <1>1, <1>10, <1>11, <1>12, <1>13, <1>14

(* The bytewise order is transitive.                                       *)
LEMMA BytewiseTransitive ==
  ASSUME NEW s \in Seq(Byte), NEW t \in Seq(Byte), NEW u \in Seq(Byte), Bytewise(s, t), Bytewise(t, u)
  PROVE  Bytewise(s, u)
<1>0. /\ DOMAIN s = 1..Len(s) /\ DOMAIN t = 1..Len(t) /\ DOMAIN u = 1..Len(u)
      /\ Len(s) \in Nat /\ Len(t) \in Nat /\ Len(u) \in Nat
  BY LenProperties
<1>1. PICK k \in DOMAIN t : (\A j \in 1..(k - 1) : j \in DOMAIN s /\ s[j] = t[j]) /\ (k \in DOMAIN s => s[k] < t[k])
  BY DEF Bytewise
<1>2. PICK l \in DOMAIN u : (\A j \in 1..(l - 1) : j \in DOMAIN t /\ t[j] = u[j]) /\ (l \in DOMAIN t => t[l] < u[l])
  BY DEF Bytewise
<1>3. /\ \A j \in DOMAIN s : s[j] \in Int
      /\ \A j \in DOMAIN t : t[j] \in Int
      /\ \A j \in DOMAIN u : u[j] \in Int
  BY BytesType
<1>4. CASE k < l
  <2>1. k \in 1..(l - 1) /\ k \in DOMAIN u /\ t[k] = u[k]
    BY <1>0, <1>2, <1>4
  <2>2. \A j \in 1..(k - 1) : j \in DOMAIN s /\ s[j] = u[j]
    <3> TAKE j \in 1..(k - 1)
    <3>1. j \in 1..(l - 1)
      BY <1>0, <1>4
    <3> QED BY <3>1, <1>1, <1>2
  <2>3. k \in DOMAIN s => s[k] < u[k]
    BY <1>1, <2>1
  <2> QED BY <2>1, <2>2, <2>3 DEF Bytewise
<1>5. CASE k = l
  <2>1. \A j \in 1..(l - 1) : j \in DOMAIN s /\ s[j] = u[j]
    BY <1>1, <1>2, <1>5
  <2>2. l \in DOMAIN s => s[l] < u[l]
    BY <1>1, <1>2, <1>3, <1>5
  <2> QED BY <2>1, <2>2 DEF Bytewise
<1>6. CASE k > l
  <2>1. l \in 1..(k - 1) /\ l \in DOMAIN t /\ l \in DOMAIN s /\ s[l] = t[l]
    BY <1>0, <1>1, <1>6
  <2>2. \A j \in 1..(l - 1) : j \in DOMAIN s /\ s[j] = u[j]
    <3> TAKE j \in 1..(l - 1)
    <3>1. j \in 1..(k - 1)
      BY <1>0, <1>6
    <3> QED BY <3>1, <1>1, <1>2
  <2>3. s[l] < u[l]
    BY <1>2, <2>1
  <2> QED BY <2>2, <2>3 DEF Bytewise
<1> QED BY <1>0, <1>4, <1>5, <1>6

(* The order with shorter strings first is transitive.                     *)
LEMMA LengthFirstTransitive ==
  ASSUME NEW s \in Seq(Byte), NEW t \in Seq(Byte), NEW u \in Seq(Byte), LengthFirst(s, t), LengthFirst(t, u)
  PROVE  LengthFirst(s, u)
<1>1. Len(s) \in Nat /\ Len(t) \in Nat /\ Len(u) \in Nat
  BY LenProperties
<1>2. Bytewise(s, t) /\ Bytewise(t, u) => Bytewise(s, u)
  BY BytewiseTransitive
<1> QED BY <1>1, <1>2 DEF LengthFirst

(* Keys of which each is above its neighbour are above one another.        *)
LEMMA NeighboursAscend ==
  ASSUME NEW n \in Nat, NEW keys \in [1..n -> Seq(Byte)],
         \A k \in 1..(n - 1) : LengthFirst(keys[k], keys[k + 1])
  PROVE  Ascending(keys, LengthFirst)
<1> DEFINE S == {d \in Nat : \A k \in 1..n : k + d + 1 <= n => LengthFirst(keys[k], keys[k + d + 1])}
<1>1. 0 \in S
  OBVIOUS
<1>2. ASSUME NEW d \in Nat, d \in S PROVE d + 1 \in S
  <2> SUFFICES ASSUME NEW k \in 1..n, k + (d + 1) + 1 <= n
               PROVE  LengthFirst(keys[k], keys[k + (d + 1) + 1])
    OBVIOUS
  <2>1. LengthFirst(keys[k], keys[k + d + 1])
    BY <1>2
  <2>2. k + d + 1 \in 1..(n - 1) /\ (k + d + 1) + 1 = k + (d + 1) + 1 /\ k + (d + 1) + 1 \in 1..n
    OBVIOUS
  <2>3. LengthFirst(keys[k + d + 1], keys[k + (d + 1) + 1])
    BY <2>2
  <2> QED BY <2>1, <2>2, <2>3, LengthFirstTransitive
<1> HIDE DEF S
<1>3. Nat \subseteq S
  BY <1>1, <1>2, SetInduction
<1>4. ASSUME NEW k \in 1..n, NEW l \in 1..n, k < l PROVE LengthFirst(keys[k], keys[l])
  <2>1. l - k - 1 \in Nat /\ k + (l - k - 1) + 1 = l
    BY <1>4
  <2>2. l - k - 1 \in S
    BY <2>1, <1>3
  <2> QED BY <2>1, <2>2 DEF S
<1> QED BY <1>4 DEF Ascending

(* A tree that has all of another one.                                     *)
Extends(tree, part) == \A q \in DOMAIN part : q \in DOMAIN tree /\ tree[q] = part[q]
(* An item added to a tree that lacks it.                                  *)
LEMMA WithExtends ==
  ASSUME NEW tree, NEW p, NEW item, p \notin DOMAIN tree
  PROVE  /\ Extends(With(tree, p, item), tree)
         /\ DOMAIN With(tree, p, item) = DOMAIN tree \cup {p}
         /\ With(tree, p, item)[p] = item
  BY DEF Extends, With

(* Items that follow one another do so in a larger tree too.               *)
LEMMA ChainedExtends ==
  ASSUME NEW part, NEW tree, Extends(tree, part), NEW starts \in Seq(Position), NEW from, NEW to,
         Chained(part, starts, from, to)
  PROVE  Chained(tree, starts, from, to)
<1>0. DOMAIN starts = 1..Len(starts) /\ Len(starts) \in Nat
  BY LenProperties
<1> DEFINE e(k) == IF k = 0 THEN from ELSE part[starts[k]].to
           f(k) == IF k = 0 THEN from ELSE tree[starts[k]].to
<1>1. (\A k \in DOMAIN starts : starts[k] \in DOMAIN part /\ starts[k] = e(k - 1)) /\ to = e(Len(starts))
  BY DEF Chained
<1>2. ASSUME NEW k \in 0..Len(starts) PROVE f(k) = e(k)
  BY <1>0, <1>1 DEF Extends
<1>3. \A k \in DOMAIN starts : starts[k] \in DOMAIN tree /\ starts[k] = f(k - 1)
  <2> TAKE k \in DOMAIN starts
  <2>1. k - 1 \in 0..Len(starts)
    BY <1>0
  <2>2. f(k - 1) = e(k - 1)
    BY <2>1, <1>2
  <2> HIDE DEF e, f
  <2> QED BY <2>2, <1>1 DEF Extends
<1>4. f(Len(starts)) = e(Len(starts))
  <2>1. Len(starts) \in 0..Len(starts)
    BY <1>0
  <2> QED BY <2>1, <1>2
<1>5. to = f(Len(starts))
  BY <1>1, <1>4
<1> QED BY <1>3, <1>5 DEF Chained

(* An item that is well formed is so in a larger tree too.                 *)
LEMMA StructuredExtends ==
  ASSUME NEW b, NEW part, NEW tree, Extends(tree, part), NEW p \in DOMAIN part, part[p].parts \in Seq(Position),
         Structured(b, part, p)
  PROVE  Structured(b, tree, p)
<1>1. p \in DOMAIN tree /\ tree[p] = part[p]
  BY DEF Extends
<1>2. ASSUME NEW from, NEW to, Chained(part, part[p].parts, from, to) PROVE Chained(tree, part[p].parts, from, to)
  BY <1>2, ChainedExtends
<1> QED BY <1>1, <1>2 DEF Structured

--------------------------------------------------------------------------------
(* The loops, items and inputs as they are, and with them the type         *)
(* invariant.                                                              *)
FrameType ==
  [pos : Nat, kind : {"top", "array", "map", "tag"}, count : Nat, parts : Seq(Position), previous : SUBSET Seq(Byte)]
ItemType == [parts : Seq(Position), to : Position]
InputOK ==
  /\ buffer \in Seq(Byte)
  /\ document.tree \in [DOMAIN document.tree -> ItemType] /\ document.tops \in Seq(Position)
  /\ Items(buffer, document)
  /\ \/ call.fn = "check" /\ call.mode \in Modes /\ call.sequence \in BOOLEAN
     \/ call.fn = "locate" /\ call.path \in Paths
     \/ call.fn \in {"map", "array"} /\ call.context \in Contexts
TypeOK ==
  /\ InputOK
  /\ at \in 1..(Len(buffer) + 1)
  /\ frames \in Seq(FrameType) /\ frames # <<>> /\ frames[1].kind = "top"
  /\ found \in [DOMAIN found -> ItemType]
  /\ rest \in Seq(Steps) /\ trail \in Seq(Position) /\ open \in BOOLEAN /\ left \in Nat
  /\ spans \in Seq([from : Position, to : Position])
  /\ pc \in {"next", "returned", "accepted", "refused", "step", "skip", "span", "nowhere", "head", "entry", "decoded"}
  /\ pc = "skip" => rest # <<>>

(* A set of items with one more.                                           *)
LEMMA WithType ==
  ASSUME NEW tree, tree \in [DOMAIN tree -> ItemType], NEW p, NEW item \in ItemType
  PROVE  With(tree, p, item) \in [DOMAIN With(tree, p, item) -> ItemType]
  BY DEF With

(* One field of a frame is set.                                            *)
LEMMA FrameFields ==
  ASSUME NEW f \in FrameType
  PROVE  /\ f.pos \in Nat /\ f.kind \in {"top", "array", "map", "tag"} /\ f.count \in Nat
         /\ f.parts \in Seq(Position) /\ f.previous \in SUBSET Seq(Byte)
         /\ \A x \in Seq(Position) :
              LET g == [f EXCEPT !.parts = x]
              IN g \in FrameType /\ g.parts = x /\ g.pos = f.pos /\ g.kind = f.kind /\ g.count = f.count
                 /\ g.previous = f.previous
         /\ \A x \in SUBSET Seq(Byte) :
              LET g == [f EXCEPT !.previous = x]
              IN g \in FrameType /\ g.previous = x /\ g.pos = f.pos /\ g.kind = f.kind /\ g.count = f.count
                 /\ g.parts = f.parts
  BY DEF FrameType

(* A part that is begun is recorded in the innermost loop, and nothing     *)
(* else changes.                                                           *)
LEMMA BeginPartFrames ==
  ASSUME frames \in Seq(FrameType), frames # <<>>, at \in Position
  PROVE  LET n == Len(frames) IN
         /\ n \in Nat \ {0} /\ DOMAIN frames = 1..n /\ \A i \in 1..n : frames[i] \in FrameType
         /\ BeginPart \in Seq(FrameType) /\ Len(BeginPart) = n
         /\ \A i \in 1..n : i # n => BeginPart[i] = frames[i]
         /\ BeginPart[n] \in FrameType
         /\ BeginPart[n].pos = frames[n].pos /\ BeginPart[n].kind = frames[n].kind
         /\ BeginPart[n].count = frames[n].count /\ BeginPart[n].previous = frames[n].previous
         /\ BeginPart[n].parts = Append(frames[n].parts, at)
<1> DEFINE n == Len(frames)  g == [frames[n] EXCEPT !.parts = Append(frames[n].parts, at)]
<1>1. n \in Nat \ {0} /\ DOMAIN frames = 1..n
  BY EmptySeq, LenProperties
<1>2. \A i \in 1..n : frames[i] \in FrameType
  BY ElementOfSeq
<1>3. n \in 1..Len(frames) /\ frames[n] \in FrameType
  BY <1>1, <1>2
<1>4. Append(frames[n].parts, at) \in Seq(Position)
  BY <1>3, FrameFields, AppendProperties
<1>5. /\ g \in FrameType /\ g.parts = Append(frames[n].parts, at)
      /\ g.pos = frames[n].pos /\ g.kind = frames[n].kind
      /\ g.count = frames[n].count /\ g.previous = frames[n].previous
  BY Zenon, <1>3, <1>4, FrameFields
<1>6. BeginPart = [frames EXCEPT ![n] = g]
  BY DEF BeginPart
<1> HIDE DEF g
<1>7. /\ BeginPart \in Seq(FrameType) /\ Len(BeginPart) = n
      /\ \A i \in 1..n : BeginPart[i] = IF i = n THEN g ELSE frames[i]
  BY <1>3, <1>5, <1>6, ExceptSeq
<1>8. BeginPart[n] = g
  BY <1>3, <1>7
<1> QED BY <1>1, <1>2, <1>5, <1>7, <1>8

(* What is at a position that is read, and what is skipped there.          *)
LEMMA SkipType ==
  ASSUME InputOK, NEW p, Skips(p)
  PROVE  /\ p \in DOMAIN buffer /\ p \in Nat \ {0} /\ SkipEnd(p) \in (p + 1)..(Len(buffer) + 1)
         /\ Structured(buffer, document.tree, p) /\ document.tree[p] \in ItemType
<1>1. p \in DOMAIN buffer /\ Structured(buffer, document.tree, p)
  BY DEF InputOK, Skips, Items
<1>2. document.tree[p] \in ItemType
  BY DEF InputOK, Skips
<1>3. DOMAIN buffer = 1..Len(buffer)
  BY LenProperties DEF InputOK
<1>4. document.tree[p].to \in (p + 1)..(Len(buffer) + 1)
  BY <1>1 DEF Structured
<1> QED BY <1>1, <1>2, <1>3, <1>4 DEF SkipEnd, ItemType

(* The head at the position.                                               *)
LEMMA HereType ==
  ASSUME TypeOK
  PROVE  LET h == Here IN
            /\ h.ok \in BOOLEAN /\ h.major \in 0..8 /\ h.info \in 0..31 /\ h.at \in Nat /\ at <= h.at
            /\ h.arg \in Seq(Byte) /\ Len(h.arg) \in {1, 2, 4, 8} /\ Value(h.arg) \in Nat
            /\ StringEnd(h) \in Nat /\ h.at <= StringEnd(h)
            /\ h.ok => /\ at \in DOMAIN buffer /\ h.at \in (at + 1)..(Len(buffer) + 1)
                       /\ h.major \in 0..7 /\ h.info \notin 28..30
<1>1. buffer \in Seq(Byte) /\ at \in Nat \ {0}
  BY LenProperties DEF TypeOK, InputOK
<1> DEFINE h == Here
<1>2. /\ h.ok \in BOOLEAN /\ h.major \in 0..8 /\ h.info \in 0..31 /\ h.at \in Nat /\ at <= h.at
      /\ h.arg \in Seq(Byte) /\ Len(h.arg) \in {1, 2, 4, 8}
  BY <1>1, HeadType DEF Here
<1>3. Value(h.arg) \in Nat
  BY <1>2, ValueType
<1>4. h.ok => at \in DOMAIN buffer /\ at < h.at /\ h.at <= Len(buffer) + 1 /\ h.major \in 0..7 /\ h.info \notin 28..30
  BY <1>1, HeadType, Zenon DEF Here
<1> HIDE DEF h
<1>5. h.ok => h.at \in (at + 1)..(Len(buffer) + 1)
  <2>1. Len(buffer) \in Nat
    BY <1>1, LenProperties
  <2> QED BY <2>1, <1>1, <1>2, <1>4
<1> QED BY <1>2, <1>3, <1>4, <1>5 DEF StringEnd, h

(* A call begins in a state of its type.                                   *)
LEMMA InitType == Init => TypeOK
<1> SUFFICES ASSUME Init PROVE TypeOK
  OBVIOUS
<1>1. PICK i \in Inputs : buffer = i.buffer /\ document = i.document /\ call \in Calls(i)
  BY DEF Init
<1>2. InputOK
  <2>1. /\ i.buffer \in Seq(Byte)
        /\ i.document.tree \in [DOMAIN i.document.tree -> [parts : Seq(Position), to : Position]]
        /\ i.document.tops \in Seq(Position)
        /\ Items(i.buffer, i.document)
    BY InputsAssumption DEF InputsAssumption
  <2>2. \/ call.fn = "check" /\ call.mode \in Modes /\ call.sequence \in BOOLEAN
        \/ call.fn = "locate" /\ call.path \in Paths
        \/ call.fn \in {"map", "array"} /\ call.context \in Contexts
    BY <1>1, InputsAssumption DEF InputsAssumption
  <2> QED BY <1>1, <2>1, <2>2 DEF InputOK, ItemType
<1>3. frames \in Seq(FrameType) /\ frames # <<>> /\ frames[1].kind = "top"
  BY DEF Init, Frame, FrameType
<1>4. rest \in Seq(Steps)
  BY <1>2 DEF Init, InputOK, Paths
<1>5. pc \in {"next", "returned", "accepted", "refused", "step", "skip", "span", "nowhere", "head", "entry", "decoded"} /\ pc # "skip"
  BY <1>2 DEF Init, Begin, InputOK
<1>6. found \in [DOMAIN found -> ItemType]
  BY DEF Init
<1>7. at = 1 /\ trail = <<>> /\ open = FALSE /\ left = 0 /\ spans = <<>>
  BY DEF Init
<1>8. trail \in Seq(Position) /\ spans \in Seq([from : Position, to : Position])
  BY <1>7
<1>9. at \in 1..(Len(buffer) + 1) /\ left \in Nat
  <2>1. Len(buffer) \in Nat
    BY <1>2, LenProperties DEF InputOK
  <2> QED BY <1>7, <2>1
<1>10. open \in BOOLEAN
  BY <1>7
<1> QED BY <1>2, <1>3, <1>4, <1>5, <1>6, <1>8, <1>9, <1>10, Zenon DEF TypeOK

(* The parts of the type invariant that actions leave alone.               *)
AtType == at \in 1..(Len(buffer) + 1)
FramesType == frames \in Seq(FrameType) /\ frames # <<>> /\ frames[1].kind = "top"
FoundType == found \in [DOMAIN found -> ItemType]
WayType == rest \in Seq(Steps) /\ trail \in Seq(Position) /\ open \in BOOLEAN /\ left \in Nat
SpansType == spans \in Seq([from : Position, to : Position])
PcType ==
  /\ pc \in {"next", "returned", "accepted", "refused", "step", "skip", "span", "nowhere", "head", "entry", "decoded"}
  /\ pc = "skip" => rest # <<>>

(* The type invariant by its parts.                                        *)
LEMMA TypeParts ==
  TypeOK <=> InputOK /\ AtType /\ FramesType /\ FoundType /\ WayType /\ SpansType /\ PcType
  BY Zenon DEF TypeOK, AtType, FramesType, FoundType, WayType, SpansType, PcType

(* No action changes the input.                                            *)
LEMMA InputSame == InputOK /\ UNCHANGED input => InputOK'
  BY DEF InputOK, input

(* The loops after a part is begun.                                        *)
LEMMA BeginPartType ==
  ASSUME TypeOK
  PROVE  /\ BeginPart \in Seq(FrameType) /\ BeginPart # <<>> /\ BeginPart[1].kind = "top"
         /\ Len(frames) \in Nat \ {0} /\ Inner \in FrameType /\ \A i \in 1..Len(frames) : frames[i] \in FrameType
<1>1. frames \in Seq(FrameType) /\ frames # <<>> /\ at \in Position /\ frames[1].kind = "top"
  BY LenProperties DEF TypeOK, Position, InputOK
<1>2. /\ Len(frames) \in Nat \ {0} /\ DOMAIN frames = 1..Len(frames)
      /\ \A i \in 1..Len(frames) : frames[i] \in FrameType
      /\ BeginPart \in Seq(FrameType) /\ Len(BeginPart) = Len(frames)
      /\ \A i \in 1..Len(frames) : i # Len(frames) => BeginPart[i] = frames[i]
      /\ BeginPart[Len(frames)].kind = frames[Len(frames)].kind
  BY Zenon, <1>1, BeginPartFrames
<1> DEFINE n == Len(frames)
<1>3. n \in 1..n /\ Inner = frames[n] /\ Len(BeginPart) = n /\ n \in Nat \ {0}
  BY <1>2 DEF Inner
<1> HIDE DEF n
<1>30. Inner \in FrameType
  BY Zenon, <1>2, <1>3 DEF n
<1>31. BeginPart # <<>>
  BY <1>3
<1>4. BeginPart[1].kind = "top"
  <2>1. CASE n = 1
    <3>1. BeginPart[1].kind = frames[1].kind
      BY <1>2, <2>1 DEF n
    <3> QED BY <1>1, <3>1
  <2>2. CASE n # 1
    <3>1. 1 \in 1..n
      BY <1>3
    <3>2. BeginPart[1] = frames[1]
      BY Zenon, <1>2, <2>2, <3>1 DEF n
    <3> QED BY <1>1, <3>2
  <2> QED BY <2>1, <2>2
<1> QED BY Zenon, <1>2, <1>30, <1>31, <1>4

(* The head of what a bignum tag contains.                                 *)
LEMMA BignumHead ==
  ASSUME TypeOK, Here.ok
  PROVE  LET c == ReadHead(buffer, Here.at)
         IN /\ c.at \in Nat /\ Here.at <= c.at /\ Value(c.arg) \in Nat /\ StringEnd(c) \in Nat /\ c.at <= StringEnd(c)
            /\ c.arg \in Seq(Byte) /\ c.ok \in BOOLEAN
<1>1. buffer \in Seq(Byte) /\ at \in Nat /\ Here.at \in (at + 1)..(Len(buffer) + 1)
  BY HereType, LenProperties DEF TypeOK, InputOK
<1>2. Here.at \in Nat \ {0}
  BY <1>1
<1> DEFINE c == ReadHead(buffer, Here.at)
<1>3. c.at \in Nat /\ Here.at <= c.at /\ c.arg \in Seq(Byte) /\ c.ok \in BOOLEAN
  BY <1>1, <1>2, HeadType
<1>4. Value(c.arg) \in Nat
  BY <1>3, ValueType
<1> HIDE DEF c
<1> QED BY <1>3, <1>4 DEF StringEnd, c

(* Where an accepted item ends.                                            *)
LEMMA AcceptedEnds ==
  ASSUME TypeOK, HeadAccepted(Here)
  PROVE  /\ Here.ok /\ Here.at \in (at + 1)..(Len(buffer) + 1)
         /\ Here.major \in {2, 3} => StringEnd(Here) \in (at + 1)..(Len(buffer) + 1)
         /\ Bignum(Here) => StringEnd(ReadHead(buffer, Here.at)) \in (Here.at + 1)..(Len(buffer) + 1)
<1>1. Here.ok
  BY DEF HeadAccepted
<1>2. at \in Nat /\ Len(buffer) \in Nat /\ Here.at \in (at + 1)..(Len(buffer) + 1)
      /\ StringEnd(Here) \in Nat /\ Here.at <= StringEnd(Here)
  BY <1>1, HereType, LenProperties DEF TypeOK, InputOK
<1>3. Here.major \in {2, 3} => StringEnd(Here) <= Len(buffer) + 1
  BY DEF HeadAccepted, TextRead, StringRead
<1>4. ASSUME Bignum(Here) PROVE StringEnd(ReadHead(buffer, Here.at)) \in (Here.at + 1)..(Len(buffer) + 1)
  <2> DEFINE c == ReadHead(buffer, Here.at)
  <2>1. BignumRead(c)
    BY <1>4 DEF HeadAccepted, Bignum
  <2>2. c.at \in Nat /\ Here.at <= c.at /\ Value(c.arg) \in Nat /\ StringEnd(c) = c.at + Value(c.arg)
    BY <1>1, BignumHead DEF StringEnd
  <2>3. StringEnd(c) <= Len(buffer) + 1 /\ Value(c.arg) > 0
    BY <2>1 DEF BignumRead, StringRead
  <2> HIDE DEF c
  <2> QED BY <1>2, <2>2, <2>3 DEF c
<1> QED BY <1>1, <1>2, <1>3, <1>4

(* Beginning a container leaves the loops of their type.                   *)
LEMMA WalkPartsType ==
  ASSUME TypeOK, WalkParts
  PROVE  FramesType'
<1>1. PICK kind \in {"array", "map", "tag"} :
        frames' = Append(BeginPart, Frame(at, kind,
          CASE kind = "array" -> Value(Here.arg) [] kind = "map" -> 2 * Value(Here.arg) [] kind = "tag" -> 1))
  BY DEF WalkParts
<1> DEFINE count == CASE kind = "array" -> Value(Here.arg) [] kind = "map" -> 2 * Value(Here.arg) [] kind = "tag" -> 1
<1>2. count \in Nat
  BY HereType
<1> HIDE DEF count
<1>3. Frame(at, kind, count) \in FrameType
  <2>1. at \in Nat /\ <<>> \in Seq(Position) /\ {} \in SUBSET Seq(Byte)
    BY LenProperties DEF TypeOK, InputOK
  <2> QED BY <1>2, <2>1 DEF Frame, FrameType
<1>4. frames' = Append(BeginPart, Frame(at, kind, count))
  BY <1>1 DEF count
<1>5. BeginPart \in Seq(FrameType) /\ BeginPart # <<>> /\ BeginPart[1].kind = "top"
  BY BeginPartType
<1> QED BY <1>3, <1>4, <1>5, AppendProperties, EmptySeq, LenProperties DEF FramesType

(* A sequence without its last element.                                    *)
LEMMA PopFrame ==
  ASSUME NEW S, NEW s, NEW n \in Nat, n > 0, \A i \in 1..(n + 1) : s[i] \in S
  PROVE  /\ SubSeq(s, 1, n) \in Seq(S) /\ Len(SubSeq(s, 1, n)) = n
         /\ \A i \in 1..n : SubSeq(s, 1, n)[i] = s[i]
<1>1. 1 \in Int /\ n \in Int /\ \A i \in 1..n : s[i] \in S
  OBVIOUS
<1>2. /\ SubSeq(s, 1, n) \in Seq(S) /\ Len(SubSeq(s, 1, n)) = (IF 1 <= n THEN n - 1 + 1 ELSE 0)
      /\ \A i \in 1..(n - 1 + 1) : SubSeq(s, 1, n)[i] = s[1 + i - 1]
  BY <1>1, SubSeqProperties
<1> QED BY <1>2

(* Ending a container leaves the loops and what was found of their type.   *)
LEMMA WalkReturnType ==
  ASSUME TypeOK, WalkReturn
  PROVE  FramesType' /\ FoundType'
<1> DEFINE n == Len(frames)
<1>1. n \in Nat \ {0} /\ Inner \in FrameType /\ Inner = frames[n] /\ Inner.kind # "top"
      /\ \A i \in 1..n : frames[i] \in FrameType
  BY BeginPartType DEF Inner, WalkReturn
<1>2. n # 1
  BY <1>1 DEF TypeOK
<1>3. frames' \in Seq(FrameType) /\ Len(frames') = n - 1 /\ frames'[1] = frames[1]
  <2> DEFINE m == n - 1
  <2>0. n \in Nat \ {0}
    BY <1>1
  <2>1. m \in Nat /\ m > 0 /\ 1 \in 1..m
    <3> HIDE DEF n
    <3> QED BY <2>0, <1>2
  <2>2. \A i \in 1..(m + 1) : frames[i] \in FrameType
    BY <1>1
  <2>3. frames' = SubSeq(frames, 1, m)
    BY DEF WalkReturn
  <2> HIDE DEF m
  <2>4. frames' \in Seq(FrameType) /\ Len(frames') = m /\ frames'[1] = frames[1]
    BY <2>1, <2>2, <2>3, PopFrame
  <2> QED BY <2>4 DEF m
<1>4. frames' # <<>>
  BY <1>1, <1>2, <1>3
<1>5. [parts |-> Inner.parts, to |-> at] \in ItemType
  <2>1. Inner.parts \in Seq(Position) /\ at \in Position
    BY <1>1, FrameFields, LenProperties DEF TypeOK, Position, InputOK
  <2> QED BY <2>1 DEF ItemType
<1>6. FoundType'
  BY <1>5, WithType DEF WalkReturn, FoundType, TypeOK
<1> QED BY <1>3, <1>4, <1>6 DEF FramesType, TypeOK

(* Remembering a key leaves the loops of their type.                       *)
LEMMA WalkNextType ==
  ASSUME TypeOK, WalkNext
  PROVE  FramesType'
<1> DEFINE n == Len(frames)
<1>1. n \in Nat \ {0} /\ Inner \in FrameType /\ Inner = frames[n] /\ n \in 1..n
  BY BeginPartType DEF Inner
<1>2. CASE ~AfterKey
  BY <1>2 DEF WalkNext, TypeOK, FramesType
<1>3. CASE AfterKey
  <2>0. Inner.parts \in Seq(Position)
    BY <1>1, FrameFields
  <2> DEFINE m == Len(Inner.parts)
  <2>00. m \in Nat /\ m % 2 = 1
    BY <2>0, <1>3, LenProperties DEF AfterKey
  <2> HIDE DEF m
  <2>01. m \in Nat \ {0}
    BY <2>00
  <2>1. Inner.parts \in Seq(Position) /\ Len(Inner.parts) \in Nat \ {0}
    BY <2>0, <2>01 DEF m
  <2>2. Inner.parts[Len(Inner.parts)] \in Position
    BY <2>1, ElementOfSeq
  <2>3. buffer \in Seq(Byte) /\ Len(buffer) \in Nat /\ at - 1 \in Nat /\ at - 1 <= Len(buffer)
    BY LenProperties DEF TypeOK, InputOK
  <2>4. Key \in Seq(Byte)
    BY <2>2, <2>3, CutType DEF Key
  <2> DEFINE g == [frames[n] EXCEPT !.previous = {Key}]
  <2>5. {Key} \in SUBSET Seq(Byte) /\ frames[n] \in FrameType
    BY <1>1, <2>4
  <2>50. g \in FrameType /\ g.kind = frames[n].kind
    BY <2>5, FrameFields
  <2>6. frames' = [frames EXCEPT ![n] = g]
    BY <1>3 DEF WalkNext
  <2> HIDE DEF g
  <2>7. frames' \in Seq(FrameType) /\ Len(frames') = n /\ \A i \in 1..n : frames'[i] = IF i = n THEN g ELSE frames[i]
    BY <1>1, <2>50, <2>6, ExceptSeq DEF TypeOK
  <2>8. frames' # <<>> /\ frames'[1].kind = "top"
    BY <1>1, <2>50, <2>7 DEF TypeOK
  <2> QED BY <2>7, <2>8 DEF FramesType
<1> QED BY <1>2, <1>3

(* The walk keeps the type invariant.                                      *)
LEMMA CheckType ==
  ASSUME TypeOK, CheckSerialization
  PROVE  TypeOK'
<1> USE DEF input, walk, way
<1>0. InputOK /\ AtType /\ FramesType /\ FoundType /\ WayType /\ SpansType /\ PcType
  BY TypeParts
<1>1. UNCHANGED <<buffer, document, call, rest, trail, open, left, spans>>
  BY DEF CheckSerialization, WalkRefused, WalkLeaf, WalkBignum, WalkIndefinite, WalkParts, WalkReturn, WalkNext, KeyRefused,
         CheckReturn, Walking
<1>2. InputOK' /\ WayType' /\ SpansType'
  BY <1>0, <1>1, InputSame DEF WayType, SpansType
<1>3. PcType'
  BY <1>0 DEF CheckSerialization, WalkRefused, WalkLeaf, WalkBignum, WalkIndefinite, WalkParts, WalkReturn, WalkNext, KeyRefused,
              CheckReturn, Walking, PcType
<1>4. BeginPart \in Seq(FrameType) /\ BeginPart # <<>> /\ BeginPart[1].kind = "top"
  BY BeginPartType
<1>5. Len(buffer) \in Nat /\ at \in Nat \ {0} /\ at <= Len(buffer) + 1
  BY <1>0, LenProperties DEF AtType, InputOK
<1>6. CASE WalkRefused \/ KeyRefused \/ CheckReturn
  <2>1. AtType' /\ FramesType' /\ FoundType'
    BY <1>0, <1>1, <1>6 DEF WalkRefused, Walking, KeyRefused, CheckReturn, AtType, FramesType, FoundType
  <2> QED BY <1>2, <1>3, <2>1, TypeParts, PTL
<1>7. CASE WalkLeaf
  <2>1. AtType'
    BY <1>1, <1>5, <1>7, AcceptedEnds DEF WalkLeaf, AtType
  <2>2. [parts |-> <<>>, to |-> at'] \in ItemType
    BY <1>1, <1>5, <2>1 DEF ItemType, AtType, Position
  <2>3. FramesType' /\ FoundType'
    BY <1>0, <1>4, <1>7, <2>2, WithType DEF WalkLeaf, FramesType, FoundType
  <2> QED BY <1>2, <1>3, <2>1, <2>3, TypeParts, PTL
<1>8. CASE WalkBignum
  <2>0. Here.at \in Position /\ at' \in (Here.at + 1)..(Len(buffer) + 1)
    BY <1>5, <1>8, AcceptedEnds DEF WalkBignum, Position
  <2>1. AtType'
    BY <1>1, <1>5, <2>0 DEF AtType, Position
  <2>2. [parts |-> <<>>, to |-> at'] \in ItemType /\ [parts |-> <<Here.at>>, to |-> at'] \in ItemType
    BY <1>1, <1>5, <2>0, <2>1 DEF ItemType, AtType, Position
  <2> DEFINE tree == With(found, Here.at, [parts |-> <<>>, to |-> at'])
  <2>3. tree \in [DOMAIN tree -> ItemType]
    BY <1>0, <2>2, WithType DEF FoundType
  <2>4. found' = With(tree, at, [parts |-> <<Here.at>>, to |-> at'])
    BY <1>8 DEF WalkBignum
  <2> HIDE DEF tree
  <2>5. FramesType' /\ FoundType'
    BY <1>4, <1>8, <2>2, <2>3, <2>4, WithType DEF WalkBignum, FramesType, FoundType
  <2> QED BY <1>2, <1>3, <2>1, <2>5, TypeParts, PTL
<1>9. CASE WalkIndefinite
  <2>1. AtType'
    <3>1. CASE at \in DOMAIN document.tree
      <4>1. at' = SkipEnd(at) /\ Skips(at)
        BY <1>9, <3>1 DEF WalkIndefinite, Skips, SkipEnd
      <4> QED BY <1>0, <1>1, <1>5, <4>1, SkipType DEF AtType
    <3>2. CASE at \notin DOMAIN document.tree
      BY <1>1, <1>5, <1>9, <3>2 DEF WalkIndefinite, AtType
    <3> QED BY <3>1, <3>2
  <2>2. FramesType' /\ FoundType'
    BY <1>0, <1>4, <1>9 DEF WalkIndefinite, FramesType, FoundType
  <2> QED BY <1>2, <1>3, <2>1, <2>2, TypeParts, PTL
<1>10. CASE WalkParts
  <2>1. AtType' /\ FoundType'
    BY <1>0, <1>1, <1>5, <1>10, AcceptedEnds DEF WalkParts, AtType, FoundType
  <2> QED BY <1>2, <1>3, <1>10, <2>1, WalkPartsType, TypeParts, PTL
<1>11. CASE WalkReturn
  <2>1. AtType'
    BY <1>0, <1>1, <1>11 DEF WalkReturn, AtType
  <2> QED BY <1>2, <1>3, <1>11, <2>1, WalkReturnType, TypeParts, PTL
<1>12. CASE WalkNext
  <2>1. AtType' /\ FoundType'
    BY <1>0, <1>1, <1>12 DEF WalkNext, AtType, FoundType
  <2> QED BY <1>2, <1>3, <1>12, <2>1, WalkNextType, TypeParts, PTL
<1> QED BY <1>6, <1>7, <1>8, <1>9, <1>10, <1>11, <1>12 DEF CheckSerialization

(* The search keeps the type invariant.                                    *)
LEMMA LocateType ==
  ASSUME TypeOK, ItemSpanAtPath
  PROVE  TypeOK'
<1> USE DEF input, walk, way
<1>0. InputOK /\ AtType /\ FramesType /\ FoundType /\ WayType /\ SpansType /\ PcType
  BY TypeParts
<1>1. UNCHANGED <<buffer, document, call, frames, found>>
  BY DEF ItemSpanAtPath, LocateEnter, LocateSkip, LocateArrive, LocateFound, LocateRefused, Locating
<1>2. InputOK' /\ FramesType' /\ FoundType'
  BY <1>0, <1>1, InputSame DEF FramesType, FoundType
<1>3. PcType'
  BY <1>0 DEF ItemSpanAtPath, LocateEnter, LocateSkip, LocateArrive, LocateFound, LocateRefused, Locating, PcType
<1>5. Len(buffer) \in Nat /\ at \in Position /\ at <= Len(buffer) + 1
  BY <1>0, LenProperties DEF AtType, InputOK, Position
<1>6. Skips(at) => SkipEnd(at) \in 1..(Len(buffer) + 1) /\ SkipEnd(at) \in Position
  BY <1>0, <1>5, SkipType DEF Position
<1>7. CASE LocateEnter
  <2>1. rest # <<>> /\ rest[1] \in Steps
    BY <1>0, <1>7, LenProperties, EmptySeq, ElementOfSeq DEF LocateEnter, WayType
  <2>2. rest[1][1] \in {"top", "item", "key", "value", "inner"} /\ rest[1][2] \in Nat
    BY <2>1 DEF Steps
  <2>3. rest[1][1] # "top" => Here.ok
    BY <1>7, <2>2 DEF LocateEnter, Enters
  <2>4. AtType'
    BY <1>0, <1>1, <1>5, <1>7, <2>3, HereType DEF LocateEnter, AtType
  <2>5. PartsBefore(rest[1]) \in Nat
    BY <2>2 DEF PartsBefore
  <2>6. WayType' /\ SpansType'
    BY <1>0, <1>7, <2>5 DEF LocateEnter, WayType, SpansType
  <2> QED BY <1>2, <1>3, <2>4, <2>6, TypeParts, PTL
<1>8. CASE LocateSkip
  <2>1. AtType' /\ WayType' /\ SpansType'
    BY <1>0, <1>1, <1>6, <1>8 DEF LocateSkip, AtType, WayType, SpansType
  <2> QED BY <1>2, <1>3, <2>1, TypeParts, PTL
<1>9. CASE LocateArrive
  <2>1. Tail(rest) \in Seq(Steps)
    BY <1>0, <1>9, HeadTailProperties DEF LocateArrive, WayType, PcType
  <2>2. Append(trail, at) \in Seq(Position)
    BY <1>0, <1>5, AppendProperties DEF WayType
  <2>3. AtType' /\ WayType' /\ SpansType'
    BY <1>0, <1>1, <1>9, <2>1, <2>2 DEF LocateArrive, AtType, WayType, SpansType
  <2> QED BY <1>2, <1>3, <2>3, TypeParts, PTL
<1>10. CASE LocateFound
  <2>1. [from |-> at, to |-> SkipEnd(at)] \in [from : Position, to : Position]
    BY <1>5, <1>6, <1>10 DEF LocateFound
  <2>2. AtType' /\ WayType' /\ SpansType'
    BY <1>0, <1>1, <1>6, <1>10, <2>1 DEF LocateFound, AtType, WayType, SpansType
  <2> QED BY <1>2, <1>3, <2>2, TypeParts, PTL
<1>11. CASE LocateRefused
  <2>1. AtType' /\ WayType' /\ SpansType'
    BY <1>0, <1>1, <1>11 DEF LocateRefused, AtType, WayType, SpansType
  <2> QED BY <1>2, <1>3, <2>1, TypeParts, PTL
<1> QED BY <1>7, <1>8, <1>9, <1>10, <1>11 DEF ItemSpanAtPath

(* The decoders keep the type invariant.                                   *)
LEMMA DecodeType ==
  ASSUME TypeOK, Decode
  PROVE  TypeOK'
<1> USE DEF input, walk, way
<1>0. InputOK /\ AtType /\ FramesType /\ FoundType /\ WayType /\ SpansType /\ PcType
  BY TypeParts
<1>1. UNCHANGED <<buffer, document, call, frames, found, rest, trail, open>>
  BY DEF Decode, DecodeHead, DecodeEntry, DecodeElement, DecodeReturn, DecodeRefused, Decoding
<1>2. InputOK' /\ FramesType' /\ FoundType'
  BY <1>0, <1>1, InputSame DEF FramesType, FoundType
<1>3. PcType'
  BY <1>0 DEF Decode, DecodeHead, DecodeEntry, DecodeElement, DecodeReturn, DecodeRefused, Decoding, PcType
<1>5. Len(buffer) \in Nat /\ at \in Position /\ at <= Len(buffer) + 1
  BY <1>0, LenProperties DEF AtType, InputOK, Position
<1>6. \A p : Skips(p) => p \in Position /\ SkipEnd(p) \in 1..(Len(buffer) + 1) /\ SkipEnd(p) \in Position
  BY <1>0, <1>5, SkipType DEF Position
<1>7. CASE DecodeHead
  <2>1. AtType'
    BY <1>1, <1>5, <1>7, HereType DEF DecodeHead, Entered, AtType
  <2>2. WayType' /\ SpansType'
    BY <1>0, <1>1, <1>7, HereType DEF DecodeHead, WayType, SpansType
  <2> QED BY <1>2, <1>3, <2>1, <2>2, TypeParts, PTL
<1>8. CASE DecodeEntry
  <2> DEFINE m == SkipEnd(at)  e == SkipEnd(SkipEnd(at))
  <2>1. m \in Position /\ e \in Position /\ e \in 1..(Len(buffer) + 1)
    BY <1>6, <1>8 DEF DecodeEntry, SkipsEntry
  <2>2. /\ at' = e /\ left' = left - 1 /\ left > 0
        /\ spans' = spans \o <<[from |-> at, to |-> m], [from |-> m, to |-> e]>>
    BY <1>8 DEF DecodeEntry, Span
  <2> HIDE DEF m, e
  <2>3. <<[from |-> at, to |-> m], [from |-> m, to |-> e]>> \in Seq([from : Position, to : Position])
    BY <1>5, <2>1
  <2>4. SpansType'
    BY <1>0, <2>2, <2>3, ConcatProperties DEF SpansType
  <2>5. AtType' /\ WayType'
    BY <1>0, <1>1, <2>1, <2>2 DEF AtType, WayType
  <2> QED BY <1>2, <1>3, <2>4, <2>5, TypeParts, PTL
<1>9. CASE DecodeElement
  <2>1. Span(at, at') \in [from : Position, to : Position]
    BY <1>5, <1>6, <1>9 DEF DecodeElement, Span
  <2>2. AtType' /\ WayType' /\ SpansType'
    BY <1>0, <1>1, <1>6, <1>9, <2>1, AppendProperties DEF DecodeElement, AtType, WayType, SpansType
  <2> QED BY <1>2, <1>3, <2>2, TypeParts, PTL
<1>10. CASE DecodeReturn \/ DecodeRefused
  <2>1. AtType' /\ WayType' /\ SpansType'
    BY <1>0, <1>1, <1>10 DEF DecodeReturn, DecodeRefused, AtType, WayType, SpansType
  <2> QED BY <1>2, <1>3, <2>1, TypeParts, PTL
<1> QED BY <1>7, <1>8, <1>9, <1>10 DEF Decode

(* Every step keeps the type invariant.                                    *)
LEMMA TypeStep == TypeOK /\ [Next]_vars => TypeOK'
<1> SUFFICES ASSUME TypeOK, [Next]_vars PROVE TypeOK'
  OBVIOUS
<1>1. CASE UNCHANGED vars
  BY <1>1 DEF vars, TypeOK, InputOK
<1> QED BY <1>1, CheckType, LocateType, DecodeType DEF Next

(* Positions stay within the buffer, and what the walk, the search and the *)
(* decoders keep is of its type.                                           *)
THEOREM TypeInvariant == Spec => []TypeOK
  BY InitType, TypeStep, PTL DEF Spec

--------------------------------------------------------------------------------
(* A head that is read, with an argument of definite length.               *)
LEMMA HeadIs ==
  ASSUME NEW b \in Seq(Byte), NEW p \in Position, ReadHead(b, p).ok, Definite(ReadHead(b, p))
  PROVE  HeadOk(ReadHead(b, p))
<1> DEFINE h == ReadHead(b, p)
<1>1. /\ h.info \in 0..31 /\ h.arg \in Seq(Byte) /\ h.info \notin 28..30
      /\ Len(h.arg) = (IF h.info \in 24..27 THEN Extra(h.info) ELSE 1)
      /\ h.info \notin 24..27 => h.arg = <<h.info>>
  BY HeadType DEF Position
<1>2. h.info # 31
  BY DEF Definite
<1> HIDE DEF h
<1>3. h.info \in 0..27
  BY <1>1, <1>2
<1>4. HeadOk(h)
  BY <1>1, <1>3 DEF HeadOk
<1> QED BY <1>4 DEF h

(* A float is written in the one form it has.                              *)
OneForm(h) ==
  \E v \in FloatsOf(h) :
    CASE Floats[v].class = "finite" -> \A w \in DOMAIN Floats[v].forms : Len(h.arg) <= w
      [] Floats[v].class = "infinity" -> TRUE
      [] Floats[v].class = "nan" -> h.arg = QuietNaN
NotLost(h) == \A v \in FloatsOf(h) : Floats[v].class = "finite" /\ Len(h.arg) = 8 => ~LostDouble(v)

(* What the checks of `walk_item` on a head mean, by the kind of the item. *)
LEMMA ShortestMeans ==
  ASSUME NEW b, NEW tree, NEW p, ReadHead(b, p).major \in 0..7
  PROVE  LET h == ReadHead(b, p)
             c == ReadHead(b, h.at)
         IN Shortest(b, tree, p) <=>
              /\ h.major \in {0, 1} => MinimalHead(h)
              /\ h.major \in {2, 3, 4, 5} => Definite(h) /\ MinimalHead(h)
              /\ h.major = 6 /\ Value(h.arg) \in {2, 3} =>
                   c.major = 2 /\ Definite(c) /\ Value(c.arg) > 8 /\ b[c.at] # 0
              /\ h.major = 7 /\ h.info \in 25..27 => OneForm(h)
<1> DEFINE h == ReadHead(b, p)  c == ReadHead(b, h.at)  big == Value(h.arg) \in {2, 3}
           form == \E v \in FloatsOf(h) :
                CASE Floats[v].class = "finite" -> \A w \in DOMAIN Floats[v].forms : Len(h.arg) <= w
                  [] Floats[v].class = "infinity" -> TRUE
                  [] Floats[v].class = "nan" -> h.arg = QuietNaN
           content == c.major = 2 /\ Definite(c) /\ Value(c.arg) > 8 /\ b[c.at] # 0
           minimal == MinimalHead(h)
           definite == Definite(h)
<1>1. Shortest(b, tree, p) =
        CASE h.major \in {0, 1} -> minimal
          [] h.major \in {2, 3, 4, 5} -> definite /\ minimal
          [] h.major = 6 /\ big -> content
          [] h.major = 6 /\ ~big -> TRUE
          [] h.major = 7 -> (h.info \in 25..27 => form)
  BY DEF Shortest
<1>2. form = OneForm(h)
  BY DEF OneForm
<1> HIDE DEF form, content, minimal, definite, h
<1>3. (h.major \in {0, 1} => minimal) \in BOOLEAN /\ content \in BOOLEAN /\ form \in BOOLEAN /\ minimal \in BOOLEAN /\ definite \in BOOLEAN
  BY DEF form, content, minimal, definite, MinimalHead, Definite
<1>4. h.major \in 0..7
  BY DEF h
<1>5. Shortest(b, tree, p) <=>
              /\ h.major \in {0, 1} => minimal
              /\ h.major \in {2, 3, 4, 5} => definite /\ minimal
              /\ h.major = 6 /\ big => content
              /\ h.major = 7 /\ h.info \in 25..27 => form
  <2>1. CASE h.major \in {0, 1}
    BY <1>1, <1>3, <2>1
  <2>2. CASE h.major \in {2, 3, 4, 5}
    BY <1>1, <1>3, <2>2
  <2>3. CASE h.major = 6 /\ big
    BY <1>1, <1>3, <2>3
  <2>4. CASE h.major = 6 /\ ~big
    BY <1>1, <1>3, <2>4
  <2>5. CASE h.major = 7
    <3>1. h.major \notin {0, 1} /\ h.major \notin {2, 3, 4, 5} /\ h.major # 6
      BY <2>5
    <3>2. Shortest(b, tree, p) = (h.info \in 25..27 => form)
      BY <1>1, <2>5, <3>1
    <3> QED BY <2>5, <3>1, <3>2, Zenon
  <2> QED BY <1>4, <2>1, <2>2, <2>3, <2>4, <2>5
<1> QED BY <1>2, <1>5 DEF content, minimal, definite, h

(* The widths in which a float can be written.                             *)
LEMMA LeastWidth ==
  ASSUME NEW S \in SUBSET {2, 4, 8}, NEW n \in S
  PROVE  (\A w \in S : n <= w) <=> (n = 4 => 2 \notin S) /\ (n = 8 => 2 \notin S /\ 4 \notin S)
<1>1. CASE n = 2
  BY <1>1
<1>2. CASE n = 4
  BY <1>2
<1>3. CASE n = 8
  BY <1>3
<1> QED BY <1>1, <1>2, <1>3

(* `check_shortest_float` asks for the least width, or for the one NaN.    *)
LEMMA FloatWidth ==
  ASSUME NEW h, Len(h.arg) \in {2, 4, 8}
  PROVE  ShortestFloat(h) <=> OneForm(h) /\ NotLost(h)
<1>1. ASSUME NEW v \in FloatsOf(h)
      PROVE  /\ v \in DOMAIN Floats /\ Floats[v].class \in {"finite", "infinity", "nan"}
             /\ DOMAIN Floats[v].forms \subseteq {2, 4, 8} /\ Len(h.arg) \in DOMAIN Floats[v].forms
             /\ Floats[v].single = v <=> 4 \in DOMAIN Floats[v].forms
             /\ 2 \in DOMAIN Floats[v].forms => 4 \in DOMAIN Floats[v].forms
             /\ \A u \in FloatsOf(h) : u = v
  BY FloatsAssumption DEF FloatsAssumption, FloatsOf
<1> DEFINE Accepted(v) ==
             CASE Floats[v].class = "nan" -> Len(h.arg) = 2 /\ h.arg = QuietNaN
               [] Floats[v].class = "infinity" -> TRUE
               [] Floats[v].class = "finite" ->
                    /\ Len(h.arg) = 4 => ~Half(v)
                    /\ Len(h.arg) = 8 =>
                         ~(Floats[v].single = v /\ ~Half(Floats[v].single)) /\ ~Half(Floats[v].single)
           One(v) ==
             CASE Floats[v].class = "finite" -> \A w \in DOMAIN Floats[v].forms : Len(h.arg) <= w
               [] Floats[v].class = "infinity" -> TRUE
               [] Floats[v].class = "nan" -> h.arg = QuietNaN
           Kept(v) == Floats[v].class = "finite" /\ Len(h.arg) = 8 => ~LostDouble(v)
<1>2. ASSUME NEW v \in FloatsOf(h) PROVE Accepted(v) <=> One(v) /\ Kept(v)
  <2>1. CASE Floats[v].class = "nan"
    <3>1. h.arg = QuietNaN => Len(h.arg) = 2
      BY DEF QuietNaN
    <3> QED BY <2>1, <3>1
  <2>2. CASE Floats[v].class = "infinity"
    BY <2>2
  <2>3. CASE Floats[v].class = "finite"
    <3> DEFINE forms == DOMAIN Floats[v].forms  lost == Half(Floats[v].single)
    <3>1. /\ Accepted(v) <=> (/\ Len(h.arg) = 4 => 2 \notin forms
                              /\ Len(h.arg) = 8 => ~(Floats[v].single = v /\ ~lost) /\ ~lost)
          /\ One(v) <=> (\A w \in forms : Len(h.arg) <= w)
          /\ Kept(v) <=> (Len(h.arg) = 8 => ~(4 \notin forms /\ lost))
      BY <2>3 DEF Half, LostDouble
    <3>2. forms \subseteq {2, 4, 8} /\ Len(h.arg) \in forms
          /\ (Floats[v].single = v <=> 4 \in forms) /\ (2 \in forms => 4 \in forms)
      BY <1>1
    <3> HIDE DEF forms, lost, Accepted, One, Kept
    <3>3. (\A w \in forms : Len(h.arg) <= w) <=>
            (Len(h.arg) = 4 => 2 \notin forms) /\ (Len(h.arg) = 8 => 2 \notin forms /\ 4 \notin forms)
      BY <3>2, LeastWidth
    <3> QED BY <3>1, <3>2, <3>3
  <2> QED BY <1>1, <2>1, <2>2, <2>3
<1>3. ShortestFloat(h) <=> \E v \in FloatsOf(h) : Accepted(v)
  BY DEF ShortestFloat
<1>4. OneForm(h) <=> \E v \in FloatsOf(h) : One(v)
  BY DEF OneForm
<1>5. NotLost(h) <=> \A v \in FloatsOf(h) : Kept(v)
  BY DEF NotLost
<1> HIDE DEF Accepted, One, Kept
<1> QED BY <1>1, <1>2, <1>3, <1>4, <1>5

(* What the strict walk asks of an item.                                   *)
Good(tree, p) ==
  /\ Structured(buffer, tree, p) /\ Shortest(buffer, tree, p) /\ Readable(p)
  /\ call.mode = "dtrm" => Ordered(buffer, tree, p)

(* A float has two, four or eight bytes.                                   *)
LEMMA FloatLength ==
  ASSUME NEW h, HeadOk(h), h.info \in 25..27
  PROVE  Len(h.arg) \in {2, 4, 8}
<1>1. h.info \in {25, 26, 27} /\ h.info \in 0..31 /\ h.info \in 24..27
  OBVIOUS
<1>2. Len(h.arg) = Extra(h.info)
  BY <1>1 DEF HeadOk
<1> QED BY <1>1, <1>2, ExtraType

(* An item without parts whose head is accepted is good.                   *)
LEMMA LeafGood ==
  ASSUME TypeOK, Strict, HeadAccepted(Here), Here.major \in {0, 1, 2, 3, 7}, NEW tree,
         tree[at] = [parts |-> <<>>, to |-> IF Here.major \in {2, 3} THEN StringEnd(Here) ELSE Here.at]
  PROVE  Good(tree, at)
<1> DEFINE h == Here
           to == IF Here.major \in {2, 3} THEN StringEnd(Here) ELSE Here.at
<1>0. h = ReadHead(buffer, at) /\ buffer \in Seq(Byte) /\ at \in Position
  BY LenProperties DEF Here, TypeOK, InputOK, Position
<1>1. to \in (at + 1)..(Len(buffer) + 1)
  BY AcceptedEnds
<1>2. h.ok /\ Definite(h)
  BY DEF HeadAccepted, Definite
<1>3. HeadOk(h)
  BY <1>0, <1>2, HeadIs
<1>4. Structured(buffer, tree, at)
  <2>1. tree[at].to = to /\ tree[at].parts = <<>>
    OBVIOUS
  <2>2. Len(tree[at].parts) = 0
    BY <2>1
  <2>3. h.major \in {2, 3} => to = h.at + Value(h.arg)
    BY DEF StringEnd
  <2>4. h.major \notin {2, 3} => to = h.at
    OBVIOUS
  <2> HIDE DEF h, to
  <2>5. h.major \in {0, 1, 2, 3, 7}
    BY DEF h
  <2> QED BY <1>0, <1>1, <1>2, <2>1, <2>2, <2>3, <2>4, <2>5 DEF Structured
<1>5. h.major \in {0, 1, 2, 3} => MinimalHead(h)
  BY <1>3, WidthChecks DEF HeadAccepted
<1>6. h.major = 7 /\ h.info \in 25..27 => ShortestFloat(h) /\ Len(h.arg) \in {2, 4, 8}
  BY <1>3, FloatLength DEF HeadAccepted
<1>7. h.major = 7 /\ h.info \in 25..27 => OneForm(h) /\ NotLost(h)
  BY <1>6, FloatWidth
<1>8. Shortest(buffer, tree, at)
  BY <1>0, <1>2, <1>5, <1>7, ShortestMeans
<1>9. Readable(at)
  <2>1. h.major = 1 => IntInRange(h)
    BY DEF HeadAccepted
  <2>2. h.major = 3 => TextRead(h)
    BY DEF HeadAccepted
  <2>3. h.major = 7 => h.info \in 20..23 \/ h.info \in 25..27
    BY DEF HeadAccepted
  <2> HIDE DEF h
  <2> QED BY <1>0, <1>7, <2>1, <2>2, <2>3 DEF Readable, NotLost
<1>10. Ordered(buffer, tree, at)
  BY <1>0 DEF Ordered
<1> QED BY <1>4, <1>8, <1>9, <1>10 DEF Good

(* A bignum that is accepted is good, and so is its content.               *)
LEMMA BignumGood ==
  ASSUME TypeOK, Strict, HeadAccepted(Here), Bignum(Here), NEW tree, NEW e,
         e = StringEnd(ReadHead(buffer, Here.at)), Here.at \in DOMAIN tree,
         tree[Here.at] = [parts |-> <<>>, to |-> e], tree[at] = [parts |-> <<Here.at>>, to |-> e]
  PROVE  Good(tree, at) /\ Good(tree, Here.at) /\ Here.at \in DOMAIN buffer
<1> DEFINE h == Here  q == Here.at  c == ReadHead(buffer, q)
<1>0. /\ h = ReadHead(buffer, at) /\ buffer \in Seq(Byte) /\ at \in Position /\ Len(buffer) \in Nat
      /\ q \in (at + 1)..(Len(buffer) + 1) /\ e \in (q + 1)..(Len(buffer) + 1)
  BY AcceptedEnds, LenProperties DEF Here, TypeOK, InputOK, Position
<1>1. q \in Position
  BY <1>0 DEF Position
<1>2. h.ok /\ h.major = 6 /\ Definite(h) /\ Value(h.arg) \in {2, 3}
  BY DEF HeadAccepted, Bignum
<1>3. BignumRead(c)
  BY <1>2 DEF HeadAccepted
<1>4. /\ c.ok /\ c.major = 2 /\ Definite(c) /\ StringEnd(c) <= Len(buffer) + 1 /\ ShortestLength(c)
      /\ Value(c.arg) > 8 /\ buffer[c.at] # 0
  BY <1>3 DEF BignumRead, StringRead
<1>5. MinimalHead(c) /\ q \in DOMAIN buffer
  <2>1. HeadOk(c)
    BY <1>0, <1>1, <1>4, HeadIs
  <2>2. q \in DOMAIN buffer
    BY <1>0, <1>1, <1>4, HeadType DEF Position
  <2> QED BY <1>4, <2>1, <2>2, WidthChecks
<1>6. e = c.at + Value(c.arg)
  BY DEF StringEnd
<1> HIDE DEF h, q, c
<1>7. h.at = q /\ ReadHead(buffer, q) = c /\ ReadHead(buffer, at) = h
  BY <1>0 DEF h, q, c
<1>8. tree[q].parts = <<>> /\ tree[q].to = e /\ tree[at].parts = <<q>> /\ tree[at].to = e /\ q \in DOMAIN tree
  BY DEF q
<1>9. Structured(buffer, tree, q)
  <2>1. Len(tree[q].parts) = 0
    BY <1>8
  <2> QED BY <1>0, <1>4, <1>6, <1>7, <1>8, <2>1 DEF Structured
<1>10. Structured(buffer, tree, at)
  <2>1. Len(tree[at].parts) = 1 /\ DOMAIN tree[at].parts = {1} /\ tree[at].parts[1] = q
    BY <1>8
  <2>2. Chained(tree, tree[at].parts, h.at, tree[at].to)
    BY <1>7, <1>8, <2>1 DEF Chained
  <2>3. tree[at].to \in (at + 1)..(Len(buffer) + 1)
    BY <1>0, <1>8 DEF Position
  <2> QED BY <1>2, <1>7, <2>1, <2>2, <2>3 DEF Structured
<1>11. Shortest(buffer, tree, q)
  BY <1>4, <1>5, <1>7, ShortestMeans
<1>12. Shortest(buffer, tree, at)
  BY <1>2, <1>4, <1>7, ShortestMeans
<1>13. Readable(q) /\ Ordered(buffer, tree, q) /\ Readable(at) /\ Ordered(buffer, tree, at)
  BY <1>2, <1>4, <1>7 DEF Readable, Ordered
<1> QED BY <1>5, <1>9, <1>10, <1>11, <1>12, <1>13, <1>7 DEF Good, q

(* Of a canonical item the walk accepts the head.                          *)
LEMMA GoodAccepted ==
  ASSUME TypeOK, call.fn = "check", Strict, NEW tree, tree \in [DOMAIN tree -> ItemType], at \in DOMAIN tree,
         \A q \in DOMAIN tree : Structured(buffer, tree, q) /\ Shortest(buffer, tree, q) /\ Readable(q)
  PROVE  HeadAccepted(Here)
<1> DEFINE h == Here  c == ReadHead(buffer, h.at)
<1>0. h = ReadHead(buffer, at) /\ buffer \in Seq(Byte) /\ at \in Position /\ Len(buffer) \in Nat
  BY LenProperties DEF Here, TypeOK, InputOK, Position
<1>1. h.ok /\ h.major \in 0..7 /\ Value(h.arg) \in Nat /\ h.info \in 0..31 /\ h.info \notin 28..30
  <2>1. h.ok
    BY <1>0 DEF Structured
  <2> QED BY <2>1, HereType
<1>2. Shortest(buffer, tree, at) /\ Readable(at) /\ Structured(buffer, tree, at)
  OBVIOUS
<1>3. /\ h.major \in {0, 1} => MinimalHead(h)
      /\ h.major \in {2, 3, 4, 5} => Definite(h) /\ MinimalHead(h)
      /\ h.major = 6 /\ Value(h.arg) \in {2, 3} => c.major = 2 /\ Definite(c) /\ Value(c.arg) > 8 /\ buffer[c.at] # 0
      /\ h.major = 7 /\ h.info \in 25..27 => OneForm(h)
  BY <1>0, <1>1, <1>2, ShortestMeans
<1>4. h.major \in {0, 1, 6, 7} => Definite(h)
  BY <1>0, <1>2 DEF Structured
<1>5. HeadOk(h)
  BY <1>0, <1>1, <1>3, <1>4, HeadIs
<1>6. h.major \in {0, 1, 2, 3, 4, 5} => ShortestInt(h) /\ ShortestLength(h)
  BY <1>3, <1>5, WidthChecks
<1>7. h.major = 1 => IntInRange(h)
  BY <1>0, <1>2 DEF Readable
<1>8. h.major \in {2, 3} => StringRead(h)
  <2>1. h.major \in {2, 3} => tree[at].to = StringEnd(h) /\ tree[at].to <= Len(buffer) + 1
    BY <1>0, <1>2, <1>3 DEF Structured, StringEnd
  <2> QED BY <1>1, <1>3, <2>1 DEF StringRead
<1>9. h.major = 3 => TextRead(h)
  BY <1>0, <1>2 DEF Readable
<1>10. h.major = 7 => h.info \in 20..23 \/ (h.info \in 25..27 /\ ShortestFloat(h))
  <2>1. h.major = 7 => h.info \in 20..23 \/ (h.info \in 25..27 /\ NotLost(h))
    BY <1>0, <1>2 DEF Readable, NotLost
  <2>2. h.info \in 25..27 => Len(h.arg) \in {2, 4, 8}
    BY <1>5, FloatLength
  <2> QED BY <1>3, <2>1, <2>2, FloatWidth
<1>11. Bignum(h) => BignumRead(c)
  <2> SUFFICES ASSUME Bignum(h) PROVE BignumRead(c)
    OBVIOUS
  <2>0. h.major = 6 /\ Value(h.arg) \in {2, 3}
    BY DEF Bignum
  <2>1. c.major = 2 /\ Definite(c) /\ Value(c.arg) > 8 /\ buffer[c.at] # 0
    BY <1>3, <2>0
  <2>2. Len(tree[at].parts) = 1 /\ Chained(tree, tree[at].parts, h.at, tree[at].to)
    BY <1>0, <1>2, <1>4, <2>0 DEF Structured
  <2>3. tree[at].parts[1] \in DOMAIN tree /\ tree[at].parts[1] = h.at
    <3>1. tree[at].parts \in Seq(Position)
      BY DEF ItemType
    <3>2. 1 \in DOMAIN tree[at].parts
      BY <2>2, <3>1, LenProperties
    <3> QED BY <2>2, <3>2 DEF Chained
  <2>4. h.at \in DOMAIN tree /\ Structured(buffer, tree, h.at) /\ Shortest(buffer, tree, h.at)
    BY <2>3
  <2> HIDE DEF h
  <2>5. c.ok /\ tree[h.at].to = StringEnd(c) /\ tree[h.at].to <= Len(buffer) + 1
    BY <2>1, <2>4 DEF Structured, StringEnd
  <2>6. MinimalHead(c)
    BY <2>1, <2>4, ShortestMeans
  <2>7. h.at \in Position
    BY <1>0, HereType DEF h, Position
  <2>8. HeadOk(c)
    BY <1>0, <2>1, <2>5, <2>7, HeadIs
  <2>9. ShortestLength(c)
    BY <2>6, <2>8, WidthChecks
  <2>10. StringRead(c)
    BY <2>1, <2>5 DEF StringRead
  <2> HIDE DEF c
  <2>11. Value(c.arg) > 0
    <3>1. Value(c.arg) \in Nat
      BY <2>8, ValueType DEF HeadOk
    <3> QED BY <2>1, <3>1
  <2> QED BY <2>1, <2>9, <2>10, <2>11 DEF BignumRead
<1> HIDE DEF c
<1>12. c = ReadHead(buffer, h.at)
  BY DEF c
<1> HIDE DEF h
<1>13. HeadAccepted(h)
  <2>1. h.major \in {0, 1} => Definite(h) /\ IntInRange(h) /\ (Strict => ShortestInt(h))
    BY <1>4, <1>6, <1>7 DEF IntInRange
  <2>2. h.major \in {2, 3, 4, 5} => Definite(h) /\ ShortestLength(h)
    BY <1>3, <1>6
  <2>3. h.major = 2 => StringRead(h)
    BY <1>8
  <2>4. h.major = 6 => Definite(h) /\ (Bignum(h) => BignumRead(ReadHead(buffer, h.at)))
    BY <1>4, <1>11, <1>12
  <2> QED BY <1>1, <1>9, <1>10, <2>1, <2>2, <2>3, <2>4, Zenon DEF HeadAccepted
<1> QED BY <1>13 DEF h

--------------------------------------------------------------------------------
(* The invariant of a strict walk.  What was walked is good; the loops are *)
(* those of containers that are begun, each in a part of the one around    *)
(* it; the parts of a loop follow one another up to the position; and the  *)
(* keys that were checked ascend, the last of them being remembered.       *)
Depth == Len(frames)
From(i) == IF i = 1 THEN 1 ELSE ReadHead(buffer, frames[i].pos).at
End(i, k) == IF k = 0 THEN From(i) ELSE found[frames[i].parts[k]].to
Walked(i) == 1..(Len(frames[i].parts) - (IF i < Depth THEN 1 ELSE 0))
Checked(i) ==
  IF i < Depth \/ pc = "returned" THEN Len(frames[i].parts) \div 2 ELSE (Len(frames[i].parts) + 1) \div 2
KeyOf(i, k) == Bytes(buffer, found, frames[i].parts[2 * k - 1])

FoundGood == \A p \in DOMAIN found : p < at /\ p \in DOMAIN buffer /\ Good(found, p)
Opened(i) ==
  LET f == frames[i]
      h == ReadHead(buffer, f.pos)
  IN /\ f.pos \in DOMAIN buffer /\ f.pos \notin DOMAIN found /\ f.pos < at
     /\ h.ok /\ Definite(h) /\ Len(f.parts) <= f.count
     /\ \/ f.kind = "array" /\ h.major = 4 /\ MinimalHead(h) /\ f.count = Value(h.arg)
        \/ f.kind = "map" /\ h.major = 5 /\ MinimalHead(h) /\ f.count = 2 * Value(h.arg)
        \/ f.kind = "tag" /\ h.major = 6 /\ Value(h.arg) \notin {2, 3} /\ f.count = 1
OpenGood ==
  /\ \A i \in 2..Depth : Opened(i)
  /\ \A i, j \in 2..Depth : i < j => frames[i].pos < frames[j].pos
Nested(i) ==
  /\ \A k \in DOMAIN frames[i].parts : frames[i].parts[k] = End(i, k - 1)
  /\ \A k \in Walked(i) : frames[i].parts[k] \in DOMAIN found
  /\ i < Depth => frames[i].parts # <<>> /\ frames[i].parts[Len(frames[i].parts)] = frames[i + 1].pos
PartsGood ==
  /\ \A i \in 1..Depth : Nested(i)
  /\ at = End(Depth, Len(frames[Depth].parts))
  /\ pc = "returned" => frames[Depth].parts # <<>>
Remembered(i) ==
  /\ frames[i].previous = IF Checked(i) = 0 THEN {} ELSE {KeyOf(i, Checked(i))}
  /\ \A k, l \in 1..Checked(i) : k < l => Bytewise(KeyOf(i, k), KeyOf(i, l))
KeysGood == call.mode = "dtrm" => \A i \in 1..Depth : frames[i].kind = "map" => Remembered(i)
TopGood ==
  /\ ~call.sequence => Len(frames[1].parts) <= 1
  /\ pc = "accepted" => at = Len(buffer) + 1 /\ Depth = 1 /\ (call.sequence \/ Len(frames[1].parts) = 1)
  /\ pc # "accepted" => buffer # <<>>
WalkGood == FoundGood /\ OpenGood /\ PartsGood /\ KeysGood /\ TopGood
Sound ==
  call.fn = "check" /\ Strict /\ pc # "refused" => pc \in {"next", "returned", "accepted"} /\ WalkGood

(* The loops, and the innermost one.                                       *)
LEMMA FramesIs ==
  ASSUME TypeOK
  PROVE  /\ Depth \in Nat \ {0} /\ Inner = frames[Depth]
         /\ \A i \in 1..Depth :
              /\ frames[i] \in FrameType /\ frames[i].parts \in Seq(Position) /\ frames[i].pos \in Nat
              /\ Len(frames[i].parts) \in Nat /\ DOMAIN frames[i].parts = 1..Len(frames[i].parts)
              /\ \A k \in 1..Len(frames[i].parts) : frames[i].parts[k] \in Position
<1>1. Depth \in Nat \ {0} /\ Inner = frames[Depth] /\ \A i \in 1..Depth : frames[i] \in FrameType
  BY BeginPartType DEF Depth, Inner
<1>2. ASSUME NEW i \in 1..Depth
      PROVE  /\ frames[i].parts \in Seq(Position) /\ frames[i].pos \in Nat
             /\ Len(frames[i].parts) \in Nat /\ DOMAIN frames[i].parts = 1..Len(frames[i].parts)
             /\ \A k \in 1..Len(frames[i].parts) : frames[i].parts[k] \in Position
  <2>1. frames[i].parts \in Seq(Position) /\ frames[i].pos \in Nat
    BY <1>1, FrameFields
  <2> QED BY <2>1, LenProperties, ElementOfSeq
<1> QED BY <1>1, <1>2

(* What a part that is begun changes.                                      *)
LEMMA BegunIs ==
  ASSUME TypeOK
  PROVE  LET n == Depth
             b == BeginPart
             m == Len(frames[n].parts)
         IN /\ Len(b) = n /\ b \in Seq(FrameType)
            /\ \A i \in 1..n : i # n => b[i] = frames[i]
            /\ b[n].pos = frames[n].pos /\ b[n].kind = frames[n].kind /\ b[n].count = frames[n].count
            /\ b[n].previous = frames[n].previous
            /\ Len(b[n].parts) = m + 1 /\ DOMAIN b[n].parts = 1..(m + 1)
            /\ \A k \in 1..m : b[n].parts[k] = frames[n].parts[k]
            /\ b[n].parts[m + 1] = at
<1>1. frames \in Seq(FrameType) /\ frames # <<>> /\ at \in Position
  BY LenProperties DEF TypeOK, Position, InputOK
<1> DEFINE n == Depth  m == Len(frames[n].parts)
<1>2. /\ Len(BeginPart) = n /\ BeginPart \in Seq(FrameType)
      /\ \A i \in 1..n : i # n => BeginPart[i] = frames[i]
      /\ BeginPart[n].pos = frames[n].pos /\ BeginPart[n].kind = frames[n].kind
      /\ BeginPart[n].count = frames[n].count /\ BeginPart[n].previous = frames[n].previous
      /\ BeginPart[n].parts = Append(frames[n].parts, at)
  BY Zenon, <1>1, BeginPartFrames DEF Depth
<1>3. frames[n].parts \in Seq(Position) /\ m \in Nat
  BY FramesIs
<1>4. /\ Len(Append(frames[n].parts, at)) = m + 1 /\ DOMAIN Append(frames[n].parts, at) = 1..(m + 1)
      /\ \A k \in 1..m : Append(frames[n].parts, at)[k] = frames[n].parts[k]
      /\ Append(frames[n].parts, at)[m + 1] = at
  <2>1. Append(frames[n].parts, at) \in Seq(Position)
    BY <1>1, <1>3, AppendProperties
  <2> QED BY <1>1, <1>3, <2>1, AppendProperties, LenProperties
<1> QED BY <1>2, <1>4

(* An item that is good is so in a larger set of items.                    *)
LEMMA GoodExtends ==
  ASSUME NEW part, NEW tree, Extends(tree, part), NEW p \in DOMAIN part, part[p].parts \in Seq(Position), Good(part, p)
  PROVE  Good(tree, p)
<1>1. tree[p] = part[p] /\ Structured(buffer, tree, p)
  BY StructuredExtends DEF Extends, Good
<1>2. Shortest(buffer, tree, p)
  BY DEF Good, Shortest
<1>3. ASSUME call.mode = "dtrm", ReadHead(buffer, p).major = 5 PROVE Keys(buffer, tree, p) = Keys(buffer, part, p)
  <2> DEFINE s == part[p].parts
  <2>1. ASSUME NEW k \in 1..(Len(s) \div 2) PROVE Bytes(buffer, tree, s[2 * k - 1]) = Bytes(buffer, part, s[2 * k - 1])
    <3>1. Len(s) \in Nat /\ DOMAIN s = 1..Len(s)
      BY LenProperties
    <3>2. 2 * k - 1 \in 1..Len(s)
      <4> DEFINE n == Len(s)
      <4>1. n \in Nat
        BY <3>1
      <4> HIDE DEF n
      <4>2. k \in 1..(n \div 2)
        BY DEF n
      <4>3. 2 * k - 1 \in 1..n
        BY <4>1, <4>2
      <4> QED BY <4>3 DEF n
    <3>3. s[2 * k - 1] \in DOMAIN part
      BY <1>3, <3>1, <3>2 DEF Good, Structured, Chained
    <3>4. tree[s[2 * k - 1]] = part[s[2 * k - 1]]
      BY <3>3 DEF Extends
    <3> QED BY <3>4 DEF Bytes
  <2> QED BY <1>1, <2>1 DEF Keys
<1> QED BY <1>1, <1>2, <1>3 DEF Good, Ordered

(* What is readable depends on the buffer alone.                           *)
LEMMA ReadableSame ==
  ASSUME buffer' = buffer, NEW p
  PROVE  Readable(p)' <=> Readable(p)
  BY DEF Readable, IntInRange, TextRead, StringRead, StringEnd, FloatsOf, LostDouble, Half

(* What is good depends on the buffer and on the call.                     *)
LEMMA GoodSame ==
  ASSUME UNCHANGED <<buffer, call>>, NEW p, Good(found', p)
  PROVE  Good(found, p)'
  BY ReadableSame DEF Good

(* The keys of a loop that were checked.                                   *)
LEMMA CheckedIs ==
  ASSUME NEW m \in Nat
  PROVE  /\ m \div 2 \in Nat /\ 2 * (m \div 2) - 1 <= m - 1 /\ (m + 1) \div 2 \in Nat /\ 2 * ((m + 1) \div 2) - 1 <= m
         /\ m % 2 = 0 => (m + 1) \div 2 = m \div 2
         /\ m % 2 = 1 => (m + 1) \div 2 = (m \div 2) + 1 /\ 2 * ((m + 1) \div 2) - 1 = m
         /\ \A k \in 1..(m \div 2) : 2 * k - 1 \in 1..(m - 1)
         /\ \A k \in 1..((m + 1) \div 2) : 2 * k - 1 \in 1..m
  OBVIOUS

(* A set of items with one more extends it.                                *)
LEMMA GrowsBy ==
  ASSUME NEW tree, NEW more, NEW p, NEW item, p \notin DOMAIN tree, more = With(tree, p, item)
  PROVE  /\ Extends(more, tree) /\ more[p] = item /\ p \in DOMAIN more
         /\ \A q : q \in DOMAIN more <=> q \in DOMAIN tree \/ q = p
<1>1. more = [q \in DOMAIN tree \cup {p} |-> IF q = p THEN item ELSE tree[q]]
  BY DEF With
<1>2. DOMAIN more = DOMAIN tree \cup {p}
  BY <1>1
<1>3. more[p] = item /\ \A q \in DOMAIN tree : more[q] = tree[q]
  BY <1>1
<1> QED BY <1>2, <1>3 DEF Extends

(* A step that walks a whole item: it is new, and good.                    *)
Grown ==
  /\ TypeOK /\ FoundType' /\ pc = "next" /\ More /\ UNCHANGED <<buffer, document, call>>
  /\ frames' = BeginPart /\ pc' = "returned"
  /\ Extends(found', found) /\ at \in DOMAIN found' /\ found'[at].to = at' /\ at' \in (at + 1)..(Len(buffer) + 1)
  /\ \A p \in DOMAIN found' : p \notin DOMAIN found => p >= at /\ p < at' /\ p \in DOMAIN buffer /\ Good(found', p)

(* A good item is found: all that was found is good.                       *)
LEMMA GrownFound ==
  ASSUME Grown, WalkGood
  PROVE  FoundGood'
<1> SUFFICES ASSUME NEW p \in DOMAIN found' PROVE p < at' /\ p \in DOMAIN buffer /\ Good(found', p)
  <2>1. buffer' = buffer /\ UNCHANGED <<buffer, call>>
    BY DEF Grown
  <2> QED BY <2>1, GoodSame DEF FoundGood
<1>1. CASE p \in DOMAIN found
  <2>1. p < at /\ p \in DOMAIN buffer /\ Good(found, p)
    BY <1>1 DEF WalkGood, FoundGood
  <2>2. found[p].parts \in Seq(Position)
    BY <1>1 DEF Grown, TypeOK, ItemType
  <2>3. Good(found', p)
    BY <1>1, <2>1, <2>2, GoodExtends DEF Grown
  <2>4. at \in Nat /\ at' \in Nat /\ at' > at /\ Len(buffer) \in Nat /\ p \in Nat
    BY <2>1, LenProperties DEF Grown, TypeOK, InputOK
  <2>5. p < at'
    BY <2>1, <2>4
  <2> QED BY <2>1, <2>3, <2>5
<1>2. CASE p \notin DOMAIN found
  BY <1>2 DEF Grown
<1> QED BY <1>1, <1>2

(* A good item is found: the loops are still those of begun containers.    *)
LEMMA GrownOpen ==
  ASSUME Grown, WalkGood
  PROVE  OpenGood'
<1> DEFINE n == Depth
<1>0. n \in Nat \ {0} /\ Inner = frames[n] /\ TypeOK
  BY FramesIs DEF Grown
<1>1. /\ Depth' = n
      /\ \A i \in 1..n : i # n => frames'[i] = frames[i]
      /\ frames'[n].pos = frames[n].pos /\ frames'[n].kind = frames[n].kind /\ frames'[n].count = frames[n].count
      /\ Len(frames'[n].parts) = Len(frames[n].parts) + 1
  BY <1>0, BegunIs DEF Grown, Depth
<1>2. at \in Nat /\ at' \in Nat /\ at' > at
  BY LenProperties DEF Grown, TypeOK, InputOK
<1> HIDE DEF n
<1>3. ASSUME NEW i \in 2..n PROVE Opened(i)'
  <2>0. i \in 1..n /\ i \in 2..Depth
    BY <1>0 DEF n
  <2>1. Opened(i)
    BY <2>0 DEF WalkGood, OpenGood
  <2>2. frames'[i].pos = frames[i].pos /\ frames'[i].kind = frames[i].kind /\ frames'[i].count = frames[i].count
    BY <1>1, <2>0
  <2>3. Len(frames'[i].parts) <= frames[i].count
    <3>1. CASE i = n
      <4>1. frames[n].kind # "top"
        BY <2>1, <3>1 DEF Opened
      <4>2. Len(frames[n].parts) < frames[n].count
        BY <1>0, <4>1 DEF Grown, More
      <4>3. Len(frames[n].parts) \in Nat /\ frames[n].count \in Nat
        BY <1>0, FramesIs, FrameFields DEF n
      <4> QED BY <1>1, <3>1, <4>2, <4>3
    <3>2. CASE i # n
      BY <1>1, <2>0, <2>1, <3>2 DEF Opened
    <3> QED BY <3>1, <3>2
  <2>4. frames[i].pos \notin DOMAIN found'
    <3>1. frames[i].pos < at /\ frames[i].pos \notin DOMAIN found /\ frames[i].pos \in Nat
      BY <1>0, <2>0, <2>1, FramesIs DEF Opened, n
    <3> QED BY <1>2, <3>1 DEF Grown
  <2>5. frames[i].pos < at'
    <3>1. frames[i].pos < at /\ frames[i].pos \in Nat
      BY <1>0, <2>0, <2>1, FramesIs DEF Opened, n
    <3> QED BY <1>2, <3>1
  <2>6. buffer' = buffer
    BY DEF Grown
  <2> QED BY <2>1, <2>2, <2>3, <2>4, <2>5, <2>6 DEF Opened
<1>4. ASSUME NEW i \in 2..n, NEW j \in 2..n, i < j PROVE frames'[i].pos < frames'[j].pos
  <2>1. frames[i].pos < frames[j].pos
    BY <1>4 DEF WalkGood, OpenGood, n
  <2>2. i \in 1..n /\ j \in 1..n
    BY <1>0
  <2> QED BY <1>1, <2>1, <2>2
<1> QED BY <1>1, <1>3, <1>4 DEF OpenGood

(* The parts of a loop that were walked.                                   *)
LEMMA WalkedIs ==
  ASSUME NEW i \in Nat, Depth \in Nat, i <= Depth, Len(frames[i].parts) \in Nat
  PROVE  Walked(i) = 1..(IF i = Depth THEN Len(frames[i].parts) ELSE Len(frames[i].parts) - 1)
<1> DEFINE m == Len(frames[i].parts)  e == IF i < Depth THEN 1 ELSE 0
<1>1. m - e = (IF i = Depth THEN m ELSE m - 1)
  <2>1. m \in Nat
    OBVIOUS
  <2> HIDE DEF m
  <2>2. CASE i = Depth
    <3>1. e = 0
      BY <2>2
    <3> QED BY <2>1, <2>2, <3>1
  <2>3. CASE i # Depth
    <3>1. e = 1
      BY <2>3
    <3> QED BY <2>1, <2>3, <3>1
  <2> QED BY <2>2, <2>3
<1>2. Walked(i) = 1..(m - e)
  BY DEF Walked
<1> QED BY <1>1, <1>2

(* Where the parts of a loop end does not change while others are found.   *)
LEMMA EndKept ==
  ASSUME TypeOK, PartsGood, Extends(found', found), NEW i \in 1..Depth, NEW k \in 0..Len(frames[i].parts),
         k = 0 \/ k \in Walked(i), buffer' = buffer, frames'[i].pos = frames[i].pos,
         k # 0 => frames'[i].parts[k] = frames[i].parts[k]
  PROVE  End(i, k)' = End(i, k)
<1>1. CASE k = 0
  BY <1>1 DEF End, From
<1>2. CASE k # 0
  <2>1. frames[i].parts[k] \in DOMAIN found
    BY <1>2 DEF PartsGood, Nested
  <2> QED BY <1>2, <2>1 DEF End, Extends
<1> QED BY <1>1, <1>2

(* A loop around the innermost one is as before.                           *)
LEMMA NestedKept ==
  ASSUME TypeOK, PartsGood, buffer' = buffer, Extends(found', found), NEW i \in 1..Depth, i < Depth, i < Depth',
         Depth' \in Nat, frames'[i] = frames[i], frames'[i + 1].pos = frames[i + 1].pos
  PROVE  Nested(i)'
<1> DEFINE l == Len(frames[i].parts)
<1>1. l \in Nat /\ DOMAIN frames[i].parts = 1..l /\ Nested(i) /\ Depth \in Nat
  BY FramesIs DEF PartsGood
<1>2. Walked(i) = 1..(l - 1)
  BY <1>1, WalkedIs
<1> HIDE DEF l
<1>3. ASSUME NEW k \in 1..l PROVE frames[i].parts[k] = End(i, k - 1)'
  <2>1. k - 1 \in 0..l /\ (k - 1 = 0 \/ k - 1 \in 1..(l - 1))
    BY <1>1
  <2>2. End(i, k - 1)' = End(i, k - 1)
    BY <1>2, <2>1, EndKept DEF l
  <2> QED BY <1>1, <2>2 DEF Nested
<1>4. (Walked(i))' = 1..(l - 1)
  BY <1>1 DEF Walked, l
<1>5. \A k \in 1..(l - 1) : frames[i].parts[k] \in DOMAIN found'
  BY <1>1, <1>2 DEF Nested, Extends
<1>6. frames[i].parts # <<>> /\ frames[i].parts[l] = frames'[i + 1].pos
  BY <1>1 DEF Nested, l
<1> QED BY <1>1, <1>3, <1>4, <1>5, <1>6 DEF Nested, l

(* A good item is found: the parts of the innermost loop follow one        *)
(* another.                                                                *)
LEMMA GrownParts ==
  ASSUME Grown, WalkGood
  PROVE  PartsGood'
<1>p. PICK n, m : n = Depth /\ m = Len(frames[n].parts)
  OBVIOUS
<1>0. n \in Nat \ {0} /\ TypeOK /\ PartsGood /\ buffer' = buffer /\ m \in Nat /\ n \in 1..n
  BY <1>p, FramesIs DEF Grown, WalkGood
<1>1. /\ Depth' = n
      /\ \A i \in 1..n : i # n => frames'[i] = frames[i]
      /\ frames'[n].pos = frames[n].pos
      /\ Len(frames'[n].parts) = m + 1 /\ DOMAIN frames'[n].parts = 1..(m + 1)
      /\ \A k \in 1..m : frames'[n].parts[k] = frames[n].parts[k]
      /\ frames'[n].parts[m + 1] = at
  BY <1>p, <1>0, BegunIs DEF Grown, Depth
<1>2. Extends(found', found) /\ at \in DOMAIN found' /\ found'[at].to = at'
  BY DEF Grown
<1>3. \A i \in 1..n : /\ Len(frames[i].parts) \in Nat /\ DOMAIN frames[i].parts = 1..Len(frames[i].parts)
                      /\ Nested(i)
  BY <1>p, <1>0, FramesIs DEF PartsGood
<1>4. ASSUME NEW i \in 1..n, i # n PROVE Nested(i)'
  <2>1. i < n /\ i + 1 \in 1..n /\ frames'[i] = frames[i]
    BY <1>0, <1>1, <1>4
  <2>2. frames'[i + 1].pos = frames[i + 1].pos
    BY <1>1, <2>1
  <2>3. i \in 1..Depth /\ i < Depth /\ i < Depth' /\ Depth' \in Nat
    BY <1>p, <1>0, <1>1, <2>1
  <2> QED BY <1>0, <1>2, <2>1, <2>2, <2>3, NestedKept
<1>5. \A k \in 1..(m + 1) : frames'[n].parts[k] = End(n, k - 1)'
  <2> TAKE k \in 1..(m + 1)
  <2>0. Walked(n) = 1..m
    BY <1>p, <1>0, WalkedIs
  <2>1. k - 1 \in 0..m /\ (k - 1 = 0 \/ k - 1 \in 1..m)
    BY <1>0
  <2>2. End(n, k - 1)' = End(n, k - 1)
    BY <1>0, <1>1, <1>2, <2>0, <2>1, <1>p, EndKept
  <2>3. CASE k = m + 1
    BY <1>0, <1>1, <2>2, <2>3, <1>p DEF PartsGood
  <2>4. CASE k # m + 1
    <3>1. k \in 1..m
      BY <1>0, <2>4
    <3> QED BY <1>p, <1>0, <1>1, <1>3, <2>2, <3>1 DEF Nested
  <2> QED BY <2>3, <2>4
<1>6. \A k \in 1..(m + 1) : frames'[n].parts[k] \in DOMAIN found'
  <2>0. Walked(n) = 1..m
    BY <1>p, <1>0, WalkedIs
  <2> TAKE k \in 1..(m + 1)
  <2>3. CASE k = m + 1
    BY <1>1, <1>2, <2>3
  <2>4. CASE k # m + 1
    <3>1. k \in 1..m
      BY <1>0, <2>4
    <3> QED BY <1>0, <1>1, <1>2, <1>3, <2>0, <3>1 DEF Nested, Extends
  <2> QED BY <2>3, <2>4
<1>7. Nested(n)'
  <2>1. (Walked(n))' = 1..(m + 1)
    BY <1>0, <1>1 DEF Walked
  <2> QED BY <1>0, <1>1, <1>5, <1>6, <2>1 DEF Nested
<1>8. at' = End(n, m + 1)'
  BY <1>0, <1>1, <1>2 DEF End
<1>9. frames'[n].parts # <<>>
  <2>1. 1 \in 1..(m + 1)
    BY <1>0
  <2> QED BY <1>1, <2>1
<1>10. (\A i \in 1..Depth : Nested(i))'
  BY <1>1, <1>4, <1>7
<1> QED BY <1>1, <1>8, <1>9, <1>10 DEF PartsGood

(* A key that was checked was walked.                                      *)
LEMMA CheckedWalked ==
  ASSUME TypeOK, NEW i \in 1..Depth
  PROVE  /\ Checked(i) \in Nat
         /\ \A k \in 1..Checked(i) : 2 * k - 1 \in Walked(i) /\ 2 * k - 1 \in 1..Len(frames[i].parts)
<1>p. PICK m : m = Len(frames[i].parts)
  OBVIOUS
<1>1. m \in Nat /\ Depth \in Nat /\ i \in Nat /\ i <= Depth
  BY <1>p, FramesIs
<1>2. Walked(i) = 1..(IF i = Depth THEN m ELSE m - 1)
  BY <1>p, <1>1, WalkedIs
<1>3. Checked(i) = m \div 2 \/ (i = Depth /\ Checked(i) = (m + 1) \div 2)
  <2>1. CASE i < Depth \/ pc = "returned"
    BY <1>p, <1>1, <2>1 DEF Checked
  <2>2. CASE ~(i < Depth \/ pc = "returned")
    <3>1. i = Depth
      BY <1>1, <2>2
    <3>2. Checked(i) = (m + 1) \div 2
      BY <1>p, <2>2 DEF Checked
    <3> QED BY <3>1, <3>2
  <2> QED BY <2>1, <2>2
<1>4. Checked(i) \in Nat
  BY <1>1, <1>3, CheckedIs
<1>5. ASSUME NEW k \in 1..Checked(i) PROVE 2 * k - 1 \in Walked(i) /\ 2 * k - 1 \in 1..m
  <2>1. CASE Checked(i) = m \div 2
    <3>1. 2 * k - 1 \in 1..(m - 1)
      BY <1>1, <2>1, CheckedIs
    <3> QED BY <1>1, <1>2, <3>1
  <2>2. CASE i = Depth /\ Checked(i) = (m + 1) \div 2
    <3>1. 2 * k - 1 \in 1..m
      BY <1>1, <2>2, CheckedIs
    <3> QED BY <1>2, <2>2, <3>1
  <2> QED BY <1>3, <2>1, <2>2
<1> QED BY <1>p, <1>4, <1>5

(* The remembered key of a loop does not change while others are found.    *)
LEMMA RememberedKept ==
  ASSUME TypeOK, PartsGood, buffer' = buffer, Extends(found', found), NEW i \in 1..Depth, Remembered(i),
         frames'[i].previous = frames[i].previous, (Checked(i))' = Checked(i),
         \A k \in 1..Len(frames[i].parts) : frames'[i].parts[k] = frames[i].parts[k]
  PROVE  Remembered(i)'
<1>1. ASSUME NEW k \in 1..Checked(i) PROVE KeyOf(i, k)' = KeyOf(i, k)
  <2>1. 2 * k - 1 \in Walked(i) /\ 2 * k - 1 \in 1..Len(frames[i].parts)
    BY CheckedWalked
  <2>2. frames[i].parts[2 * k - 1] \in DOMAIN found /\ frames'[i].parts[2 * k - 1] = frames[i].parts[2 * k - 1]
    BY <2>1 DEF PartsGood, Nested
  <2> QED BY <2>2 DEF KeyOf, Bytes, Extends
<1>2. Checked(i) \in Nat
  BY CheckedWalked
<1>3. Checked(i) # 0 => Checked(i) \in 1..Checked(i)
  BY <1>2
<1>4. frames'[i].previous = IF (Checked(i))' = 0 THEN {} ELSE {(KeyOf(i, Checked(i)))'}
  <2>p. PICK c : c = Checked(i)
    OBVIOUS
  <2>1. CASE c = 0
    BY <2>p, <2>1 DEF Remembered
  <2>2. CASE c # 0
    <3>1. KeyOf(i, c)' = KeyOf(i, c)
      BY <2>p, <2>2, <1>1, <1>3
    <3>2. (KeyOf(i, Checked(i)))' = KeyOf(i, c)'
      BY <2>p DEF KeyOf
    <3> QED BY <2>p, <2>2, <3>1, <3>2 DEF Remembered
  <2> QED BY <2>1, <2>2
<1>5. \A k, l \in 1..Checked(i) : k < l => Bytewise(KeyOf(i, k)', KeyOf(i, l)')
  BY <1>1 DEF Remembered
<1>6. (\A k, l \in 1..Checked(i) : k < l => Bytewise(KeyOf(i, k), KeyOf(i, l)))'
  BY <1>5
<1> QED BY <1>4, <1>6 DEF Remembered

(* A good item is found: the keys that were checked still ascend.          *)
LEMMA GrownKeys ==
  ASSUME Grown, WalkGood
  PROVE  KeysGood'
<1>p. PICK n, m : n = Depth /\ m = Len(frames[n].parts)
  OBVIOUS
<1>0. n \in Nat \ {0} /\ TypeOK /\ PartsGood /\ buffer' = buffer /\ call' = call /\ m \in Nat /\ n \in 1..n
      /\ Extends(found', found) /\ pc = "next" /\ pc' = "returned"
  BY <1>p, FramesIs DEF Grown, WalkGood
<1>1. /\ Depth' = n
      /\ \A i \in 1..n : i # n => frames'[i] = frames[i]
      /\ frames'[n].previous = frames[n].previous /\ frames'[n].kind = frames[n].kind
      /\ Len(frames'[n].parts) = m + 1
      /\ \A k \in 1..m : frames'[n].parts[k] = frames[n].parts[k]
  BY <1>p, <1>0, BegunIs DEF Grown, Depth
<1>2. ASSUME call.mode = "dtrm", NEW i \in 1..n, frames'[i].kind = "map" PROVE Remembered(i)'
  <2>1. frames[i].kind = "map" /\ frames'[i].previous = frames[i].previous
    BY <1>1, <1>2
  <2>2. Remembered(i)
    BY <1>p, <1>2, <2>1 DEF WalkGood, KeysGood
  <2>3. \A k \in 1..Len(frames[i].parts) : frames'[i].parts[k] = frames[i].parts[k]
    BY <1>p, <1>1
  <2>4. (Checked(i))' = Checked(i)
    <3>1. CASE i = n
      <4>1. Checked(i) = (m + 1) \div 2
        <5>1. ~(i < Depth \/ pc = "returned")
          BY <1>p, <1>0, <3>1
        <5> QED BY <1>p, <3>1, <5>1 DEF Checked
      <4>2. (Checked(i))' = (m + 1) \div 2
        BY <1>0, <1>1, <3>1 DEF Checked
      <4> QED BY <4>1, <4>2
    <3>2. CASE i # n
      <4>1. i < n
        BY <1>0, <3>2
      <4> QED BY <1>p, <1>1, <3>2, <4>1 DEF Checked
    <3> QED BY <3>1, <3>2
  <2> QED BY <1>p, <1>0, <2>1, <2>2, <2>3, <2>4, RememberedKept
<1>3. call.mode = "dtrm" => (\A i \in 1..Depth : frames[i].kind = "map" => Remembered(i))'
  BY <1>1, <1>2
<1> QED BY <1>0, <1>3 DEF KeysGood

(* A good item is found: the walk is still a good one.                     *)
LEMMA GrownSound ==
  ASSUME Grown, WalkGood
  PROVE  WalkGood'
<1>1. TopGood'
  <2>p. PICK n : n = Depth
    OBVIOUS
  <2>0. n \in Nat \ {0} /\ TypeOK /\ buffer' = buffer /\ call' = call /\ pc = "next" /\ pc' = "returned" /\ More /\ TopGood
        /\ Inner = frames[n]
    BY <2>p, FramesIs DEF Grown, WalkGood
  <2>1. /\ \A i \in 1..n : i # n => frames'[i] = frames[i]
        /\ Len(frames'[n].parts) = Len(frames[n].parts) + 1
    BY <2>p, <2>0, BegunIs DEF Grown, Depth
  <2>2. ASSUME ~call.sequence PROVE Len(frames'[1].parts) <= 1
    <3>1. CASE n = 1
      <4>1. frames[1].kind = "top" /\ frames[1].parts = <<>>
        BY <2>0, <2>2, <3>1 DEF More, TypeOK
      <4>2. Len(frames[1].parts) = 0
        BY <4>1
      <4>3. Len(frames'[1].parts) = 0 + 1
        BY <2>1, <3>1, <4>2
      <4> QED BY <4>3
    <3>2. CASE n # 1
      <4>1. 1 \in 1..n
        BY <2>0
      <4> QED BY <2>0, <2>1, <2>2, <3>2, <4>1 DEF TopGood
    <3> QED BY <3>1, <3>2
  <2>3. buffer # <<>>
    BY <2>0 DEF TopGood
  <2> QED BY <2>0, <2>2, <2>3 DEF TopGood
<1> QED BY <1>1, GrownFound, GrownOpen, GrownParts, GrownKeys DEF WalkGood

(* An item without parts keeps the walk a good one.                        *)
LEMMA LeafSound ==
  ASSUME TypeOK, Strict, WalkGood, WalkLeaf, FoundType'
  PROVE  WalkGood'
<1> DEFINE to == IF Here.major \in {2, 3} THEN StringEnd(Here) ELSE Here.at
           item == [parts |-> <<>>, to |-> to]
<1>1. /\ pc = "next" /\ More /\ UNCHANGED <<buffer, document, call>>
      /\ HeadAccepted(Here) /\ Here.major \in {0, 1, 2, 3, 7} /\ at' = to
      /\ frames' = BeginPart /\ found' = With(found, at, item) /\ pc' = "returned"
  BY DEF WalkLeaf, Walking, input
<1>2. at \notin DOMAIN found
  <2>1. at \in Nat
    BY LenProperties DEF TypeOK, InputOK
  <2> QED BY <2>1 DEF WalkGood, FoundGood
<1>3. /\ Extends(found', found) /\ found'[at] = item /\ at \in DOMAIN found'
      /\ \A p : p \in DOMAIN found' <=> p \in DOMAIN found \/ p = at
  BY <1>1, <1>2, GrowsBy
<1>4. Good(found', at)
  BY <1>1, <1>3, LeafGood
<1>5. to \in (at + 1)..(Len(buffer) + 1) /\ at \in DOMAIN buffer
  BY <1>1, AcceptedEnds, HereType
<1>6. at \in Nat /\ at < to /\ at >= at
  BY <1>5, LenProperties DEF TypeOK, InputOK
<1>7. item.to = to
  OBVIOUS
<1> HIDE DEF to, item
<1>8. Grown
  BY <1>1, <1>3, <1>4, <1>5, <1>6, <1>7 DEF Grown
<1> QED BY <1>8, GrownSound

(* A bignum keeps the walk a good one.                                     *)
LEMMA BignumSound ==
  ASSUME TypeOK, Strict, WalkGood, WalkBignum, FoundType'
  PROVE  WalkGood'
<1> DEFINE q == Here.at
           to == StringEnd(ReadHead(buffer, Here.at))
           inside == [parts |-> <<>>, to |-> to]
           item == [parts |-> <<Here.at>>, to |-> to]
           tree == With(found, q, inside)
<1>1. /\ pc = "next" /\ More /\ UNCHANGED <<buffer, document, call>>
      /\ HeadAccepted(Here) /\ Bignum(Here) /\ at' = to
      /\ frames' = BeginPart /\ found' = With(tree, at, item) /\ pc' = "returned"
  BY DEF WalkBignum, Walking, input
<1>2. /\ at \in Nat /\ Len(buffer) \in Nat /\ at \in DOMAIN buffer
      /\ q \in (at + 1)..(Len(buffer) + 1) /\ to \in (q + 1)..(Len(buffer) + 1)
  BY <1>1, AcceptedEnds, HereType, LenProperties DEF TypeOK, InputOK
<1> HIDE DEF to, item, inside, q, tree
<1>3. q \in Nat /\ at < q /\ q < to /\ to \in (at + 1)..(Len(buffer) + 1) /\ at < to /\ at >= at /\ q >= at
  BY <1>2
<1>4. at \notin DOMAIN found /\ q \notin DOMAIN found
  BY <1>2, <1>3 DEF WalkGood, FoundGood
<1>5. /\ Extends(tree, found) /\ tree[q] = inside /\ q \in DOMAIN tree
      /\ \A p : p \in DOMAIN tree <=> p \in DOMAIN found \/ p = q
  BY <1>4, GrowsBy DEF tree
<1>6. at \notin DOMAIN tree
  BY <1>3, <1>2, <1>4, <1>5
<1>7. /\ Extends(found', tree) /\ found'[at] = item /\ at \in DOMAIN found'
      /\ \A p : p \in DOMAIN found' <=> p \in DOMAIN tree \/ p = at
  BY <1>1, <1>6, GrowsBy
<1>8. Extends(found', found) /\ found'[q] = inside /\ q \in DOMAIN found'
  BY <1>5, <1>7 DEF Extends
<1>9. Good(found', at) /\ Good(found', q) /\ q \in DOMAIN buffer
  BY <1>1, <1>7, <1>8, BignumGood DEF q, inside, item, to
<1>10. item.to = to
  BY DEF item
<1>11. Grown
  BY <1>1, <1>2, <1>3, <1>5, <1>7, <1>8, <1>9, <1>10 DEF Grown
<1> QED BY <1>11, GrownSound

(* A container is begun: a loop of its own is the innermost one.           *)
LEMMA PushIs ==
  ASSUME TypeOK, WalkParts
  PROVE  LET n == Depth
             m == Len(frames[n].parts)
             f == frames'[n + 1]
         IN /\ HeadAccepted(Here) /\ ~Bignum(Here) /\ More /\ at' = Here.at /\ found' = found
            /\ UNCHANGED <<buffer, document, call>> /\ pc = "next" /\ pc' = "next"
            /\ Depth' = n + 1
            /\ \A i \in 1..n : i # n => frames'[i] = frames[i]
            /\ frames'[n].pos = frames[n].pos /\ frames'[n].kind = frames[n].kind /\ frames'[n].count = frames[n].count
            /\ frames'[n].previous = frames[n].previous
            /\ Len(frames'[n].parts) = m + 1 /\ DOMAIN frames'[n].parts = 1..(m + 1)
            /\ \A k \in 1..m : frames'[n].parts[k] = frames[n].parts[k]
            /\ frames'[n].parts[m + 1] = at
            /\ f.pos = at /\ f.parts = <<>> /\ f.previous = {}
            /\ \/ f.kind = "array" /\ Here.major = 4 /\ Definite(Here) /\ f.count = Value(Here.arg)
               \/ f.kind = "map" /\ Here.major = 5 /\ Definite(Here) /\ f.count = 2 * Value(Here.arg)
               \/ f.kind = "tag" /\ Here.major = 6 /\ f.count = 1
<1> DEFINE n == Depth  m == Len(frames[n].parts)
           counted(kind) ==
             CASE kind = "array" -> Value(Here.arg) [] kind = "map" -> 2 * Value(Here.arg) [] kind = "tag" -> 1
<1>1. /\ HeadAccepted(Here) /\ ~Bignum(Here) /\ More /\ at' = Here.at /\ found' = found
      /\ UNCHANGED <<buffer, document, call>> /\ pc = "next" /\ pc' = "next"
  BY DEF WalkParts, Walking, input
<1>2. PICK kind \in {"array", "map", "tag"} :
        /\ Here.major = CASE kind = "array" -> 4 [] kind = "map" -> 5 [] kind = "tag" -> 6
        /\ kind # "tag" => Definite(Here)
        /\ frames' = Append(BeginPart, Frame(at, kind, counted(kind)))
  BY DEF WalkParts
<1>3. \/ kind = "array" /\ Here.major = 4 /\ Definite(Here) /\ counted(kind) = Value(Here.arg)
      \/ kind = "map" /\ Here.major = 5 /\ Definite(Here) /\ counted(kind) = 2 * Value(Here.arg)
      \/ kind = "tag" /\ Here.major = 6 /\ counted(kind) = 1
  BY <1>2
<1> HIDE DEF counted
<1> DEFINE f == Frame(at, kind, counted(kind))
<1>4. f.pos = at /\ f.parts = <<>> /\ f.previous = {} /\ f.kind = kind /\ f.count = counted(kind)
  BY DEF Frame
<1> HIDE DEF f
<1>5. frames' = Append(BeginPart, f)
  BY <1>2 DEF f
<1>6. /\ Len(BeginPart) = n /\ BeginPart \in Seq(FrameType) /\ n \in Nat \ {0}
      /\ \A i \in 1..n : i # n => BeginPart[i] = frames[i]
      /\ BeginPart[n].pos = frames[n].pos /\ BeginPart[n].kind = frames[n].kind /\ BeginPart[n].count = frames[n].count
      /\ BeginPart[n].previous = frames[n].previous
      /\ Len(BeginPart[n].parts) = m + 1 /\ DOMAIN BeginPart[n].parts = 1..(m + 1)
      /\ \A k \in 1..m : BeginPart[n].parts[k] = frames[n].parts[k]
      /\ BeginPart[n].parts[m + 1] = at
  BY BegunIs, FramesIs
<1>7. Len(frames') = n + 1 /\ (\A i \in 1..n : frames'[i] = BeginPart[i]) /\ frames'[n + 1] = f
  BY <1>5, <1>6
<1>8. frames'[n] = BeginPart[n] /\ \A i \in 1..n : i # n => frames'[i] = frames[i]
  BY <1>6, <1>7
<1> HIDE DEF m, n
<1>9. \/ f.kind = "array" /\ Here.major = 4 /\ Definite(Here) /\ f.count = Value(Here.arg)
      \/ f.kind = "map" /\ Here.major = 5 /\ Definite(Here) /\ f.count = 2 * Value(Here.arg)
      \/ f.kind = "tag" /\ Here.major = 6 /\ f.count = 1
  BY <1>3, <1>4
<1>10. Depth' = n + 1
  BY <1>7 DEF Depth
<1> QED BY <1>1, <1>4, <1>6, <1>7, <1>8, <1>9, <1>10 DEF n, m

(* The head of the container that is begun.                                *)
LEMMA PushHead ==
  ASSUME TypeOK, Strict, WalkParts
  PROVE  /\ Here.ok /\ Definite(Here) /\ at \in DOMAIN buffer /\ at' > at /\ at' \in Nat /\ at \in Nat
         /\ Here.major \in {4, 5} => MinimalHead(Here)
         /\ Here.major = 6 => Value(Here.arg) \notin {2, 3}
<1>1. HeadAccepted(Here) /\ ~Bignum(Here) /\ at' = Here.at /\ Here.major \in {4, 5, 6}
  BY PushIs
<1>2. Here.ok /\ Definite(Here) /\ (Here.major \in {4, 5} => ShortestLength(Here))
  BY <1>1 DEF HeadAccepted
<1>3. at \in Nat /\ Len(buffer) \in Nat /\ buffer \in Seq(Byte) /\ at \in Position
  BY LenProperties DEF TypeOK, InputOK, Position
<1>30. at \in DOMAIN buffer /\ Here.at \in (at + 1)..(Len(buffer) + 1)
  BY <1>2, HereType
<1>4. HeadOk(Here)
  BY <1>2, <1>3, HeadIs DEF Here
<1>5. Here.major \in {4, 5} => MinimalHead(Here)
  BY <1>2, <1>4, WidthChecks
<1>6. Here.major = 6 => Value(Here.arg) \notin {2, 3}
  BY <1>1 DEF Bignum
<1> QED BY <1>1, <1>2, <1>3, <1>30, <1>5, <1>6

(* A container is begun: all loops are of begun containers.                *)
LEMMA PushOpen ==
  ASSUME TypeOK, Strict, WalkGood, WalkParts
  PROVE  FoundGood' /\ OpenGood'
<1>p. PICK n : n = Depth
  OBVIOUS
<1>0. n \in Nat \ {0} /\ Inner = frames[n] /\ found' = found /\ UNCHANGED <<buffer, call>> /\ More
  BY <1>p, FramesIs, PushIs
<1>1. /\ Depth' = n + 1
      /\ \A i \in 1..n : i # n => frames'[i] = frames[i]
      /\ frames'[n].pos = frames[n].pos /\ frames'[n].kind = frames[n].kind /\ frames'[n].count = frames[n].count
      /\ Len(frames'[n].parts) = Len(frames[n].parts) + 1
      /\ frames'[n + 1].pos = at /\ frames'[n + 1].parts = <<>>
  BY <1>p, PushIs
<1>2. /\ \/ frames'[n + 1].kind = "array" /\ Here.major = 4 /\ frames'[n + 1].count = Value(Here.arg)
         \/ frames'[n + 1].kind = "map" /\ Here.major = 5 /\ frames'[n + 1].count = 2 * Value(Here.arg)
         \/ frames'[n + 1].kind = "tag" /\ Here.major = 6 /\ frames'[n + 1].count = 1
  BY <1>p, PushIs
<1>3. /\ Here.ok /\ Definite(Here) /\ at \in DOMAIN buffer /\ at' > at /\ at' \in Nat /\ at \in Nat
      /\ Here.major \in {4, 5} => MinimalHead(Here)
      /\ Here.major = 6 => Value(Here.arg) \notin {2, 3}
  BY PushHead
<1>4. FoundGood'
  <2> SUFFICES ASSUME NEW p \in DOMAIN found' PROVE p < at' /\ p \in DOMAIN buffer /\ Good(found', p)
    BY <1>0, GoodSame DEF FoundGood
  <2>1. p < at /\ p \in DOMAIN buffer /\ Good(found, p)
    BY <1>0 DEF WalkGood, FoundGood
  <2>2. p \in Nat
    BY <2>1, LenProperties DEF TypeOK, InputOK
  <2>3. p < at'
    BY <2>1, <2>2, <1>3
  <2> QED BY <2>1, <2>3, <1>0
<1>5. ASSUME NEW i \in 2..n PROVE Opened(i)'
  <2>0. i \in 1..n /\ i \in 2..Depth
    BY <1>p, <1>0
  <2>1. Opened(i)
    BY <2>0 DEF WalkGood, OpenGood
  <2>2. frames'[i].pos = frames[i].pos /\ frames'[i].kind = frames[i].kind /\ frames'[i].count = frames[i].count
    BY <1>1, <2>0
  <2>3. Len(frames'[i].parts) <= frames[i].count
    <3>1. CASE i = n
      <4>1. frames[n].kind # "top"
        BY <2>1, <3>1 DEF Opened
      <4>2. Len(frames[n].parts) < frames[n].count
        BY <1>0, <4>1 DEF More
      <4>3. Len(frames[n].parts) \in Nat /\ frames[n].count \in Nat
        BY <1>p, <1>0, FramesIs, FrameFields
      <4> QED BY <1>1, <3>1, <4>2, <4>3
    <3>2. CASE i # n
      BY <1>1, <2>0, <2>1, <3>2 DEF Opened
    <3> QED BY <3>1, <3>2
  <2>4. frames[i].pos < at'
    <3>1. frames[i].pos < at /\ frames[i].pos \in Nat
      BY <1>p, <2>0, <2>1, FramesIs DEF Opened
    <3> QED BY <1>3, <3>1
  <2> QED BY <1>0, <2>1, <2>2, <2>3, <2>4 DEF Opened
<1>6. Opened(n + 1)'
  <2>1. at \notin DOMAIN found
    BY <1>3 DEF WalkGood, FoundGood
  <2>2. Len(frames'[n + 1].parts) = 0
    BY <1>1
  <2>3. Value(Here.arg) \in Nat
    BY HereType
  <2>4. Here = ReadHead(buffer, at)
    BY DEF Here
  <2> DEFINE h == Here
  <2>5. 0 <= frames'[n + 1].count
    <3> HIDE DEF h
    <3> QED BY <1>2, <2>3 DEF h
  <2> HIDE DEF h
  <2>6. /\ frames'[n + 1].pos = at /\ h = ReadHead(buffer, at) /\ buffer' = buffer /\ found' = found
        /\ \/ frames'[n + 1].kind = "array" /\ h.major = 4 /\ MinimalHead(h) /\ frames'[n + 1].count = Value(h.arg)
           \/ frames'[n + 1].kind = "map" /\ h.major = 5 /\ MinimalHead(h) /\ frames'[n + 1].count = 2 * Value(h.arg)
           \/ frames'[n + 1].kind = "tag" /\ h.major = 6 /\ Value(h.arg) \notin {2, 3} /\ frames'[n + 1].count = 1
        /\ h.ok /\ Definite(h) /\ at \in DOMAIN buffer /\ at < at'
    BY <1>0, <1>1, <1>2, <1>3, <2>4 DEF h
  <2> QED BY <2>1, <2>2, <2>5, <2>6 DEF Opened
<1>7. ASSUME NEW i \in 2..(n + 1), NEW j \in 2..(n + 1), i < j PROVE frames'[i].pos < frames'[j].pos
  <2>1. i \in 1..n /\ i \in 2..n
    BY <1>0, <1>7
  <2>2. frames'[i].pos = frames[i].pos
    BY <1>1, <2>1
  <2>3. CASE j = n + 1
    <3>1. Opened(i)
      BY <1>p, <2>1 DEF WalkGood, OpenGood
    <3> QED BY <1>1, <2>2, <2>3, <3>1 DEF Opened
  <2>4. CASE j # n + 1
    <3>1. j \in 1..n /\ j \in 2..n
      BY <1>0, <2>4
    <3>2. frames[i].pos < frames[j].pos
      BY <1>p, <1>7, <2>1, <3>1 DEF WalkGood, OpenGood
    <3>3. frames'[j].pos = frames[j].pos
      BY <1>1, <3>1
    <3> QED BY <2>2, <3>2, <3>3
  <2> QED BY <2>3, <2>4
<1>8. \A i \in 2..(n + 1) : Opened(i)'
  <2> TAKE i \in 2..(n + 1)
  <2>1. i \in 2..n \/ i = n + 1
    BY <1>0
  <2> QED BY <1>5, <1>6, <2>1
<1>9. (\A i \in 2..Depth : Opened(i))'
  BY <1>1, <1>8
<1> QED BY <1>1, <1>4, <1>7, <1>9 DEF OpenGood

(* A container is begun: it has no parts yet.                              *)
LEMMA PushParts ==
  ASSUME TypeOK, WalkGood, WalkParts
  PROVE  PartsGood'
<1>p. PICK n, m : n = Depth /\ m = Len(frames[n].parts)
  OBVIOUS
<1>0. n \in Nat \ {0} /\ PartsGood /\ m \in Nat /\ n \in 1..n /\ DOMAIN frames[n].parts = 1..m
  BY <1>p, FramesIs DEF WalkGood
<1>1. /\ Depth' = n + 1 /\ found' = found /\ buffer' = buffer /\ at' = Here.at /\ pc' = "next"
      /\ \A i \in 1..n : i # n => frames'[i] = frames[i]
      /\ frames'[n].pos = frames[n].pos
      /\ Len(frames'[n].parts) = m + 1 /\ DOMAIN frames'[n].parts = 1..(m + 1)
      /\ \A k \in 1..m : frames'[n].parts[k] = frames[n].parts[k]
      /\ frames'[n].parts[m + 1] = at
      /\ frames'[n + 1].pos = at /\ frames'[n + 1].parts = <<>>
  BY <1>p, PushIs
<1>2. Extends(found', found)
  BY <1>1 DEF Extends
<1>3. ASSUME NEW i \in 1..n, i # n PROVE Nested(i)'
  <2>1. i < n /\ i + 1 \in 1..n /\ frames'[i] = frames[i]
    BY <1>0, <1>1, <1>3
  <2>2. frames'[i + 1].pos = frames[i + 1].pos
    BY <1>1, <2>1
  <2>3. i \in 1..Depth /\ i < Depth /\ i < Depth' /\ Depth' \in Nat
    BY <1>p, <1>0, <1>1, <2>1
  <2> QED BY <1>0, <1>1, <1>2, <2>1, <2>2, <2>3, NestedKept
<1>4. Nested(n) /\ Walked(n) = 1..m
  BY <1>p, <1>0, WalkedIs DEF PartsGood
<1>5. \A k \in 1..(m + 1) : frames'[n].parts[k] = End(n, k - 1)'
  <2> TAKE k \in 1..(m + 1)
  <2>1. k - 1 \in 0..m /\ (k - 1 = 0 \/ k - 1 \in 1..m)
    BY <1>0
  <2>2. End(n, k - 1)' = End(n, k - 1)
    BY <1>0, <1>1, <1>2, <1>4, <2>1, <1>p, EndKept
  <2>3. CASE k = m + 1
    BY <1>0, <1>1, <2>2, <2>3, <1>p DEF PartsGood
  <2>4. CASE k # m + 1
    <3>1. k \in 1..m
      BY <1>0, <2>4
    <3> QED BY <1>p, <1>0, <1>1, <1>4, <2>2, <3>1 DEF Nested
  <2> QED BY <2>3, <2>4
<1>6. Nested(n)'
  <2>1. (Walked(n))' = 1..m
    <3>1. n < n + 1 /\ (m + 1) - 1 = m
      BY <1>0
    <3> QED BY <1>1, <3>1 DEF Walked
  <2>2. \A k \in 1..m : frames'[n].parts[k] \in DOMAIN found'
    BY <1>1, <1>4 DEF Nested
  <2>3. frames'[n].parts # <<>>
    <3>1. 1 \in 1..(m + 1)
      BY <1>0
    <3> QED BY <1>1, <3>1
  <2> QED BY <1>1, <1>5, <2>1, <2>2, <2>3 DEF Nested
<1>7. Nested(n + 1)'
  <2>1. DOMAIN frames'[n + 1].parts = {} /\ Len(frames'[n + 1].parts) = 0
    BY <1>1
  <2>2. (Walked(n + 1))' = {}
    <3>1. ~(n + 1 < n + 1)
      BY <1>0
    <3>2. (Walked(n + 1))' = 1..(0 - 0)
      BY <1>1, <2>1, <3>1 DEF Walked
    <3> QED BY <3>2
  <2>3. ~(n + 1 < Depth')
    BY <1>0, <1>1
  <2> QED BY <2>1, <2>2, <2>3 DEF Nested
<1>8. at' = End(n + 1, 0)'
  <2>1. n + 1 # 1
    BY <1>0
  <2> QED BY <1>1, <2>1 DEF End, From, Here
<1>9. at' = (End(Depth, Len(frames[Depth].parts)))'
  <2>1. Len(frames'[n + 1].parts) = 0
    BY <1>1
  <2> QED BY <1>1, <1>8, <2>1 DEF End, From
<1>10. \A i \in 1..(n + 1) : Nested(i)'
  <2> TAKE i \in 1..(n + 1)
  <2>1. (i \in 1..n /\ i # n) \/ i = n \/ i = n + 1
    BY <1>0
  <2> QED BY <1>3, <1>6, <1>7, <2>1
<1>11. (\A i \in 1..Depth : Nested(i))'
  BY <1>1, <1>10
<1> QED BY <1>1, <1>9, <1>11 DEF PartsGood

(* A container is begun: it has no keys yet.                               *)
LEMMA PushKeys ==
  ASSUME TypeOK, WalkGood, WalkParts
  PROVE  KeysGood' /\ TopGood'
<1>p. PICK n, m : n = Depth /\ m = Len(frames[n].parts)
  OBVIOUS
<1>0. n \in Nat \ {0} /\ PartsGood /\ m \in Nat /\ n \in 1..n /\ Inner = frames[n] /\ TopGood
  BY <1>p, FramesIs DEF WalkGood
<1>1. /\ Depth' = n + 1 /\ found' = found /\ UNCHANGED <<buffer, call>> /\ pc = "next" /\ pc' = "next" /\ More
      /\ \A i \in 1..n : i # n => frames'[i] = frames[i]
      /\ frames'[n].previous = frames[n].previous /\ frames'[n].kind = frames[n].kind
      /\ Len(frames'[n].parts) = m + 1
      /\ \A k \in 1..m : frames'[n].parts[k] = frames[n].parts[k]
      /\ frames'[n + 1].parts = <<>> /\ frames'[n + 1].previous = {}
  BY <1>p, PushIs
<1>2. Extends(found', found)
  BY <1>1 DEF Extends
<1>3. ASSUME call.mode = "dtrm", NEW i \in 1..n, frames'[i].kind = "map" PROVE Remembered(i)'
  <2>1. frames[i].kind = "map" /\ frames'[i].previous = frames[i].previous
    BY <1>1, <1>3
  <2>2. Remembered(i)
    BY <1>p, <1>3, <2>1 DEF WalkGood, KeysGood
  <2>3. \A k \in 1..Len(frames[i].parts) : frames'[i].parts[k] = frames[i].parts[k]
    BY <1>p, <1>1
  <2>4. (Checked(i))' = Checked(i)
    <3>0. i < n + 1
      BY <1>0
    <3>1. CASE i = n
      <4>1. Checked(i) = (m + 1) \div 2
        <5>1. ~(i < Depth \/ pc = "returned")
          BY <1>p, <1>0, <1>1, <3>1
        <5> QED BY <1>p, <3>1, <5>1 DEF Checked
      <4>2. (Checked(i))' = (m + 1) \div 2
        BY <1>1, <3>0, <3>1 DEF Checked
      <4> QED BY <4>1, <4>2
    <3>2. CASE i # n
      <4>1. i < n
        BY <1>0, <3>2
      <4> QED BY <1>p, <1>1, <3>0, <3>2, <4>1 DEF Checked
    <3> QED BY <3>1, <3>2
  <2> QED BY <1>p, <1>0, <1>1, <1>2, <2>1, <2>2, <2>3, <2>4, RememberedKept
<1>4. Remembered(n + 1)'
  <2>1. Len(frames'[n + 1].parts) = 0
    BY <1>1
  <2>2. (Checked(n + 1))' = 0
    BY <2>1 DEF Checked
  <2> QED BY <1>1, <2>2 DEF Remembered
<1>5. call.mode = "dtrm" => \A i \in 1..(n + 1) : frames'[i].kind = "map" => Remembered(i)'
  <2> SUFFICES ASSUME call.mode = "dtrm", NEW i \in 1..(n + 1), frames'[i].kind = "map" PROVE Remembered(i)'
    OBVIOUS
  <2>1. i \in 1..n \/ i = n + 1
    BY <1>0
  <2> QED BY <1>3, <1>4, <2>1
<1>6. call'.mode = "dtrm" => (\A i \in 1..Depth : frames[i].kind = "map" => Remembered(i))'
  BY <1>1, <1>5
<1>7. TopGood'
  <2>1. ASSUME ~call.sequence PROVE Len(frames'[1].parts) <= 1
    <3>1. CASE n = 1
      <4>1. frames[1].kind = "top" /\ frames[1].parts = <<>>
        BY <1>0, <1>1, <2>1, <3>1 DEF More, TypeOK
      <4>2. m = 0
        BY <1>p, <3>1, <4>1
      <4>3. Len(frames'[1].parts) = 0 + 1
        BY <1>1, <3>1, <4>2
      <4> QED BY <4>3
    <3>2. CASE n # 1
      <4>1. 1 \in 1..n
        BY <1>0
      <4> QED BY <1>0, <1>1, <2>1, <3>2, <4>1 DEF TopGood
    <3> QED BY <3>1, <3>2
  <2>2. buffer # <<>>
    BY <1>0, <1>1 DEF TopGood
  <2> QED BY <1>1, <2>1, <2>2 DEF TopGood
<1> QED BY <1>6, <1>7 DEF KeysGood

(* A loop ends: its container was walked.                                  *)
LEMMA PopIs ==
  ASSUME TypeOK, WalkReturn
  PROVE  LET n == Depth
         IN /\ ~More /\ frames[n].kind # "top" /\ at' = at /\ UNCHANGED <<buffer, document, call>> /\ pc = "next" /\ pc' = "returned"
            /\ found' = With(found, frames[n].pos, [parts |-> frames[n].parts, to |-> at])
            /\ n - 1 \in Nat \ {0} /\ Depth' = n - 1 /\ \A i \in 1..(n - 1) : frames'[i] = frames[i]
<1>p. PICK n : n = Depth
  OBVIOUS
<1>0. n \in Nat \ {0} /\ Inner = frames[n] /\ \A i \in 1..n : frames[i] \in FrameType
  BY <1>p, FramesIs
<1>1. /\ ~More /\ frames[n].kind # "top" /\ at' = at /\ UNCHANGED <<buffer, document, call>> /\ pc = "next" /\ pc' = "returned"
      /\ found' = With(found, frames[n].pos, [parts |-> frames[n].parts, to |-> at])
      /\ frames' = SubSeq(frames, 1, n - 1)
  BY <1>p, <1>0 DEF WalkReturn, input, Depth
<1>2. n - 1 \in Nat /\ n - 1 > 0
  <2>1. n # 1
    BY <1>1 DEF TypeOK
  <2> QED BY <1>0, <2>1
<1>3. \A i \in 1..((n - 1) + 1) : frames[i] \in FrameType
  BY <1>0
<1>4. Len(frames') = n - 1 /\ \A i \in 1..(n - 1) : frames'[i] = frames[i]
  BY <1>1, <1>2, <1>3, PopFrame
<1> QED BY <1>p, <1>1, <1>2, <1>4 DEF Depth

(* The container is the item that its head announces.                      *)
LEMMA PopGood ==
  ASSUME TypeOK, WalkGood, WalkReturn
  PROVE  LET p == frames[Depth].pos IN
         /\ p \notin DOMAIN found /\ p < at /\ p \in DOMAIN buffer /\ p \in Nat
         /\ Extends(found', found) /\ p \in DOMAIN found' /\ found'[p].to = at
         /\ \A q \in DOMAIN found' : q \in DOMAIN found \/ q = p
         /\ Good(found', p)
<1>p. PICK n, m, p : n = Depth /\ m = Len(frames[n].parts) /\ p = frames[n].pos
  OBVIOUS
<1>0. n \in Nat \ {0} /\ n - 1 \in Nat \ {0} /\ PartsGood /\ m \in Nat /\ n \in 1..n /\ DOMAIN frames[n].parts = 1..m
      /\ frames[n].parts \in Seq(Position) /\ Inner = frames[n] /\ p \in Nat
      /\ \A k \in 1..m : frames[n].parts[k] \in Position
  BY <1>p, FramesIs, PopIs DEF WalkGood
<1>1. /\ ~More /\ frames[n].kind # "top" /\ pc = "next"
      /\ found' = With(found, p, [parts |-> frames[n].parts, to |-> at])
  BY <1>p, PopIs
<1>2. n \in 2..Depth
  BY <1>p, <1>0
<1>3. Opened(n)
  BY <1>2 DEF WalkGood, OpenGood
<1> DEFINE h == ReadHead(buffer, p)  f == frames[n]  s == frames[n].parts
<1>4. p \in DOMAIN buffer /\ p \notin DOMAIN found /\ p < at /\ h.ok /\ Definite(h) /\ m <= f.count
      /\ \/ f.kind = "array" /\ h.major = 4 /\ MinimalHead(h) /\ f.count = Value(h.arg)
         \/ f.kind = "map" /\ h.major = 5 /\ MinimalHead(h) /\ f.count = 2 * Value(h.arg)
         \/ f.kind = "tag" /\ h.major = 6 /\ Value(h.arg) \notin {2, 3} /\ f.count = 1
  BY <1>p, <1>3 DEF Opened
<1>5. m = f.count
  <2>1. ~(m < f.count)
    BY <1>p, <1>0, <1>1 DEF More
  <2>2. f.count \in Nat
    BY <1>p, <1>0, FramesIs, FrameFields
  <2> HIDE DEF f
  <2> QED BY <1>0, <1>4, <2>1, <2>2
<1>6. /\ Extends(found', found) /\ p \in DOMAIN found' /\ found'[p] = [parts |-> s, to |-> at]
      /\ \A q \in DOMAIN found' : q \in DOMAIN found \/ q = p
  BY <1>1, <1>4, GrowsBy
<1>7. found'[p].to = at /\ found'[p].parts = s
  BY <1>6
<1>8. at \in Nat /\ at <= Len(buffer) + 1 /\ Len(buffer) \in Nat /\ at \in (p + 1)..(Len(buffer) + 1)
  <2>1. at \in Nat /\ at <= Len(buffer) + 1 /\ Len(buffer) \in Nat
    BY LenProperties DEF TypeOK, InputOK
  <2> QED BY <1>0, <1>4, <2>1
<1>9. Nested(n) /\ Walked(n) = 1..m
  BY <1>p, <1>0, WalkedIs DEF PartsGood
<1>10. Chained(found', s, h.at, at)
  <2>1. ASSUME NEW k \in 1..m PROVE s[k] \in DOMAIN found' /\ s[k] = (IF k - 1 = 0 THEN h.at ELSE found'[s[k - 1]].to)
    <3>1. s[k] \in DOMAIN found /\ s[k] = End(n, k - 1)
      BY <1>0, <1>9 DEF Nested
    <3>2. CASE k = 1
      BY <1>p, <1>0, <1>6, <3>1, <3>2 DEF End, From, Extends
    <3>3. CASE k # 1
      <4>1. k - 1 \in 1..m /\ k - 1 # 0
        BY <1>0, <3>3
      <4>2. s[k - 1] \in DOMAIN found
        BY <1>9, <4>1 DEF Nested
      <4> QED BY <1>6, <3>1, <4>1, <4>2 DEF End, Extends
    <3> QED BY <3>2, <3>3
  <2>2. at = (IF m = 0 THEN h.at ELSE found'[s[m]].to)
    <3>1. at = End(n, m)
      BY <1>p, <1>0 DEF PartsGood
    <3>2. CASE m = 0
      <4>1. n # 1
        BY <1>0
      <4> QED BY <1>p, <3>1, <3>2, <4>1 DEF End, From
    <3>3. CASE m # 0
      <4>1. m \in 1..m
        BY <1>0, <3>3
      <4>2. s[m] \in DOMAIN found
        BY <1>9, <4>1 DEF Nested
      <4> QED BY <1>6, <3>1, <3>3, <4>2 DEF End, Extends
    <3> QED BY <3>2, <3>3
  <2>3. DOMAIN s = 1..m /\ Len(s) = m
    BY <1>p, <1>0
  <2> HIDE DEF s, h
  <2> QED BY <2>1, <2>2, <2>3 DEF Chained
<1>11. Value(h.arg) \in Nat /\ Len(s) = m
  <2>1. buffer \in Seq(Byte) /\ p \in Nat \ {0}
    BY <1>4, LenProperties DEF TypeOK, InputOK
  <2>2. h.arg \in Seq(Byte)
    BY <2>1, HeadType
  <2> QED BY <1>p, <2>2, ValueType
<1>12. Structured(buffer, found', p)
  <2>1. h.major = 5 => m = 2 * Value(h.arg) /\ m % 2 = 0
    <3>1. h.major = 5 => m = 2 * Value(h.arg)
      BY <1>4, <1>5
    <3> HIDE DEF h
    <3> QED BY <1>11, <3>1
  <2>2. (h.major = 4 => m = Value(h.arg)) /\ (h.major = 6 => m = 1) /\ h.major \in {4, 5, 6}
    BY <1>4, <1>5
  <2>3. h = ReadHead(buffer, p)
    OBVIOUS
  <2> HIDE DEF h, s, f
  <2>4. h.ok /\ Definite(h) /\ Len(s) = m
    BY <1>4, <1>11
  <2> QED BY <1>7, <1>8, <1>10, <2>1, <2>2, <2>3, <2>4 DEF Structured
<1>13. Shortest(buffer, found', p)
  BY <1>4, ShortestMeans
<1>14. Readable(p)
  BY <1>4 DEF Readable
<1>15. ASSUME call.mode = "dtrm", h.major = 5 PROVE Ascending(Keys(buffer, found', p), Bytewise)
  <2>1. f.kind = "map" /\ m % 2 = 0
    <3>1. f.kind = "map" /\ m = 2 * Value(h.arg)
      BY <1>4, <1>5, <1>15
    <3> HIDE DEF h
    <3> QED BY <1>11, <3>1
  <2>2. Checked(n) = m \div 2
    <3>1. Checked(n) = (m + 1) \div 2
      <4>1. ~(n < Depth \/ pc = "returned")
        BY <1>p, <1>0, <1>1
      <4> QED BY <1>p, <4>1 DEF Checked
    <3> QED BY <1>0, <2>1, <3>1, CheckedIs
  <2>3. \A k, l \in 1..(m \div 2) : k < l => Bytewise(KeyOf(n, k), KeyOf(n, l))
    BY <1>p, <1>0, <1>15, <2>1, <2>2 DEF WalkGood, KeysGood, Remembered
  <2>4. \A k \in 1..(m \div 2) : 2 * k - 1 \in 1..m
    <3> TAKE k \in 1..(m \div 2)
    <3>1. 2 * k - 1 \in 1..(m - 1)
      BY <1>0, CheckedIs
    <3> QED BY <1>0, <3>1
  <2>5. ASSUME NEW k \in 1..(m \div 2) PROVE Bytes(buffer, found', s[2 * k - 1]) = KeyOf(n, k)
    <3>1. s[2 * k - 1] \in DOMAIN found
      BY <1>9, <2>4 DEF Nested
    <3> QED BY <1>6, <3>1 DEF KeyOf, Bytes, Extends
  <2>6. Keys(buffer, found', p) = [k \in 1..(m \div 2) |-> Bytes(buffer, found', s[2 * k - 1])]
    BY <1>7, <1>11 DEF Keys
  <2> HIDE DEF s
  <2> DEFINE keys == [k \in 1..(m \div 2) |-> Bytes(buffer, found', s[2 * k - 1])]
  <2>7. \A k \in DOMAIN keys : k \in 1..(m \div 2) /\ keys[k] = KeyOf(n, k)
    BY <2>5
  <2> HIDE DEF keys
  <2>8. \A k, l \in DOMAIN keys : k < l => Bytewise(keys[k], keys[l])
    BY <2>3, <2>7
  <2> QED BY <2>6, <2>8 DEF Ascending, keys
<1>16. Good(found', p)
  BY <1>12, <1>13, <1>14, <1>15 DEF Good, Ordered
<1> QED BY <1>p, <1>0, <1>4, <1>6, <1>7, <1>16

(* A container ends: the loops around it are of begun containers.          *)
LEMMA PopOpen ==
  ASSUME TypeOK, WalkGood, WalkReturn
  PROVE  FoundGood' /\ OpenGood'
<1>p. PICK n, p : n = Depth /\ p = frames[n].pos
  OBVIOUS
<1>0. n \in Nat \ {0} /\ n - 1 \in Nat \ {0} /\ UNCHANGED <<buffer, call>> /\ at' = at
      /\ Depth' = n - 1 /\ \A i \in 1..(n - 1) : frames'[i] = frames[i]
  BY <1>p, FramesIs, PopIs
<1>1. /\ p \notin DOMAIN found /\ p < at /\ p \in DOMAIN buffer /\ Extends(found', found)
      /\ (\A q \in DOMAIN found' : q \in DOMAIN found \/ q = p) /\ Good(found', p) /\ p \in Nat
  BY <1>p, PopGood
<1>2. FoundGood'
  <2> SUFFICES ASSUME NEW q \in DOMAIN found' PROVE q < at' /\ q \in DOMAIN buffer /\ Good(found', q)
    BY <1>0, GoodSame DEF FoundGood
  <2>1. CASE q = p
    BY <1>0, <1>1, <2>1
  <2>2. CASE q # p
    <3>1. q \in DOMAIN found
      BY <1>1, <2>2
    <3>2. q < at /\ q \in DOMAIN buffer /\ Good(found, q)
      BY <3>1 DEF WalkGood, FoundGood
    <3>3. found[q].parts \in Seq(Position)
      BY <3>1 DEF TypeOK, ItemType
    <3> QED BY <1>0, <1>1, <3>1, <3>2, <3>3, GoodExtends
  <2> QED BY <2>1, <2>2
<1>3. ASSUME NEW i \in 2..(n - 1) PROVE Opened(i)'
  <2>1. i \in 2..Depth /\ n \in 2..Depth /\ i < n /\ i \in 1..(n - 1)
    BY <1>p, <1>0
  <2>2. Opened(i) /\ frames[i].pos < frames[n].pos
    BY <2>1 DEF WalkGood, OpenGood
  <2>3. frames[i].pos \in Nat
    BY <2>1, FramesIs, <1>0
  <2>4. frames[i].pos \notin DOMAIN found'
    BY <1>p, <1>1, <2>2, <2>3 DEF Opened
  <2> QED BY <1>0, <2>1, <2>2, <2>4 DEF Opened
<1>4. ASSUME NEW i \in 2..(n - 1), NEW j \in 2..(n - 1), i < j PROVE frames'[i].pos < frames'[j].pos
  <2>1. i \in 2..Depth /\ j \in 2..Depth /\ i \in 1..(n - 1) /\ j \in 1..(n - 1)
    BY <1>p, <1>0
  <2>2. frames[i].pos < frames[j].pos
    BY <1>4, <2>1 DEF WalkGood, OpenGood
  <2> QED BY <1>0, <2>1, <2>2
<1>5. (\A i \in 2..Depth : Opened(i))'
  BY <1>0, <1>3
<1> QED BY <1>0, <1>2, <1>4, <1>5 DEF OpenGood

(* A container ends: it is the next part that the loop around it has       *)
(* walked.                                                                 *)
LEMMA PopParts ==
  ASSUME TypeOK, WalkGood, WalkReturn
  PROVE  PartsGood'
<1>p. PICK n, j, m, p : n = Depth /\ j = n - 1 /\ p = frames[n].pos /\ m = Len(frames[j].parts)
  OBVIOUS
<1>0. /\ n \in Nat \ {0} /\ j \in Nat \ {0} /\ buffer' = buffer /\ at' = at /\ j < n /\ j + 1 = n /\ j \in 1..n /\ j \in 1..j
      /\ Depth' = j /\ (\A i \in 1..j : frames'[i] = frames[i]) /\ PartsGood
  BY <1>p, FramesIs, PopIs DEF WalkGood
<1>1. Extends(found', found) /\ p \in DOMAIN found' /\ found'[p].to = at
  BY <1>p, PopGood
<1>2. m \in Nat /\ DOMAIN frames[j].parts = 1..m /\ Nested(j) /\ Walked(j) = 1..(m - 1)
  <2>1. m \in Nat /\ DOMAIN frames[j].parts = 1..m
    BY <1>p, <1>0, FramesIs
  <2> QED BY <1>p, <1>0, <2>1, WalkedIs DEF PartsGood
<1>3. frames[j].parts # <<>> /\ frames[j].parts[m] = p
  BY <1>p, <1>0, <1>2 DEF Nested
<1>4. m # 0
  <2>1. frames[j].parts \in Seq(Position)
    BY <1>p, <1>0, FramesIs
  <2> QED BY <1>3, <1>p, <2>1, EmptySeq
<1>5. \A k \in 1..m : frames[j].parts[k] = End(j, k - 1)'
  <2> TAKE k \in 1..m
  <2>1. k - 1 \in 0..m /\ (k - 1 = 0 \/ k - 1 \in 1..(m - 1))
    BY <1>2
  <2>2. End(j, k - 1)' = End(j, k - 1)
    BY <1>p, <1>0, <1>1, <1>2, <2>1, EndKept
  <2> QED BY <1>2, <2>2 DEF Nested
<1>6. \A k \in 1..m : frames[j].parts[k] \in DOMAIN found'
  <2> TAKE k \in 1..m
  <2>1. k = m \/ k \in 1..(m - 1)
    BY <1>2
  <2> QED BY <1>1, <1>2, <1>3, <2>1 DEF Nested, Extends
<1>7. Nested(j)'
  <2>1. (Walked(j))' = 1..m
    <3>1. ~(j < j) /\ m - 0 = m
      BY <1>0, <1>2
    <3> QED BY <1>p, <1>0, <3>1 DEF Walked
  <2>2. ~(j < Depth')
    BY <1>0
  <2> QED BY <1>0, <1>2, <1>5, <1>6, <2>1, <2>2 DEF Nested
<1>8. ASSUME NEW i \in 1..j, i # j PROVE Nested(i)'
  <2>1. i < j /\ i + 1 \in 1..j /\ frames'[i] = frames[i] /\ frames'[i + 1].pos = frames[i + 1].pos
    BY <1>0, <1>8
  <2>2. i \in 1..Depth /\ i < Depth /\ i < Depth' /\ Depth' \in Nat
    BY <1>p, <1>0, <2>1
  <2> QED BY <1>0, <1>1, <2>1, <2>2, NestedKept
<1>9. at' = (End(Depth, Len(frames[Depth].parts)))'
  <2>1. found'[frames'[j].parts[m]].to = at /\ Len(frames'[j].parts) = m
    BY <1>p, <1>0, <1>1, <1>3
  <2> QED BY <1>0, <1>4, <2>1 DEF End
<1>10. (\A i \in 1..Depth : Nested(i))'
  BY <1>0, <1>7, <1>8
<1> QED BY <1>0, <1>3, <1>9, <1>10 DEF PartsGood

(* A container ends: the keys around it are as they were.                  *)
LEMMA PopKeys ==
  ASSUME TypeOK, WalkGood, WalkReturn
  PROVE  KeysGood' /\ TopGood'
<1>p. PICK n, j : n = Depth /\ j = n - 1
  OBVIOUS
<1>0. /\ n \in Nat \ {0} /\ j \in Nat \ {0} /\ UNCHANGED <<buffer, call>> /\ j < n /\ PartsGood /\ pc = "next" /\ pc' = "returned"
      /\ Depth' = j /\ (\A i \in 1..j : frames'[i] = frames[i]) /\ TopGood
  BY <1>p, FramesIs, PopIs DEF WalkGood
<1>1. Extends(found', found)
  BY PopGood
<1>2. ASSUME call.mode = "dtrm", NEW i \in 1..j, frames'[i].kind = "map" PROVE Remembered(i)'
  <2>1. frames'[i] = frames[i] /\ i \in 1..Depth /\ i < Depth
    BY <1>p, <1>0
  <2>2. Remembered(i)
    BY <1>2, <2>1 DEF WalkGood, KeysGood
  <2>3. (Checked(i))' = Checked(i)
    BY <1>0, <2>1 DEF Checked
  <2> QED BY <1>0, <1>1, <2>1, <2>2, <2>3, RememberedKept
<1>3. call'.mode = "dtrm" => (\A i \in 1..Depth : frames[i].kind = "map" => Remembered(i))'
  BY <1>0, <1>2
<1>4. 1 \in 1..j
  BY <1>0
<1> QED BY <1>0, <1>3, <1>4 DEF KeysGood, TopGood

(* A part was walked: the loop goes on, and remembers a key.               *)
LEMMA NextIs ==
  ASSUME TypeOK, WalkNext
  PROVE  LET n == Depth
         IN /\ UNCHANGED <<buffer, document, call, at, found>> /\ pc = "returned" /\ pc' = "next" /\ Depth' = n
            /\ (AfterKey => KeyAccepted)
            /\ \A i \in 1..n : i # n => frames'[i] = frames[i]
            /\ \A i \in 1..n : /\ frames'[i].pos = frames[i].pos /\ frames'[i].kind = frames[i].kind
                               /\ frames'[i].count = frames[i].count /\ frames'[i].parts = frames[i].parts
            /\ frames'[n].previous = IF AfterKey THEN {Key} ELSE frames[n].previous
<1>p. PICK n : n = Depth
  OBVIOUS
<1>0. n \in Nat \ {0} /\ Inner = frames[n] /\ n \in 1..n /\ \A i \in 1..n : frames[i] \in FrameType
  BY <1>p, FramesIs
<1>1. /\ UNCHANGED <<buffer, document, call, at, found>> /\ pc = "returned" /\ pc' = "next"
      /\ (AfterKey => KeyAccepted)
      /\ frames' = (IF AfterKey THEN [frames EXCEPT ![n].previous = {Key}] ELSE frames)
  BY <1>p DEF WalkNext, input, Depth
<1>2. CASE ~AfterKey
  <2>1. frames' = frames
    BY <1>1, <1>2
  <2> QED BY <1>p, <1>1, <1>2, <2>1 DEF Depth
<1>3. CASE AfterKey
  <2> DEFINE g == [frames[n] EXCEPT !.previous = {Key}]
  <2>1. frames' = [frames EXCEPT ![n] = g]
    BY <1>1, <1>3
  <2>2. Key \in Seq(Byte)
    <3>1. frames[n].parts \in Seq(Position) /\ Len(frames[n].parts) \in Nat
          /\ \A k \in 1..Len(frames[n].parts) : frames[n].parts[k] \in Position
      BY <1>p, <1>0, FramesIs
    <3>2. PICK m : m = Len(frames[n].parts)
      OBVIOUS
    <3>3. m \in Nat /\ m % 2 = 1
      BY <1>0, <1>3, <3>1, <3>2 DEF AfterKey
    <3>4. m \in 1..m
      BY <3>3
    <3>5. buffer \in Seq(Byte) /\ at - 1 \in Nat /\ at - 1 <= Len(buffer)
      BY LenProperties DEF TypeOK, InputOK
    <3> QED BY <1>0, <3>1, <3>2, <3>4, <3>5, CutType DEF Key
  <2>3. {Key} \in SUBSET Seq(Byte) /\ frames[n] \in FrameType
    BY <1>0, <2>2
  <2>4. /\ g \in FrameType /\ g.previous = {Key} /\ g.pos = frames[n].pos /\ g.kind = frames[n].kind
        /\ g.count = frames[n].count /\ g.parts = frames[n].parts
    BY <2>3, FrameFields
  <2> HIDE DEF g
  <2>5. Len(frames') = n /\ \A i \in 1..n : frames'[i] = IF i = n THEN g ELSE frames[i]
    <3>1. frames \in Seq(FrameType) /\ n \in 1..Len(frames)
      BY <1>p, <1>0 DEF TypeOK, Depth
    <3> QED BY <1>p, <2>1, <2>4, <3>1, ExceptSeq DEF Depth
  <2>6. frames'[n] = g
    BY <1>0, <2>5
  <2>7. \A i \in 1..n : /\ frames'[i].pos = frames[i].pos /\ frames'[i].kind = frames[i].kind
                        /\ frames'[i].count = frames[i].count /\ frames'[i].parts = frames[i].parts
    BY <2>4, <2>5
  <2>8. \A i \in 1..n : i # n => frames'[i] = frames[i]
    BY <2>5
  <2> QED BY <1>p, <1>1, <1>3, <2>4, <2>5, <2>6, <2>7, <2>8 DEF Depth
<1> QED BY <1>2, <1>3

(* A loop goes on: the parts are as they were.                             *)
LEMMA NextParts ==
  ASSUME TypeOK, WalkGood, WalkNext
  PROVE  FoundGood' /\ OpenGood' /\ PartsGood' /\ TopGood'
<1>p. PICK n : n = Depth
  OBVIOUS
<1>0. n \in Nat \ {0} /\ FoundGood /\ OpenGood /\ PartsGood /\ TopGood
  BY <1>p, FramesIs DEF WalkGood
<1>1. /\ buffer' = buffer /\ call' = call /\ at' = at /\ found' = found /\ pc = "returned" /\ pc' = "next" /\ Depth' = n
      /\ \A i \in 1..n : /\ frames'[i].pos = frames[i].pos /\ frames'[i].kind = frames[i].kind
                         /\ frames'[i].count = frames[i].count /\ frames'[i].parts = frames[i].parts
  BY <1>p, NextIs
<1>2. FoundGood'
  <2> SUFFICES ASSUME NEW p \in DOMAIN found' PROVE p < at' /\ p \in DOMAIN buffer /\ Good(found', p)
    BY <1>1, GoodSame DEF FoundGood
  <2> QED BY <1>0, <1>1 DEF FoundGood
<1>3. OpenGood'
  <2>1. ASSUME NEW i \in 2..n PROVE Opened(i)'
    <3>1. Opened(i) /\ i \in 1..n
      BY <1>p, <1>0 DEF OpenGood
    <3> QED BY <1>1, <3>1 DEF Opened
  <2>2. \A i, j \in 2..n : i < j => frames'[i].pos < frames'[j].pos
    <3>1. \A i \in 2..n : i \in 1..n
      BY <1>0
    <3> QED BY <1>p, <1>0, <1>1, <3>1 DEF OpenGood
  <2>3. (\A i \in 2..Depth : Opened(i))'
    BY <1>1, <2>1
  <2> QED BY <1>1, <2>2, <2>3 DEF OpenGood
<1>4. ASSUME NEW i \in 1..n, NEW k PROVE End(i, k)' = End(i, k)
  BY <1>1 DEF End, From
<1>5. PartsGood'
  <2>1. ASSUME NEW i \in 1..n PROVE Nested(i)'
    <3>1. Nested(i) /\ (Walked(i))' = Walked(i)
      BY <1>p, <1>0, <1>1 DEF PartsGood, Walked
    <3>2. i < n => i + 1 \in 1..n
      BY <1>0
    <3> QED BY <1>p, <1>1, <1>4, <3>1, <3>2 DEF Nested
  <2>2. n \in 1..n
    BY <1>0
  <2>3. at' = (End(Depth, Len(frames[Depth].parts)))'
    BY <1>p, <1>0, <1>1, <2>2 DEF PartsGood, End, From
  <2>4. (\A i \in 1..Depth : Nested(i))'
    BY <1>1, <2>1
  <2> QED BY <1>1, <2>3, <2>4 DEF PartsGood
<1>6. TopGood'
  <2>1. 1 \in 1..n
    BY <1>0
  <2> QED BY <1>0, <1>1, <2>1 DEF TopGood
<1> QED BY <1>2, <1>3, <1>5, <1>6

(* A loop goes on: the key that was walked is above all before, since it   *)
(* is above the last of them.                                              *)
LEMMA NextKeys ==
  ASSUME TypeOK, WalkGood, WalkNext
  PROVE  KeysGood'
<1>p. PICK n, m, c : n = Depth /\ m = Len(frames[n].parts) /\ c = m \div 2
  OBVIOUS
<1>0. n \in Nat \ {0} /\ PartsGood /\ Inner = frames[n] /\ n \in 1..n /\ m \in Nat /\ DOMAIN frames[n].parts = 1..m
      /\ \A k \in 1..m : frames[n].parts[k] \in Position
  BY <1>p, FramesIs DEF WalkGood
<1>1. /\ buffer' = buffer /\ call' = call /\ at' = at /\ found' = found /\ pc = "returned" /\ pc' = "next" /\ Depth' = n
      /\ (AfterKey => KeyAccepted)
      /\ \A i \in 1..n : i # n => frames'[i] = frames[i]
      /\ \A i \in 1..n : frames'[i].kind = frames[i].kind /\ frames'[i].parts = frames[i].parts
      /\ frames'[n].previous = IF AfterKey THEN {Key} ELSE frames[n].previous
  BY <1>p, NextIs
<1>2. Extends(found', found)
  BY <1>1 DEF Extends
<1>3. ASSUME call.mode = "dtrm", NEW i \in 1..n, frames'[i].kind = "map", i # n PROVE Remembered(i)'
  <2>1. frames'[i] = frames[i] /\ frames[i].kind = "map" /\ i < n
    BY <1>0, <1>1, <1>3
  <2>2. Remembered(i)
    BY <1>p, <1>3, <2>1 DEF WalkGood, KeysGood
  <2>3. (Checked(i))' = Checked(i)
    BY <1>p, <1>1, <2>1 DEF Checked
  <2> QED BY <1>p, <1>0, <1>1, <1>2, <2>1, <2>2, <2>3, RememberedKept
<1>4. Checked(n) = c /\ (Checked(n))' = (m + 1) \div 2
  <2>1. ~(n < n)
    BY <1>0
  <2> QED BY <1>p, <1>1, <1>0, <2>1 DEF Checked
<1>5. ASSUME call.mode = "dtrm", frames'[n].kind = "map", ~AfterKey PROVE Remembered(n)'
  <2>1. frames[n].kind = "map"
    BY <1>0, <1>1, <1>5
  <2>2. m % 2 = 0
    <3>1. m % 2 # 1
      BY <1>p, <1>0, <1>5, <2>1 DEF AfterKey
    <3> QED BY <1>0, <3>1
  <2>3. (Checked(n))' = Checked(n)
    BY <1>p, <1>0, <1>4, <2>2, CheckedIs
  <2>4. Remembered(n)
    BY <1>p, <1>0, <1>5, <2>1 DEF WalkGood, KeysGood
  <2> QED BY <1>p, <1>0, <1>1, <1>2, <1>5, <2>3, <2>4, RememberedKept
<1>6. ASSUME call.mode = "dtrm", frames'[n].kind = "map", AfterKey PROVE Remembered(n)'
  <2>1. frames[n].kind = "map" /\ m % 2 = 1 /\ KeyAccepted
    BY <1>p, <1>0, <1>1, <1>6 DEF AfterKey
  <2>2. c \in Nat /\ (m + 1) \div 2 = c + 1 /\ 2 * (c + 1) - 1 = m
    BY <1>p, <1>0, <2>1, CheckedIs
  <2>3. Remembered(n)
    BY <1>p, <1>0, <1>6, <2>1 DEF WalkGood, KeysGood
  <2>4. \A key \in frames[n].previous : Bytewise(key, Key)
    BY <1>0, <1>6, <2>1 DEF KeyAccepted
  <2>5. m \in 1..m
    <3>1. m # 0
      BY <2>1, <1>0
    <3> QED BY <1>0, <3>1
  <2>6. Walked(n) = 1..m /\ Nested(n)
    BY <1>p, <1>0, WalkedIs DEF PartsGood
  <2>7. Key = KeyOf(n, c + 1)
    <3>1. at = found[frames[n].parts[m]].to
      BY <1>p, <1>0, <2>5 DEF PartsGood, End
    <3> QED BY <1>p, <1>0, <2>2, <3>1 DEF Key, KeyOf, Bytes
  <2>8. ASSUME NEW k \in 1..(c + 1) PROVE KeyOf(n, k) \in Seq(Byte)
    <3>1. 2 * k - 1 \in 1..m
      <4>1. k \in 1..((m + 1) \div 2)
        BY <2>2
      <4> QED BY <1>0, <4>1, CheckedIs
    <3>2. frames[n].parts[2 * k - 1] \in DOMAIN found /\ frames[n].parts[2 * k - 1] \in Position
      BY <1>0, <2>6, <3>1 DEF Nested
    <3> DEFINE p == frames[n].parts[2 * k - 1]
    <3>3. found[p].to \in (p + 1)..(Len(buffer) + 1)
      BY <3>2 DEF WalkGood, FoundGood, Good, Structured
    <3>4. buffer \in Seq(Byte) /\ Len(buffer) \in Nat
      BY LenProperties DEF TypeOK, InputOK
    <3> HIDE DEF p
    <3>5. p \in Position
      BY <3>2 DEF p
    <3>6. found[p].to - 1 \in Nat /\ found[p].to - 1 <= Len(buffer)
      BY <3>3, <3>4, <3>5 DEF Position
    <3> QED BY <3>4, <3>5, <3>6, CutType DEF KeyOf, Bytes, p
  <2>9. ASSUME NEW k \in 1..(c + 1), NEW l \in 1..(c + 1), k < l PROVE Bytewise(KeyOf(n, k), KeyOf(n, l))
    <3>1. CASE l # c + 1
      <4>1. k \in 1..c /\ l \in 1..c
        BY <2>2, <2>9, <3>1
      <4> QED BY <1>4, <2>3, <2>9, <4>1 DEF Remembered
    <3>2. CASE l = c + 1
      <4>1. k \in 1..c /\ c # 0 /\ c \in 1..c /\ c \in 1..(c + 1)
        BY <2>2, <2>9, <3>2
      <4>2. Bytewise(KeyOf(n, c), KeyOf(n, l))
        <5>1. KeyOf(n, c) \in frames[n].previous
          BY <1>4, <2>3, <4>1 DEF Remembered
        <5> QED BY <2>4, <2>7, <3>2, <5>1
      <4>3. CASE k = c
        BY <4>2, <4>3
      <4>4. CASE k # c
        <5>1. k < c
          BY <2>2, <4>1, <4>4
        <5>2. Bytewise(KeyOf(n, k), KeyOf(n, c))
          BY <1>4, <2>3, <4>1, <5>1 DEF Remembered
        <5>3. KeyOf(n, k) \in Seq(Byte) /\ KeyOf(n, c) \in Seq(Byte) /\ KeyOf(n, l) \in Seq(Byte)
          BY <2>8, <4>1
        <5> QED BY <4>2, <5>2, <5>3, BytewiseTransitive
      <4> QED BY <4>3, <4>4
    <3> QED BY <3>1, <3>2
  <2>10. \A k : KeyOf(n, k)' = KeyOf(n, k)
    BY <1>0, <1>1 DEF KeyOf
  <2>11. (Checked(n))' = c + 1 /\ c + 1 # 0
    BY <1>4, <2>2
  <2>12. frames'[n].previous = IF (Checked(n))' = 0 THEN {} ELSE {(KeyOf(n, Checked(n)))'}
    <3>1. (KeyOf(n, Checked(n)))' = KeyOf(n, c + 1)
      BY <1>0, <1>1, <2>11 DEF KeyOf
    <3> QED BY <1>1, <1>6, <2>7, <2>11, <3>1
  <2>13. (\A k, l \in 1..Checked(n) : k < l => Bytewise(KeyOf(n, k), KeyOf(n, l)))'
    <3>1. \A k, l \in 1..(c + 1) : k < l => Bytewise(KeyOf(n, k)', KeyOf(n, l)')
      BY <2>9, <2>10
    <3> QED BY <2>11, <3>1
  <2> QED BY <2>12, <2>13 DEF Remembered
<1>7. call'.mode = "dtrm" => (\A i \in 1..Depth : frames[i].kind = "map" => Remembered(i))'
  <2>1. call.mode = "dtrm" => \A i \in 1..n : frames'[i].kind = "map" => Remembered(i)'
    BY <1>3, <1>5, <1>6
  <2> QED BY <1>1, <2>1
<1> QED BY <1>7 DEF KeysGood

(* The end of the loop at the top level keeps the walk a good one.         *)
LEMMA ReturnSound ==
  ASSUME TypeOK, WalkGood, CheckReturn, pc' # "refused"
  PROVE  WalkGood' /\ pc' = "accepted"
<1>p. PICK n : n = Depth
  OBVIOUS
<1>0. n \in Nat \ {0} /\ Inner = frames[n] /\ FoundGood /\ OpenGood /\ PartsGood /\ KeysGood /\ TopGood
  BY <1>p, FramesIs DEF WalkGood
<1>1. /\ UNCHANGED <<buffer, call, at, frames, found>> /\ pc = "next" /\ Inner.kind = "top" /\ ~More
      /\ pc' = (IF at > Len(buffer) THEN "accepted" ELSE "refused")
  BY DEF CheckReturn, input, walk
<1>2. pc' = "accepted" /\ at > Len(buffer)
  BY <1>1
<1>3. n = 1
  <2>1. CASE n # 1
    <3>1. n \in 2..Depth
      BY <1>p, <1>0, <2>1
    <3>2. Opened(n)
      BY <1>0, <3>1 DEF OpenGood
    <3> QED BY <1>0, <1>1, <3>2 DEF Opened
  <2> QED BY <2>1
<1>4. at = Len(buffer) + 1
  <2>1. at \in Nat /\ Len(buffer) \in Nat /\ at <= Len(buffer) + 1
    BY LenProperties DEF TypeOK, InputOK
  <2> QED BY <1>2, <2>1
<1>5. call.sequence \/ Len(frames[1].parts) = 1
  <2> SUFFICES ASSUME ~call.sequence PROVE Len(frames[1].parts) = 1
    OBVIOUS
  <2>1. frames[1].parts # <<>> /\ Len(frames[1].parts) <= 1
    BY <1>0, <1>1, <1>3 DEF More, TopGood
  <2>2. frames[1].parts \in Seq(Position) /\ Len(frames[1].parts) \in Nat
    BY <1>p, <1>0, <1>3, FramesIs
  <2>3. Len(frames[1].parts) # 0
    BY <2>1, <2>2, EmptySeq
  <2>4. PICK m : m = Len(frames[1].parts)
    OBVIOUS
  <2>5. m \in Nat /\ m <= 1 /\ m # 0
    BY <2>1, <2>2, <2>3, <2>4
  <2>6. m = 1
    BY <2>5
  <2> QED BY <2>4, <2>6
<1>6. FoundGood'
  <2> SUFFICES ASSUME NEW p \in DOMAIN found' PROVE p < at' /\ p \in DOMAIN buffer /\ Good(found', p)
    BY <1>1, GoodSame DEF FoundGood
  <2> QED BY <1>0, <1>1 DEF FoundGood
<1>7. OpenGood'
  BY <1>0, <1>1 DEF OpenGood, Opened, Depth
<1>8. PartsGood'
  BY <1>0, <1>1, <1>2 DEF PartsGood, Nested, Walked, End, From, Depth
<1>9. KeysGood'
  <2>1. frames[1].kind = "top" /\ Depth' = 1 /\ frames' = frames
    BY <1>p, <1>1, <1>3 DEF Depth, TypeOK
  <2>2. (\A i \in 1..Depth : frames[i].kind # "map")'
    BY <2>1
  <2> QED BY <2>2 DEF KeysGood
<1>10. TopGood'
  BY <1>0, <1>1, <1>2, <1>3, <1>4, <1>5, <1>p DEF TopGood, Depth
<1> QED BY <1>2, <1>6, <1>7, <1>8, <1>9, <1>10 DEF WalkGood

(* A walk begins as a good one.                                            *)
LEMMA InitSound == Init => Sound
<1> SUFFICES ASSUME Init, call.fn = "check", pc # "refused" PROVE pc \in {"next", "returned", "accepted"} /\ WalkGood
  BY DEF Sound
<1>0. TypeOK
  BY InitType
<1>1. frames = <<Frame(0, "top", 0)>> /\ found = <<>> /\ at = 1
      /\ pc = (IF buffer # <<>> THEN "next" ELSE IF call.sequence THEN "accepted" ELSE "refused")
  BY DEF Init, Begin
<1>2. Depth = 1 /\ frames[1].kind = "top" /\ frames[1].parts = <<>>
  BY <1>1 DEF Depth, Frame
<1>3. Len(frames[1].parts) = 0 /\ DOMAIN frames[1].parts = {}
  BY <1>2
<1>4. DOMAIN found = {}
  BY <1>1
<1>5. FoundGood
  BY <1>4 DEF FoundGood
<1>6. OpenGood
  BY <1>2 DEF OpenGood
<1>7. PartsGood
  <2>1. Walked(1) = {}
    BY <1>2, <1>3 DEF Walked
  <2>2. Nested(1)
    BY <1>2, <1>3, <2>1 DEF Nested
  <2>3. at = End(1, 0)
    BY <1>1 DEF End, From
  <2>4. pc # "returned"
    BY <1>1
  <2> QED BY <1>2, <1>3, <2>2, <2>3, <2>4 DEF PartsGood
<1>8. KeysGood
  BY <1>2 DEF KeysGood
<1>9. TopGood
  <2>1. pc = "accepted" => buffer = <<>> /\ call.sequence
    BY <1>1
  <2>2. buffer = <<>> => Len(buffer) = 0
    OBVIOUS
  <2>3. pc # "accepted" => buffer # <<>>
    BY <1>1
  <2> QED BY <1>1, <1>2, <1>3, <2>1, <2>2, <2>3 DEF TopGood
<1> QED BY <1>1, <1>5, <1>6, <1>7, <1>8, <1>9 DEF WalkGood

(* Every step keeps a strict walk a good one.                              *)
LEMMA SoundStep == TypeOK /\ Sound /\ [Next]_vars => Sound'
<1> SUFFICES ASSUME TypeOK, Sound, [Next]_vars, (call.fn = "check" /\ Strict /\ pc # "refused")'
             PROVE  pc' \in {"next", "returned", "accepted"} /\ WalkGood'
  BY DEF Sound
<1>1. CASE UNCHANGED vars
  <2>1. pc' = pc /\ call' = call /\ UNCHANGED <<buffer, at, frames, found, pc, call>>
    BY <1>1 DEF vars
  <2>2. pc \in {"next", "returned", "accepted"} /\ FoundGood /\ OpenGood /\ PartsGood /\ KeysGood /\ TopGood
    BY <2>1 DEF Sound, WalkGood, Strict
  <2>3. FoundGood'
    <3> SUFFICES ASSUME NEW p \in DOMAIN found' PROVE p < at' /\ p \in DOMAIN buffer /\ Good(found', p)
      BY <2>1, GoodSame DEF FoundGood
    <3> QED BY <2>1, <2>2 DEF FoundGood
  <2>4. OpenGood' /\ TopGood'
    BY <2>1, <2>2 DEF OpenGood, Opened, TopGood, Depth
  <2>5. PartsGood'
    <3>1. \A i : Nested(i)' <=> Nested(i)
      BY <2>1 DEF Nested, Walked, End, From, Depth
    <3> QED BY <2>1, <2>2, <3>1 DEF PartsGood, End, From, Depth
  <2>6. KeysGood'
    <3>1. \A i : Remembered(i)' <=> Remembered(i)
      <4>1. \A i : Checked(i)' = Checked(i)
        BY <2>1 DEF Checked, Depth
      <4>2. \A i, k : KeyOf(i, k)' = KeyOf(i, k)
        BY <2>1 DEF KeyOf
      <4>3. ASSUME NEW i PROVE (KeyOf(i, Checked(i)))' = KeyOf(i, Checked(i))
        BY <2>1, <4>1 DEF KeyOf
      <4> QED BY <2>1, <4>1, <4>2, <4>3 DEF Remembered
    <3> QED BY <2>1, <2>2, <3>1 DEF KeysGood, Depth
  <2> QED BY <2>1, <2>2, <2>3, <2>4, <2>5, <2>6 DEF WalkGood
<1>2. ASSUME Next PROVE pc' \in {"next", "returned", "accepted"} /\ WalkGood'
  <2>1. UNCHANGED <<buffer, document, call>>
    BY <1>2 DEF Next, CheckSerialization, WalkRefused, WalkLeaf, WalkBignum, WalkIndefinite, WalkParts, WalkReturn, WalkNext,
         KeyRefused, CheckReturn, Walking, ItemSpanAtPath, LocateEnter, LocateSkip, LocateArrive, LocateFound, LocateRefused,
         Locating, Decode, DecodeHead, DecodeEntry, DecodeElement, DecodeReturn, DecodeRefused, Decoding, input
  <2>2. call.fn = "check" /\ Strict
    BY <2>1 DEF Strict
  <2>3. CheckSerialization
    BY <1>2, <2>2 DEF Next, ItemSpanAtPath, LocateEnter, LocateSkip, LocateArrive, LocateFound, LocateRefused,
         Locating, Decode, DecodeHead, DecodeEntry, DecodeElement, DecodeReturn, DecodeRefused, Decoding
  <2>4. pc # "refused"
    BY <2>3 DEF CheckSerialization, WalkRefused, WalkLeaf, WalkBignum, WalkIndefinite, WalkParts, WalkReturn, WalkNext,
         KeyRefused, CheckReturn, Walking
  <2>5. WalkGood
    BY <2>2, <2>4 DEF Sound
  <2>6. FoundType'
    BY <2>3, CheckType, TypeParts, PTL
  <2>7. CASE WalkRefused \/ KeyRefused
    BY <2>7 DEF WalkRefused, KeyRefused
  <2>8. CASE WalkLeaf
    BY <2>2, <2>5, <2>6, <2>8, LeafSound DEF WalkLeaf
  <2>9. CASE WalkBignum
    BY <2>2, <2>5, <2>6, <2>9, BignumSound DEF WalkBignum
  <2>10. CASE WalkIndefinite
    BY <2>2, <2>10 DEF WalkIndefinite, HeadAccepted
  <2>11. CASE WalkParts
    BY <2>2, <2>5, <2>11, PushIs, PushOpen, PushParts, PushKeys DEF WalkGood
  <2>12. CASE WalkReturn
    BY <2>5, <2>12, PopIs, PopOpen, PopParts, PopKeys DEF WalkGood
  <2>13. CASE WalkNext
    BY <2>5, <2>13, NextIs, NextParts, NextKeys DEF WalkGood
  <2>14. CASE CheckReturn
    BY <2>5, <2>14, ReturnSound
  <2> QED BY <2>3, <2>7, <2>8, <2>9, <2>10, <2>11, <2>12, <2>13, <2>14 DEF CheckSerialization
<1> QED BY <1>1, <1>2

(* What the strict walk accepts is a document in canonical form.           *)
LEMMA AcceptedCanonical ==
  ASSUME TypeOK, Sound, call.fn = "check", Strict, pc = "accepted"
  PROVE  LET doc == [tree |-> found, tops |-> frames[1].parts]
         IN Canonical(doc, call.mode) /\ (call.sequence \/ Len(doc.tops) = 1)
<1> DEFINE doc == [tree |-> found, tops |-> frames[1].parts]
<1>1. FoundGood /\ PartsGood /\ at = Len(buffer) + 1 /\ Depth = 1 /\ (call.sequence \/ Len(frames[1].parts) = 1)
  BY DEF Sound, WalkGood, TopGood
<1>2. doc.tree = found /\ doc.tops = frames[1].parts
  OBVIOUS
<1> HIDE DEF doc
<1>p. PICK m : m = Len(frames[1].parts)
  OBVIOUS
<1>3. m \in Nat /\ DOMAIN frames[1].parts = 1..m
  BY <1>p, <1>1, FramesIs
<1>4. Nested(1) /\ Walked(1) = 1..m
  BY <1>p, <1>1, <1>3, WalkedIs DEF PartsGood
<1>5. Chained(found, frames[1].parts, 1, Len(buffer) + 1)
  <2>1. ASSUME NEW k \in 1..m
        PROVE  /\ frames[1].parts[k] \in DOMAIN found
               /\ frames[1].parts[k] = IF k - 1 = 0 THEN 1 ELSE found[frames[1].parts[k - 1]].to
    BY <1>3, <1>4 DEF Nested, End, From
  <2>2. Len(buffer) + 1 = IF m = 0 THEN 1 ELSE found[frames[1].parts[m]].to
    BY <1>p, <1>1 DEF PartsGood, End, From
  <2> QED BY <1>p, <1>3, <2>1, <2>2 DEF Chained
<1>6. Whole(buffer, doc)
  BY <1>1, <1>2, <1>5 DEF Whole, Items, FoundGood, Good
<1>7. \A p \in DOMAIN doc.tree :
        /\ Shortest(buffer, doc.tree, p) /\ Readable(p)
        /\ call.mode = "dtrm" => Ordered(buffer, doc.tree, p)
  BY <1>1, <1>2 DEF FoundGood, Good
<1>8. Canonical(doc, call.mode)
  <2> DEFINE good(mode) ==
           \A p \in DOMAIN doc.tree :
             /\ Shortest(buffer, doc.tree, p) /\ Readable(p)
             /\ mode = "dtrm" => Ordered(buffer, doc.tree, p)
  <2>1. \A mode : Canonical(doc, mode) <=> Whole(buffer, doc) /\ good(mode)
    BY Zenon DEF Canonical
  <2>2. good(call.mode)
    BY <1>7
  <2> QED BY <1>6, <2>1, <2>2
<1> QED BY <1>1, <1>2, <1>8 DEF doc

--------------------------------------------------------------------------------
(* A document that is in the buffer already: a strict walk finds what the  *)
(* document says, item by item, and is not refused.                        *)
Fits == Canonical(document, call.mode) /\ (call.sequence \/ Len(document.tops) = 1)
Known(i) == IF i = 1 THEN document.tops ELSE document.tree[frames[i].pos].parts
Upto(i) == IF i = 1 THEN Len(buffer) + 1 ELSE document.tree[frames[i].pos].to
Matched(i) ==
  /\ Len(frames[i].parts) <= Len(Known(i))
  /\ \A k \in DOMAIN frames[i].parts : frames[i].parts[k] = Known(i)[k]
WalkAligned ==
  /\ Extends(document.tree, found)
  /\ \A i \in 2..Depth : frames[i].pos \in DOMAIN document.tree
  /\ \A i \in 1..Depth : Matched(i)
Aligned == call.fn = "check" /\ Strict /\ Fits => pc # "refused" /\ WalkAligned

(* What a canonical document consists of.                                  *)
LEMMA CanonicalIs ==
  ASSUME TypeOK, NEW mode, Canonical(document, mode)
  PROVE  /\ document.tree \in [DOMAIN document.tree -> ItemType] /\ document.tops \in Seq(Position)
         /\ Chained(document.tree, document.tops, 1, Len(buffer) + 1)
         /\ \A p \in DOMAIN document.tree :
              /\ p \in DOMAIN buffer /\ Structured(buffer, document.tree, p)
              /\ Shortest(buffer, document.tree, p) /\ Readable(p)
              /\ document.tree[p].parts \in Seq(Position) /\ document.tree[p].to \in Position
              /\ mode = "dtrm" => Ordered(buffer, document.tree, p)
<1>1. Whole(buffer, document) /\ \A p \in DOMAIN document.tree :
        /\ Shortest(buffer, document.tree, p) /\ Readable(p)
        /\ mode = "dtrm" => Ordered(buffer, document.tree, p)
  BY Zenon DEF Canonical
<1>2. Items(buffer, document) /\ Chained(document.tree, document.tops, 1, Len(buffer) + 1)
  BY <1>1 DEF Whole
<1>3. document.tree \in [DOMAIN document.tree -> ItemType] /\ document.tops \in Seq(Position)
  BY DEF TypeOK, InputOK
<1>4. \A p \in DOMAIN document.tree : document.tree[p].parts \in Seq(Position) /\ document.tree[p].to \in Position
  BY <1>3 DEF ItemType
<1> QED BY <1>1, <1>2, <1>3, <1>4 DEF Items

(* What is canonical does not change with the walk.                        *)
LEMMA CanonicalSame ==
  ASSUME UNCHANGED <<buffer, document>>, NEW mode
  PROVE  Canonical(document, mode)' <=> Canonical(document, mode)
<1>1. \A p : Readable(p)' <=> Readable(p)
  BY ReadableSame
<1> QED BY <1>1 DEF Canonical

(* What a canonical document of the call consists of.                      *)
LEMMA FitsIs ==
  ASSUME TypeOK, Fits
  PROVE  /\ document.tree \in [DOMAIN document.tree -> ItemType] /\ document.tops \in Seq(Position)
         /\ Chained(document.tree, document.tops, 1, Len(buffer) + 1)
         /\ \A p \in DOMAIN document.tree :
              /\ p \in DOMAIN buffer /\ Structured(buffer, document.tree, p)
              /\ Shortest(buffer, document.tree, p) /\ Readable(p)
              /\ document.tree[p].parts \in Seq(Position) /\ document.tree[p].to \in Position
              /\ call.mode = "dtrm" => Ordered(buffer, document.tree, p)
  BY CanonicalIs DEF Fits

(* The known parts of the container of a loop follow one another.          *)
LEMMA KnownIs ==
  ASSUME TypeOK, WalkGood, Fits, WalkAligned, NEW i \in 1..Depth
  PROVE  /\ Known(i) \in Seq(Position) /\ Len(Known(i)) \in Nat /\ DOMAIN Known(i) = 1..Len(Known(i))
         /\ Chained(document.tree, Known(i), From(i), Upto(i))
         /\ i # 1 => Len(Known(i)) = frames[i].count /\ frames[i].kind # "top"
<1>0. Depth \in Nat \ {0} /\ i \in Nat
  BY FramesIs
<1>1. CASE i = 1
  <2>1. Known(i) = document.tops /\ From(i) = 1 /\ Upto(i) = Len(buffer) + 1
    BY <1>1 DEF Known, From, Upto
  <2> QED BY <1>1, <2>1, FitsIs, LenProperties
<1>2. CASE i # 1
  <2> DEFINE p == frames[i].pos  h == ReadHead(buffer, p)
  <2>1. i \in 2..Depth
    BY <1>0, <1>2
  <2>2. p \in DOMAIN document.tree /\ Opened(i)
    BY <2>1 DEF WalkAligned, WalkGood, OpenGood
  <2>3. Known(i) = document.tree[p].parts /\ From(i) = h.at /\ Upto(i) = document.tree[p].to
    BY <1>2 DEF Known, From, Upto
  <2>4. Known(i) \in Seq(Position) /\ Structured(buffer, document.tree, p)
    BY <2>2, <2>3, FitsIs
  <2>5. /\ h.ok /\ Definite(h) /\ h.major \in {4, 5, 6} /\ frames[i].kind # "top"
        /\ \/ h.major = 4 /\ frames[i].count = Value(h.arg)
           \/ h.major = 5 /\ frames[i].count = 2 * Value(h.arg)
           \/ h.major = 6 /\ frames[i].count = 1
    BY <2>2 DEF Opened
  <2> HIDE DEF h, p
  <2>6. h = ReadHead(buffer, p)
    BY DEF h
  <2>7. Len(document.tree[p].parts) = frames[i].count
    BY <2>4, <2>5, <2>6 DEF Structured
  <2>8. Chained(document.tree, document.tree[p].parts, h.at, document.tree[p].to)
    BY <2>4, <2>5, <2>6 DEF Structured
  <2> QED BY <2>3, <2>4, <2>5, <2>7, <2>8, LenProperties
<1> QED BY <1>1, <1>2

(* The position is that of the next known part, or the end.                *)
LEMMA AtKnown ==
  ASSUME TypeOK, WalkGood, Fits, WalkAligned
  PROVE  LET n == Depth
             m == Len(frames[n].parts)
         IN /\ m \in Nat /\ m <= Len(Known(n))
            /\ m < Len(Known(n)) => at \in DOMAIN document.tree /\ at = Known(n)[m + 1]
            /\ m = Len(Known(n)) => at = Upto(n)
<1>p. PICK n, m, s : n = Depth /\ m = Len(frames[n].parts) /\ s = Known(n)
  OBVIOUS
<1>0. n \in Nat \ {0} /\ n \in 1..Depth /\ m \in Nat /\ DOMAIN frames[n].parts = 1..m
  BY <1>p, FramesIs
<1>1. s \in Seq(Position) /\ Len(s) \in Nat /\ DOMAIN s = 1..Len(s) /\ Chained(document.tree, s, From(n), Upto(n))
  BY <1>p, <1>0, KnownIs
<1>2. m <= Len(s) /\ (\A k \in 1..m : frames[n].parts[k] = s[k]) /\ Extends(document.tree, found)
  BY <1>p, <1>0 DEF WalkAligned, Matched
<1>3. at = End(n, m) /\ Nested(n) /\ Walked(n) = 1..m
  BY <1>p, <1>0, WalkedIs DEF WalkGood, PartsGood
<1>4. at = IF m = 0 THEN From(n) ELSE document.tree[s[m]].to
  <2>1. CASE m = 0
    BY <1>3, <2>1 DEF End
  <2>2. CASE m # 0
    <3>1. m \in 1..m
      BY <1>0, <2>2
    <3>2. at = found[frames[n].parts[m]].to /\ frames[n].parts[m] \in DOMAIN found
      BY <1>3, <2>2, <3>1 DEF End, Nested
    <3>3. frames[n].parts[m] = s[m] /\ found[frames[n].parts[m]] = document.tree[frames[n].parts[m]]
      BY <1>2, <3>1, <3>2 DEF Extends
    <3> QED BY <2>2, <3>2, <3>3
  <2> QED BY <2>1, <2>2
<1>5. ASSUME m < Len(s) PROVE at \in DOMAIN document.tree /\ at = s[m + 1]
  <2>1. m + 1 \in DOMAIN s /\ (m + 1) - 1 = m
    BY <1>0, <1>1, <1>5
  <2>2. s[m + 1] \in DOMAIN document.tree /\ s[m + 1] = IF m = 0 THEN From(n) ELSE document.tree[s[m]].to
    BY <1>1, <2>1 DEF Chained
  <2> QED BY <1>4, <2>2
<1>6. m = Len(s) => at = Upto(n)
  BY <1>1, <1>4 DEF Chained
<1> QED BY <1>p, <1>0, <1>2, <1>5, <1>6

(* What the walk comes to is a known item, whose head is accepted.         *)
LEMMA MoreKnown ==
  ASSUME TypeOK, WalkGood, call.fn = "check", Strict, Fits, WalkAligned, pc = "next", More
  PROVE  LET n == Depth
             m == Len(frames[n].parts)
         IN /\ m < Len(Known(n)) /\ at \in DOMAIN document.tree /\ at = Known(n)[m + 1]
            /\ HeadAccepted(Here)
<1>p. PICK n, m, s : n = Depth /\ m = Len(frames[n].parts) /\ s = Known(n)
  OBVIOUS
<1>0. n \in Nat \ {0} /\ n \in 1..Depth /\ Inner = frames[n] /\ frames[n].parts \in Seq(Position)
  BY <1>p, FramesIs
<1>1. /\ m \in Nat /\ m <= Len(s) /\ Len(s) \in Nat
      /\ m < Len(s) => at \in DOMAIN document.tree /\ at = s[m + 1]
      /\ m = Len(s) => at = Upto(n)
  BY <1>p, <1>0, AtKnown, KnownIs
<1>2. m # Len(s)
  <2>1. CASE n = 1
    <3> SUFFICES ASSUME m = Len(s) PROVE FALSE
      OBVIOUS
    <3>1. at = Len(buffer) + 1 /\ s = document.tops /\ Len(buffer) \in Nat /\ frames[1].kind = "top"
      BY <1>p, <1>1, <2>1, LenProperties DEF Upto, Known, TypeOK, InputOK
    <3>2. frames[1].parts = <<>>
      BY <1>0, <2>1, <3>1 DEF More
    <3>3. m = 0
      BY <1>p, <2>1, <3>2
    <3>4. Len(buffer) + 1 = 1
      BY <1>1, <3>1, <3>3, FitsIs DEF Chained
    <3>5. buffer = <<>>
      BY <3>1, <3>4, EmptySeq DEF TypeOK, InputOK
    <3> QED BY <3>5 DEF WalkGood, TopGood
  <2>2. CASE n # 1
    <3>1. Len(s) = frames[n].count /\ frames[n].kind # "top"
      BY <1>p, <1>0, <2>2, KnownIs
    <3>2. m < frames[n].count
      BY <1>p, <1>0, <3>1 DEF More
    <3> QED BY <1>1, <3>1, <3>2
  <2> QED BY <2>1, <2>2
<1>3. m < Len(s) /\ at \in DOMAIN document.tree /\ at = s[m + 1]
  BY <1>1, <1>2
<1>4. HeadAccepted(Here)
  <2>1. /\ document.tree \in [DOMAIN document.tree -> ItemType]
        /\ \A q \in DOMAIN document.tree :
             Structured(buffer, document.tree, q) /\ Shortest(buffer, document.tree, q) /\ Readable(q)
    BY FitsIs
  <2> QED BY <1>3, <2>1, GoodAccepted
<1> QED BY <1>p, <1>3, <1>4

(* An item is its parts and its end.                                       *)
LEMMA ItemIs ==
  ASSUME NEW item \in ItemType
  PROVE  item = [parts |-> item.parts, to |-> item.to]
  BY DEF ItemType

(* An item without parts.                                                  *)
LEMMA EmptyParts ==
  ASSUME NEW item \in ItemType, Len(item.parts) = 0
  PROVE  item = [parts |-> <<>>, to |-> item.to]
<1>1. item.parts \in Seq(Position)
  BY DEF ItemType
<1>2. item.parts = <<>>
  BY <1>1, EmptySeq
<1> QED BY <1>2, ItemIs

(* A known part is begun.                                                  *)
LEMMA BegunMatched ==
  ASSUME TypeOK, WalkAligned, UNCHANGED document, NEW n, NEW m, n = Depth, m = Len(frames[n].parts),
         m < Len(Known(n)), Len(Known(n)) \in Nat, at = Known(n)[m + 1],
         \A i \in 1..n : i # n => frames'[i] = frames[i],
         frames'[n].pos = frames[n].pos, Len(frames'[n].parts) = m + 1, DOMAIN frames'[n].parts = 1..(m + 1),
         \A k \in 1..m : frames'[n].parts[k] = frames[n].parts[k], frames'[n].parts[m + 1] = at
  PROVE  \A i \in 1..n : Matched(i)'
<1>0. n \in Nat \ {0} /\ n \in 1..n /\ m \in Nat /\ DOMAIN frames[n].parts = 1..m
  BY FramesIs
<1>1. ASSUME NEW i \in 1..n, i # n PROVE Matched(i)'
  <2>1. Matched(i) /\ frames'[i] = frames[i]
    BY <1>1 DEF WalkAligned
  <2>2. (Known(i))' = Known(i)
    BY <2>1 DEF Known
  <2> QED BY <2>1, <2>2 DEF Matched
<1>2. Matched(n)'
  <2>1. Matched(n) /\ (Known(n))' = Known(n)
    BY <1>0 DEF WalkAligned, Known
  <2>2. m + 1 <= Len(Known(n))
    BY <1>0
  <2>3. \A k \in 1..(m + 1) : frames'[n].parts[k] = Known(n)[k]
    <3> SUFFICES ASSUME NEW k \in 1..(m + 1) PROVE frames'[n].parts[k] = Known(n)[k]
      OBVIOUS
    <3>1. k = m + 1 \/ k \in 1..m
      BY <1>0
    <3>2. k \in 1..m => frames[n].parts[k] = Known(n)[k]
      BY <1>0, <2>1 DEF Matched
    <3> QED BY <3>1, <3>2
  <2> QED BY <2>1, <2>2, <2>3 DEF Matched
<1> QED BY <1>1, <1>2

(* A step that walks whole items, which are the known ones.                *)
LEMMA GrownAligned ==
  ASSUME TypeOK, WalkGood, call.fn = "check", Strict, Fits, WalkAligned, pc = "next", More,
         UNCHANGED <<buffer, document>>, frames' = BeginPart, Extends(document.tree, found')
  PROVE  WalkAligned'
<1>p. PICK n, m : n = Depth /\ m = Len(frames[n].parts)
  OBVIOUS
<1>0. n \in Nat \ {0} /\ n \in 1..Depth
  BY <1>p, FramesIs
<1>1. m < Len(Known(n)) /\ at = Known(n)[m + 1] /\ Len(Known(n)) \in Nat
  BY <1>p, <1>0, MoreKnown, KnownIs
<1>2. /\ Depth' = n
      /\ \A i \in 1..n : i # n => frames'[i] = frames[i]
      /\ frames'[n].pos = frames[n].pos
      /\ Len(frames'[n].parts) = m + 1 /\ DOMAIN frames'[n].parts = 1..(m + 1)
      /\ \A k \in 1..m : frames'[n].parts[k] = frames[n].parts[k]
      /\ frames'[n].parts[m + 1] = at
  BY <1>p, BegunIs DEF Depth
<1>3. \A i \in 1..n : Matched(i)'
  BY <1>p, <1>1, <1>2, BegunMatched
<1>4. \A i \in 2..n : frames'[i].pos \in DOMAIN document.tree
  <2> SUFFICES ASSUME NEW i \in 2..n PROVE frames'[i].pos \in DOMAIN document.tree
    OBVIOUS
  <2>1. frames[i].pos \in DOMAIN document.tree /\ i \in 1..n
    BY <1>p, <1>0 DEF WalkAligned
  <2> QED BY <1>2, <2>1
<1>5. (\A i \in 1..Depth : Matched(i))'
  BY <1>2, <1>3
<1>6. Extends(document.tree, found)'
  OBVIOUS
<1> QED BY <1>2, <1>4, <1>5, <1>6 DEF WalkAligned

(* An item without parts is found as it is known.                          *)
LEMMA LeafAligned ==
  ASSUME TypeOK, WalkGood, call.fn = "check", Strict, Fits, WalkAligned, WalkLeaf
  PROVE  WalkAligned'
<1>1. /\ UNCHANGED <<buffer, document>> /\ frames' = BeginPart /\ pc = "next" /\ More /\ HeadAccepted(Here)
      /\ Here.major \in {0, 1, 2, 3, 7}
      /\ at' = IF Here.major \in {2, 3} THEN StringEnd(Here) ELSE Here.at
      /\ found' = With(found, at, [parts |-> <<>>, to |-> at'])
  BY DEF WalkLeaf, Walking, input
<1> DEFINE h == Here  item == document.tree[at]
<1>2. at \in DOMAIN document.tree
  BY <1>1, MoreKnown
<1>3. item \in ItemType /\ Structured(buffer, document.tree, at) /\ h = ReadHead(buffer, at) /\ item.to = document.tree[at].to
      /\ item.parts = document.tree[at].parts
  BY <1>2, FitsIs DEF Here
<1>4. h.major \in {2, 3} => Definite(h)
  BY <1>1 DEF HeadAccepted
<1> HIDE DEF h
<1>5. Len(item.parts) = 0 /\ item.to = IF h.major \in {2, 3} THEN h.at + Value(h.arg) ELSE h.at
  <2>1. h.major \in {0, 1, 2, 3, 7}
    BY <1>1 DEF h
  <2> HIDE DEF item
  <2>2. CASE h.major \in {2, 3}
    BY <1>3, <1>4, <2>2 DEF Structured
  <2>3. CASE h.major \notin {2, 3}
    BY <1>3, <2>1, <2>3 DEF Structured
  <2> QED BY <2>2, <2>3
<1>6. item.to = at'
  BY <1>1, <1>5 DEF h, StringEnd
<1>7. item = [parts |-> <<>>, to |-> at']
  BY <1>3, <1>5, <1>6, EmptyParts
<1>8. Extends(document.tree, found')
  BY <1>1, <1>2, <1>7 DEF With, Extends, WalkAligned
<1> QED BY <1>1, <1>8, GrownAligned

(* A bignum is found as it is known.                                       *)
LEMMA BignumAligned ==
  ASSUME TypeOK, WalkGood, call.fn = "check", Strict, Fits, WalkAligned, WalkBignum
  PROVE  WalkAligned'
<1> DEFINE h == Here  c == ReadHead(buffer, Here.at)
<1>1. /\ UNCHANGED <<buffer, document>> /\ frames' = BeginPart /\ pc = "next" /\ More /\ HeadAccepted(h) /\ Bignum(h)
      /\ at' = StringEnd(c)
      /\ found' = With(With(found, h.at, [parts |-> <<>>, to |-> at']), at, [parts |-> <<h.at>>, to |-> at'])
  BY DEF WalkBignum, Walking, input
<1>2. h.major = 6 /\ Definite(h) /\ BignumRead(c)
  BY <1>1 DEF HeadAccepted, Bignum
<1>3. c.major = 2 /\ Definite(c)
  BY <1>2 DEF BignumRead, StringRead
<1>4. at \in DOMAIN document.tree
  BY <1>1, MoreKnown
<1>5. document.tree[at] \in ItemType /\ Structured(buffer, document.tree, at) /\ h = ReadHead(buffer, at)
  BY <1>4, FitsIs DEF Here
<1>6. c = ReadHead(buffer, h.at)
  OBVIOUS
<1> HIDE DEF h, c
<1>7. Len(document.tree[at].parts) = 1 /\ Chained(document.tree, document.tree[at].parts, h.at, document.tree[at].to)
  BY <1>2, <1>5 DEF Structured
<1>8. document.tree[at].parts \in Seq(Position) /\ DOMAIN document.tree[at].parts = {1}
  <2>1. document.tree[at].parts \in Seq(Position)
    BY <1>5 DEF ItemType
  <2>2. DOMAIN document.tree[at].parts = 1..1
    BY <1>7, <2>1, LenProperties
  <2> QED BY <2>1, <2>2
<1>9. document.tree[at].parts[1] = h.at /\ h.at \in DOMAIN document.tree /\ document.tree[at].to = document.tree[h.at].to
  BY <1>7, <1>8 DEF Chained
<1>10. document.tree[h.at] \in ItemType /\ Structured(buffer, document.tree, h.at)
  BY <1>9, FitsIs
<1>11. Len(document.tree[h.at].parts) = 0 /\ document.tree[h.at].to = c.at + Value(c.arg)
  BY <1>3, <1>6, <1>10 DEF Structured
<1>12. document.tree[h.at].to = at'
  BY <1>1, <1>11 DEF StringEnd
<1>13. document.tree[h.at] = [parts |-> <<>>, to |-> at']
  BY <1>10, <1>11, <1>12, EmptyParts
<1>14. document.tree[at].parts = <<h.at>>
  BY <1>7, <1>8, <1>9
<1>15. document.tree[at] = [parts |-> <<h.at>>, to |-> at']
  BY <1>5, <1>9, <1>12, <1>14, ItemIs
<1>16. Extends(document.tree, found')
  <2> DEFINE some == With(found, h.at, [parts |-> <<>>, to |-> at'])
  <2>1. Extends(document.tree, some)
    BY <1>9, <1>13 DEF With, Extends, WalkAligned
  <2>2. found' = With(some, at, [parts |-> <<h.at>>, to |-> at'])
    BY <1>1
  <2> HIDE DEF some
  <2> QED BY <1>4, <1>15, <2>1, <2>2 DEF With, Extends
<1> QED BY <1>1, <1>16, GrownAligned

(* A container that is begun is a known one.                               *)
LEMMA PushAligned ==
  ASSUME TypeOK, WalkGood, call.fn = "check", Strict, Fits, WalkAligned, WalkParts
  PROVE  WalkAligned'
<1>p. PICK n, m : n = Depth /\ m = Len(frames[n].parts)
  OBVIOUS
<1>0. n \in Nat \ {0} /\ n \in 1..Depth
  BY <1>p, FramesIs
<1>1. /\ found' = found /\ UNCHANGED <<buffer, document>> /\ pc = "next" /\ More
      /\ Depth' = n + 1
      /\ \A i \in 1..n : i # n => frames'[i] = frames[i]
      /\ frames'[n].pos = frames[n].pos
      /\ Len(frames'[n].parts) = m + 1 /\ DOMAIN frames'[n].parts = 1..(m + 1)
      /\ \A k \in 1..m : frames'[n].parts[k] = frames[n].parts[k]
      /\ frames'[n].parts[m + 1] = at
      /\ frames'[n + 1].pos = at /\ frames'[n + 1].parts = <<>>
  BY <1>p, PushIs
<1>2. m < Len(Known(n)) /\ at = Known(n)[m + 1] /\ Len(Known(n)) \in Nat /\ at \in DOMAIN document.tree
  BY <1>p, <1>0, <1>1, MoreKnown, KnownIs
<1>3. \A i \in 1..n : Matched(i)'
  BY <1>p, <1>1, <1>2, BegunMatched
<1>4. Matched(n + 1)'
  <2>1. n + 1 # 1
    BY <1>0
  <2>2. (Known(n + 1))' = document.tree[at].parts
    BY <1>1, <2>1 DEF Known
  <2>3. Len(document.tree[at].parts) \in Nat
    BY <1>2, FitsIs, LenProperties
  <2>4. Len(frames'[n + 1].parts) = 0 /\ DOMAIN frames'[n + 1].parts = {}
    BY <1>1
  <2> QED BY <2>2, <2>3, <2>4 DEF Matched
<1>5. ASSUME NEW i \in 2..(n + 1) PROVE frames'[i].pos \in DOMAIN document.tree
  <2>1. CASE i = n + 1
    BY <1>1, <1>2, <2>1
  <2>2. CASE i # n + 1
    <3>1. i \in 2..n /\ i \in 1..n
      BY <1>0, <2>2
    <3>2. frames[i].pos \in DOMAIN document.tree
      BY <1>p, <3>1 DEF WalkAligned
    <3> QED BY <1>1, <3>1, <3>2
  <2> QED BY <2>1, <2>2
<1>6. (\A i \in 1..Depth : Matched(i))'
  <2>1. \A i \in 1..(n + 1) : i = n + 1 \/ i \in 1..n
    BY <1>0
  <2>2. \A i \in 1..(n + 1) : Matched(i)'
    BY <1>3, <1>4, <2>1
  <2> QED BY <1>1, <2>2
<1>7. Extends(document.tree, found)'
  BY <1>1 DEF WalkAligned, Extends
<1> QED BY <1>1, <1>5, <1>6, <1>7 DEF WalkAligned

(* A container that ends is found as it is known.                          *)
LEMMA PopAligned ==
  ASSUME TypeOK, WalkGood, call.fn = "check", Strict, Fits, WalkAligned, WalkReturn
  PROVE  WalkAligned'
<1>p. PICK n, m, p, s : n = Depth /\ m = Len(frames[n].parts) /\ p = frames[n].pos /\ s = Known(n)
  OBVIOUS
<1>0. n \in Nat \ {0} /\ n \in 1..Depth /\ Inner = frames[n] /\ frames[n].parts \in Seq(Position) /\ m \in Nat
      /\ DOMAIN frames[n].parts = 1..m
  BY <1>p, FramesIs
<1>1. /\ ~More /\ frames[n].kind # "top" /\ UNCHANGED <<buffer, document>>
      /\ found' = With(found, p, [parts |-> frames[n].parts, to |-> at])
      /\ n - 1 \in Nat \ {0} /\ Depth' = n - 1 /\ \A i \in 1..(n - 1) : frames'[i] = frames[i]
  BY <1>p, PopIs
<1>2. n # 1 /\ n \in 2..n
  BY <1>0, <1>1
<1>3. /\ s \in Seq(Position) /\ Len(s) = frames[n].count /\ m <= Len(s) /\ Len(s) \in Nat /\ DOMAIN s = 1..Len(s)
      /\ m = Len(s) => at = Upto(n)
  BY <1>p, <1>0, <1>2, KnownIs, AtKnown
<1>4. m = Len(s)
  <2>1. ~(m < frames[n].count)
    BY <1>p, <1>0, <1>1 DEF More
  <2>2. PICK l : l = Len(s)
    OBVIOUS
  <2>3. l \in Nat /\ m <= l /\ ~(m < l)
    BY <1>3, <2>1, <2>2
  <2>4. m = l
    BY <1>0, <2>3
  <2> QED BY <2>2, <2>4
<1>5. at = Upto(n) /\ s = document.tree[p].parts /\ Upto(n) = document.tree[p].to
  <2>1. at = Upto(n)
    BY <1>3, <1>4
  <2>2. Known(n) = document.tree[frames[n].pos].parts /\ Upto(n) = document.tree[frames[n].pos].to
    BY <1>2 DEF Known, Upto
  <2> QED BY <1>p, <2>1, <2>2
<1>6. frames[n].parts = s
  <2>1. \A k \in 1..m : frames[n].parts[k] = s[k]
    BY <1>p, <1>0 DEF WalkAligned, Matched
  <2>2. DOMAIN s = 1..m
    BY <1>3, <1>4
  <2>3. frames[n].parts \in [1..m -> Position] /\ s \in [1..m -> Position]
    BY <1>0, <1>3, <2>2
  <2> DEFINE S == 1..m
  <2>4. frames[n].parts \in [S -> Position] /\ s \in [S -> Position] /\ \A k \in S : frames[n].parts[k] = s[k]
    BY <2>1, <2>3
  <2> HIDE DEF S
  <2> QED BY <2>4
<1>7. p \in DOMAIN document.tree
  BY <1>p, <1>2 DEF WalkAligned
<1>8. document.tree[p] = [parts |-> frames[n].parts, to |-> at]
  BY <1>5, <1>6, <1>7, FitsIs, ItemIs
<1>9. Extends(document.tree, found')
  BY <1>1, <1>7, <1>8 DEF With, Extends, WalkAligned
<1>10. ASSUME NEW i \in 1..(n - 1) PROVE Matched(i)' /\ i \in 1..n /\ (i # 1 => frames'[i].pos \in DOMAIN document.tree)
  <2>1. i \in 1..n
    BY <1>0
  <2>2. Matched(i) /\ frames'[i] = frames[i]
    BY <1>p, <1>1, <2>1 DEF WalkAligned
  <2>3. (Known(i))' = Known(i)
    BY <1>1, <2>2 DEF Known
  <2>4. i # 1 => i \in 2..n
    BY <2>1
  <2>5. i # 1 => frames[i].pos \in DOMAIN document.tree
    BY <1>p, <2>4 DEF WalkAligned
  <2> QED BY <2>1, <2>2, <2>3, <2>5 DEF Matched
<1>11. (\A i \in 1..Depth : Matched(i))'
  BY <1>1, <1>10
<1>12. \A i \in 2..(n - 1) : i \in 1..(n - 1) /\ i # 1
  BY <1>0
<1>13. (\A i \in 2..Depth : frames[i].pos \in DOMAIN document.tree)'
  BY <1>1, <1>10, <1>12
<1> QED BY <1>1, <1>9, <1>11, <1>13 DEF WalkAligned

(* Remembering a key changes nothing of what was found.                    *)
LEMMA NextAligned ==
  ASSUME TypeOK, WalkGood, WalkAligned, WalkNext
  PROVE  WalkAligned'
<1>p. PICK n : n = Depth
  OBVIOUS
<1>1. /\ UNCHANGED <<document, found>> /\ Depth' = n
      /\ \A i \in 1..n : frames'[i].pos = frames[i].pos /\ frames'[i].parts = frames[i].parts
  BY <1>p, NextIs
<1>2. n \in Nat
  BY <1>p, FramesIs
<1>3. ASSUME NEW i \in 1..n PROVE Matched(i)'
  <2>1. Matched(i)
    BY <1>p DEF WalkAligned
  <2>2. (Known(i))' = Known(i)
    BY <1>1 DEF Known
  <2> QED BY <1>1, <2>1, <2>2 DEF Matched
<1>4. \A i \in 2..n : i \in 1..n /\ frames[i].pos \in DOMAIN document.tree
  BY <1>p, <1>2 DEF WalkAligned
<1>5. (\A i \in 1..Depth : Matched(i))' /\ (\A i \in 2..Depth : frames[i].pos \in DOMAIN document.tree)'
  BY <1>1, <1>3, <1>4
<1>6. Extends(document.tree, found)'
  BY <1>1 DEF WalkAligned, Extends
<1> QED BY <1>5, <1>6 DEF WalkAligned

(* Of a known map the keys ascend, so none is refused.                     *)
LEMMA KeyAligned ==
  ASSUME TypeOK, WalkGood, Strict, Fits, WalkAligned
  PROVE  ~KeyRefused
<1> SUFFICES ASSUME KeyRefused PROVE FALSE
  OBVIOUS
<1>p. PICK n, m, c, p : n = Depth /\ m = Len(frames[n].parts) /\ c = m \div 2 /\ p = frames[n].pos
  OBVIOUS
<1>0. n \in Nat \ {0} /\ n \in 1..Depth /\ Inner = frames[n] /\ m \in Nat /\ DOMAIN frames[n].parts = 1..m
  BY <1>p, FramesIs
<1>1. /\ pc = "returned" /\ frames[n].kind = "map" /\ m % 2 = 1 /\ call.mode = "dtrm"
      /\ \E key \in frames[n].previous : ~Bytewise(key, Key)
  BY <1>p, <1>0 DEF KeyRefused, AfterKey, KeyAccepted
<1>2. n # 1
  <2>1. frames[1].kind # "map"
    BY DEF TypeOK
  <2> QED BY <1>1, <2>1
<1>3. c \in Nat /\ m = (2 * c) + 1
  <2>1. (m + 1) \div 2 = c + 1 /\ 2 * ((m + 1) \div 2) - 1 = m /\ c \in Nat
    BY <1>p, <1>0, <1>1, CheckedIs
  <2> QED BY <1>0, <2>1
<1>4. frames[n].previous = IF c = 0 THEN {} ELSE {KeyOf(n, c)}
  <2>1. Remembered(n)
    BY <1>p, <1>0, <1>1 DEF WalkGood, KeysGood
  <2>2. Checked(n) = c
    BY <1>p, <1>1 DEF Checked
  <2> QED BY <2>1, <2>2 DEF Remembered
<1>5. c # 0 /\ ~Bytewise(KeyOf(n, c), Key)
  BY <1>1, <1>4
<1> DEFINE s == document.tree[p].parts  keys == Keys(buffer, document.tree, p)
<1>6. /\ n \in 2..Depth /\ p \in DOMAIN document.tree /\ Opened(n) /\ Known(n) = s
      /\ Len(s) = frames[n].count /\ Len(s) \in Nat /\ DOMAIN s = 1..Len(s)
  <2>1. n \in 2..Depth
    BY <1>p, <1>0, <1>2
  <2>2. Known(n) = s
    BY <1>p, <1>2 DEF Known
  <2>3. /\ Known(n) \in Seq(Position) /\ Len(Known(n)) \in Nat /\ DOMAIN Known(n) = 1..Len(Known(n))
        /\ Len(Known(n)) = frames[n].count
    BY <1>0, <1>2, KnownIs
  <2> QED BY <1>p, <2>1, <2>2, <2>3 DEF WalkAligned, WalkGood, OpenGood
<1>7. /\ ReadHead(buffer, p).major = 5 /\ frames[n].count = 2 * Value(ReadHead(buffer, p).arg)
      /\ p \in DOMAIN buffer
  BY <1>p, <1>1, <1>6 DEF Opened
<1>8. Ascending(keys, Bytewise)
  BY <1>1, <1>6, <1>7, FitsIs DEF Ordered
<1>9. c \in 1..(Len(s) \div 2) /\ c + 1 \in 1..(Len(s) \div 2) /\ 2 * c - 1 \in 1..m
  <2>1. m <= Len(s)
    BY <1>p, <1>0, <1>6 DEF WalkAligned, Matched
  <2>2. Value(ReadHead(buffer, p).arg) \in Nat
    <3>1. buffer \in Seq(Byte) /\ p \in Nat \ {0}
      BY <1>7, LenProperties DEF TypeOK, InputOK
    <3> QED BY <3>1, HeadType, ValueType
  <2>3. PICK l, v : l = Len(s) /\ v = Value(ReadHead(buffer, p).arg)
    OBVIOUS
  <2>4. v \in Nat /\ l = 2 * v /\ m <= l
    BY <1>6, <1>7, <2>1, <2>2, <2>3
  <2>5. l \div 2 = v
    BY <2>4
  <2>6. c + 1 <= v
    BY <1>3, <2>4
  <2>7. c \in 1..v /\ c + 1 \in 1..v /\ 2 * c - 1 \in 1..m
    BY <1>3, <1>5, <2>4, <2>6
  <2> QED BY <2>3, <2>5, <2>7
<1>10. \A k \in 1..m : frames[n].parts[k] = s[k] /\ frames[n].parts[k] \in DOMAIN found
                       /\ document.tree[s[k]] = found[frames[n].parts[k]]
  <2>1. Walked(n) = 1..m /\ Nested(n)
    BY <1>p, <1>0, WalkedIs DEF WalkGood, PartsGood
  <2> QED BY <1>p, <1>0, <1>6, <2>1 DEF WalkAligned, Matched, Nested, Extends
<1>11. keys[c] = KeyOf(n, c) /\ c \in DOMAIN keys
  BY Zenon, <1>9, <1>10 DEF Keys, KeyOf, Bytes
<1>12. keys[c + 1] = Key /\ c + 1 \in DOMAIN keys
  <2>1. 2 * (c + 1) - 1 = m /\ m \in 1..m /\ m # 0
    BY <1>0, <1>3
  <2>2. at = found[frames[n].parts[m]].to
    BY <1>p, <2>1 DEF WalkGood, PartsGood, End
  <2>3. keys[c + 1] = Bytes(buffer, document.tree, s[m])
    BY <1>9, <2>1 DEF Keys
  <2>4. Key = SubSeq(buffer, frames[n].parts[m], at - 1)
    BY <1>p, <1>0 DEF Key
  <2> QED BY Zenon, <1>9, <1>10, <2>1, <2>2, <2>3, <2>4 DEF Keys, Bytes
<1>13. c < c + 1
  BY <1>3
<1> QED BY <1>5, <1>8, <1>11, <1>12, <1>13 DEF Ascending

(* At the end of what is known the walk is through.                        *)
LEMMA ReturnAligned ==
  ASSUME TypeOK, WalkGood, call.fn = "check", Strict, Fits, WalkAligned, CheckReturn
  PROVE  pc' # "refused" /\ WalkAligned'
<1>p. PICK n, m : n = Depth /\ m = Len(frames[n].parts)
  OBVIOUS
<1>0. /\ n \in Nat \ {0} /\ n \in 1..Depth /\ Inner = frames[n] /\ m \in Nat /\ frames[n].parts \in Seq(Position)
      /\ m <= Len(Known(n)) /\ Len(Known(n)) \in Nat
      /\ m = Len(Known(n)) => at = Upto(n)
  BY <1>p, FramesIs, AtKnown, KnownIs
<1>1. /\ UNCHANGED <<buffer, document, frames, found>> /\ Inner.kind = "top" /\ ~More
      /\ pc' = (IF at > Len(buffer) THEN "accepted" ELSE "refused")
  BY DEF CheckReturn, input, walk
<1>2. n = 1
  BY <1>0, <1>1, KnownIs
<1>3. WalkAligned'
  <2>1. \A i : Matched(i)' <=> Matched(i)
    BY <1>1 DEF Matched, Known
  <2>2. Depth' = Depth
    BY <1>1 DEF Depth
  <2> QED BY <1>1, <2>1, <2>2 DEF WalkAligned, Extends
<1>4. at > Len(buffer)
  <2> SUFFICES ASSUME ~(at > Len(buffer)) PROVE FALSE
    OBVIOUS
  <2>1. at \in Nat /\ Len(buffer) \in Nat /\ at <= Len(buffer)
    BY LenProperties DEF TypeOK, InputOK
  <2>2. frames[1].parts # <<>> /\ ~call.sequence
    BY <1>0, <1>1, <1>2, <2>1 DEF More
  <2>3. Len(Known(n)) = 1 /\ Upto(n) = Len(buffer) + 1
    BY <1>2, <2>2 DEF Fits, Known, Upto
  <2>4. m # 0
    BY <1>p, <1>0, <1>2, <2>2, EmptySeq
  <2>5. at = Len(buffer) + 1
    BY <1>0, <2>3, <2>4
  <2> QED BY <2>1, <2>5
<1> QED BY <1>1, <1>3, <1>4

(* A walk begins with nothing found.                                       *)
LEMMA InitAligned == Init => Aligned
<1> SUFFICES ASSUME Init, call.fn = "check", Strict, Fits PROVE pc # "refused" /\ WalkAligned
  BY DEF Aligned
<1>0. TypeOK
  BY InitType
<1>1. frames = <<Frame(0, "top", 0)>> /\ found = <<>>
      /\ pc = (IF buffer # <<>> THEN "next" ELSE IF call.sequence THEN "accepted" ELSE "refused")
  BY DEF Init, Begin
<1>2. Depth = 1 /\ Len(frames[1].parts) = 0 /\ DOMAIN frames[1].parts = {}
  BY <1>1 DEF Depth, Frame
<1>3. Len(document.tops) \in Nat
  BY <1>0, FitsIs, LenProperties
<1>4. WalkAligned
  <2>1. Matched(1)
    BY <1>2, <1>3 DEF Matched, Known
  <2>2. Extends(document.tree, found)
    BY <1>1 DEF Extends
  <2> QED BY <1>2, <2>1, <2>2 DEF WalkAligned
<1>5. pc # "refused"
  <2> SUFFICES ASSUME pc = "refused" PROVE FALSE
    OBVIOUS
  <2>1. buffer = <<>> /\ ~call.sequence
    BY <1>1
  <2>2. Len(document.tops) = 1 /\ DOMAIN buffer = {}
    BY <2>1 DEF Fits
  <2>3. 1 \in DOMAIN document.tops
    BY <1>0, <2>2, FitsIs, LenProperties
  <2>4. document.tops[1] \in DOMAIN document.tree
    BY <1>0, <2>3, FitsIs DEF Chained
  <2> QED BY <1>0, <2>2, <2>4, FitsIs
<1> QED BY <1>4, <1>5

(* Whether there is a canonical document does not change with the walk.    *)
LEMMA FitsSame ==
  ASSUME UNCHANGED <<buffer, document, call>>
  PROVE  Fits' <=> Fits
<1>1. Canonical(document, call.mode)' <=> Canonical(document, call.mode)
  BY CanonicalSame
<1> QED BY <1>1 DEF Fits

(* Every step keeps a walk of a canonical document going.                  *)
LEMMA AlignedStep == TypeOK /\ Sound /\ Aligned /\ [Next]_vars => Aligned'
<1> SUFFICES ASSUME TypeOK, Sound, Aligned, [Next]_vars, (call.fn = "check" /\ Strict /\ Fits)'
             PROVE  pc' # "refused" /\ WalkAligned'
  BY DEF Aligned
<1>0. UNCHANGED <<buffer, document, call>>
  BY DEF vars, Next, CheckSerialization, WalkRefused, WalkLeaf, WalkBignum, WalkIndefinite, WalkParts, WalkReturn, WalkNext,
       KeyRefused, CheckReturn, Walking, ItemSpanAtPath, LocateEnter, LocateSkip, LocateArrive, LocateFound, LocateRefused,
       Locating, Decode, DecodeHead, DecodeEntry, DecodeElement, DecodeReturn, DecodeRefused, Decoding, input
<1>1. call.fn = "check" /\ Strict /\ Fits
  BY <1>0, FitsSame DEF Strict
<1>2. pc # "refused" /\ WalkAligned /\ WalkGood
  BY <1>1 DEF Aligned, Sound
<1>3. CASE UNCHANGED vars
  <2>1. UNCHANGED <<document, frames, found, pc>>
    BY <1>3 DEF vars
  <2>2. \A i : Matched(i)' <=> Matched(i)
    BY <2>1 DEF Matched, Known
  <2> QED BY <1>2, <2>1, <2>2 DEF WalkAligned, Extends, Depth
<1>4. ASSUME Next PROVE pc' # "refused" /\ WalkAligned'
  <2>1. CheckSerialization
    BY <1>1, <1>4 DEF Next, ItemSpanAtPath, LocateEnter, LocateSkip, LocateArrive, LocateFound, LocateRefused,
         Locating, Decode, DecodeHead, DecodeEntry, DecodeElement, DecodeReturn, DecodeRefused, Decoding
  <2>2. CASE WalkRefused
    BY <1>1, <1>2, <2>2, MoreKnown DEF WalkRefused, Walking
  <2>3. CASE WalkLeaf
    BY <1>1, <1>2, <2>3, LeafAligned DEF WalkLeaf
  <2>4. CASE WalkBignum
    BY <1>1, <1>2, <2>4, BignumAligned DEF WalkBignum
  <2>5. CASE WalkIndefinite
    BY <1>1, <2>5 DEF WalkIndefinite, HeadAccepted
  <2>6. CASE WalkParts
    BY <1>1, <1>2, <2>6, PushAligned DEF WalkParts
  <2>7. CASE WalkReturn
    BY <1>1, <1>2, <2>7, PopAligned DEF WalkReturn
  <2>8. CASE WalkNext
    BY <1>2, <2>8, NextAligned DEF WalkNext
  <2>9. CASE KeyRefused
    BY <1>1, <1>2, <2>9, KeyAligned
  <2>10. CASE CheckReturn
    BY <1>1, <1>2, <2>10, ReturnAligned
  <2> QED BY <2>1, <2>2, <2>3, <2>4, <2>5, <2>6, <2>7, <2>8, <2>9, <2>10 DEF CheckSerialization
<1> QED BY <1>3, <1>4

(* The strict checks accept items in canonical form and nothing else: what *)
(* they accept is a canonical document, found on the way, and a canonical  *)
(* document that is in the buffer is not refused.                          *)
THEOREM WalkCanonical == Spec => []CanonicalOnly
<1>1. TypeOK /\ Sound /\ Aligned => CanonicalOnly
  <2> SUFFICES ASSUME TypeOK, Sound, Aligned, call.fn = "check", Strict PROVE CanonicalOnly
    BY DEF CanonicalOnly
  <2>1. pc = "accepted" =>
          LET doc == [tree |-> found, tops |-> frames[1].parts]
          IN Canonical(doc, call.mode) /\ (call.sequence \/ Len(doc.tops) = 1)
    BY AcceptedCanonical
  <2>2. pc = "refused" => ~(Canonical(document, call.mode) /\ (call.sequence \/ Len(document.tops) = 1))
    BY DEF Aligned, Fits
  <2> QED BY <2>1, <2>2 DEF CanonicalOnly
<1>2. Init => TypeOK /\ Sound /\ Aligned
  BY InitType, InitSound, InitAligned
<1>3. TypeOK /\ Sound /\ Aligned /\ [Next]_vars => (TypeOK /\ Sound /\ Aligned)'
  BY TypeStep, SoundStep, AlignedStep
<1> QED BY <1>1, <1>2, <1>3, PTL DEF Spec

--------------------------------------------------------------------------------
(* What a decoder has read: spans that are items, one after the other from *)
(* the head of the map or array up to the position.                        *)
Outer == ReadHead(buffer, 1)
SpanType == [from : Position, to : Position]
Consecutive(s, end) ==
  /\ \A k \in DOMAIN s :
       /\ Skips(s[k].from) /\ s[k].to = SkipEnd(s[k].from)
       /\ s[k].from = IF k = 1 THEN Outer.at ELSE s[k - 1].to
  /\ end = IF Len(s) = 0 THEN Outer.at ELSE s[Len(s)].to
Strictly == call.fn = "map" /\ call.context \in {"deterministic", "array-deterministic"}
EntriesGood ==
  /\ Entered(Outer) /\ Consecutive(spans, at)
  /\ call.fn = "map" => Len(spans) + 2 * left = 2 * Value(Outer.arg)
  /\ call.fn = "array" => Len(spans) + left = Value(Outer.arg)
  /\ pc = "decoded" => left = 0 /\ (Strictly => KeysOrdered)
Decoded ==
  call.fn \in {"map", "array"} =>
    /\ pc \in {"head", "entry", "decoded", "refused"}
    /\ pc = "head" => at = 1 /\ spans = <<>>
    /\ pc \in {"entry", "decoded"} => EntriesGood

(* One more span after those that follow one another.                      *)
LEMMA ConsecutiveAppend ==
  ASSUME InputOK, NEW s \in Seq(SpanType), NEW e \in Position, Consecutive(s, e), Skips(e)
  PROVE  /\ Append(s, Span(e, SkipEnd(e))) \in Seq(SpanType)
         /\ Len(Append(s, Span(e, SkipEnd(e)))) = Len(s) + 1
         /\ Consecutive(Append(s, Span(e, SkipEnd(e))), SkipEnd(e)) /\ SkipEnd(e) \in Position
<1> DEFINE x == Span(e, SkipEnd(e))  t == Append(s, x)
<1>1. SkipEnd(e) \in Position
  <2>1. SkipEnd(e) \in (e + 1)..(Len(buffer) + 1) /\ Len(buffer) \in Nat
    BY SkipType, LenProperties DEF InputOK
  <2> QED BY <2>1 DEF Position
<1>2. x \in SpanType /\ x.from = e /\ x.to = SkipEnd(e)
  BY <1>1 DEF Span, SpanType
<1> HIDE DEF x
<1>p. PICK m : m = Len(s)
  OBVIOUS
<1>3. m \in Nat /\ DOMAIN s = 1..m /\ t \in Seq(SpanType) /\ Len(t) = m + 1 /\ DOMAIN t = 1..(m + 1)
      /\ (\A k \in 1..m : t[k] = s[k]) /\ t[m + 1] = x
  <2>1. m \in Nat /\ DOMAIN s = 1..m
    BY <1>p, LenProperties
  <2>2. t \in Seq(SpanType) /\ Len(t) = m + 1 /\ (\A k \in 1..m : t[k] = s[k]) /\ t[m + 1] = x
    BY <1>p, <1>2, AppendProperties
  <2> QED BY <2>1, <2>2, LenProperties
<1> HIDE DEF t
<1>4. ASSUME NEW k \in 1..(m + 1)
      PROVE  /\ Skips(t[k].from) /\ t[k].to = SkipEnd(t[k].from)
             /\ t[k].from = IF k = 1 THEN Outer.at ELSE t[k - 1].to
  <2>1. CASE k = m + 1
    <3>1. t[k] = x
      BY <1>3, <2>1
    <3>2. e = IF m = 0 THEN Outer.at ELSE s[m].to
      BY <1>p DEF Consecutive
    <3>3. m # 0 => m \in 1..m /\ k - 1 = m /\ k # 1
      BY <1>3, <2>1
    <3>4. m = 0 => k = 1
      BY <2>1
    <3>5. e = IF k = 1 THEN Outer.at ELSE t[k - 1].to
      BY <1>3, <3>2, <3>3, <3>4
    <3> QED BY <1>2, <3>1, <3>5
  <2>2. CASE k # m + 1
    <3>1. k \in 1..m /\ t[k] = s[k]
      BY <1>3, <2>2
    <3>2. k # 1 => k - 1 \in 1..m
      BY <1>3, <3>1
    <3>3. k # 1 => t[k - 1] = s[k - 1]
      BY <1>3, <3>2
    <3> QED BY <1>3, <3>1, <3>3 DEF Consecutive
  <2> QED BY <2>1, <2>2
<1>5. Len(t) # 0 /\ t[Len(t)].to = SkipEnd(e)
  BY <1>2, <1>3
<1>6. Consecutive(t, SkipEnd(e))
  BY <1>3, <1>4, <1>5 DEF Consecutive
<1> QED BY <1>p, <1>1, <1>3, <1>6 DEF t, x

(* Two spans are added to those that were read.                            *)
LEMMA TwoAppended ==
  ASSUME NEW S, NEW s \in Seq(S), NEW a \in S, NEW b \in S
  PROVE  s \o <<a, b>> = Append(Append(s, a), b)
  OBVIOUS

(* Spans that follow one another do so after a step that leaves the        *)
(* document.                                                               *)
LEMMA ConsecutiveSame ==
  ASSUME UNCHANGED <<buffer, document>>, NEW s, NEW e
  PROVE  Consecutive(s, e)' <=> Consecutive(s, e)
  BY DEF Consecutive, Skips, SkipEnd, Outer

(* After the head nothing has been read.                                   *)
LEMMA HeadDecoded ==
  ASSUME TypeOK, Decoded, DecodeHead
  PROVE  EntriesGood' /\ pc' = "entry"
<1>1. /\ UNCHANGED <<buffer, document, call, spans>> /\ pc = "head" /\ pc' = "entry" /\ Entered(Here)
      /\ at' = Here.at /\ left' = Value(Here.arg) /\ call.fn \in {"map", "array"}
  BY DEF DecodeHead, Decoding, input
<1>2. Here = Outer /\ spans = <<>>
  BY <1>1 DEF Decoded, Here, Outer
<1>3. Outer' = Outer /\ (Entered(Outer))' = Entered(Outer)
  BY <1>1 DEF Outer, Entered
<1>4. Consecutive(spans, Outer.at)
  BY <1>2 DEF Consecutive
<1>5. Consecutive(spans, at)'
  BY <1>1, <1>2, <1>4, ConsecutiveSame
<1>6. Value(Outer.arg) \in Nat /\ Len(spans) = 0
  BY <1>2, HereType
<1> QED BY <1>1, <1>2, <1>3, <1>5, <1>6 DEF EntriesGood

(* A key and its value are the next two items.                             *)
LEMMA EntryDecoded ==
  ASSUME TypeOK, Decoded, DecodeEntry
  PROVE  EntriesGood' /\ pc' = "entry"
<1> DEFINE m == SkipEnd(at)  e == SkipEnd(m)
           one == Append(spans, Span(at, m))  two == Append(one, Span(m, e))
<1>1. /\ UNCHANGED <<buffer, document, call>> /\ pc = "entry" /\ pc' = "entry" /\ call.fn = "map" /\ left > 0
      /\ Skips(at) /\ Skips(m) /\ at' = e /\ left' = left - 1 /\ spans' = spans \o <<Span(at, m), Span(m, e)>>
  BY DEF DecodeEntry, Decoding, input, SkipsEntry
<1>2. InputOK /\ spans \in Seq(SpanType) /\ at \in Position /\ left \in Nat
  BY LenProperties DEF TypeOK, SpanType, Position, InputOK
<1>3. EntriesGood
  BY <1>1 DEF Decoded
<1>4. one \in Seq(SpanType) /\ Len(one) = Len(spans) + 1 /\ Consecutive(one, m) /\ m \in Position
  BY <1>1, <1>2, <1>3, ConsecutiveAppend DEF EntriesGood
<1>5. two \in Seq(SpanType) /\ Len(two) = Len(one) + 1 /\ Consecutive(two, e) /\ e \in Position
  BY <1>1, <1>2, <1>4, ConsecutiveAppend
<1>6. spans' = two
  <2>1. Span(at, m) \in SpanType /\ Span(m, e) \in SpanType
    BY <1>2, <1>4, <1>5 DEF Span, SpanType
  <2> QED BY <1>1, <1>2, <2>1, TwoAppended
<1> HIDE DEF two, one, e, m
<1>7. Consecutive(spans, at)'
  BY <1>1, <1>5, <1>6, ConsecutiveSame
<1>8. Len(spans') + 2 * left' = 2 * Value(Outer.arg)
  <2>1. PICK l, v : l = Len(spans) /\ v = 2 * Value(Outer.arg)
    OBVIOUS
  <2>2. l \in Nat /\ l + 2 * left = v /\ Len(spans') = l + 2
    BY <1>1, <1>2, <1>3, <1>4, <1>5, <1>6, <2>1, LenProperties DEF EntriesGood
  <2>3. (l + 2) + 2 * (left - 1) = v
    BY <1>2, <2>2
  <2> QED BY <1>1, <2>1, <2>2, <2>3
<1>9. Outer' = Outer /\ (Entered(Outer))' = Entered(Outer)
  BY <1>1 DEF Outer, Entered
<1> QED BY <1>1, <1>3, <1>7, <1>8, <1>9 DEF EntriesGood

(* An element is the next item.                                            *)
LEMMA ElementDecoded ==
  ASSUME TypeOK, Decoded, DecodeElement
  PROVE  EntriesGood' /\ pc' = "entry"
<1> DEFINE e == SkipEnd(at)  one == Append(spans, Span(at, e))
<1>1. /\ UNCHANGED <<buffer, document, call>> /\ pc = "entry" /\ pc' = "entry" /\ call.fn = "array" /\ left > 0
      /\ Skips(at) /\ at' = e /\ left' = left - 1 /\ spans' = one
  BY DEF DecodeElement, Decoding, input
<1>2. InputOK /\ spans \in Seq(SpanType) /\ at \in Position /\ left \in Nat
  BY LenProperties DEF TypeOK, SpanType, Position, InputOK
<1>3. EntriesGood
  BY <1>1 DEF Decoded
<1>4. Len(one) = Len(spans) + 1 /\ Consecutive(one, e)
  BY <1>1, <1>2, <1>3, ConsecutiveAppend DEF EntriesGood
<1> HIDE DEF one, e
<1>5. Consecutive(spans, at)'
  BY <1>1, <1>4, ConsecutiveSame
<1>6. Len(spans') + left' = Value(Outer.arg)
  <2>1. PICK l, v : l = Len(spans) /\ v = Value(Outer.arg)
    OBVIOUS
  <2>2. l \in Nat /\ l + left = v /\ Len(spans') = l + 1
    BY <1>1, <1>2, <1>3, <1>4, <2>1, LenProperties DEF EntriesGood
  <2>3. (l + 1) + (left - 1) = v
    BY <1>2, <2>2
  <2> QED BY <1>1, <2>1, <2>2, <2>3
<1>7. Outer' = Outer /\ (Entered(Outer))' = Entered(Outer)
  BY <1>1 DEF Outer, Entered
<1> QED BY <1>1, <1>3, <1>5, <1>6, <1>7 DEF EntriesGood

(* At the end all are read, and in order if the context asks for it.       *)
LEMMA ReturnDecoded ==
  ASSUME TypeOK, Decoded, DecodeReturn
  PROVE  EntriesGood' /\ pc' = "decoded"
<1>1. /\ UNCHANGED <<buffer, document, call, at, left, spans>> /\ pc = "entry" /\ pc' = "decoded" /\ left = 0
      /\ Passes(OrderHolds) /\ call.fn \in {"map", "array"}
  BY DEF DecodeReturn, Decoding, input
<1>2. EntriesGood
  BY <1>1 DEF Decoded
<1>3. Strictly => KeysOrdered
  BY <1>1 DEF Strictly, Passes, OrderHolds
<1>4. /\ Outer' = Outer /\ (Entered(Outer))' = Entered(Outer) /\ Strictly' = Strictly
      /\ KeysOrdered' <=> KeysOrdered
  BY <1>1 DEF Outer, Entered, Strictly, KeysOrdered, BytesOf
<1>5. Consecutive(spans, at)'
  BY <1>1, <1>2, ConsecutiveSame DEF EntriesGood
<1> QED BY <1>1, <1>2, <1>3, <1>4, <1>5 DEF EntriesGood

(* Every step of a decoder keeps to the items that are there.              *)
LEMMA DecodedStep == TypeOK /\ Decoded /\ [Next]_vars => Decoded'
<1> SUFFICES ASSUME TypeOK, Decoded, [Next]_vars PROVE Decoded'
  OBVIOUS
<1>1. UNCHANGED <<buffer, document, call>>
  BY DEF vars, Next, CheckSerialization, WalkRefused, WalkLeaf, WalkBignum, WalkIndefinite, WalkParts, WalkReturn, WalkNext,
       KeyRefused, CheckReturn, Walking, ItemSpanAtPath, LocateEnter, LocateSkip, LocateArrive, LocateFound, LocateRefused,
       Locating, Decode, DecodeHead, DecodeEntry, DecodeElement, DecodeReturn, DecodeRefused, Decoding, input
<1>2. CASE call.fn \notin {"map", "array"}
  BY <1>1, <1>2 DEF Decoded
<1>3. CASE UNCHANGED <<at, left, spans, pc>> /\ call.fn \in {"map", "array"}
  <2>1. /\ Outer' = Outer /\ (Entered(Outer))' = Entered(Outer) /\ Strictly' = Strictly
        /\ KeysOrdered' <=> KeysOrdered
    BY <1>1, <1>3 DEF Outer, Entered, Strictly, KeysOrdered, BytesOf
  <2>2. Consecutive(spans, at)' <=> Consecutive(spans, at)
    BY <1>1, <1>3, ConsecutiveSame
  <2>3. EntriesGood' <=> EntriesGood
    BY <1>1, <1>3, <2>1, <2>2 DEF EntriesGood
  <2> QED BY <1>1, <1>3, <2>3 DEF Decoded
<1>4. CASE DecodeRefused
  BY <1>1, <1>4 DEF Decoded, DecodeRefused
<1>5. CASE DecodeHead
  BY <1>1, <1>5, HeadDecoded DEF Decoded
<1>6. CASE DecodeEntry
  BY <1>1, <1>6, EntryDecoded DEF Decoded
<1>7. CASE DecodeElement
  BY <1>1, <1>7, ElementDecoded DEF Decoded
<1>8. CASE DecodeReturn
  BY <1>1, <1>8, ReturnDecoded DEF Decoded
<1>9. CASE CheckSerialization \/ ItemSpanAtPath
  BY <1>2, <1>9 DEF CheckSerialization, WalkRefused, WalkLeaf, WalkBignum, WalkIndefinite, WalkParts, WalkReturn, WalkNext,
       KeyRefused, CheckReturn, Walking, ItemSpanAtPath, LocateEnter, LocateSkip, LocateArrive, LocateFound, LocateRefused,
       Locating
<1> QED BY <1>2, <1>3, <1>4, <1>5, <1>6, <1>7, <1>8, <1>9 DEF Next, Decode, vars

(* A decoder begins with nothing read.                                     *)
LEMMA InitDecoded == Init => Decoded
  BY DEF Init, Begin, Decoded

(* Where spans stand: the first of them after the head, each after another.*)
LEMMA SpansAre ==
  ASSUME TypeOK, Entered(Outer), Consecutive(spans, at)
  PROVE  /\ Len(spans) \in Nat /\ DOMAIN spans = 1..Len(spans)
         /\ Outer.at \in Nat /\ Outer.at > 1 /\ at > 1
         /\ \A k \in 1..Len(spans) :
              /\ spans[k].from \in Position /\ spans[k].from > 1 /\ Skips(spans[k].from)
              /\ spans[k].to = SkipEnd(spans[k].from) /\ spans[k].to \in Nat /\ spans[k].to > spans[k].from
              /\ spans[k].to - 1 \in Nat /\ spans[k].to - 1 <= Len(buffer)
<1>1. Len(spans) \in Nat /\ DOMAIN spans = 1..Len(spans) /\ InputOK /\ buffer \in Seq(Byte) /\ Len(buffer) \in Nat
  BY LenProperties DEF TypeOK, InputOK
<1>2. Outer.at \in Nat /\ Outer.at > 1
  BY <1>1, HeadType DEF Outer, Entered
<1>3. ASSUME NEW k \in 1..Len(spans)
      PROVE  /\ spans[k].from \in Position /\ Skips(spans[k].from)
             /\ spans[k].to = SkipEnd(spans[k].from) /\ spans[k].to \in Nat /\ spans[k].to > spans[k].from
             /\ spans[k].to - 1 \in Nat /\ spans[k].to - 1 <= Len(buffer)
  <2>1. Skips(spans[k].from) /\ spans[k].to = SkipEnd(spans[k].from)
    BY <1>1, <1>3 DEF Consecutive
  <2> DEFINE p == spans[k].from
  <2>2. p \in Nat \ {0} /\ SkipEnd(p) \in (p + 1)..(Len(buffer) + 1)
    BY <1>1, <2>1, SkipType
  <2> HIDE DEF p
  <2>3. SkipEnd(p) \in Nat /\ SkipEnd(p) > p /\ SkipEnd(p) - 1 \in Nat /\ SkipEnd(p) - 1 <= Len(buffer) /\ p \in Position
    BY <1>1, <2>2 DEF Position
  <2> QED BY <2>1, <2>3 DEF p
<1>4. ASSUME NEW k \in 1..Len(spans) PROVE spans[k].from > 1
  <2>1. spans[k].from = IF k = 1 THEN Outer.at ELSE spans[k - 1].to
    BY <1>1, <1>4 DEF Consecutive
  <2>2. CASE k = 1
    BY <1>2, <2>1, <2>2
  <2>3. CASE k # 1
    <3>1. k - 1 \in 1..Len(spans)
      BY <1>1, <2>3
    <3>2. spans[k - 1].from \in Position /\ spans[k - 1].to \in Nat /\ spans[k - 1].to > spans[k - 1].from
      BY <1>3, <3>1
    <3> QED BY <2>1, <2>3, <3>2 DEF Position
  <2> QED BY <2>2, <2>3
<1>5. at > 1
  <2>1. at = IF Len(spans) = 0 THEN Outer.at ELSE spans[Len(spans)].to
    BY DEF Consecutive
  <2>2. CASE Len(spans) = 0
    BY <1>2, <2>1, <2>2
  <2>3. CASE Len(spans) # 0
    <3>1. Len(spans) \in 1..Len(spans)
      BY <1>1, <2>3
    <3>2. spans[Len(spans)].from \in Position /\ spans[Len(spans)].to \in Nat
          /\ spans[Len(spans)].to > spans[Len(spans)].from
      BY <1>3, <3>1
    <3> QED BY <2>1, <2>3, <3>2 DEF Position
  <2> QED BY <2>2, <2>3
<1> QED BY <1>1, <1>2, <1>3, <1>4, <1>5

(* What a decoder has read up to the end is the item that the head         *)
(* announces.                                                              *)
LEMMA DecodedExactly ==
  ASSUME TypeOK, Decoded
  PROVE  DecodedIsExact
<1> SUFFICES ASSUME call.fn \in {"map", "array"}, pc = "decoded" PROVE DecodedIsExact
  BY DEF DecodedIsExact
<1> DEFINE starts == [k \in DOMAIN spans |-> spans[k].from]
           item == [parts |-> starts, to |-> at]
           tree == With(document.tree, 1, item)
<1>1. EntriesGood /\ left = 0 /\ (Strictly => KeysOrdered) /\ Entered(Outer) /\ Consecutive(spans, at)
  BY DEF Decoded, EntriesGood
<1>p. PICK m : m = Len(spans)
  OBVIOUS
<1>2. /\ m \in Nat /\ DOMAIN spans = 1..m /\ Outer.at \in Nat /\ at > 1
      /\ \A k \in 1..m :
           /\ spans[k].from \in Position /\ spans[k].from > 1 /\ Skips(spans[k].from)
           /\ spans[k].to = SkipEnd(spans[k].from) /\ spans[k].to - 1 \in Nat /\ spans[k].to - 1 <= Len(buffer)
  BY <1>p, <1>1, SpansAre
<1>3. /\ starts \in Seq(Position) /\ Len(starts) = m /\ DOMAIN starts = 1..m
      /\ \A k \in 1..m : starts[k] = spans[k].from
  <2>1. starts \in [1..m -> Position] /\ \A k \in 1..m : starts[k] = spans[k].from
    BY <1>2
  <2> HIDE DEF starts
  <2>2. starts \in Seq(Position)
    BY <1>2, <2>1
  <2> QED BY <1>2, <2>1, <2>2, LenProperties
<1> HIDE DEF starts
<1>4. /\ tree[1] = item /\ item.parts = starts /\ item.to = at
      /\ \A q \in DOMAIN document.tree : q # 1 => q \in DOMAIN tree /\ tree[q] = document.tree[q]
  <2>1. item.parts = starts /\ item.to = at
    OBVIOUS
  <2> HIDE DEF item
  <2>2. tree = [q \in DOMAIN document.tree \cup {1} |-> IF q = 1 THEN item ELSE document.tree[q]]
    BY DEF With
  <2> QED BY <2>1, <2>2
<1>5. tree[1].parts = starts /\ tree[1].to = at
  BY <1>4
<1>6. \A k \in 1..m : starts[k] \in DOMAIN tree /\ tree[starts[k]].to = spans[k].to
  <2> SUFFICES ASSUME NEW k \in 1..m PROVE starts[k] \in DOMAIN tree /\ tree[starts[k]].to = spans[k].to
    OBVIOUS
  <2>1. starts[k] \in DOMAIN document.tree /\ starts[k] # 1
    BY <1>2, <1>3 DEF Skips, Position
  <2> QED BY <1>2, <1>3, <1>4, <2>1 DEF SkipEnd
<1> HIDE DEF tree
<1>7. Chained(tree, starts, Outer.at, at)
  <2>1. ASSUME NEW k \in 1..m
        PROVE  starts[k] \in DOMAIN tree /\ starts[k] = IF k - 1 = 0 THEN Outer.at ELSE tree[starts[k - 1]].to
    <3>1. starts[k] \in DOMAIN tree /\ starts[k] = IF k = 1 THEN Outer.at ELSE spans[k - 1].to
      BY <1>1, <1>2, <1>3, <1>6 DEF Consecutive
    <3>2. CASE k = 1
      BY <3>1, <3>2
    <3>3. CASE k # 1
      <4>1. k - 1 \in 1..m /\ k - 1 # 0
        BY <1>2, <3>3
      <4> QED BY <1>6, <3>1, <3>3, <4>1
    <3> QED BY <3>2, <3>3
  <2>2. at = IF m = 0 THEN Outer.at ELSE tree[starts[m]].to
    <3>1. at = IF m = 0 THEN Outer.at ELSE spans[m].to
      BY <1>p, <1>1 DEF Consecutive
    <3>2. m # 0 => m \in 1..m
      BY <1>2
    <3> QED BY <1>6, <3>1, <3>2
  <2> QED BY <1>3, <2>1, <2>2 DEF Chained
<1>8. Structured(buffer, tree, 1)
  <2> DEFINE h == Outer
  <2>1. /\ h.ok /\ Definite(h) /\ h.major = (IF call.fn = "map" THEN 5 ELSE 4) /\ Value(h.arg) \in Nat
    <3>1. buffer \in Seq(Byte)
      BY DEF TypeOK, InputOK
    <3>2. h.arg \in Seq(Byte)
      BY <3>1, HeadType DEF Outer
    <3> QED BY <1>1, <3>2, ValueType DEF Entered
  <2>2. h = ReadHead(buffer, 1)
    BY DEF Outer
  <2> HIDE DEF h
  <2>3. CASE call.fn = "map"
    <3>1. PICK v : v = Value(h.arg)
      OBVIOUS
    <3>2. m + 2 * left = 2 * v /\ left = 0
      BY <1>p, <1>1, <2>3, <3>1 DEF EntriesGood, h
    <3>3. m = 2 * v /\ m % 2 = 0
      BY <1>2, <2>1, <3>1, <3>2
    <3>4. at \in (1 + 1)..(Len(buffer) + 1)
      BY <1>2, LenProperties DEF TypeOK, InputOK
    <3>5. h.major = 5
      BY <2>1, <2>3
    <3> QED BY <1>3, <1>5, <1>7, <2>1, <2>2, <3>1, <3>3, <3>4, <3>5 DEF Structured, h
  <2>4. CASE call.fn = "array"
    <3>1. m + left = Value(h.arg) /\ left = 0
      BY <1>p, <1>1, <2>4 DEF EntriesGood, h
    <3>2. m = Value(h.arg)
      BY <1>2, <3>1
    <3>3. at \in (1 + 1)..(Len(buffer) + 1)
      BY <1>2, LenProperties DEF TypeOK, InputOK
    <3>4. h.major = 4
      BY <2>1, <2>4
    <3> QED BY <1>3, <1>5, <1>7, <2>1, <2>2, <3>2, <3>3, <3>4 DEF Structured, h
  <2> QED BY <2>3, <2>4
<1>9. ASSUME Strictly PROVE Ascending(Keys(buffer, tree, 1), LengthFirst)
  <2> DEFINE keys == Keys(buffer, tree, 1)  n == m \div 2
  <2>1. n \in Nat /\ \A k \in 1..n : 2 * k - 1 \in 1..m
    <3>1. n \in Nat /\ \A k \in 1..n : 2 * k - 1 \in 1..(m - 1)
      BY <1>2, CheckedIs
    <3> QED BY <1>2, <3>1
  <2>2. keys = [k \in 1..n |-> Bytes(buffer, tree, starts[2 * k - 1])]
    BY <1>3, <1>5 DEF Keys
  <2>3. ASSUME NEW k \in 1..n PROVE keys[k] = BytesOf(spans[2 * k - 1]) /\ keys[k] \in Seq(Byte)
    <3> DEFINE j == 2 * k - 1
    <3>1. j \in 1..m
      BY <2>1
    <3> HIDE DEF j
    <3>2. starts[j] = spans[j].from /\ tree[starts[j]].to = spans[j].to
      BY <1>3, <1>6, <3>1
    <3>3. spans[j].from \in Position /\ spans[j].to - 1 \in Nat /\ spans[j].to - 1 <= Len(buffer) /\ buffer \in Seq(Byte)
      BY <1>2, <3>1 DEF TypeOK, InputOK
    <3>4. BytesOf(spans[j]) \in Seq(Byte)
      BY <3>3, CutType DEF BytesOf
    <3>5. Bytes(buffer, tree, starts[j]) = BytesOf(spans[j])
      BY <3>2 DEF Bytes, BytesOf
    <3> QED BY <2>2, <3>4, <3>5 DEF j
  <2>4. ASSUME NEW k \in 1..(n - 1) PROVE LengthFirst(keys[k], keys[k + 1])
    <3>1. k \in 1..n /\ k + 1 \in 1..n /\ 2 * (k + 1) - 1 = 2 * k + 1
      BY <2>1
    <3>2. LengthFirst(BytesOf(spans[2 * k - 1]), BytesOf(spans[2 * k + 1]))
      BY <1>p, <1>1, <1>9, <2>4 DEF KeysOrdered
    <3> QED BY <2>3, <3>1, <3>2
  <2>5. keys \in [1..n -> Seq(Byte)]
    BY <2>2, <2>3
  <2> HIDE DEF keys, n
  <2>6. Ascending(keys, LengthFirst)
    BY <2>1, <2>4, <2>5, NeighboursAscend
  <2> QED BY <2>6 DEF keys
<1>10. \A k \in DOMAIN spans : spans[k].to = tree[spans[k].from].to
  BY <1>2, <1>3, <1>6
<1> QED BY <1>8, <1>9, <1>10 DEF DecodedIsExact, Strictly, tree, item, starts

(* A map in the form that the deterministic check accepts, of keys of one  *)
(* length: its entries are read one by one, and none of them is refused.   *)
SameLengths ==
  LET keys == Keys(buffer, document.tree, 1) IN \A k, l \in DOMAIN keys : Len(keys[k]) = Len(keys[l])
Agreeing ==
  /\ call.fn = "map" /\ Outer.major = 5 /\ Canonical(document, "dtrm") /\ Len(document.tops) = 1
  /\ SameLengths
Agreed ==
  Agreeing =>
    /\ pc # "refused"
    /\ \A k \in DOMAIN spans : k \in DOMAIN document.tree[1].parts /\ spans[k].from = document.tree[1].parts[k]

(* A key in canonical form passes `KeyIsDeterministic`.                    *)
LEMMA KeyAgrees ==
  ASSUME TypeOK, Canonical(document, "dtrm"), NEW p, Skips(p)
  PROVE  KeyIsDeterministic(p, SkipEnd(p))
<1> DEFINE h == ReadHead(buffer, p)
<1> SUFFICES ASSUME h.major \in {2, 3}
             PROVE  /\ StringRead(h) /\ StringEnd(h) <= SkipEnd(p)
                    /\ h.major = 3 => Utf8(SubSeq(buffer, h.at, StringEnd(h) - 1))
                    /\ SkipEnd(p) - p - HeaderSize(h) = Value(h.arg)
  BY DEF KeyIsDeterministic
<1>0. buffer \in Seq(Byte) /\ p \in Nat \ {0} /\ p \in Position /\ Len(buffer) \in Nat /\ p \in DOMAIN document.tree
      /\ SkipEnd(p) \in (p + 1)..(Len(buffer) + 1)
  BY SkipType, LenProperties DEF TypeOK, InputOK, Position, Skips
<1>1. Structured(buffer, document.tree, p) /\ Shortest(buffer, document.tree, p) /\ Readable(p)
  BY <1>0, CanonicalIs
<1>2. Definite(h)
  BY <1>1, ShortestMeans
<1>3. h.ok /\ SkipEnd(p) = h.at + Value(h.arg)
  BY <1>1, <1>2 DEF Structured, SkipEnd
<1>4. h.info \in 0..31 /\ h.info \notin 28..30 /\ h.at = p + 1 + Extra(h.info) /\ h.at \in Nat /\ Value(h.arg) \in Nat
  BY <1>0, <1>3, HeadType, ValueType
<1>5. h.major = 3 => TextRead(h)
  BY <1>1 DEF Readable
<1> HIDE DEF h
<1>6. HeaderSize(h) = 1 + Extra(h.info)
  <2>1. h.info \in 24..27 \/ h.info \notin 24..27
    OBVIOUS
  <2>2. CASE h.info \notin 24..27
    <3>1. Extra(h.info) = 0
      BY <1>4, <2>2, ExtraType
    <3>2. h.info # 24 /\ h.info # 25 /\ h.info # 26 /\ h.info # 27
      BY <2>2
    <3> QED BY <3>1, <3>2 DEF HeaderSize
  <2>3. CASE h.info \in {24, 25, 26, 27}
    BY <1>4, <2>3, ExtraType DEF HeaderSize
  <2> QED BY <2>2, <2>3
<1>7. StringEnd(h) = SkipEnd(p)
  BY <1>3 DEF StringEnd
<1>8. StringRead(h)
  BY <1>0, <1>2, <1>3, <1>7 DEF StringRead
<1>9. SkipEnd(p) - p - HeaderSize(h) = Value(h.arg)
  <2>1. Extra(h.info) \in Nat
    BY <1>4, ExtraType
  <2> QED BY <1>0, <1>3, <1>4, <1>6, <2>1
<1> QED BY <1>0, <1>5, <1>7, <1>8, <1>9 DEF TextRead

(* The map that is known.                                                  *)
LEMMA MapIs ==
  ASSUME TypeOK, Agreeing
  PROVE  LET s == document.tree[1].parts IN
         /\ 1 \in DOMAIN document.tree /\ s \in Seq(Position) /\ Len(s) = 2 * Value(Outer.arg) /\ DOMAIN s = 1..Len(s)
         /\ Len(s) \in Nat /\ Value(Outer.arg) \in Nat
         /\ Entered(Outer) /\ MinimalLength(Outer)
         /\ Chained(document.tree, s, Outer.at, document.tree[1].to)
         /\ Ascending(Keys(buffer, document.tree, 1), Bytewise)
<1>1. Chained(document.tree, document.tops, 1, Len(buffer) + 1) /\ document.tops \in Seq(Position)
  BY CanonicalIs DEF Agreeing
<1>2. 1 \in DOMAIN document.tree
  <2>1. 1 \in DOMAIN document.tops
    BY <1>1, LenProperties DEF Agreeing
  <2> QED BY <1>1, <2>1 DEF Chained
<1>3. /\ Structured(buffer, document.tree, 1) /\ Shortest(buffer, document.tree, 1)
      /\ Ordered(buffer, document.tree, 1) /\ document.tree[1].parts \in Seq(Position)
  BY <1>2, CanonicalIs DEF Agreeing
<1> DEFINE h == Outer  s == document.tree[1].parts
<1>4. h = ReadHead(buffer, 1) /\ h.major = 5
  BY DEF Outer, Agreeing
<1>5. Definite(h) /\ MinimalHead(h)
  BY <1>3, <1>4, ShortestMeans
<1> HIDE DEF h
<1>6. h.ok /\ Len(s) = 2 * Value(h.arg) /\ Chained(document.tree, s, h.at, document.tree[1].to)
  BY <1>3, <1>4, <1>5 DEF Structured
<1>7. Ascending(Keys(buffer, document.tree, 1), Bytewise)
  BY <1>3, <1>4 DEF Ordered
<1>8. buffer \in Seq(Byte) /\ h.arg \in Seq(Byte) /\ Len(h.arg) \in {1, 2, 4, 8} /\ Value(h.arg) \in Nat /\ h.info \in 0..31
      /\ (h.info \in 24..27 => Len(h.arg) = Extra(h.info))
  <2>1. buffer \in Seq(Byte)
    BY DEF TypeOK, InputOK
  <2> QED BY <1>4, <1>6, <2>1, HeadType, ValueType
<1>9. MinimalLength(h)
  <2> SUFFICES ASSUME h.info = 24, Value(h.arg) <= 23 PROVE FALSE
    BY DEF MinimalLength
  <2>1. Len(h.arg) = 1
    BY Zenon, <1>8, ExtraType
  <2>2. ~FitsIn(h.arg, 0)
    BY <1>5, <2>1 DEF MinimalHead
  <2> QED BY <1>8, <2>2, FitsInMeans
<1>10. Entered(h)
  BY <1>4, <1>5, <1>6 DEF Entered, Agreeing
<1>11. DOMAIN s = 1..Len(s) /\ Len(s) \in Nat
  BY <1>3, LenProperties
<1> QED BY <1>2, <1>3, <1>6, <1>7, <1>8, <1>9, <1>10, <1>11 DEF h

(* While entries are left, the position is that of the next known part.    *)
LEMMA EntryAgrees ==
  ASSUME TypeOK, Agreeing, Agreed, Decoded, pc = "entry", left > 0
  PROVE  LET s == document.tree[1].parts
             m == Len(spans)
         IN /\ m + 1 \in DOMAIN s /\ m + 2 \in DOMAIN s /\ at = s[m + 1]
            /\ Skips(at) /\ SkipEnd(at) = s[m + 2] /\ Skips(SkipEnd(at))
<1>p. PICK m, s, v : m = Len(spans) /\ s = document.tree[1].parts /\ v = Value(Outer.arg)
  OBVIOUS
<1>1. EntriesGood /\ left \in Nat
  BY DEF Decoded, Agreeing, TypeOK
<1>2. m \in Nat /\ DOMAIN spans = 1..m
  BY <1>p, LenProperties DEF TypeOK
<1>3. DOMAIN s = 1..(2 * v) /\ v \in Nat /\ Chained(document.tree, s, Outer.at, document.tree[1].to)
  BY <1>p, MapIs
<1>4. m + 2 * left = 2 * v
  BY <1>p, <1>1 DEF EntriesGood, Agreeing
<1>5. m + 1 \in DOMAIN s /\ m + 2 \in DOMAIN s
  BY <1>1, <1>2, <1>3, <1>4
<1>6. at = IF m = 0 THEN Outer.at ELSE document.tree[s[m]].to
  <2>1. at = IF m = 0 THEN Outer.at ELSE spans[m].to
    BY <1>p, <1>1 DEF EntriesGood, Consecutive
  <2>2. CASE m = 0
    BY <2>1, <2>2
  <2>3. CASE m # 0
    <3>1. m \in DOMAIN spans
      BY <1>2, <2>3
    <3>2. spans[m].to = SkipEnd(spans[m].from) /\ spans[m].from = s[m]
      BY <1>p, <1>1, <3>1 DEF EntriesGood, Consecutive, Agreed
    <3> QED BY <2>1, <2>3, <3>2 DEF SkipEnd
  <2> QED BY <2>2, <2>3
<1>7. at = s[m + 1] /\ at \in DOMAIN document.tree
  <2>1. (m + 1) - 1 = m
    BY <1>2
  <2> QED BY <1>3, <1>5, <1>6, <2>1 DEF Chained
<1>8. s[m + 2] = document.tree[at].to /\ s[m + 2] \in DOMAIN document.tree
  <2>1. (m + 2) - 1 = m + 1 /\ m + 1 # 0
    BY <1>2
  <2> QED BY <1>3, <1>5, <1>7, <2>1 DEF Chained
<1> QED BY <1>p, <1>5, <1>7, <1>8 DEF Skips, SkipEnd

(* Keys of one length that ascend bytewise ascend for the decoder too.     *)
LEMMA OrderAgrees ==
  ASSUME TypeOK, Agreeing, Agreed, Decoded, pc = "entry", left = 0
  PROVE  OrderHolds
<1> SUFFICES ASSUME NEW k \in 1..((Len(spans) \div 2) - 1)
             PROVE  LengthFirst(BytesOf(spans[2 * k - 1]), BytesOf(spans[2 * k + 1]))
  BY DEF OrderHolds, KeysOrdered, Agreeing
<1>p. PICK m, s, v, n : m = Len(spans) /\ s = document.tree[1].parts /\ v = Value(Outer.arg) /\ n = m \div 2
  OBVIOUS
<1> DEFINE keys == Keys(buffer, document.tree, 1)
<1>1. EntriesGood
  BY DEF Decoded, Agreeing
<1>2. m \in Nat /\ DOMAIN spans = 1..m
  BY <1>p, LenProperties DEF TypeOK
<1>3. Len(s) = 2 * v /\ v \in Nat /\ Ascending(keys, Bytewise)
  BY <1>p, MapIs
<1>4. m = 2 * v /\ n = v
  <2>1. m + 2 * left = 2 * v
    BY <1>p, <1>1 DEF EntriesGood, Agreeing
  <2>2. m = 2 * v
    BY <1>2, <1>3, <2>1
  <2> QED BY <1>p, <1>3, <2>2
<1>5. /\ k \in 1..v /\ k + 1 \in 1..v /\ k < k + 1 /\ 2 * (k + 1) - 1 = 2 * k + 1
      /\ \A j \in 1..v : 2 * j - 1 \in 1..m
  <2>1. k \in 1..(v - 1)
    BY <1>p, <1>4
  <2> QED BY <1>3, <1>4, <2>1
<1>6. DOMAIN keys = 1..v /\ \A j \in 1..v : keys[j] = Bytes(buffer, document.tree, s[2 * j - 1])
  <2>1. keys = [j \in 1..(Len(s) \div 2) |-> Bytes(buffer, document.tree, s[2 * j - 1])]
    BY <1>p DEF Keys
  <2>2. Len(s) \div 2 = v
    <3>1. (2 * v) \div 2 = v
      BY <1>3
    <3> QED BY <1>3, <3>1
  <2> QED BY <2>1, <2>2
<1>7. ASSUME NEW j \in 1..v PROVE keys[j] = BytesOf(spans[2 * j - 1])
  <2> DEFINE i == 2 * j - 1
  <2>1. i \in DOMAIN spans
    BY <1>2, <1>5
  <2>2. keys[j] = Bytes(buffer, document.tree, s[i])
    BY <1>6
  <2> HIDE DEF i, keys
  <2>3. spans[i].from = s[i] /\ spans[i].to = SkipEnd(spans[i].from)
    BY <1>p, <1>1, <2>1 DEF EntriesGood, Consecutive, Agreed
  <2> QED BY <2>2, <2>3 DEF Bytes, BytesOf, SkipEnd, i
<1>8. Len(keys[k]) = Len(keys[k + 1])
  BY <1>5, <1>6 DEF Agreeing, SameLengths
<1> HIDE DEF keys
<1>9. Bytewise(keys[k], keys[k + 1])
  BY <1>3, <1>5, <1>6 DEF Ascending
<1>10. keys[k] = BytesOf(spans[2 * k - 1]) /\ keys[k + 1] = BytesOf(spans[2 * k + 1])
  <2>1. keys[k] = BytesOf(spans[2 * k - 1]) /\ keys[k + 1] = BytesOf(spans[2 * (k + 1) - 1])
    BY <1>5, <1>7
  <2> QED BY <1>5, <2>1
<1>11. LengthFirst(keys[k], keys[k + 1])
  BY <1>8, <1>9 DEF LengthFirst
<1> QED BY <1>10, <1>11

(* Whether the forms agree on a map does not change with the decoder.      *)
LEMMA AgreeingSame ==
  ASSUME UNCHANGED <<buffer, document, call>>
  PROVE  Agreeing' <=> Agreeing
<1>1. Canonical(document, "dtrm")' <=> Canonical(document, "dtrm")
  BY CanonicalSame
<1> QED BY <1>1 DEF Agreeing, Outer, SameLengths

(* Every step keeps a map on which the forms agree from being refused.     *)
LEMMA AgreedStep == TypeOK /\ Decoded /\ Agreed /\ [Next]_vars => Agreed'
<1> SUFFICES ASSUME TypeOK, Decoded, Agreed, [Next]_vars, Agreeing'
             PROVE  /\ pc' # "refused"
                    /\ \A k \in DOMAIN spans' : /\ k \in DOMAIN document'.tree[1].parts
                                                /\ spans'[k].from = document'.tree[1].parts[k]
  BY DEF Agreed
<1>0. UNCHANGED <<buffer, document, call>>
  BY DEF vars, Next, CheckSerialization, WalkRefused, WalkLeaf, WalkBignum, WalkIndefinite, WalkParts, WalkReturn, WalkNext,
       KeyRefused, CheckReturn, Walking, ItemSpanAtPath, LocateEnter, LocateSkip, LocateArrive, LocateFound, LocateRefused,
       Locating, Decode, DecodeHead, DecodeEntry, DecodeElement, DecodeReturn, DecodeRefused, Decoding, input
<1>1. Agreeing /\ call.fn = "map"
  BY <1>0, AgreeingSame DEF Agreeing
<1> DEFINE s == document.tree[1].parts  Fit(x) == \A k \in DOMAIN x : k \in DOMAIN s /\ x[k].from = s[k]
<1>2. pc # "refused" /\ Fit(spans)
  BY <1>1 DEF Agreed
<1>3. pc' # "refused" /\ Fit(spans')
  <2>1. CASE UNCHANGED vars
    BY <1>2, <2>1 DEF vars
  <2>2. CASE DecodeHead \/ DecodeReturn
    BY <1>2, <2>2 DEF DecodeHead, DecodeReturn
  <2>3. CASE DecodeElement
    BY <1>1, <2>3 DEF DecodeElement
  <2>4. CASE DecodeEntry
    <3> DEFINE a == Span(at, SkipEnd(at))  b == Span(SkipEnd(at), at')
    <3>1. pc = "entry" /\ left > 0 /\ pc' = pc /\ spans' = spans \o <<a, b>>
      BY <2>4 DEF DecodeEntry
    <3>p. PICK m : m = Len(spans)
      OBVIOUS
    <3>2. m + 1 \in DOMAIN s /\ m + 2 \in DOMAIN s /\ at = s[m + 1] /\ SkipEnd(at) = s[m + 2]
      BY <1>1, <3>1, <3>p, EntryAgrees
    <3>3. a.from = s[m + 1] /\ b.from = s[m + 2]
      BY <3>2 DEF Span
    <3> HIDE DEF a, b, s
    <3>4. m \in Nat /\ DOMAIN spans = 1..m /\ spans \in Seq(SpanType)
      BY <3>p, LenProperties DEF TypeOK, SpanType
    <3>5. ASSUME NEW k \in DOMAIN spans' PROVE k \in DOMAIN s /\ spans'[k].from = s[k]
      <4>1. k \in 1..(m + 2)
        BY <3>1, <3>4, <3>p
      <4>2. CASE k \in 1..m
        <5>1. spans'[k] = spans[k]
          BY <3>1, <3>4, <3>p, <4>2
        <5> QED BY <1>2, <3>4, <4>2, <5>1
      <4>3. CASE k = m + 1
        <5>1. spans'[k] = a
          BY <3>1, <3>4, <3>p, <4>3
        <5> QED BY <3>2, <3>3, <4>3, <5>1
      <4>4. CASE k = m + 2
        <5>1. spans'[k] = b
          BY <3>1, <3>4, <3>p, <4>4
        <5> QED BY <3>2, <3>3, <4>4, <5>1
      <4>5. k \in 1..m \/ k = m + 1 \/ k = m + 2
        BY <3>4, <4>1
      <4> QED BY <4>2, <4>3, <4>4, <4>5
    <3> QED BY <1>2, <3>1, <3>5
  <2>5. CASE DecodeRefused
    <3>1. CASE pc = "head" /\ (Entered(Here) => Stops(MinimalLength(Here)))
      <4>1. Here = Outer
        BY <1>1, <3>1 DEF Decoded, Here, Outer
      <4>2. Entered(Here) /\ MinimalLength(Here)
        BY <1>1, <4>1, MapIs
      <4> QED BY <3>1, <4>2 DEF Stops
    <3>2. CASE pc = "entry" /\ left > 0 /\ (SkipsEntry => Stops(KeyIsDeterministic(at, SkipEnd(at))))
      <4>1. Skips(at) /\ Skips(SkipEnd(at))
        BY <1>1, <3>2, EntryAgrees
      <4>2. KeyIsDeterministic(at, SkipEnd(at))
        BY <1>1, <4>1, KeyAgrees DEF Agreeing
      <4> QED BY <3>2, <4>1, <4>2 DEF Stops, SkipsEntry
    <3>3. CASE pc = "entry" /\ left = 0 /\ Stops(OrderHolds)
      <4>1. OrderHolds
        BY <1>1, <3>3, OrderAgrees
      <4> QED BY <3>3, <4>1 DEF Stops
    <3> QED BY <1>1, <2>5, <3>1, <3>2, <3>3 DEF DecodeRefused
  <2>6. CASE CheckSerialization \/ ItemSpanAtPath
    BY <1>1, <2>6 DEF CheckSerialization, WalkRefused, WalkLeaf, WalkBignum, WalkIndefinite, WalkParts, WalkReturn, WalkNext,
       KeyRefused, CheckReturn, Walking, ItemSpanAtPath, LocateEnter, LocateSkip, LocateArrive, LocateFound, LocateRefused,
       Locating
  <2> QED BY <2>1, <2>2, <2>3, <2>4, <2>5, <2>6 DEF Next, Decode
<1> QED BY <1>0, <1>3

(* A decoder begins with no entry read.                                    *)
LEMMA InitAgreed == Init => Agreed
  BY DEF Init, Begin, Agreed, Agreeing

(* What is asked of the head and of the keys in a deterministic context.   *)
Asking == call.fn \in {"map", "array"} /\ call.context \in {"deterministic", "array-deterministic"}
HeadAsked == Outer.info = 24 => Value(Outer.arg) \notin 1..23
WholeKey(p) == LET h == ReadHead(buffer, p) IN h.major \in {2, 3} => Definite(h)
KeysWhole == \A j \in Nat : 2 * j - 1 \in DOMAIN spans => WholeKey(spans[2 * j - 1].from)
Asked ==
  Asking /\ pc \in {"entry", "decoded"} => HeadAsked /\ (call.fn = "map" => KeysWhole)

(* A key that is read in a deterministic context is a whole one.           *)
LEMMA EntryAsked ==
  ASSUME TypeOK, Decoded, DecodeEntry, KeysWhole, Asking
  PROVE  KeysWhole'
<1> DEFINE a == Span(at, SkipEnd(at))  b == Span(SkipEnd(at), at')
<1>1. /\ UNCHANGED <<buffer, document, call>> /\ pc = "entry" /\ call.fn = "map" /\ left > 0
      /\ Passes(KeyIsDeterministic(at, SkipEnd(at))) /\ spans' = spans \o <<a, b>>
  BY DEF DecodeEntry, Decoding, input
<1>2. WholeKey(at)
  <2>1. KeyIsDeterministic(at, SkipEnd(at))
    BY <1>1 DEF Passes, Asking
  <2> QED BY <2>1 DEF KeyIsDeterministic, WholeKey, StringRead
<1>3. a.from = at
  BY DEF Span
<1> HIDE DEF a, b
<1>p. PICK m, v : m = Len(spans) /\ v = Value(Outer.arg)
  OBVIOUS
<1>4. m \in Nat /\ DOMAIN spans = 1..m /\ spans \in Seq(SpanType) /\ left \in Nat
  BY <1>p, LenProperties DEF TypeOK, SpanType
<1>5. m + 2 * left = 2 * v /\ v \in Nat
  <2>1. EntriesGood
    BY <1>1 DEF Decoded
  <2>2. Value(Outer.arg) \in Nat
    <3>1. buffer \in Seq(Byte)
      BY DEF TypeOK, InputOK
    <3>2. Outer.arg \in Seq(Byte)
      BY <3>1, HeadType DEF Outer
    <3> QED BY <3>2, ValueType
  <2> QED BY <1>p, <1>1, <2>1, <2>2 DEF EntriesGood
<1>6. ASSUME NEW j \in Nat, 2 * j - 1 \in DOMAIN spans' PROVE WholeKey(spans'[2 * j - 1].from)
  <2>1. 2 * j - 1 \in 1..(m + 2)
    BY <1>1, <1>4, <1>p, <1>6
  <2>2. 2 * j - 1 \in 1..m \/ 2 * j - 1 = m + 1
    BY <1>4, <1>5, <2>1
  <2>3. CASE 2 * j - 1 \in 1..m
    <3> DEFINE i == 2 * j - 1
    <3>1. i \in 1..m /\ WholeKey(spans[i].from)
      BY <1>4, <2>3 DEF KeysWhole
    <3> HIDE DEF i
    <3>2. spans'[i] = spans[i]
      BY <1>1, <1>4, <1>p, <3>1
    <3> QED BY <3>1, <3>2 DEF i
  <2>4. CASE 2 * j - 1 = m + 1
    <3>1. spans'[m + 1] = a
      BY <1>1, <1>4, <1>p
    <3> QED BY <1>2, <1>3, <2>4, <3>1
  <2> QED BY <2>2, <2>3, <2>4
<1> QED BY <1>1, <1>6 DEF KeysWhole, WholeKey

(* Every step keeps to the rules that are asked.                           *)
LEMMA AskedStep == TypeOK /\ Decoded /\ Asked /\ [Next]_vars => Asked'
<1> SUFFICES ASSUME TypeOK, Decoded, Asked, [Next]_vars, (Asking /\ pc \in {"entry", "decoded"})'
             PROVE  HeadAsked' /\ (call.fn = "map" => KeysWhole)'
  BY DEF Asked
<1>0. UNCHANGED <<buffer, document, call>>
  BY DEF vars, Next, CheckSerialization, WalkRefused, WalkLeaf, WalkBignum, WalkIndefinite, WalkParts, WalkReturn, WalkNext,
       KeyRefused, CheckReturn, Walking, ItemSpanAtPath, LocateEnter, LocateSkip, LocateArrive, LocateFound, LocateRefused,
       Locating, Decode, DecodeHead, DecodeEntry, DecodeElement, DecodeReturn, DecodeRefused, Decoding, input
<1>1. Asking /\ (HeadAsked' <=> HeadAsked) /\ call.fn' = call.fn
  BY <1>0 DEF Asking, HeadAsked, Outer
<1>2. CASE UNCHANGED <<spans, pc>> \/ DecodeReturn
  <2>1. UNCHANGED spans /\ pc \in {"entry", "decoded"}
    BY <1>2 DEF DecodeReturn
  <2>2. KeysWhole' <=> KeysWhole
    BY <1>0, <2>1 DEF KeysWhole, WholeKey
  <2> QED BY <1>1, <2>1, <2>2 DEF Asked
<1>3. CASE DecodeHead
  <2>1. Here = Outer /\ spans' = <<>> /\ Passes(MinimalLength(Here))
    BY <1>1, <1>3 DEF DecodeHead, Decoded, Here, Outer, Asking
  <2>2. PICK v : v = Value(Outer.arg)
    OBVIOUS
  <2>3. Outer.info = 24 => v = 0 \/ ~(v <= 23)
    BY <1>1, <2>1, <2>2 DEF Passes, MinimalLength, Asking
  <2>4. HeadAsked
    <3>1. v = 0 \/ ~(v <= 23) => v \notin 1..23
      OBVIOUS
    <3> QED BY <2>2, <2>3, <3>1 DEF HeadAsked
  <2> QED BY <1>1, <2>1, <2>4 DEF KeysWhole
<1>4. CASE DecodeEntry
  <2>1. pc = "entry" /\ call.fn = "map"
    BY <1>4 DEF DecodeEntry
  <2>2. HeadAsked /\ KeysWhole
    BY <1>1, <2>1 DEF Asked
  <2> QED BY <1>1, <1>4, <2>2, EntryAsked
<1>5. CASE DecodeElement
  <2>1. pc = "entry" /\ call.fn = "array"
    BY <1>5 DEF DecodeElement
  <2> QED BY <1>1, <2>1 DEF Asked
<1>6. CASE DecodeRefused
  BY <1>6 DEF DecodeRefused
<1>7. ~(CheckSerialization \/ ItemSpanAtPath)
  BY <1>1 DEF Asking, CheckSerialization, WalkRefused, WalkLeaf, WalkBignum, WalkIndefinite, WalkParts, WalkReturn, WalkNext,
       KeyRefused, CheckReturn, Walking, ItemSpanAtPath, LocateEnter, LocateSkip, LocateArrive, LocateFound, LocateRefused,
       Locating
<1> QED BY <1>2, <1>3, <1>4, <1>5, <1>6, <1>7 DEF Next, Decode, vars

(* A decoder begins with nothing asked.                                    *)
LEMMA InitAsked == Init => Asked
  BY DEF Init, Begin, Asked, Asking

(* Keys of which all are whole: those that are listed first of each pair.  *)
LEMMA AskedIs ==
  ASSUME TypeOK, Asked
  PROVE  WhatIsAsked
<1> SUFFICES ASSUME Asking, pc = "decoded" PROVE WhatIsAsked
  BY DEF WhatIsAsked, Asking
<1>p. PICK m : m = Len(spans)
  OBVIOUS
<1>1. m \in Nat /\ DOMAIN spans = 1..m
  BY <1>p, LenProperties DEF TypeOK
<1>2. \A k \in 1..(m \div 2) : k \in Nat /\ 2 * k - 1 \in 1..m
  BY <1>1
<1>3. call.fn = "map" => \A k \in 1..(Len(spans) \div 2) : WholeKey(spans[2 * k - 1].from)
  BY <1>p, <1>1, <1>2 DEF Asked, KeysWhole
<1> QED BY <1>3 DEF Asked, HeadAsked, WhatIsAsked, WholeKey, Outer

(* A decoded map or array is what its head announces and holds the bytes   *)
(* of its parts; in a deterministic context its keys ascend and are whole, *)
(* and its length, if in one byte, needs it; and a map that the            *)
(* deterministic check accepts is decoded, if its keys have one length.    *)
THEOREM DecodersAreExact == Spec => []DecodersExact
<1>1. TypeOK /\ Decoded /\ Asked /\ Agreed => DecodersExact
  <2> SUFFICES ASSUME TypeOK, Decoded, Asked, Agreed PROVE FormsAgree
    BY DecodedExactly, AskedIs DEF DecodersExact
  <2>1. Agreeing => pc # "refused"
    BY DEF Agreed
  <2> QED BY <2>1 DEF FormsAgree, Agreeing, SameLengths, Outer
<1>2. Init => TypeOK /\ Decoded /\ Asked /\ Agreed
  BY InitType, InitDecoded, InitAsked, InitAgreed
<1>3. TypeOK /\ Decoded /\ Asked /\ Agreed /\ [Next]_vars => (TypeOK /\ Decoded /\ Asked /\ Agreed)'
  BY TypeStep, DecodedStep, AskedStep, AgreedStep
<1> QED BY <1>1, <1>2, <1>3, PTL DEF Spec

--------------------------------------------------------------------------------
(* The search for an item.  A step is taken in the item that the steps     *)
(* before led to: of its parts as many are passed as stand before the one  *)
(* that is meant.  At the top level a step may lead to the end.            *)
Whence == Before(Len(trail) + 1)
List == IF rest[1][1] = "top" THEN document.tops ELSE document.tree[Whence].parts
Start == IF rest[1][1] = "top" THEN 1 ELSE ReadHead(buffer, Whence).at
Stop ==
  IF rest[1][1] = "top" THEN Len(buffer) + 1
  ELSE IF open THEN document.tree[Whence].to - 1 ELSE document.tree[Whence].to
Passed == PartsBefore(rest[1]) - left
KindOf(step) == IF step[1] = "item" THEN 4 ELSE IF step[1] = "inner" THEN 6 ELSE 5
TrailGood ==
  /\ Len(trail) <= Len(call.path) /\ Len(rest) = Len(call.path) - Len(trail)
  /\ \A k \in DOMAIN rest : rest[k] = call.path[Len(trail) + k]
AllLed == \A k \in 1..Len(trail) : Led(k)
Over == Len(trail) = 1 /\ Part(0, call.path[1]) = {} /\ at = Len(buffer) + 1
StepGood ==
  /\ TrailGood
  /\ Len(trail) = 0 => at = 1
  /\ Len(trail) # 0 => at = trail[Len(trail)] /\ ((AllLed /\ Skips(at)) \/ Over)
SkipGood ==
  /\ TrailGood /\ AllLed
  /\ rest[1][1] # "top" =>
       /\ Skips(Whence) /\ ReadHead(buffer, Whence).major = KindOf(rest[1])
       /\ open <=> ~Definite(ReadHead(buffer, Whence))
       /\ ~open => PartsBefore(rest[1]) < Len(List)
  /\ rest[1][1] = "top" => ~open
  /\ Passed \in 0..Len(List)
  /\ at = IF Passed = 0 THEN Start ELSE document.tree[List[Passed]].to
SpanGood ==
  /\ Len(trail) = Len(call.path) /\ \A k \in DOMAIN call.path : Led(k)
  /\ LET p == trail[Len(trail)] IN spans = <<Span(p, document.tree[p].to)>>
NowhereGood == \E k \in DOMAIN call.path : (\A j \in 1..(k - 1) : Led(j)) /\ Part(Before(k), call.path[k]) = {}
Located ==
  call.fn = "locate" /\ Whole(buffer, document) =>
    /\ pc \in {"step", "skip", "span", "nowhere"}
    /\ pc = "step" => StepGood
    /\ pc = "skip" => SkipGood
    /\ pc = "span" => SpanGood
    /\ pc = "nowhere" => NowhereGood

(* The end of some of the items that follow one another is the start of    *)
(* the next one, or the end of all.                                        *)
LEMMA ChainedAt ==
  ASSUME NEW tree, NEW s, Len(s) \in Nat, DOMAIN s = 1..Len(s), NEW from, NEW to, Chained(tree, s, from, to),
         NEW k \in 0..Len(s), NEW e, e = IF k = 0 THEN from ELSE tree[s[k]].to
  PROVE  /\ k < Len(s) => s[k + 1] \in DOMAIN tree /\ e = s[k + 1] /\ k + 1 \in DOMAIN s
         /\ k = Len(s) => e = to
<1>1. ASSUME k < Len(s) PROVE s[k + 1] \in DOMAIN tree /\ e = s[k + 1] /\ k + 1 \in DOMAIN s
  <2>1. k + 1 \in DOMAIN s /\ (k + 1) - 1 = k
    BY <1>1
  <2> QED BY <2>1 DEF Chained
<1>2. k = Len(s) => e = to
  BY DEF Chained
<1> QED BY Zenon, <1>1, <1>2

(* What a step consists of.                                                *)
LEMMA StepIs ==
  ASSUME NEW step \in Steps
  PROVE  /\ step[1] \in {"top", "item", "key", "value", "inner"} /\ step[2] \in Nat
         /\ PartsBefore(step) \in Nat
         /\ step[1] \in {"top", "item"} => PartsBefore(step) = step[2]
         /\ step[1] = "key" => PartsBefore(step) = 2 * step[2]
         /\ step[1] = "value" => PartsBefore(step) = 2 * step[2] + 1
         /\ step[1] = "inner" => PartsBefore(step) = 0
  BY DEF Steps, PartsBefore

(* The part that a step means is the one after those that stand before it. *)
LEMMA PartIs ==
  ASSUME NEW p, NEW step \in Steps, step[1] # "top" => ReadHead(buffer, p).major = KindOf(step),
         NEW s, s = IF step[1] = "top" THEN document.tops ELSE document.tree[p].parts
  PROVE  Part(p, step) = {s[k] : k \in DOMAIN s \cap {PartsBefore(step) + 1}}
<1>0. step[1] \in {"top", "item", "key", "value", "inner"} /\ step[2] \in Nat
  BY StepIs
<1>1. CASE step[1] = "top"
  BY <1>1 DEF Part, PartsBefore
<1>2. CASE step[1] = "item"
  BY <1>2 DEF Part, PartsBefore, KindOf
<1>3. CASE step[1] = "key"
  BY <1>3 DEF Part, PartsBefore, KindOf
<1>4. CASE step[1] = "value"
  <2>1. PartsBefore(step) + 1 = 2 * step[2] + 2
    BY <1>0, <1>4 DEF PartsBefore
  <2> QED BY <1>4, <2>1 DEF Part, KindOf
<1>5. CASE step[1] = "inner"
  <2>1. PartsBefore(step) + 1 = 1
    BY <1>5 DEF PartsBefore
  <2> QED BY <1>5, <2>1 DEF Part, KindOf
<1> QED BY <1>0, <1>1, <1>2, <1>3, <1>4, <1>5

(* What is marked by a break is not an item.                               *)
LEMMA BreakIs ==
  ASSUME TypeOK, NEW p, Skips(p)
  PROVE  buffer[p] # Break
<1>1. Structured(buffer, document.tree, p) /\ p \in Nat \ {0} /\ p \in DOMAIN buffer /\ buffer \in Seq(Byte)
  BY SkipType DEF TypeOK, InputOK
<1> SUFFICES ASSUME buffer[p] = Break PROVE FALSE
  OBVIOUS
<1> DEFINE h == ReadHead(buffer, p)
<1>2. h.ok /\ (h.major = 7 => h.info # 31)
  BY <1>1 DEF Structured, Definite
<1>3. h.major \in 0..7 /\ h.info \in 0..31 /\ buffer[p] = (32 * h.major) + h.info
  BY <1>1, <1>2, HeadType
<1> HIDE DEF h
<1>4. 255 = (32 * h.major) + h.info
  BY <1>3 DEF Break
<1> QED BY <1>2, <1>3, <1>4

(* The steps that are left follow those that were taken.                   *)
LEMMA RestIs ==
  ASSUME TypeOK, call.fn = "locate", TrailGood
  PROVE  /\ Len(trail) \in Nat /\ DOMAIN trail = 1..Len(trail) /\ Len(call.path) \in Nat \ {0}
         /\ DOMAIN call.path = 1..Len(call.path) /\ \A k \in DOMAIN call.path : call.path[k] \in Steps
         /\ rest = <<>> => Len(trail) = Len(call.path)
         /\ rest # <<>> =>
              /\ Len(trail) + 1 \in DOMAIN call.path /\ rest[1] = call.path[Len(trail) + 1] /\ rest[1] \in Steps
              /\ rest[1][1] = "top" <=> Len(trail) = 0
         /\ Whence = IF Len(trail) = 0 THEN 0 ELSE trail[Len(trail)]
<1>1. call.path \in Seq(Steps) /\ call.path # <<>> /\ \A k \in DOMAIN call.path : call.path[k][1] = "top" <=> k = 1
  BY DEF TypeOK, InputOK, Paths
<1>2. rest \in Seq(Steps) /\ trail \in Seq(Position)
  BY DEF TypeOK
<1>p. PICK m, l, r : m = Len(trail) /\ l = Len(call.path) /\ r = Len(rest)
  OBVIOUS
<1>3. m \in Nat /\ DOMAIN trail = 1..m /\ r \in Nat /\ DOMAIN rest = 1..r /\ l \in Nat \ {0} /\ DOMAIN call.path = 1..l
      /\ \A k \in DOMAIN call.path : call.path[k] \in Steps
  BY <1>p, <1>1, <1>2, LenProperties, EmptySeq, ElementOfSeq
<1>4. m <= l /\ r = l - m /\ \A k \in 1..r : rest[k] = call.path[m + k]
  BY <1>p, <1>3 DEF TrailGood
<1>5. ASSUME rest = <<>> PROVE m = l
  <2>1. r = 0
    BY <1>p, <1>5
  <2> QED BY <1>3, <1>4, <2>1
<1>6. ASSUME rest # <<>>
      PROVE  /\ m + 1 \in DOMAIN call.path /\ rest[1] = call.path[m + 1] /\ rest[1] \in Steps
             /\ rest[1][1] = "top" <=> m = 0
  <2>1. r # 0
    BY <1>p, <1>2, <1>6, EmptySeq
  <2>2. 1 \in 1..r /\ m + 1 \in 1..l
    BY <1>3, <1>4, <2>1
  <2>3. rest[1] = call.path[m + 1] /\ m + 1 \in DOMAIN call.path
    BY <1>3, <1>4, <2>2
  <2>4. m + 1 = 1 <=> m = 0
    BY <1>3
  <2>5. rest[1] \in Steps
    BY <1>3, <2>3
  <2> QED BY <1>1, <2>3, <2>4, <2>5
<1>7. Whence = IF m = 0 THEN 0 ELSE trail[m]
  <2>1. (m + 1 = 1 <=> m = 0) /\ (m + 1) - 1 = m
    BY <1>3
  <2> QED BY <1>p, <2>1 DEF Whence, Before
<1> QED BY <1>p, <1>3, <1>5, <1>6, <1>7

(* The parts among which a step looks.                                     *)
LEMMA ListIs ==
  ASSUME TypeOK, call.fn = "locate", Whole(buffer, document), pc = "skip", SkipGood
  PROVE  /\ Len(List) \in Nat /\ DOMAIN List = 1..Len(List)
         /\ Chained(document.tree, List, Start, Stop)
         /\ open => Stop \in Nat /\ buffer[Stop] = Break /\ rest[1][1] \in {"item", "key", "value"}
                    /\ (rest[1][1] \in {"key", "value"} => Len(List) % 2 = 0)
<1>0. rest[1] \in Steps /\ TrailGood
  BY RestIs DEF SkipGood, TypeOK
<1>1. CASE rest[1][1] = "top"
  <2>1. ~open /\ List = document.tops /\ Start = 1 /\ Stop = Len(buffer) + 1
    BY <1>1 DEF SkipGood, List, Start, Stop
  <2>2. document.tops \in Seq(Position) /\ Chained(document.tree, document.tops, 1, Len(buffer) + 1)
    BY DEF TypeOK, InputOK, Whole
  <2> QED BY <2>1, <2>2, LenProperties
<1>2. CASE rest[1][1] # "top"
  <2> DEFINE p == Whence  h == ReadHead(buffer, p)  item == document.tree[p]
  <2>1. Skips(p) /\ h.major = KindOf(rest[1]) /\ (open <=> ~Definite(h))
    BY <1>2 DEF SkipGood
  <2>2. /\ List = item.parts /\ Start = h.at /\ Stop = IF open THEN item.to - 1 ELSE item.to
    BY <1>2 DEF List, Start, Stop
  <2>3. Structured(buffer, document.tree, p) /\ item \in ItemType
    BY <2>1, SkipType DEF TypeOK
  <2>4. item.parts \in Seq(Position) /\ item.to \in Position
    BY <2>3 DEF ItemType
  <2>5. rest[1][1] \in {"item", "key", "value", "inner"}
    BY <1>0, <1>2, StepIs
  <2>6. /\ h.major \in {4, 5, 6} /\ (h.major = 6 <=> rest[1][1] = "inner")
        /\ (h.major = 5 <=> rest[1][1] \in {"key", "value"})
    BY <2>1, <2>5 DEF KindOf
  <2>7. h = ReadHead(buffer, p) /\ item = document.tree[p]
    OBVIOUS
  <2> HIDE DEF h, item, p
  <2>8. /\ h.major \in {0, 1, 6, 7} => Definite(h)
        /\ h.major = 5 => Len(item.parts) % 2 = 0
        /\ ~Definite(h) => item.to - 1 \in DOMAIN buffer /\ buffer[item.to - 1] = Break
        /\ Chained(document.tree, item.parts, h.at, IF Definite(h) THEN item.to ELSE item.to - 1)
    BY <2>3, <2>6, <2>7 DEF Structured
  <2>9. Chained(document.tree, List, Start, Stop)
    BY <2>1, <2>2, <2>8
  <2>10. item.to - 1 \in Nat
    BY <2>4 DEF Position
  <2> QED BY <2>1, <2>2, <2>4, <2>5, <2>6, <2>8, <2>9, <2>10, LenProperties
<1> QED BY <1>1, <1>2

(* The position is that of the next part; after the last one there is the  *)
(* end of the buffer, or a break, and no other end is reached.             *)
LEMMA AtList ==
  ASSUME TypeOK, call.fn = "locate", Whole(buffer, document), pc = "skip", SkipGood
  PROVE  /\ Len(List) \in Nat /\ Passed \in Nat /\ Passed <= Len(List)
         /\ PartsBefore(rest[1]) = Passed + left
         /\ Passed < Len(List) => Skips(at) /\ at = List[Passed + 1] /\ Passed + 1 \in DOMAIN List
         /\ Passed = Len(List) =>
              /\ ~Skips(at)
              /\ left = 0 => (rest[1][1] = "top" /\ at = Len(buffer) + 1) \/ AtBreak
<1>p. PICK l, k, b, t : l = Len(List) /\ k = Passed /\ b = PartsBefore(rest[1]) /\ t = rest[1][1]
  OBVIOUS
<1>0. /\ rest # <<>> /\ rest[1] \in Steps /\ b \in Nat /\ left \in Nat /\ k = b - left /\ k \in 0..l
      /\ l \in Nat /\ DOMAIN List = 1..l /\ t \in {"top", "item", "key", "value", "inner"}
  <2>1. rest # <<>> /\ left \in Nat /\ TrailGood
    BY DEF TypeOK, SkipGood
  <2>2. rest[1] \in Steps
    BY <2>1, RestIs
  <2> QED BY <1>p, <2>1, <2>2, StepIs, ListIs DEF SkipGood, Passed
<1>1. k \in Nat /\ k <= l /\ b = k + left
  BY <1>0
<1>2. /\ k < l => List[k + 1] \in DOMAIN document.tree /\ at = List[k + 1] /\ k + 1 \in DOMAIN List
      /\ k = l => at = Stop
  <2>1. at = IF k = 0 THEN Start ELSE document.tree[List[k]].to
    BY <1>p DEF SkipGood
  <2>2. Chained(document.tree, List, Start, Stop) /\ Len(List) \in Nat /\ DOMAIN List = 1..Len(List) /\ k \in 0..Len(List)
    BY <1>p, <1>0, ListIs
  <2> HIDE DEF List, Start, Stop
  <2> QED BY <1>p, <2>1, <2>2, ChainedAt
<1>3. ASSUME k = l PROVE /\ ~Skips(at)
                         /\ left = 0 => (t = "top" /\ at = Len(buffer) + 1) \/ AtBreak
  <2>1. CASE t = "top"
    <3>1. at = Len(buffer) + 1 /\ Len(buffer) \in Nat /\ DOMAIN buffer = 1..Len(buffer)
      BY <1>p, <1>2, <1>3, <2>1, LenProperties DEF Stop, TypeOK, InputOK
    <3>2. ~Skips(at)
      <4>1. at \notin DOMAIN buffer
        BY <3>1
      <4> QED BY <4>1, SkipType DEF TypeOK
    <3> QED BY <2>1, <3>1, <3>2
  <2>2. CASE t # "top"
    <3>1. open
      <4> SUFFICES ASSUME ~open PROVE FALSE
        BY DEF TypeOK
      <4>1. b < l
        BY <1>p, <2>2 DEF SkipGood
      <4> QED BY <1>0, <1>1, <1>3, <4>1
    <3>2. buffer[at] = Break /\ t \in {"item", "key", "value"} /\ (t \in {"key", "value"} => l % 2 = 0)
      BY <1>p, <1>2, <1>3, <3>1, ListIs
    <3>3. ~Skips(at)
      BY <3>2, BreakIs
    <3>4. ASSUME left = 0 PROVE AtBreak
      <4>1. t # "value"
        <5> SUFFICES ASSUME t = "value" PROVE FALSE
          OBVIOUS
        <5>1. PICK j \in Nat : b = 2 * j + 1
          BY <1>p, <1>0, StepIs
        <5>2. b = k
          BY <1>1, <3>4
        <5>3. l = 2 * j + 1
          BY <1>3, <5>1, <5>2
        <5>4. l % 2 = 1
          BY <5>3
        <5> QED BY <3>2, <5>4
      <4>2. AtEntry
        BY <1>p, <3>2, <3>4, <4>1 DEF AtEntry
      <4> QED BY <3>1, <3>2, <4>2 DEF AtBreak
    <3> QED BY <3>3, <3>4
  <2> QED BY <2>1, <2>2
<1> QED BY <1>p, <1>0, <1>1, <1>2, <1>3 DEF Skips

(* What the steps before led to does not change with the position.         *)
LEMMA WaySame ==
  ASSUME UNCHANGED <<buffer, document, call, rest, trail>>
  PROVE  /\ Whence' = Whence /\ List' = List /\ Start' = Start
         /\ \A k : Led(k)' <=> Led(k)
         /\ \A k : Before(k)' = Before(k)
         /\ \A p, step : Part(p, step)' = Part(p, step)
         /\ \A p : Skips(p)' <=> Skips(p)
         /\ AllLed' <=> AllLed
         /\ TrailGood' <=> TrailGood
<1>1. \A k : Before(k)' = Before(k)
  BY DEF Before
<1>2. \A p, step : Part(p, step)' = Part(p, step)
  BY DEF Part
<1>3. \A k : Led(k)' <=> Led(k)
  BY <1>1, <1>2 DEF Led
<1>4. Whence' = Whence
  BY DEF Whence, Before
<1>5. List' = List /\ Start' = Start
  BY <1>4 DEF List, Start
<1>6. AllLed' <=> AllLed
  BY <1>3 DEF AllLed
<1>7. \A p : Skips(p)' <=> Skips(p)
  BY DEF Skips
<1> QED BY <1>1, <1>2, <1>3, <1>4, <1>5, <1>6, <1>7 DEF TrailGood

(* Past the end of the buffer there is no head.                            *)
LEMMA OverIs ==
  ASSUME TypeOK, Over
  PROVE  ~Here.ok /\ ~Skips(at)
<1>1. at = Len(buffer) + 1 /\ Len(buffer) \in Nat /\ DOMAIN buffer = 1..Len(buffer)
  BY LenProperties DEF Over, TypeOK, InputOK
<1>2. at > Len(buffer) /\ at \notin DOMAIN buffer
  BY <1>1
<1>3. ~Here.ok
  BY <1>2 DEF Here, ReadHead
<1> QED BY <1>2, <1>3, SkipType DEF TypeOK

(* A step begins at the first part of the item that the steps before led   *)
(* to.                                                                     *)
LEMMA EnterLocated ==
  ASSUME TypeOK, call.fn = "locate", Whole(buffer, document), pc = "step", StepGood, LocateEnter
  PROVE  SkipGood'
<1>0. UNCHANGED <<buffer, document, call, rest, trail>> /\ rest # <<>> /\ Enters(rest[1], Here) /\ TrailGood
  BY DEF LocateEnter, Locating, input, StepGood
<1>1. PICK m, s, b : m = Len(trail) /\ s = rest[1] /\ b = PartsBefore(s)
  OBVIOUS
<1>2. /\ m \in Nat /\ s \in Steps /\ (s[1] = "top" <=> m = 0)
      /\ Whence = IF m = 0 THEN 0 ELSE trail[m]
  BY <1>0, <1>1, RestIs
<1>3. b \in Nat /\ s[1] \in {"top", "item", "key", "value", "inner"} /\ s[2] \in Nat
  BY <1>1, <1>2, StepIs
<1>4. /\ left' = b /\ at' = (IF s[1] = "top" THEN at ELSE Here.at)
      /\ open' = (s[1] \in {"item", "key", "value"} /\ ~Definite(Here)) /\ rest'[1] = s
  BY <1>0, <1>1 DEF LocateEnter
<1>5. Passed' = 0
  <2>1. Passed' = b - b
    BY <1>1, <1>4 DEF Passed
  <2> QED BY <1>3, <2>1
<1>6. Whence' = Whence /\ List' = List /\ Start' = Start /\ (AllLed' <=> AllLed) /\ (TrailGood' <=> TrailGood)
      /\ \A p : Skips(p)' <=> Skips(p)
  BY <1>0, WaySame
<1>7. CASE m = 0
  <2>1. s[1] = "top" /\ at = 1 /\ at' = 1 /\ ~open'
    BY <1>1, <1>2, <1>4, <1>7 DEF StepGood
  <2>2. AllLed
    BY <1>1, <1>7 DEF AllLed
  <2>3. List = document.tops /\ Start = 1 /\ Len(document.tops) \in Nat
    BY <1>1, <2>1, LenProperties DEF List, Start, TypeOK, InputOK
  <2>4. 0 \in 0..Len(List')
    BY <1>6, <2>3
  <2> QED BY <1>0, <1>4, <1>5, <1>6, <2>1, <2>2, <2>3, <2>4 DEF SkipGood
<1>8. CASE m # 0
  <2>1. s[1] # "top" /\ at = trail[m] /\ Whence = at
    BY <1>1, <1>2, <1>8 DEF StepGood
  <2>2. /\ Here.ok /\ Here.major = KindOf(s) /\ (s[1] = "inner" => Definite(Here))
        /\ s[1] # "inner" /\ Definite(Here) => s[2] < Value(Here.arg)
    BY <1>0, <1>1, <1>3, <2>1 DEF Enters, KindOf
  <2>3. AllLed /\ Skips(at)
    BY <1>1, <1>8, <2>2, OverIs DEF StepGood
  <2>4. Structured(buffer, document.tree, at) /\ document.tree[at] \in ItemType
    BY <2>3, SkipType DEF TypeOK
  <2>5. List = document.tree[at].parts /\ Start = Here.at /\ document.tree[at].parts \in Seq(Position)
    BY <1>1, <2>1, <2>4 DEF List, Start, Here, ItemType
  <2>6. PICK n, v : n = Len(document.tree[at].parts) /\ v = Value(Here.arg)
    OBVIOUS
  <2>7. /\ Here.major = 6 => n = 1
        /\ Here.major = 4 /\ Definite(Here) => n = v
        /\ Here.major = 5 /\ Definite(Here) => n = 2 * v
    BY <2>4, <2>6 DEF Structured, Here
  <2>8. n \in Nat /\ v \in Nat
    BY <2>5, <2>6, HereType, LenProperties
  <2>9. ASSUME ~open' PROVE b < n
    <3>1. Definite(Here)
      BY <1>3, <1>4, <2>1, <2>2, <2>9
    <3>2. CASE s[1] = "item"
      BY <1>1, <1>2, <1>3, <2>2, <2>6, <2>7, <2>8, <3>1, <3>2, StepIs DEF KindOf
    <3>3. CASE s[1] \in {"key", "value"}
      <4>1. n = 2 * v /\ s[2] < v /\ (b = 2 * s[2] \/ b = 2 * s[2] + 1)
        BY <1>1, <1>2, <2>2, <2>6, <2>7, <3>1, <3>3, StepIs DEF KindOf
      <4> QED BY <1>3, <2>8, <4>1
    <3>4. CASE s[1] = "inner"
      BY <1>1, <1>2, <2>2, <2>7, <3>4, StepIs DEF KindOf
    <3> QED BY <1>3, <2>1, <3>2, <3>3, <3>4
  <2>10. open' <=> ~Definite(Here)
    BY <1>3, <1>4, <2>1, <2>2
  <2>11. ReadHead(buffer, Whence)' = Here
    BY <1>0, <1>6, <2>1 DEF Here
  <2>12. Skips(Whence)' /\ ReadHead(buffer, Whence)'.major = KindOf(rest'[1])
         /\ (open' <=> ~Definite(ReadHead(buffer, Whence)'))
    <3>1. Skips(Whence)' <=> Skips(at)
      BY <1>0, <1>6, <2>1 DEF Skips
    <3> QED BY <1>4, <2>2, <2>3, <2>10, <2>11, <3>1
  <2>13. ~open' => PartsBefore(rest'[1]) < Len(List')
    BY <1>1, <1>4, <1>6, <2>5, <2>6, <2>9
  <2>14. 0 \in 0..Len(List') /\ at' = Start'
    BY <1>4, <1>6, <2>1, <2>5, <2>6, <2>8
  <2>15. TrailGood' /\ AllLed' /\ rest'[1][1] # "top"
    BY <1>0, <1>4, <1>6, <2>1, <2>3
  <2> QED BY <1>5, <2>12, <2>13, <2>14, <2>15 DEF SkipGood
<1> QED BY <1>7, <1>8

(* A part is passed.                                                       *)
LEMMA SkipLocated ==
  ASSUME TypeOK, call.fn = "locate", Whole(buffer, document), pc = "skip", SkipGood, LocateSkip
  PROVE  SkipGood'
<1>0. /\ UNCHANGED <<buffer, document, call, rest, trail, open>>
      /\ left > 0 /\ left' = left - 1 /\ Skips(at) /\ at' = document.tree[at].to
  BY DEF LocateSkip, Locating, input, way, SkipEnd
<1>1. PICK k, b, l : k = Passed /\ b = PartsBefore(rest[1]) /\ l = Len(List)
  OBVIOUS
<1>2. /\ l \in Nat /\ k \in Nat /\ k <= l /\ b = k + left
      /\ k < l => at = List[k + 1]
      /\ k # l
  BY <1>0, <1>1, AtList
<1>3. left \in Nat
  BY DEF TypeOK
<1>4. Passed' = k + 1
  <2>1. Passed' = b - (left - 1)
    BY <1>0, <1>1 DEF Passed
  <2> QED BY <1>2, <1>3, <2>1
<1>5. Whence' = Whence /\ List' = List /\ Start' = Start /\ (AllLed' <=> AllLed) /\ (TrailGood' <=> TrailGood)
      /\ \A p : Skips(p)' <=> Skips(p)
  BY <1>0, WaySame
<1>6. k < l /\ k + 1 \in 0..l /\ k + 1 # 0
  BY <1>2
<1>7. at' = document.tree[List[k + 1]].to
  BY <1>0, <1>2, <1>6
<1>8. Passed' \in 0..Len(List') /\ at' = IF Passed' = 0 THEN Start' ELSE document'.tree[List'[Passed']].to
  BY <1>0, <1>1, <1>4, <1>5, <1>6, <1>7
<1>9. TrailGood' /\ AllLed'
  BY <1>5 DEF SkipGood
<1>10. rest[1][1] # "top" =>
       /\ Skips(Whence)' /\ ReadHead(buffer, Whence)'.major = KindOf(rest[1])
       /\ open <=> ~Definite(ReadHead(buffer, Whence)')
       /\ ~open => PartsBefore(rest[1]) < Len(List)
  <2>1. Skips(Whence)' <=> Skips(Whence)
    BY <1>0, <1>5 DEF Skips
  <2>2. ReadHead(buffer, Whence)' = ReadHead(buffer, Whence)
    BY <1>0, <1>5
  <2> QED BY <2>1, <2>2 DEF SkipGood
<1>11. rest[1][1] = "top" => ~open
  BY DEF SkipGood
<1> QED BY <1>0, <1>5, <1>8, <1>9, <1>10, <1>11 DEF SkipGood

(* A further step does not change what the steps before led to.            *)
LEMMA LedOn ==
  ASSUME TypeOK, UNCHANGED <<buffer, document, call>>, trail' = Append(trail, at), NEW m, m = Len(trail)
  PROVE  /\ Len(trail') = m + 1 /\ trail'[m + 1] = at
         /\ \A k \in 1..m : Led(k) => Led(k)'
         /\ Before(m + 1)' = Before(m + 1)
<1>1. trail \in Seq(Position) /\ at \in Position
  BY LenProperties DEF TypeOK, Position, InputOK
<1>3. /\ m \in Nat /\ DOMAIN trail = 1..m /\ Len(trail') = m + 1 /\ trail'[m + 1] = at
      /\ \A k \in 1..m : trail'[k] = trail[k]
      /\ DOMAIN trail' = 1..(m + 1)
  BY <1>1, AppendProperties, LenProperties
<1>4. ASSUME NEW k \in 1..(m + 1) PROVE Before(k)' = Before(k)
  <2>1. CASE k = 1
    BY <2>1 DEF Before
  <2>2. CASE k # 1
    <3>1. k - 1 \in 1..m
      BY <1>3, <2>2
    <3> QED BY <1>3, <2>2, <3>1 DEF Before
  <2> QED BY <2>1, <2>2
<1>5. ASSUME NEW k \in 1..m, Led(k) PROVE Led(k)'
  <2>1. k \in 1..(m + 1) /\ k \in DOMAIN trail' /\ trail'[k] = trail[k]
    BY <1>3
  <2>2. Before(k)' = Before(k)
    BY <1>4, <2>1
  <2>3. Part(Before(k), call.path[k])' = Part(Before(k), call.path[k])
    BY <2>2 DEF Part
  <2> QED BY <1>5, <2>1, <2>3 DEF Led
<1>6. m + 1 \in 1..(m + 1)
  BY <1>3
<1> QED BY <1>3, <1>4, <1>5, <1>6

(* A step that is taken moves from those that are left to those that were  *)
(* taken.                                                                  *)
LEMMA TrailOn ==
  ASSUME TypeOK, call.fn = "locate", TrailGood, rest # <<>>, UNCHANGED call, rest' = Tail(rest), trail' = Append(trail, at)
  PROVE  TrailGood'
<1>1. rest \in Seq(Steps) /\ trail \in Seq(Position) /\ at \in Position
  BY LenProperties DEF TypeOK, Position, InputOK
<1>2. PICK m, l, r : m = Len(trail) /\ l = Len(call.path) /\ r = Len(rest)
  OBVIOUS
<1>3. /\ m \in Nat /\ l \in Nat /\ DOMAIN call.path = 1..l /\ m + 1 \in 1..l
      /\ r = l - m /\ r \in Nat /\ DOMAIN rest = 1..r /\ \A k \in 1..r : rest[k] = call.path[m + k]
  <2>1. /\ m \in Nat /\ l \in Nat /\ DOMAIN call.path = 1..l /\ m + 1 \in DOMAIN call.path
    BY <1>2, RestIs
  <2>2. r \in Nat /\ DOMAIN rest = 1..r
    BY <1>1, <1>2, LenProperties
  <2> QED BY <1>2, <2>1, <2>2 DEF TrailGood
<1>4. Len(trail') = m + 1
  BY <1>1, <1>2, AppendProperties
<1>5. r # 0
  BY <1>1, <1>2, EmptySeq
<1>6. /\ Len(rest') = r - 1 /\ rest' \in Seq(Steps)
      /\ \A k \in 1..(r - 1) : rest'[k] = rest[k + 1]
  BY <1>1, <1>2, HeadTailProperties
<1>7. DOMAIN rest' = 1..(r - 1)
  BY <1>6, LenProperties
<1>8. ASSUME NEW k \in 1..(r - 1) PROVE rest'[k] = call.path[(m + 1) + k]
  <2>1. k + 1 \in 1..r /\ m + (k + 1) = (m + 1) + k
    BY <1>3
  <2> QED BY <1>3, <1>6, <2>1
<1>9. m + 1 <= l /\ r - 1 = l - (m + 1)
  BY <1>3
<1> QED BY <1>2, <1>4, <1>6, <1>7, <1>8, <1>9 DEF TrailGood

(* All parts before the one that is meant are passed: the position is that *)
(* part, or the end of the buffer.                                         *)
LEMMA ArriveLocated ==
  ASSUME TypeOK, call.fn = "locate", Whole(buffer, document), pc = "skip", SkipGood, LocateArrive
  PROVE  StepGood'
<1>0. /\ UNCHANGED <<buffer, document, call, at>> /\ left = 0 /\ ~AtBreak
      /\ rest' = Tail(rest) /\ trail' = Append(trail, at) /\ rest # <<>>
  BY DEF LocateArrive, Locating, input, TypeOK
<1>1. PICK m, s, k, l : m = Len(trail) /\ s = rest[1] /\ k = Passed /\ l = Len(List)
  OBVIOUS
<1>2. TrailGood /\ AllLed /\ (s[1] # "top" => ReadHead(buffer, Whence).major = KindOf(s))
  BY <1>1 DEF SkipGood
<1>3. /\ m \in Nat /\ s \in Steps /\ s = call.path[m + 1] /\ (s[1] = "top" <=> m = 0)
  BY <1>0, <1>1, <1>2, RestIs
<1>4. /\ k \in Nat /\ k <= l /\ l \in Nat /\ PartsBefore(s) = k /\ DOMAIN List = 1..l
      /\ k < l => Skips(at) /\ at = List[k + 1] /\ k + 1 \in DOMAIN List
      /\ k = l => s[1] = "top" /\ at = Len(buffer) + 1 /\ ~Skips(at)
  <2>1. /\ k \in Nat /\ k <= l /\ l \in Nat /\ PartsBefore(s) = k + 0
        /\ k < l => Skips(at) /\ at = List[k + 1] /\ k + 1 \in DOMAIN List
        /\ k = l => s[1] = "top" /\ at = Len(buffer) + 1 /\ ~Skips(at)
    BY <1>0, <1>1, AtList
  <2>2. DOMAIN List = 1..l
    BY <1>1, ListIs
  <2> QED BY <2>1, <2>2
<1>5. Part(Whence, s) = {List[j] : j \in DOMAIN List \cap {k + 1}}
  <2>1. List = IF s[1] = "top" THEN document.tops ELSE document.tree[Whence].parts
    BY <1>1 DEF List
  <2> HIDE DEF List
  <2> QED BY <1>2, <1>3, <1>4, <2>1, PartIs
<1>6. /\ Len(trail') = m + 1 /\ trail'[m + 1] = at
      /\ \A j \in 1..m : Led(j) => Led(j)'
      /\ Before(m + 1)' = Before(m + 1)
  BY <1>0, <1>1, LedOn
<1>7. TrailGood'
  BY <1>0, <1>2, TrailOn
<1>8. Part(Before(m + 1), call.path[m + 1])' = Part(Whence, s)
  <2>1. Before(m + 1) = Whence
    BY <1>1 DEF Whence
  <2> QED BY <1>0, <1>3, <1>6, <2>1 DEF Part
<1>9. CASE k < l
  <2>1. at \in Part(Whence, s)
    BY <1>4, <1>5, <1>9
  <2>2. m + 1 \in DOMAIN trail'
    <3>1. trail' \in Seq(Position)
      BY <1>0, AppendProperties, LenProperties DEF TypeOK, Position, InputOK
    <3> QED BY <1>3, <1>6, <3>1, LenProperties
  <2>3. Led(m + 1)'
    BY <1>6, <1>8, <2>1, <2>2 DEF Led
  <2>4. \A j \in 1..m : Led(j)'
    BY <1>1, <1>2, <1>6 DEF AllLed
  <2>5. AllLed'
    <3>1. \A j \in 1..(m + 1) : j \in 1..m \/ j = m + 1
      BY <1>3
    <3> QED BY <1>6, <2>3, <2>4, <3>1 DEF AllLed
  <2>6. Skips(at)'
    BY <1>0, <1>4, <1>9 DEF Skips
  <2>7. m + 1 # 0
    BY <1>3
  <2> QED BY <1>0, <1>6, <1>7, <2>5, <2>6, <2>7 DEF StepGood
<1>10. CASE k = l
  <2>1. m = 0 /\ at = Len(buffer) + 1
    BY <1>3, <1>4, <1>10
  <2>2. Part(Whence, s) = {}
    <3>1. k + 1 \notin 1..l
      BY <1>4, <1>10
    <3> QED BY <1>4, <1>5, <3>1
  <2>3. Part(0, call.path[1])' = {}
    <3>1. Whence = 0 /\ m + 1 = 1
      BY <1>1, <2>1 DEF Whence, Before
    <3> QED BY Zenon, <1>0, <1>3, <2>2, <3>1 DEF Part
  <2>4. Over' /\ Len(trail') = 1
    BY <1>0, <1>6, <2>1, <2>3 DEF Over
  <2> QED BY <1>0, <1>6, <1>7, <2>1, <2>4 DEF StepGood
<1> QED BY <1>4, <1>9, <1>10

(* After the last step the position is the item that the path means.       *)
LEMMA FoundLocated ==
  ASSUME TypeOK, call.fn = "locate", pc = "step", StepGood, LocateFound
  PROVE  SpanGood'
<1>0. /\ UNCHANGED <<buffer, document, call, rest, trail>> /\ rest = <<>> /\ Skips(at)
      /\ spans' = <<Span(at, document.tree[at].to)>> /\ TrailGood
  BY DEF LocateFound, Locating, input, way, SkipEnd, Span, StepGood
<1>1. PICK m : m = Len(trail)
  OBVIOUS
<1>2. m = Len(call.path) /\ m \in Nat \ {0} /\ DOMAIN call.path = 1..m
  BY <1>0, <1>1, RestIs
<1>3. ~Over
  BY <1>0, OverIs
<1>4. AllLed /\ at = trail[m]
  BY <1>1, <1>2, <1>3 DEF StepGood
<1>5. \A k \in DOMAIN call.path : Led(k)
  BY <1>1, <1>2, <1>4 DEF AllLed
<1>6. \A k \in DOMAIN call.path : Led(k)'
  BY <1>0, <1>5, WaySame
<1> QED BY <1>0, <1>1, <1>2, <1>4, <1>6 DEF SpanGood

(* A step that means no part leads nowhere.                                *)
LEMMA NowhereHere ==
  ASSUME TypeOK, call.fn = "locate", TrailGood, rest # <<>>, AllLed, Part(Whence, rest[1]) = {}
  PROVE  NowhereGood
<1>1. PICK m : m = Len(trail)
  OBVIOUS
<1>2. m \in Nat /\ m + 1 \in DOMAIN call.path /\ rest[1] = call.path[m + 1] /\ Whence = Before(m + 1)
  BY <1>1, RestIs DEF Whence
<1>3. \A j \in 1..((m + 1) - 1) : Led(j)
  <2>1. (m + 1) - 1 = m
    BY <1>2
  <2> QED BY <1>1, <2>1 DEF AllLed
<1> QED BY <1>2, <1>3 DEF NowhereGood

(* A first step past the last item leads nowhere.                          *)
LEMMA NowhereOver ==
  ASSUME TypeOK, call.fn = "locate", TrailGood, Over
  PROVE  NowhereGood
<1>1. 1 \in DOMAIN call.path
  BY RestIs
<1>2. Before(1) = 0 /\ \A j \in 1..(1 - 1) : Led(j)
  BY DEF Before
<1> QED BY <1>1, <1>2 DEF Over, NowhereGood

(* What no item is entered by has no such part.                            *)
LEMMA NotEntered ==
  ASSUME TypeOK, call.fn = "locate", Whole(buffer, document), NEW s \in Steps, s[1] # "top",
         Skips(at), Whence = at, ~Enters(s, Here)
  PROVE  Part(Whence, s) = {}
<1>1. s[1] \in {"item", "key", "value", "inner"} /\ s[2] \in Nat /\ PartsBefore(s) \in Nat
  BY StepIs
<1>2. CASE Here.major # KindOf(s)
  BY <1>1, <1>2 DEF Part, KindOf, Here
<1>3. CASE Here.major = KindOf(s)
  <2>1. Structured(buffer, document.tree, at) /\ document.tree[at] \in ItemType
    BY SkipType DEF TypeOK
  <2>2. Here.ok /\ (Here.major = 6 => Definite(Here))
    BY <2>1 DEF Structured, Here
  <2>3. /\ s[1] # "inner" /\ Definite(Here) /\ ~(s[2] < Value(Here.arg))
    BY <1>1, <1>3, <2>2 DEF Enters, KindOf
  <2>4. PICK n, v, b : n = Len(document.tree[at].parts) /\ v = Value(Here.arg) /\ b = PartsBefore(s)
    OBVIOUS
  <2>5. document.tree[at].parts \in Seq(Position)
    BY <2>1 DEF ItemType
  <2>6. v \in Nat /\ n \in Nat /\ DOMAIN document.tree[at].parts = 1..n
    BY <2>4, <2>5, HereType, LenProperties
  <2>7. /\ Here.major = 4 => n = v
        /\ Here.major = 5 => n = 2 * v
    BY <2>1, <2>3, <2>4 DEF Structured, Here
  <2>8. b >= n
    <3>1. CASE s[1] = "item"
      <4>1. b = s[2] /\ n = v
        BY <1>3, <2>4, <2>7, <3>1, StepIs DEF KindOf
      <4> QED BY <1>1, <2>3, <2>4, <2>6, <4>1
    <3>2. CASE s[1] \in {"key", "value"}
      <4>1. (b = 2 * s[2] \/ b = 2 * s[2] + 1) /\ n = 2 * v
        BY <1>3, <2>4, <2>7, <3>2, StepIs DEF KindOf
      <4> QED BY <1>1, <2>3, <2>4, <2>6, <4>1
    <3> QED BY <1>1, <2>3, <3>1, <3>2
  <2>9. b + 1 \notin 1..n
    BY <1>1, <2>4, <2>6, <2>8
  <2>10. Part(Whence, s) = {document.tree[Whence].parts[j] : j \in DOMAIN document.tree[Whence].parts \cap {b + 1}}
    BY <1>3, <2>4, PartIs DEF Here
  <2> QED BY <2>6, <2>9, <2>10
<1> QED BY <1>2, <1>3

(* What is refused leads nowhere.                                          *)
LEMMA RefusedLocated ==
  ASSUME TypeOK, call.fn = "locate", Whole(buffer, document), LocateRefused,
         pc = "step" => StepGood, pc = "skip" => SkipGood
  PROVE  NowhereGood
<1>1. CASE pc = "step" /\ rest # <<>> /\ ~Enters(rest[1], Here)
  <2>1. TrailGood /\ rest[1] \in Steps /\ rest[1][1] # "top"
    BY <1>1, RestIs DEF StepGood, Enters
  <2>2. CASE Over
    BY <2>1, <2>2, NowhereOver
  <2>3. CASE ~Over
    <3>1. PICK m : m = Len(trail)
      OBVIOUS
    <3>2. m # 0 /\ Whence = trail[m]
      BY <1>1, <2>1, <3>1, RestIs
    <3>3. AllLed /\ Skips(at) /\ Whence = at
      BY <1>1, <2>3, <3>1, <3>2 DEF StepGood
    <3>4. Part(Whence, rest[1]) = {}
      BY <1>1, <2>1, <3>3, NotEntered
    <3> QED BY <1>1, <2>1, <3>3, <3>4, NowhereHere
  <2> QED BY <2>2, <2>3
<1>2. CASE pc = "skip" /\ (AtBreak \/ (left > 0 /\ ~Skips(at)))
  <2>1. PICK k, l, s : k = Passed /\ l = Len(List) /\ s = rest[1]
    OBVIOUS
  <2>2. SkipGood /\ TrailGood /\ AllLed /\ rest # <<>> /\ left \in Nat
    BY <1>2 DEF SkipGood, TypeOK
  <2>3. /\ k \in Nat /\ k <= l /\ l \in Nat /\ PartsBefore(s) = k + left
        /\ k < l => Skips(at)
    BY <1>2, <2>1, <2>2, AtList
  <2>4. k = l
    <3> SUFFICES ASSUME k < l PROVE FALSE
      BY <2>3
    <3>1. Skips(at) /\ at \in DOMAIN buffer /\ buffer[at] # Break
      BY <2>3, BreakIs, SkipType DEF TypeOK
    <3>2. at <= Len(buffer)
      BY <3>1, LenProperties DEF TypeOK, InputOK
    <3>3. at \in Nat /\ Len(buffer) \in Nat
      BY LenProperties DEF TypeOK, InputOK
    <3> QED BY <1>2, <3>1, <3>2, <3>3 DEF AtBreak
  <2>5. DOMAIN List = 1..l
    BY <1>2, <2>1, <2>2, ListIs
  <2>6. (k + left) + 1 \notin 1..l
    BY <2>2, <2>3, <2>4
  <2>7. Part(Whence, s) = {List[j] : j \in DOMAIN List \cap {(k + left) + 1}}
    <3>1. List = IF s[1] = "top" THEN document.tops ELSE document.tree[Whence].parts
      BY <2>1 DEF List
    <3>2. s \in Steps /\ (s[1] # "top" => ReadHead(buffer, Whence).major = KindOf(s))
      BY <2>1, <2>2, RestIs DEF SkipGood
    <3> HIDE DEF List
    <3> QED BY <2>3, <3>1, <3>2, PartIs
  <2>8. Part(Whence, s) = {}
    BY <2>5, <2>6, <2>7
  <2> QED BY <2>1, <2>2, <2>8, NowhereHere
<1>3. CASE pc = "step" /\ rest = <<>> /\ ~Skips(at)
  <2>1. PICK m : m = Len(trail)
    OBVIOUS
  <2>2. TrailGood /\ m # 0
    BY <1>3, <2>1, RestIs DEF StepGood
  <2>3. Over
    BY <1>3, <2>1, <2>2 DEF StepGood
  <2> QED BY <2>2, <2>3, NowhereOver
<1> QED BY <1>1, <1>2, <1>3 DEF LocateRefused

(* What was found does not change afterwards.                              *)
LEMMA LocatedSame ==
  ASSUME UNCHANGED <<buffer, document, call, trail, spans>>
  PROVE  (SpanGood' <=> SpanGood) /\ (NowhereGood' <=> NowhereGood)
<1>1. \A k : Before(k)' = Before(k)
  BY DEF Before
<1>2. \A p, step : Part(p, step)' = Part(p, step)
  BY DEF Part
<1>3. \A k : Led(k)' <=> Led(k)
  BY <1>1, <1>2 DEF Led
<1>4. SpanGood' <=> SpanGood
  BY <1>3 DEF SpanGood
<1>5. \A k : Part(Before(k), call.path[k])' = Part(Before(k), call.path[k])
  BY <1>1 DEF Part
<1> QED BY <1>3, <1>4, <1>5 DEF NowhereGood

(* A search begins at the top level.                                       *)
LEMMA InitLocated == Init => Located
<1> SUFFICES ASSUME Init, call.fn = "locate" PROVE pc = "step" /\ StepGood
  BY DEF Located
<1>1. TypeOK
  BY InitType
<1>2. rest = call.path /\ trail = <<>> /\ at = 1 /\ pc = "step"
  BY DEF Init, Begin
<1>3. call.path \in Seq(Steps)
  BY <1>1 DEF TypeOK, InputOK, Paths
<1>4. PICK l : l = Len(call.path)
  OBVIOUS
<1>5. l \in Nat /\ DOMAIN call.path = 1..l /\ Len(trail) = 0
  BY <1>2, <1>3, <1>4, EmptySeq, LenProperties
<1>6. l - 0 = l /\ 0 <= l /\ \A k \in 1..l : 0 + k = k
  BY <1>5
<1>7. TrailGood
  BY <1>2, <1>4, <1>5, <1>6 DEF TrailGood
<1> QED BY <1>2, <1>5, <1>7 DEF StepGood

(* Every step of a search keeps to the path.                               *)
LEMMA LocatedStep == TypeOK /\ Located /\ [Next]_vars => Located'
<1> SUFFICES ASSUME TypeOK, Located, [Next]_vars, (call.fn = "locate" /\ Whole(buffer, document))'
             PROVE  /\ (pc \in {"step", "skip", "span", "nowhere"})'
                    /\ (pc = "step" => StepGood)'
                    /\ (pc = "skip" => SkipGood)'
                    /\ (pc = "span" => SpanGood)'
                    /\ (pc = "nowhere" => NowhereGood)'
  BY DEF Located
<1>0. UNCHANGED <<buffer, document, call>>
  BY DEF vars, Next, CheckSerialization, WalkRefused, WalkLeaf, WalkBignum, WalkIndefinite, WalkParts, WalkReturn, WalkNext,
       KeyRefused, CheckReturn, Walking, ItemSpanAtPath, LocateEnter, LocateSkip, LocateArrive, LocateFound, LocateRefused,
       Locating, Decode, DecodeHead, DecodeEntry, DecodeElement, DecodeReturn, DecodeRefused, Decoding, input
<1>1. call.fn = "locate" /\ Whole(buffer, document)
  BY <1>0
<1>2. /\ pc \in {"step", "skip", "span", "nowhere"}
      /\ pc = "step" => StepGood
      /\ pc = "skip" => SkipGood
      /\ pc = "span" => SpanGood
      /\ pc = "nowhere" => NowhereGood
  BY <1>1 DEF Located
<1>3. CASE UNCHANGED vars
  <2>1. UNCHANGED <<buffer, document, call, at, rest, trail, open, left, spans, pc>>
    BY <1>3 DEF vars
  <2>2. (SpanGood' <=> SpanGood) /\ (NowhereGood' <=> NowhereGood)
    BY <2>1, LocatedSame
  <2>3. StepGood' <=> StepGood
    <3>1. (AllLed' <=> AllLed) /\ (TrailGood' <=> TrailGood) /\ \A p : Skips(p)' <=> Skips(p)
      BY <2>1, WaySame
    <3>2. (Over' <=> Over) /\ (Skips(at)' <=> Skips(at))
      BY <2>1 DEF Over, Part, Skips
    <3> QED BY <2>1, <3>1, <3>2 DEF StepGood
  <2>4. SkipGood' <=> SkipGood
    <3>1. (AllLed' <=> AllLed) /\ (TrailGood' <=> TrailGood) /\ Whence' = Whence /\ List' = List /\ Start' = Start
      BY <2>1, WaySame
    <3>2. Skips(Whence)' <=> Skips(Whence)
      BY <2>1, <3>1 DEF Skips
    <3>3. ReadHead(buffer, Whence)' = ReadHead(buffer, Whence) /\ Passed' = Passed
      BY <2>1, <3>1 DEF Passed
    <3> QED BY <2>1, <3>1, <3>2, <3>3 DEF SkipGood
  <2> QED BY <1>2, <2>1, <2>2, <2>3, <2>4
<1>4. ASSUME Next
      PROVE  /\ (pc \in {"step", "skip", "span", "nowhere"})'
             /\ (pc = "step" => StepGood)'
             /\ (pc = "skip" => SkipGood)'
             /\ (pc = "span" => SpanGood)'
             /\ (pc = "nowhere" => NowhereGood)'
  <2>1. ItemSpanAtPath
    BY <1>1, <1>4 DEF Next, CheckSerialization, WalkRefused, WalkLeaf, WalkBignum, WalkIndefinite, WalkParts, WalkReturn,
         WalkNext, KeyRefused, CheckReturn, Walking,
         Decode, DecodeHead, DecodeEntry, DecodeElement, DecodeReturn, DecodeRefused, Decoding
  <2>2. CASE LocateEnter
    <3>1. SkipGood' /\ pc' = "skip"
      BY <1>1, <1>2, <2>2, EnterLocated DEF LocateEnter
    <3> QED BY <3>1
  <2>3. CASE LocateSkip
    <3>1. SkipGood' /\ pc' = "skip"
      BY <1>1, <1>2, <2>3, SkipLocated DEF LocateSkip
    <3> QED BY <3>1
  <2>4. CASE LocateArrive
    <3>1. StepGood' /\ pc' = "step"
      BY <1>1, <1>2, <2>4, ArriveLocated DEF LocateArrive
    <3> QED BY <3>1
  <2>5. CASE LocateFound
    <3>1. SpanGood' /\ pc' = "span"
      BY <1>1, <1>2, <2>5, FoundLocated DEF LocateFound
    <3> QED BY <3>1
  <2>6. CASE LocateRefused
    <3>1. UNCHANGED <<trail, spans>> /\ pc' = "nowhere"
      BY <2>6 DEF LocateRefused, way
    <3>2. NowhereGood
      BY <1>1, <1>2, <2>6, RefusedLocated
    <3>3. NowhereGood'
      BY <1>0, <3>1, <3>2, LocatedSame
    <3> QED BY <3>1, <3>3
  <2> QED BY <2>1, <2>2, <2>3, <2>4, <2>5, <2>6 DEF ItemSpanAtPath
<1> QED BY <1>3, <1>4

(* What the search finds are the bytes of the part that the path means,    *)
(* and only a path that leads nowhere finds nothing.                       *)
THEOREM SpansAreFound == Spec => []SpansFound
<1>1. Located => SpansFound
  BY DEF Located, SpansFound, SpanGood, NowhereGood
<1>2. Init => TypeOK /\ Located
  BY InitType, InitLocated
<1>3. TypeOK /\ Located /\ [Next]_vars => (TypeOK /\ Located)'
  BY TypeStep, LocatedStep
<1> QED BY <1>1, <1>2, <1>3, PTL DEF Spec
========================================================================================
