--------------------------- MODULE SegmentsProofs ---------------------------
(***************************************************************************)
(* The segments of transfer_request() partition the file, for every size   *)
(* and every number of sources.                                            *)
(***************************************************************************)
EXTENDS Segments, TLAPS

(* active_count is a count of sources the caller has, and of bytes.        *)
LEMMA ActiveCountBounds ==
  ASSUME NEW size \in Nat \ {0}, NEW peers \in Nat \ {0}
  PROVE  /\ ActiveCount(size, peers) \in 1 .. size
         /\ ActiveCount(size, peers) <= peers
BY DEF ActiveCount

(* What integer division guarantees about base_len.                        *)
LEMMA BaseLenBounds ==
  ASSUME NEW size \in Nat \ {0}, NEW n \in 1 .. size
  PROVE  /\ BaseLen(size, n) \in Nat \ {0}
         /\ n * BaseLen(size, n) <= size
<1>1. /\ size \div n \in Int
      /\ size = n * (size \div n) + (size % n)
      /\ size % n \in 0 .. n - 1
  OBVIOUS
<1>2. ~(size \div n <= 0)
  <2> SUFFICES ASSUME size \div n <= 0
               PROVE  FALSE
    OBVIOUS
  <2>1. n * (size \div n) <= 0
    BY <1>1
  <2> QED
    BY <1>1, <2>1
<1> QED
  BY <1>1, <1>2 DEF BaseLen

(* Multiplication by a natural number is monotonic.                        *)
LEMMA TimesMonotonic ==
  ASSUME NEW a \in Nat, NEW b \in Nat, NEW c \in Nat, a <= b
  PROVE  a * c <= b * c
<1>1. PICK d \in Nat : b = a + d
  <2>1. b - a \in Nat /\ b = a + (b - a)
    OBVIOUS
  <2> QED
    BY <2>1
<1>2. b * c = a * c + d * c /\ d * c \in Nat /\ a * c \in Nat
  BY <1>1
<1> QED
  BY <1>2

(* Every segment is a nonempty range of bytes of the file.                 *)
THEOREM SegmentInFile ==
  ASSUME NEW size \in Nat \ {0}, NEW n \in 1 .. size, NEW i \in 0 .. n - 1
  PROVE  /\ ByteStart(size, n, i) \in Nat
         /\ ByteEnd(size, n, i) \in Nat
         /\ ByteStart(size, n, i) <= ByteEnd(size, n, i)
         /\ ByteEnd(size, n, i) < size
<1> DEFINE len == BaseLen(size, n)
<1>1. len \in Nat \ {0} /\ n * len <= size
  BY BaseLenBounds
<1> HIDE DEF len
<1>2. /\ i * len \in Nat
      /\ (i + 1) * len = i * len + len
      /\ (i + 1) * len <= n * len
  BY <1>1, TimesMonotonic
<1>3. ByteStart(size, n, i) = i * len
  BY DEF ByteStart, len
<1>4. ByteEnd(size, n, i) = IF i + 1 = n THEN size - 1 ELSE i * len + len - 1
  BY <1>3 DEF ByteEnd, len
<1>5. i * len + len <= size
  BY <1>1, <1>2
<1> QED
  BY <1>1, <1>2, <1>3, <1>4, <1>5

(* A segment ends just before the next one starts, so two threads never    *)
(* write the same byte.                                                    *)
THEOREM SegmentsInOrder ==
  ASSUME NEW size \in Nat \ {0}, NEW n \in 1 .. size,
         NEW i \in 0 .. n - 1, NEW j \in 0 .. n - 1, i < j
  PROVE  ByteEnd(size, n, i) < ByteStart(size, n, j)
<1> DEFINE len == BaseLen(size, n)
<1>1. len \in Nat \ {0}
  BY BaseLenBounds
<1> HIDE DEF len
<1>2. /\ i * len \in Nat
      /\ (i + 1) * len = i * len + len
      /\ (i + 1) * len <= j * len
      /\ j * len \in Nat
  BY <1>1, TimesMonotonic
<1>3. ByteStart(size, n, j) = j * len
  BY DEF ByteStart, len
<1>4. ByteEnd(size, n, i) = i * len + len - 1
  <2>1. i + 1 # n
    OBVIOUS
  <2> QED
    BY <2>1 DEF ByteEnd, ByteStart, len
<1> QED
  BY <1>1, <1>2, <1>3, <1>4

(* Every byte belongs to a segment: the remainder is not lost.             *)
THEOREM SegmentsCoverFile ==
  ASSUME NEW size \in Nat \ {0}, NEW n \in 1 .. size, NEW b \in 0 .. size - 1
  PROVE  \E i \in 0 .. n - 1 :
           b \in ByteStart(size, n, i) .. ByteEnd(size, n, i)
<1> DEFINE len == BaseLen(size, n)
<1>1. len \in Nat \ {0} /\ n * len <= size
  BY BaseLenBounds
<1> HIDE DEF len
<1>2. CASE (n - 1) * len <= b
  <2>1. ByteStart(size, n, n - 1) = (n - 1) * len
    BY DEF ByteStart, len
  <2>2. ByteEnd(size, n, n - 1) = size - 1
    BY DEF ByteEnd
  <2>3. (n - 1) * len \in Int
    BY <1>1
  <2>4. b \in ByteStart(size, n, n - 1) .. ByteEnd(size, n, n - 1)
    BY <1>2, <2>1, <2>2, <2>3
  <2> QED
    BY <2>4
<1>3. CASE b < (n - 1) * len
  <2> DEFINE q == b \div len
  <2>1. /\ q \in Int
        /\ b = len * q + (b % len)
        /\ b % len \in 0 .. len - 1
    BY <1>1
  <2> HIDE DEF q
  <2>2. ~(q < 0)
    <3> SUFFICES ASSUME q < 0
                 PROVE  FALSE
      OBVIOUS
    <3>1. len * q <= -len
      <4>1. /\ -q - 1 \in Nat
            /\ len * (-q - 1) \in Nat
            /\ len * (-q - 1) = -(len * q) - len
        BY <1>1, <2>1
      <4> QED
        BY <1>1, <2>1, <4>1
    <3> QED
      BY <1>1, <2>1, <3>1
  <2>3. ~(q >= n - 1)
    <3> SUFFICES ASSUME q >= n - 1
                 PROVE  FALSE
      OBVIOUS
    <3>1. (n - 1) * len <= q * len
      BY <1>1, <2>1, TimesMonotonic
    <3>2. q * len = len * q /\ q * len \in Int /\ (n - 1) * len \in Int
      BY <1>1, <2>1
    <3> QED
      BY <1>1, <1>3, <2>1, <3>1, <3>2
  <2>4. q \in 0 .. n - 1 /\ q + 1 # n
    BY <2>1, <2>2, <2>3
  <2>5. ByteStart(size, n, q) = q * len
    BY DEF ByteStart, len
  <2>6. ByteEnd(size, n, q) = q * len + len - 1
    BY <2>4, <2>5 DEF ByteEnd, len
  <2>7. q * len = len * q /\ q * len \in Int
    BY <1>1, <2>1
  <2>8. b \in ByteStart(size, n, q) .. ByteEnd(size, n, q)
    BY <1>1, <2>1, <2>5, <2>6, <2>7
  <2> QED
    BY <2>4, <2>8
<1>4. (n - 1) * len \in Int
  BY <1>1
<1> QED
  BY <1>2, <1>3, <1>4
=============================================================================
