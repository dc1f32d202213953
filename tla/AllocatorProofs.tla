--------------------------- MODULE AllocatorProofs ---------------------------
(***************************************************************************)
(* Theorems about Allocator, for any number of threads and nodes and any   *)
(* sizes.  Where a node is, which list is the largest and what may still   *)
(* be kept are inductive together, with what a thread found before it got  *)
(* the mutex.                                                              *)
(***************************************************************************)
EXTENDS Allocator, TLAPS, FiniteSetTheorems, SequenceTheorems,
        WellFoundedInduction

\* Handed-out nodes are mapped.
Mapped == \A n \in inUse : index[n] # 0

\* A size a thread is at work on passed the test for an overflow, and the walk
\* over the lists starts at one of them even if the largest became smaller.
AtWork ==
  \A t \in Threads : pc[t] # "idle" =>
    /\ size[t] \in Sizes /\ ~TooLarge(size[t])
    /\ pc[t] = "lists" => IndexOf(size[t]) < MAX_INDEX

\* MaxIsExact without a CHOOSE.
MaxIsLargest ==
  /\ m_uiCurMaxBlockIndex \in {0} \cup NonEmpty(1..(MAX_INDEX - 1))
  /\ \A i \in NonEmpty(1..(MAX_INDEX - 1)) : i <= m_uiCurMaxBlockIndex

Counted == IsFiniteSet(KeptUnits) /\ LimitIsExact

Allocating ==
  TypeOK /\ OnePlace /\ Mapped /\ AtWork /\ MaxIsLargest /\ Counted

-----------------------------------------------------------------------------
(* Arithmetic: what rounding up and overflows leave of a size.             *)

LEMMA Division ==
  \A a \in Nat, b \in Nat \ {0} :
    \E q \in Nat, m \in 0..(b - 1) :
      q = a \div b /\ m = a % b /\ a = b * q + m
<1>1. ASSUME NEW a \in Nat, NEW b \in Nat \ {0}
      PROVE  \E q \in Nat, m \in 0..(b - 1) :
               q = a \div b /\ m = a % b /\ a = b * q + m
  <2>1. /\ a \div b \in Nat /\ a % b \in 0..(b - 1)
        /\ a = b * (a \div b) + (a % b)
    OBVIOUS
  <2> QED
    BY <2>1
<1> QED
  BY <1>1

LEMMA Remainder ==
  ASSUME NEW a \in Nat, NEW b \in Nat \ {0}, NEW m \in Int, m = a % b
  PROVE  /\ m \in 0..(b - 1) /\ m <= a
         /\ (a < b => m = a)
         /\ (a >= b /\ a < b + b => m = a - b)
<1>1. PICK q \in Nat, p \in Int :
        m \in 0..(b - 1) /\ p = b * q /\ a = p + m
  <2>1. PICK q \in Nat, o \in 0..(b - 1) : o = a % b /\ a = b * q + o
    BY Division
  <2>2. b * q \in Int
    OBVIOUS
  <2> QED
    BY <2>1, <2>2
<1>2. /\ p >= 0 /\ (q = 0 => p = 0)
      /\ (q = 1 => p = b) /\ (q >= 2 => p >= b + b)
  <2>1. CASE q = 0
    BY <1>1, <2>1
  <2>2. CASE q = 1
    BY <1>1, <2>2
  <2>3. CASE q >= 2
    <3>1. PICK e \in Nat : q = e + 2
      <4>1. q - 2 \in Nat /\ q = (q - 2) + 2
        BY <2>3
      <4> QED
        BY <4>1
    <3>2. p = b * e + (b + b) /\ b * e >= 0
      BY <1>1, <3>1
    <3> QED
      BY <2>3, <3>2
  <2> QED
    BY <2>1, <2>2, <2>3
<1>3. \/ q = 0 \/ q = 1 \/ q >= 2
  OBVIOUS
<1> QED
  BY ONLY <1>1, <1>2, <1>3, a \in Nat, b \in Nat, b # 0

\* What is left when the remainder is taken away can be divided exactly.
LEMMA Exactly ==
  ASSUME NEW a \in Nat, NEW b \in Nat \ {0}
  PROVE  /\ a - (a % b) \in Nat
         /\ b * ((a - (a % b)) \div b) = a - (a % b)
<1>1. PICK q \in Nat, p \in Nat : p = b * q /\ p = a - (a % b)
  <2>1. PICK q \in Nat, m \in 0..(b - 1) : m = a % b /\ a = b * q + m
    BY Division
  <2>2. b * q \in Nat /\ b * q = a - (a % b)
    BY <2>1
  <2> QED
    BY <2>2
<1>2. PICK e \in Nat, o \in Int :
        e = p \div b /\ o = b * e /\ p - o \in 0..(b - 1)
  BY Division
<1>3. CASE q = e
  BY <1>1, <1>2, <1>3
<1>4. CASE q > e
  <2>1. PICK d \in Nat : q = e + 1 + d
    <3>1. q - e - 1 \in Nat /\ q = e + 1 + (q - e - 1)
      BY <1>4
    <3> QED
      BY <3>1
  <2>2. p = o + b + b * d /\ b * d >= 0
    BY <1>1, <1>2, <2>1
  <2> QED
    BY <1>2, <2>2
<1>5. CASE q < e
  <2>1. PICK d \in Nat : e = q + 1 + d
    <3>1. e - q - 1 \in Nat /\ e = q + 1 + (e - q - 1)
      BY <1>5
    <3> QED
      BY <3>1
  <2>2. o = p + b + b * d /\ b * d >= 0
    BY <1>1, <1>2, <2>1
  <2> QED
    BY <1>2, <2>2
<1> QED
  BY <1>3, <1>4, <1>5

LEMMA Units ==
  /\ BOUNDARY_SIZE \in Nat \ {0} /\ 2^SizeBits \in Nat \ {0}
  /\ MemNodeSize \in Nat
  /\ MemNodeSize + BOUNDARY_SIZE <= 2^SizeBits
  /\ \A n \in Sizes : n \in Nat /\ n < 2^SizeBits
BY SizeAssumption, UnitAssumption DEF BOUNDARY_SIZE

\* Rounding up to b in a type of w values, in any case and without overflow.
RoundUp(x, b, w) ==
  LET m == (x + b - 1) % w IN m - (m % b)

LEMMA Rounded ==
  ASSUME NEW x \in Nat, NEW b \in Nat \ {0}, NEW w \in Nat \ {0},
         x < w, b <= w
  PROVE  /\ RoundUp(x, b, w) \in Nat
         /\ b * (RoundUp(x, b, w) \div b) = RoundUp(x, b, w)
         /\ RoundUp(x, b, w) <= x + b - 1
         /\ \/ RoundUp(x, b, w) >= x
            \/ RoundUp(x, b, w) = 0 /\ x + b - 1 >= w
<1>1. PICK y \in Nat : y = x + b - 1
  OBVIOUS
<1>2. PICK m \in Nat : m = y % w
  BY Division
<1>3. PICK o \in Nat : o = m % b
  BY Division
<1>4. /\ m <= y
      /\ (y < w => m = y)
      /\ (y >= w => m = y - w)
  <2>1. y < w + w
    BY <1>1
  <2> QED
    BY <1>2, <2>1, Remainder
<1>5. o <= m /\ o <= b - 1 /\ (m < b => o = m)
  BY <1>3, Remainder
<1>6. m - o \in Nat /\ b * ((m - o) \div b) = m - o
  BY <1>3, Exactly
<1>7. m - o <= y /\ (m - o >= x \/ (m - o = 0 /\ y >= w))
  BY <1>4, <1>5, <1>1
<1>8. RoundUp(x, b, w) = m - o
  BY <1>1, <1>2, <1>3 DEF RoundUp
<1> QED
  BY <1>6, <1>7, <1>8, <1>1

\* What Alloc() asks malloc() for, when it does, holds the header and what was
\* asked for, in whole units.
LEMMA LargeEnoughSize ==
  ASSUME NEW n \in Sizes
  PROVE  /\ IndexOf(n) \in Nat \ {0}
         /\ ~TooLarge(n) =>
              (IndexOf(n) + 1) * BOUNDARY_SIZE - MemNodeSize >= n
<1>1. PICK b \in Nat \ {0} : b = BOUNDARY_SIZE
  BY Units
<1>2. PICK w \in Nat \ {0} : w = 2^SizeBits
  BY Units
<1>3. PICK h \in Nat : h = MemNodeSize
  BY Units
<1>4. n \in Nat /\ n < w /\ h + b <= w
  BY <1>1, <1>2, <1>3, Units
<1>5. PICK x \in Nat : x = (n + h) % w
  BY <1>4, Remainder
<1>6. /\ (n + h < w => x = n + h)
      /\ (n + h >= w => x = n + h - w)
  BY <1>1, <1>4, <1>5, Remainder
<1>7. x < w /\ b <= w
  BY <1>4, <1>6
<1>8. NodeSize(n) = RoundUp(x, b, w)
  BY <1>1, <1>2, <1>3, <1>5 DEF NodeSize, Aligned, RoundUp
<1>9. /\ RoundUp(x, b, w) \in Nat
      /\ b * (RoundUp(x, b, w) \div b) = RoundUp(x, b, w)
      /\ RoundUp(x, b, w) <= x + b - 1
      /\ \/ RoundUp(x, b, w) >= x
         \/ RoundUp(x, b, w) = 0 /\ x + b - 1 >= w
  BY <1>7, Rounded
<1>10. PICK r \in Nat : /\ r = NodeSize(n) /\ b * (r \div b) = r
                        /\ r <= x + b - 1
                        /\ (r >= x \/ (r = 0 /\ x + b - 1 >= w))
  BY <1>8, <1>9
<1>11. PICK q \in Nat : q = r \div b
  BY <1>10, Division
<1>12. IndexOf(n) = IF r < 2 * b THEN 1 ELSE q - 1
  BY <1>1, <1>10, <1>11 DEF IndexOf
<1>13. r >= 2 * b => q >= 2
  <2>1. CASE q = 0
    BY <1>10, <1>11, <2>1
  <2>2. CASE q = 1
    BY <1>10, <1>11, <2>2
  <2> QED
    BY <2>1, <2>2
<1>14. IndexOf(n) \in Nat \ {0}
  BY <1>10, <1>12, <1>13
<1>15. ASSUME ~TooLarge(n)
       PROVE  (IndexOf(n) + 1) * b - h >= n
  <2>1. r >= n
    BY <1>4, <1>10, <1>15 DEF TooLarge
  <2>2. n + h < w
    BY <1>4, <1>6, <1>10, <2>1
  <2>3. r >= n + h
    <3>1. x = n + h /\ (r >= x \/ (r = 0 /\ x + b - 1 >= w))
      BY <1>6, <1>10, <2>2
    <3>2. CASE r = 0
      <4>1. n = 0
        BY <1>4, <2>1, <3>2
      <4> QED
        BY <1>4, <4>1, <3>1, <3>2
    <3> QED
      BY <3>1, <3>2
  <2>4. CASE r < 2 * b
    BY <1>4, <1>10, <1>12, <2>3, <2>4
  <2>5. CASE r >= 2 * b
    <3>1. (IndexOf(n) + 1) * b = r
      BY <1>10, <1>11, <1>12, <2>5
    <3> QED
      BY <1>4, <1>10, <2>3, <3>1
  <2> QED
    BY <1>10, <2>4, <2>5
<1> QED
  BY <1>1, <1>3, <1>14, <1>15

-----------------------------------------------------------------------------
(* The least and the greatest element of a set of numbers.                 *)

LEMMA Least ==
  ASSUME NEW S \in SUBSET Nat, S # {}
  PROVE  \E x \in S : \A y \in S : x <= y
<1>1. PICK x \in S : \A y \in S : ~(<<y, x>> \in OpToRel(<, Nat))
  BY WFMin, NatLessThanWellFounded
<1>2. ASSUME NEW y \in S
      PROVE  x <= y
  <2>1. ~(y < x)
    BY <1>1 DEF OpToRel
  <2> QED
    BY <2>1
<1> QED
  BY <1>2

LEMMA MinOf ==
  ASSUME NEW S \in SUBSET Nat, S # {}
  PROVE  Sets!Min(S) \in S /\ \A y \in S : Sets!Min(S) <= y
BY Least DEF Sets!Min

LEMMA MaxOf ==
  ASSUME NEW k \in Nat, NEW S \in SUBSET (0..k), S # {}
  PROVE  Sets!Max(S) \in S /\ \A y \in S : Sets!Max(S) >= y
<1>1. PICK T : T = {k - x : x \in S}
  OBVIOUS
<1>2. T \in SUBSET Nat /\ T # {}
  <2>1. \A x \in S : k - x \in Nat
    OBVIOUS
  <2> QED
    BY <1>1, <2>1
<1>3. PICK t \in T : \A y \in T : t <= y
  BY <1>1, <1>2, Least
<1>4. PICK x \in S : t = k - x
  BY <1>1, <1>3
<1>5. ASSUME NEW y \in S
      PROVE  x >= y
  <2>1. k - x <= k - y
    BY <1>1, <1>3, <1>4
  <2> QED
    BY <2>1
<1>6. \E z \in S : \A y \in S : z >= y
  BY <1>5
<1> QED
  BY <1>6 DEF Sets!Max

\* An element not below any other is what Max() chooses.
LEMMA MaxIs ==
  ASSUME NEW S \in SUBSET Nat, NEW x \in S, \A y \in S : x >= y
  PROVE  Sets!Max(S) = x
<1>1. Sets!Max(S) \in S /\ \A y \in S : Sets!Max(S) >= y
  BY DEF Sets!Max
<1>2. Sets!Max(S) \in Nat /\ x \in Nat /\ Sets!Max(S) >= x /\ x >= Sets!Max(S)
  BY <1>1
<1> QED
  BY <1>2

-----------------------------------------------------------------------------
(* What taking a node from a list and putting one in make of it.           *)

\* Listed, of a sequence.
Elements(s) == {s[k] : k \in DOMAIN s}

Distinct(s) == \A k, l \in DOMAIN s : k # l => s[k] # s[l]

\* Element k of s leaves.
RemovedAt(s, k) == SubSeq(s, 1, k - 1) \o SubSeq(s, k + 1, Len(s))

LEMMA Removed ==
  ASSUME NEW S, NEW s \in Seq(S), NEW k \in 1..Len(s), Distinct(s)
  PROVE  /\ RemovedAt(s, k) \in Seq(S)
         /\ Distinct(RemovedAt(s, k))
         /\ Elements(RemovedAt(s, k)) = Elements(s) \ {s[k]}
<1>1. Len(s) \in Nat /\ DOMAIN s = 1..Len(s)
  OBVIOUS
<1>2. PICK a : a = SubSeq(s, 1, k - 1)
  OBVIOUS
<1>3. PICK b : b = SubSeq(s, k + 1, Len(s))
  OBVIOUS
<1>4. /\ a \in Seq(S) /\ Len(a) = k - 1
      /\ \A i \in 1..(k - 1) : a[i] = s[i]
  <2>1. k - 1 \in Int /\ 1 \in Int /\ \A i \in 1..(k - 1) : s[i] \in S
    BY <1>1
  <2>2. /\ a \in Seq(S) /\ Len(a) = IF 1 <= k - 1 THEN k - 1 - 1 + 1 ELSE 0
        /\ \A i \in 1..(k - 1 - 1 + 1) : a[i] = s[1 + i - 1]
    BY <1>2, <2>1, SubSeqProperties
  <2> QED
    BY <2>2
<1>5. /\ b \in Seq(S) /\ Len(b) = Len(s) - k
      /\ \A i \in 1..(Len(s) - k) : b[i] = s[k + i]
  <2>1. /\ k + 1 \in Int /\ Len(s) \in Int
        /\ \A i \in (k + 1)..Len(s) : s[i] \in S
    BY <1>1
  <2>2. /\ b \in Seq(S)
        /\ Len(b) = IF k + 1 <= Len(s) THEN Len(s) - (k + 1) + 1 ELSE 0
        /\ \A i \in 1..(Len(s) - (k + 1) + 1) : b[i] = s[(k + 1) + i - 1]
    BY <1>3, <2>1, SubSeqProperties
  <2>3. Len(b) = Len(s) - k
    <3>1. k \in Int /\ k <= Len(s) /\ Len(s) \in Int
      BY <1>1
    <3>2. CASE k + 1 <= Len(s)
      BY <2>2, <3>1, <3>2
    <3>3. CASE k = Len(s)
      BY <2>2, <3>1, <3>3
    <3> QED
      BY <3>1, <3>2, <3>3
  <2>4. ASSUME NEW i \in 1..(Len(s) - k)
        PROVE  b[i] = s[k + i]
    <3>1. i \in 1..(Len(s) - (k + 1) + 1) /\ (k + 1) + i - 1 = k + i
      BY <1>1
    <3> QED
      BY <2>2, <3>1
  <2> QED
    BY <2>2, <2>3, <2>4
<1>6. PICK t : t = a \o b /\ t = RemovedAt(s, k)
  BY <1>2, <1>3 DEF RemovedAt
<1>7. /\ t \in Seq(S)
      /\ Len(t) = Len(s) - 1 /\ DOMAIN t = 1..(Len(s) - 1)
      /\ \A i \in 1..(Len(s) - 1) : t[i] = IF i < k THEN s[i] ELSE s[i + 1]
  <2>1. /\ t \in Seq(S) /\ Len(t) = Len(a) + Len(b)
        /\ \A i \in 1..(Len(a) + Len(b)) :
             t[i] = IF i <= Len(a) THEN a[i] ELSE b[i - Len(a)]
    <3>1. a \in Seq(S) /\ b \in Seq(S) /\ t = a \o b
      BY <1>4, <1>5, <1>6
    <3> QED
      BY ONLY <3>1, ConcatProperties, ZenonT(30)
  <2>2. Len(a) + Len(b) = Len(s) - 1
    BY <1>1, <1>4, <1>5
  <2>3. DOMAIN t = 1..(Len(s) - 1)
    BY <2>1, <2>2, LenProperties
  <2>4. ASSUME NEW i \in 1..(Len(s) - 1)
        PROVE  t[i] = IF i < k THEN s[i] ELSE s[i + 1]
    <3>1. CASE i < k
      <4>1. /\ i \in 1..(k - 1) /\ i <= Len(a)
            /\ i \in 1..(Len(a) + Len(b))
        BY <1>1, <1>4, <2>2, <3>1
      <4>2. t[i] = a[i] /\ a[i] = s[i]
        BY <1>4, <2>1, <4>1
      <4> QED
        BY <3>1, <4>2
    <3>2. CASE i >= k
      <4>1. i - (k - 1) \in 1..(Len(s) - k) /\ k + (i - (k - 1)) = i + 1
        BY <1>1, <3>2
      <4>2. i \in 1..(Len(a) + Len(b)) /\ ~(i <= Len(a))
        BY <1>1, <1>4, <2>2, <3>2
      <4>3. t[i] = b[i - (k - 1)]
        BY <1>4, <2>1, <4>2
      <4>4. b[i - (k - 1)] = s[k + (i - (k - 1))]
        BY <1>5, <4>1
      <4> QED
        BY <3>2, <4>1, <4>3, <4>4
    <3> QED
      BY <3>1, <3>2
  <2> QED
    BY <2>1, <2>2, <2>3, <2>4
<1>8. Distinct(t)
  <2>1. ASSUME NEW i \in 1..(Len(s) - 1), NEW j \in 1..(Len(s) - 1), i # j
        PROVE  t[i] # t[j]
    <3>1. PICK m \in 1..Len(s) : m = (IF i < k THEN i ELSE i + 1) /\ t[i] = s[m]
      BY <1>1, <1>7
    <3>2. PICK n \in 1..Len(s) : n = (IF j < k THEN j ELSE j + 1) /\ t[j] = s[n]
      BY <1>1, <1>7
    <3>3. m # n
      BY <1>1, <2>1, <3>1, <3>2
    <3> QED
      BY <1>1, <3>1, <3>2, <3>3 DEF Distinct
  <2> QED
    BY <1>7, <2>1 DEF Distinct
<1>9. ASSUME NEW x \in Elements(t)
      PROVE  x \in Elements(s) \ {s[k]}
  <2>1. PICK i \in 1..(Len(s) - 1) : x = t[i]
    BY <1>7 DEF Elements
  <2>2. PICK m \in 1..Len(s) : m = (IF i < k THEN i ELSE i + 1) /\ t[i] = s[m]
    BY <1>1, <1>7
  <2>3. m # k
    BY <1>1, <2>2
  <2> QED
    BY <1>1, <2>1, <2>2, <2>3 DEF Elements, Distinct
<1>10. ASSUME NEW x \in Elements(s) \ {s[k]}
       PROVE  x \in Elements(t)
  <2>1. PICK m \in 1..Len(s) : x = s[m]
    BY <1>1 DEF Elements
  <2>2. m # k
    BY <2>1
  <2>3. CASE m < k
    <3>1. m \in 1..(Len(s) - 1) /\ t[m] = x
      BY <1>1, <1>7, <2>1, <2>3
    <3> QED
      BY <1>7, <3>1 DEF Elements
  <2>4. CASE m > k
    <3>1. /\ m - 1 \in 1..(Len(s) - 1) /\ ~(m - 1 < k)
          /\ (m - 1) + 1 = m
      BY <1>1, <2>4
    <3>2. t[m - 1] = x
      BY <1>7, <2>1, <3>1
    <3> QED
      BY <1>7, <3>1, <3>2 DEF Elements
  <2> QED
    BY <1>1, <2>2, <2>3, <2>4
<1>11. Elements(t) = Elements(s) \ {s[k]}
  BY <1>9, <1>10
<1> QED
  BY <1>6, <1>7, <1>8, <1>11

\* The first element of s leaves.
LEMMA HeadRemoved ==
  ASSUME NEW S, NEW s \in Seq(S), s # <<>>, Distinct(s)
  PROVE  /\ Head(s) \in S /\ Head(s) \in Elements(s)
         /\ Tail(s) \in Seq(S)
         /\ Distinct(Tail(s))
         /\ Elements(Tail(s)) = Elements(s) \ {Head(s)}
<1>1. Len(s) \in Nat /\ Len(s) >= 1 /\ DOMAIN s = 1..Len(s)
  OBVIOUS
<1>2. PICK t : t = Tail(s)
  OBVIOUS
<1>3. /\ t \in Seq(S)
      /\ Len(t) = Len(s) - 1 /\ DOMAIN t = 1..(Len(s) - 1)
      /\ \A i \in 1..(Len(s) - 1) : t[i] = s[i + 1]
  <2>1. /\ t \in Seq(S) /\ Len(t) = Len(s) - 1
        /\ \A i \in 1..Len(t) : t[i] = s[i + 1]
    BY <1>2, HeadTailProperties
  <2> QED
    BY <2>1, LenProperties
<1>4. Head(s) = s[1] /\ s[1] \in S
  BY <1>1
<1>5. Distinct(t)
  <2>1. ASSUME NEW i \in 1..(Len(s) - 1), NEW j \in 1..(Len(s) - 1), i # j
        PROVE  t[i] # t[j]
    <3>1. i + 1 \in 1..Len(s) /\ j + 1 \in 1..Len(s) /\ i + 1 # j + 1
      BY <1>1, <2>1
    <3> QED
      BY <1>1, <1>3, <3>1 DEF Distinct
  <2> QED
    BY <1>3, <2>1 DEF Distinct
<1>6. ASSUME NEW x \in Elements(t)
      PROVE  x \in Elements(s) \ {s[1]}
  <2>1. PICK i \in 1..(Len(s) - 1) : x = t[i]
    BY <1>3 DEF Elements
  <2>2. i + 1 \in 1..Len(s) /\ i + 1 # 1 /\ x = s[i + 1] /\ 1 \in 1..Len(s)
    BY <1>1, <1>3, <2>1
  <2> QED
    BY <1>1, <2>2 DEF Elements, Distinct
<1>7. ASSUME NEW x \in Elements(s) \ {s[1]}
      PROVE  x \in Elements(t)
  <2>1. PICK m \in 1..Len(s) : x = s[m]
    BY <1>1 DEF Elements
  <2>2. m - 1 \in 1..(Len(s) - 1) /\ (m - 1) + 1 = m
    BY <1>1, <2>1
  <2> QED
    BY <1>3, <2>1, <2>2 DEF Elements
<1>8. Elements(t) = Elements(s) \ {Head(s)}
  BY <1>4, <1>6, <1>7
<1>9. Head(s) \in Elements(s)
  BY <1>1, <1>4 DEF Elements
<1> QED
  BY <1>2, <1>3, <1>4, <1>5, <1>8, <1>9

\* n is put in front of s.
LEMMA Added ==
  ASSUME NEW S, NEW s \in Seq(S), NEW n \in S, n \notin Elements(s),
         Distinct(s)
  PROVE  /\ <<n>> \o s \in Seq(S)
         /\ Distinct(<<n>> \o s)
         /\ Elements(<<n>> \o s) = Elements(s) \cup {n}
         /\ <<n>> \o s # <<>>
<1>1. Len(s) \in Nat /\ DOMAIN s = 1..Len(s)
  OBVIOUS
<1>2. PICK t : t = <<n>> \o s
  OBVIOUS
<1>3. /\ t \in Seq(S)
      /\ Len(t) = Len(s) + 1 /\ DOMAIN t = 1..(Len(s) + 1)
      /\ t[1] = n
      /\ \A i \in 1..Len(s) : t[i + 1] = s[i]
  <2>1. <<n>> \in Seq(S) /\ Len(<<n>>) = 1 /\ <<n>>[1] = n
    OBVIOUS
  <2>2. /\ t \in Seq(S) /\ Len(t) = Len(<<n>>) + Len(s)
        /\ \A i \in 1..(Len(<<n>>) + Len(s)) :
             t[i] = IF i <= Len(<<n>>) THEN <<n>>[i] ELSE s[i - Len(<<n>>)]
    BY <1>2, <2>1, ConcatProperties
  <2>3. /\ Len(t) = Len(s) + 1
        /\ \A i \in 1..(Len(s) + 1) : t[i] = IF i <= 1 THEN n ELSE s[i - 1]
    <3>1. Len(t) = 1 + Len(s)
      BY <2>1, <2>2
    <3>2. ASSUME NEW i \in 1..(Len(s) + 1)
          PROVE  t[i] = IF i <= 1 THEN n ELSE s[i - 1]
      <4>1. i \in 1..(Len(<<n>>) + Len(s))
        BY <1>1, <2>1
      <4>2. CASE i = 1
        BY <2>1, <2>2, <4>1, <4>2
      <4>3. CASE i > 1
        BY <2>1, <2>2, <4>1, <4>3
      <4> QED
        BY <4>2, <4>3
    <3> QED
      BY <1>1, <3>1, <3>2
  <2>4. DOMAIN t = 1..(Len(s) + 1)
    BY <2>2, <2>3, LenProperties
  <2>5. t[1] = n
    BY <1>1, <2>3
  <2>6. ASSUME NEW i \in 1..Len(s)
        PROVE  t[i + 1] = s[i]
    <3>1. i + 1 \in 1..(Len(s) + 1) /\ ~(i + 1 <= 1) /\ (i + 1) - 1 = i
      BY <1>1
    <3> QED
      BY <2>3, <3>1
  <2> QED
    BY <2>2, <2>3, <2>4, <2>5, <2>6
<1>4. \A i \in 2..(Len(s) + 1) : i - 1 \in 1..Len(s) /\ t[i] = s[i - 1]
  <2>1. ASSUME NEW i \in 2..(Len(s) + 1)
        PROVE  i - 1 \in 1..Len(s) /\ t[i] = s[i - 1]
    <3>1. i - 1 \in 1..Len(s) /\ (i - 1) + 1 = i
      BY <1>1
    <3> QED
      BY <1>3, <3>1
  <2> QED
    BY <2>1
<1>5. \A i \in 2..(Len(s) + 1) : t[i] \in Elements(s)
  BY <1>1, <1>4 DEF Elements
<1>6. Distinct(t)
  <2>1. ASSUME NEW i \in DOMAIN t, NEW j \in DOMAIN t, i # j
        PROVE  t[i] # t[j]
    <3>1. CASE i = 1 \/ j = 1
      BY <1>1, <1>3, <1>5, <2>1, <3>1
    <3>2. CASE i # 1 /\ j # 1
      <4>1. i \in 2..(Len(s) + 1) /\ j \in 2..(Len(s) + 1) /\ i - 1 # j - 1
        BY <1>1, <1>3, <2>1, <3>2
      <4> QED
        BY <1>1, <1>4, <4>1 DEF Distinct
    <3> QED
      BY <3>1, <3>2
  <2> QED
    BY <2>1 DEF Distinct
<1>7. ASSUME NEW x \in Elements(t)
      PROVE  x \in Elements(s) \cup {n}
  <2>1. PICK i \in 1..(Len(s) + 1) : x = t[i]
    BY <1>3 DEF Elements
  <2>2. i = 1 \/ i \in 2..(Len(s) + 1)
    BY <1>1
  <2> QED
    BY <1>3, <1>5, <2>1, <2>2
<1>8. ASSUME NEW x \in Elements(s) \cup {n}
      PROVE  x \in Elements(t)
  <2>1. CASE x = n
    BY <1>1, <1>3, <2>1 DEF Elements
  <2>2. CASE x \in Elements(s)
    <3>1. PICK i \in 1..Len(s) : x = s[i]
      BY <1>1, <2>2 DEF Elements
    <3>2. i + 1 \in DOMAIN t /\ t[i + 1] = x
      BY <1>1, <1>3, <3>1
    <3> QED
      BY <3>2 DEF Elements
  <2> QED
    BY <2>1, <2>2
<1>9. Elements(t) = Elements(s) \cup {n} /\ t # <<>>
  BY <1>1, <1>3, <1>7, <1>8
<1> QED
  BY <1>2, <1>3, <1>6, <1>9

-----------------------------------------------------------------------------
(* The units of the nodes in K when node n is of f[n] + 1 units.           *)

UnitsOf(K, f) == UNION {{n} \X (0..f[n]) : n \in K}

LEMMA UnitsAdded ==
  ASSUME NEW K, NEW f, NEW n, n \notin K, f[n] \in Nat,
         IsFiniteSet(UnitsOf(K, f))
  PROVE  /\ IsFiniteSet(UnitsOf(K \cup {n}, f))
         /\ Cardinality(UnitsOf(K \cup {n}, f))
              = Cardinality(UnitsOf(K, f)) + (f[n] + 1)
<1>1. PICK A : A = UnitsOf(K, f)
  OBVIOUS
<1>2. PICK B : B = {n} \X (0..f[n])
  OBVIOUS
<1>3. /\ UnitsOf(K \cup {n}, f) = A \cup B
      /\ A \cap B = {}
  <2>1. UnitsOf(K \cup {n}, f) = A \cup B
    BY <1>1, <1>2 DEF UnitsOf
  <2>2. \A u \in B : u[1] = n
    BY <1>2
  <2>3. \A u \in A : u[1] \in K
    BY <1>1 DEF UnitsOf
  <2> QED
    BY <2>1, <2>2, <2>3
<1>4. IsFiniteSet(B) /\ Cardinality(B) = f[n] + 1
  <2>1. IsFiniteSet({n}) /\ Cardinality({n}) = 1
    BY FS_Singleton
  <2>2. IsFiniteSet(0..f[n]) /\ Cardinality(0..f[n]) = f[n] - 0 + 1
    BY FS_Interval
  <2>3. PICK S, T : S = {n} /\ T = 0..f[n]
    OBVIOUS
  <2>4. /\ IsFiniteSet(S \X T)
        /\ Cardinality(S \X T) = Cardinality(S) * Cardinality(T)
    BY <2>1, <2>2, <2>3, FS_Product
  <2>5. Cardinality(S) = 1 /\ Cardinality(T) = f[n] + 1 /\ f[n] + 1 \in Nat
    BY <2>1, <2>2, <2>3
  <2>6. 1 * (f[n] + 1) = f[n] + 1
    OBVIOUS
  <2> QED
    BY <1>2, <2>3, <2>4, <2>5, <2>6
<1>5. IsFiniteSet(A) /\ Cardinality(A) \in Nat
  BY <1>1, FS_CardinalityType
<1>6. /\ IsFiniteSet(A \cup B)
      /\ Cardinality(A \cup B)
           = Cardinality(A) + Cardinality(B) - Cardinality({})
  BY <1>3, <1>4, <1>5, FS_Union
<1>7. Cardinality({}) = 0
  BY FS_EmptySet
<1>8. PICK c \in Nat : c = Cardinality(A)
  BY <1>5
<1>9. c + (f[n] + 1) - 0 = c + (f[n] + 1)
  OBVIOUS
<1>10. Cardinality(A \cup B) = Cardinality(A) + (f[n] + 1)
  BY <1>4, <1>6, <1>7, <1>8, <1>9
<1> QED
  BY <1>1, <1>3, <1>6, <1>10

LEMMA UnitsTaken ==
  ASSUME NEW K, NEW f, NEW n \in K, f[n] \in Nat, IsFiniteSet(UnitsOf(K, f))
  PROVE  /\ IsFiniteSet(UnitsOf(K \ {n}, f))
         /\ Cardinality(UnitsOf(K \ {n}, f)) \in Nat
         /\ Cardinality(UnitsOf(K, f))
              = Cardinality(UnitsOf(K \ {n}, f)) + (f[n] + 1)
<1>1. UnitsOf(K \ {n}, f) \subseteq UnitsOf(K, f)
  BY DEF UnitsOf
<1>2. IsFiniteSet(UnitsOf(K \ {n}, f))
  BY <1>1, FS_Subset
<1>3. PICK J : J = K \ {n}
  OBVIOUS
<1>4. Cardinality(UnitsOf(K, f)) = Cardinality(UnitsOf(J, f)) + (f[n] + 1)
  <2>1. n \notin J /\ J \cup {n} = K /\ IsFiniteSet(UnitsOf(J, f))
    BY <1>2, <1>3
  <2>2. Cardinality(UnitsOf(J \cup {n}, f))
          = Cardinality(UnitsOf(J, f)) + (f[n] + 1)
    BY <2>1, UnitsAdded
  <2> QED
    BY <2>1, <2>2
<1> QED
  BY <1>2, <1>3, <1>4, FS_CardinalityType

Kept == UNION {Listed(i) : i \in DOMAIN m_pfree}

LEMMA KeptUnitsOf == KeptUnits = UnitsOf(Kept, index)
BY DEF KeptUnits, UnitsOf, Kept

\* What the invariant says of the nodes in a list.
LEMMA InList ==
  ASSUME Allocating, NEW i \in 0..(MAX_INDEX - 1), NEW n \in Listed(i)
  PROVE  /\ n \in Node /\ index[n] \in Nat \ {0} /\ n \notin inUse
         /\ i = ListOf(n) /\ n \in Kept
         /\ \A j \in 0..(MAX_INDEX - 1) : n \in Listed(j) => j = i
<1>1. m_pfree \in [0..(MAX_INDEX - 1) -> Seq(Node)] /\ index \in [Node -> Nat]
  BY DEF Allocating, TypeOK
<1>2. n \in Node
  BY <1>1 DEF Listed
<1>3. n \in Kept
  BY <1>1 DEF Kept
<1> QED
  BY <1>1, <1>2, <1>3 DEF Allocating, OnePlace

-----------------------------------------------------------------------------
(* The steps.                                                              *)

LEMMA AllocatingInit == Init => Allocating
<1> SUFFICES ASSUME Init PROVE Allocating
  OBVIOUS
<1>1. \A i \in 0..(MAX_INDEX - 1) : m_pfree[i] = <<>> /\ Listed(i) = {}
  BY DEF Init, Listed
<1>2. TypeOK
  <2>1. /\ 0 \in 0..(MAX_INDEX - 1) /\ m_uiMaxIndex \in Nat
        /\ m_uiCurAllocIndex \in 0..m_uiMaxIndex
    BY IndexAssumption DEF Init
  <2>2. m_pfree \in [0..(MAX_INDEX - 1) -> Seq(Node)]
    BY DEF Init
  <2> QED
    BY <2>1, <2>2 DEF Init, TypeOK
<1>3. OnePlace
  BY <1>1 DEF Init, OnePlace
<1>4. Mapped /\ AtWork
  BY DEF Init, Mapped, AtWork
<1>5. MaxIsLargest
  BY <1>1, IndexAssumption DEF Init, MaxIsLargest, NonEmpty
<1>6. Counted
  <2>1. Kept = {}
    BY <1>1 DEF Init, Kept
  <2>2. KeptUnits = {}
    BY <2>1, KeptUnitsOf DEF UnitsOf
  <2>3. IsFiniteSet(KeptUnits) /\ Cardinality(KeptUnits) = 0
    BY <2>2, FS_EmptySet
  <2>4. m_uiMaxIndex \in Nat /\ m_uiCurAllocIndex = m_uiMaxIndex
    BY IndexAssumption DEF Init
  <2> QED
    BY <2>3, <2>4 DEF Counted, LimitIsExact
<1> QED
  BY <1>2, <1>3, <1>4, <1>5, <1>6 DEF Allocating

\* Steps of a thread that leave the lists and the nodes alone.
LEMMA AllocatingWhenKept ==
  ASSUME Allocating, UNCHANGED <<lists, index, inUse>>,
         pc' \in [Threads -> {"idle", "lists", "large?", "large", "malloc"}],
         size' \in [Threads -> Sizes \cup {0}],
         AtWork'
  PROVE  Allocating'
<1>1. UNCHANGED <<m_pfree, m_uiCurMaxBlockIndex, m_uiCurAllocIndex,
                  m_uiMaxIndex, index, inUse>>
  BY DEF lists
<1>2. TypeOK' /\ Mapped'
  BY <1>1 DEF Allocating, TypeOK, Mapped
<1>3. OnePlace'
  BY <1>1 DEF Allocating, OnePlace, Listed, ListOf
<1>4. MaxIsLargest'
  BY <1>1 DEF Allocating, MaxIsLargest, NonEmpty
<1>5. KeptUnits' = KeptUnits
  BY <1>1 DEF KeptUnits, Listed
<1>6. Counted'
  BY <1>1, <1>5 DEF Allocating, Counted, LimitIsExact
<1> QED
  BY <1>2, <1>3, <1>4, <1>6 DEF Allocating

LEMMA AllocatingAlloc ==
  ASSUME Allocating, NEW t \in Threads, NEW n \in Sizes, Alloc(t, n)
  PROVE  Allocating'
<1>1. /\ pc' \in [Threads -> {"idle", "lists", "large?", "large", "malloc"}]
      /\ size' \in [Threads -> Sizes \cup {0}]
  BY DEF Allocating, TypeOK, Alloc, Goto
<1>2. AtWork'
  <2>1. /\ size'[t] = n /\ ~TooLarge(n) /\ pc'[t] \in {"lists", "large?"}
        /\ pc'[t] = "lists" => IndexOf(n) <= m_uiCurMaxBlockIndex
        /\ \A u \in Threads \ {t} : pc'[u] = pc[u] /\ size'[u] = size[u]
    BY DEF Allocating, TypeOK, Alloc, Goto
  <2>2. m_uiCurMaxBlockIndex \in 0..(MAX_INDEX - 1) /\ IndexOf(n) \in Nat
    BY LargeEnoughSize DEF Allocating, TypeOK
  <2>3. IndexOf(n) <= m_uiCurMaxBlockIndex => IndexOf(n) < MAX_INDEX
    BY <2>2, IndexAssumption
  <2> QED
    BY <2>1, <2>3 DEF Allocating, AtWork
<1> QED
  BY <1>1, <1>2, AllocatingWhenKept DEF Alloc

\* A thread goes on to a look under the mutex, or to malloc().
LEMMA AllocatingGoto ==
  ASSUME Allocating, NEW t \in Threads, NEW l \in {"large", "malloc"},
         pc[t] # "idle", Goto(t, l), UNCHANGED <<lists, index, inUse, size>>
  PROVE  Allocating'
<1>1. /\ pc' \in [Threads -> {"idle", "lists", "large?", "large", "malloc"}]
      /\ size' \in [Threads -> Sizes \cup {0}]
      /\ pc'[t] = l /\ \A u \in Threads \ {t} : pc'[u] = pc[u]
  BY DEF Allocating, TypeOK, Goto
<1>2. AtWork'
  BY <1>1 DEF Allocating, AtWork
<1> QED
  BY <1>1, <1>2, AllocatingWhenKept

\* Alloc() takes node n from list i, and s is what is left of the list.
LEMMA AllocatingWhenTaken ==
  ASSUME Allocating, NEW t \in Threads, NEW i \in 0..(MAX_INDEX - 1),
         NEW n \in Listed(i), NEW s \in Seq(Node),
         Distinct(s), Elements(s) = Listed(i) \ {n},
         m_pfree' = [m_pfree EXCEPT ![i] = s],
         m_uiCurMaxBlockIndex' \in 0..(MAX_INDEX - 1),
         Unkeep(n), HandOut(t, n), UNCHANGED <<index, m_uiMaxIndex>>
  PROVE  TypeOK' /\ OnePlace' /\ Mapped' /\ AtWork' /\ Counted'
<1>1. /\ n \in Node /\ index[n] \in Nat \ {0} /\ n \notin inUse
      /\ i = ListOf(n) /\ n \in Kept
      /\ \A j \in 0..(MAX_INDEX - 1) : n \in Listed(j) => j = i
  BY InList
<1>2. /\ m_pfree \in [0..(MAX_INDEX - 1) -> Seq(Node)]
      /\ m_pfree' \in [0..(MAX_INDEX - 1) -> Seq(Node)]
      /\ m_pfree'[i] = s
      /\ \A j \in 0..(MAX_INDEX - 1) : j # i => m_pfree'[j] = m_pfree[j]
  BY DEF Allocating, TypeOK
<1>3. /\ Listed(i)' = Listed(i) \ {n}
      /\ \A j \in 0..(MAX_INDEX - 1) : j # i => Listed(j)' = Listed(j)
  BY <1>2 DEF Listed, Elements
<1>4. \A j \in 0..(MAX_INDEX - 1) : Listed(j)' = Listed(j) \ {n}
  BY <1>1, <1>3
<1>5. /\ inUse' = inUse \cup {n} /\ size' = size
      /\ pc' = [pc EXCEPT ![t] = "idle"]
      /\ index' = index /\ m_uiMaxIndex' = m_uiMaxIndex
  BY DEF HandOut, Goto
<1>6. OnePlace'
  <2>1. \A j \in DOMAIN m_pfree' : \A k, l \in DOMAIN m_pfree'[j] :
          k # l => m_pfree'[j][k] # m_pfree'[j][l]
    BY <1>2 DEF Allocating, OnePlace, Distinct
  <2>2. ASSUME NEW j \in 0..(MAX_INDEX - 1), NEW m \in Node
        PROVE  m \in Listed(j)' <=>
                 index'[m] # 0 /\ m \notin inUse' /\ j = ListOf(m)'
    <3>1. ListOf(m)' = ListOf(m)
      BY <1>5 DEF ListOf
    <3>2. m \in Listed(j) <=>
            index[m] # 0 /\ m \notin inUse /\ j = ListOf(m)
      BY <1>2 DEF Allocating, OnePlace
    <3> QED
      BY <1>4, <1>5, <3>1, <3>2
  <2> QED
    BY <1>2, <2>1, <2>2 DEF OnePlace
<1>7. Mapped'
  BY <1>1, <1>5 DEF Allocating, Mapped
<1>8. AtWork'
  BY <1>5 DEF Allocating, AtWork, TypeOK
<1>9. /\ DOMAIN m_pfree = 0..(MAX_INDEX - 1)
      /\ DOMAIN m_pfree' = 0..(MAX_INDEX - 1)
  BY <1>2
<1>10. Kept' = Kept \ {n}
  BY <1>4, <1>9 DEF Kept
<1>11. /\ m_uiMaxIndex \in Nat /\ m_uiCurAllocIndex \in 0..m_uiMaxIndex
       /\ m_uiCurAllocIndex' =
            IF m_uiCurAllocIndex + index[n] + 1 < m_uiMaxIndex
            THEN m_uiCurAllocIndex + index[n] + 1 ELSE m_uiMaxIndex
  BY IndexAssumption DEF Allocating, TypeOK, Unkeep, Min
<1>12. m_uiCurAllocIndex' \in 0..m_uiMaxIndex'
  BY <1>1, <1>5, <1>11
<1>13. Counted'
  <2>1. PICK K : K = Kept
    OBVIOUS
  <2>2. PICK f : f = index
    OBVIOUS
  <2>3. IsFiniteSet(UnitsOf(K, f)) /\ n \in K /\ f[n] \in Nat
    BY <1>1, <2>1, <2>2, KeptUnitsOf DEF Allocating, Counted
  <2>4. /\ IsFiniteSet(UnitsOf(K \ {n}, f))
        /\ Cardinality(UnitsOf(K \ {n}, f)) \in Nat
        /\ Cardinality(UnitsOf(K, f))
             = Cardinality(UnitsOf(K \ {n}, f)) + (f[n] + 1)
    BY <2>3, UnitsTaken
  <2>5. KeptUnits' = UnitsOf(K \ {n}, f) /\ KeptUnits = UnitsOf(K, f)
    <3>1. KeptUnits' = UnitsOf(Kept', index')
      BY DEF KeptUnits, UnitsOf, Kept
    <3> QED
      BY <1>5, <1>10, <2>1, <2>2, <3>1, KeptUnitsOf
  <2>6. ASSUME m_uiMaxIndex # 0
        PROVE  m_uiCurAllocIndex' + Cardinality(KeptUnits') = m_uiMaxIndex
    <3>1. PICK c \in Nat : c = Cardinality(KeptUnits')
      BY <2>4, <2>5
    <3>2. m_uiCurAllocIndex + (c + (index[n] + 1)) = m_uiMaxIndex
      BY <2>2, <2>4, <2>5, <2>6, <3>1 DEF Allocating, Counted, LimitIsExact
    <3> QED
      BY <1>1, <1>11, <3>1, <3>2
  <2> QED
    BY <1>5, <2>4, <2>5, <2>6 DEF Counted, LimitIsExact
<1>14. TypeOK'
  <2>1. pc' \in [Threads -> {"idle", "lists", "large?", "large", "malloc"}]
    BY <1>5 DEF Allocating, TypeOK
  <2> QED
    BY <1>1, <1>2, <1>5, <1>12, <2>1 DEF Allocating, TypeOK
<1> QED
  BY <1>6, <1>7, <1>8, <1>13, <1>14

\* The walk ends at the first list with a node, and that node is large enough.
LEMMA FoundInLists ==
  ASSUME Allocating, NEW t \in Threads, TakeFromLists(t)
  PROVE  \E i \in 1..(MAX_INDEX - 1), n \in Node :
           /\ m_pfree[i] # <<>> /\ n = Head(m_pfree[i])
           /\ index[n] >= IndexOf(size[t])
           /\ m_pfree' = [m_pfree EXCEPT ![i] = Tail(m_pfree[i])]
           /\ m_uiCurMaxBlockIndex' =
                IF Tail(m_pfree[i]) = <<>> /\ i >= m_uiCurMaxBlockIndex
                THEN NextLower(m_uiCurMaxBlockIndex)
                ELSE m_uiCurMaxBlockIndex
           /\ Unkeep(n) /\ HandOut(t, n)
           /\ UNCHANGED <<index, m_uiMaxIndex>>
<1>1. /\ size[t] \in Sizes /\ IndexOf(size[t]) < MAX_INDEX
      /\ pc[t] = "lists"
  BY DEF Allocating, AtWork, TakeFromLists
<1>2. PICK I \in 1..(MAX_INDEX - 1) : I = IndexOf(size[t])
  BY <1>1, LargeEnoughSize, IndexAssumption
<1>3. /\ m_uiCurMaxBlockIndex \in 0..(MAX_INDEX - 1)
      /\ m_pfree \in [0..(MAX_INDEX - 1) -> Seq(Node)]
  BY DEF Allocating, TypeOK
<1>4. PICK F : F = NonEmpty(Walked(t))
  OBVIOUS
<1>5. /\ F \in SUBSET Nat /\ F # {}
      /\ \A j \in F : j \in 1..(MAX_INDEX - 1) /\ j >= I /\ m_pfree[j] # <<>>
  <2>1. \A j \in Walked(t) : j \in 1..(MAX_INDEX - 1) /\ j >= I
    BY <1>2, <1>3, IndexAssumption DEF Walked
  <2> QED
    BY <1>4, <2>1 DEF NonEmpty, TakeFromLists
<1>6. PICK i \in F : i = Sets!Min(NonEmpty(Walked(t)))
  BY <1>4, <1>5, MinOf
<1>7. i \in 1..(MAX_INDEX - 1) /\ i >= I /\ m_pfree[i] # <<>>
  BY <1>5, <1>6
<1>8. i \in 0..(MAX_INDEX - 1)
  BY <1>7
<1>9. m_pfree[i] \in Seq(Node) /\ Distinct(m_pfree[i])
  BY <1>3, <1>8 DEF Allocating, OnePlace, Distinct
<1>10. PICK n \in Node : n = Head(m_pfree[i]) /\ n \in Listed(i)
  BY <1>7, <1>9, HeadRemoved DEF Elements, Listed
<1>11. index[n] \in Nat /\ i = ListOf(n)
  BY <1>8, <1>10, InList
<1>12. index[n] = i
  BY <1>7, <1>11 DEF ListOf
<1>13. index[n] >= IndexOf(size[t])
  BY <1>2, <1>7, <1>12
<1> QED
  BY <1>6, <1>7, <1>10, <1>13 DEF TakeFromLists

LEMMA AllocatingFromLists ==
  ASSUME Allocating, NEW t \in Threads, TakeFromLists(t)
  PROVE  Allocating'
<1>1. PICK i \in 1..(MAX_INDEX - 1), n \in Node :
           /\ m_pfree[i] # <<>> /\ n = Head(m_pfree[i])
           /\ m_pfree' = [m_pfree EXCEPT ![i] = Tail(m_pfree[i])]
           /\ m_uiCurMaxBlockIndex' =
                IF Tail(m_pfree[i]) = <<>> /\ i >= m_uiCurMaxBlockIndex
                THEN NextLower(m_uiCurMaxBlockIndex)
                ELSE m_uiCurMaxBlockIndex
           /\ Unkeep(n) /\ HandOut(t, n)
           /\ UNCHANGED <<index, m_uiMaxIndex>>
  BY FoundInLists
<1>2. /\ i \in 0..(MAX_INDEX - 1)
      /\ m_pfree \in [0..(MAX_INDEX - 1) -> Seq(Node)]
      /\ m_uiCurMaxBlockIndex \in 0..(MAX_INDEX - 1)
  BY DEF Allocating, TypeOK
<1>3. m_pfree[i] \in Seq(Node) /\ Distinct(m_pfree[i])
  BY <1>2 DEF Allocating, OnePlace, Distinct
<1>4. PICK s \in Seq(Node) : s = Tail(m_pfree[i])
  BY <1>1, <1>3, HeadRemoved
<1>5. n \in Listed(i) /\ Distinct(s) /\ Elements(s) = Listed(i) \ {n}
  <2>1. PICK l \in Seq(Node) : l = m_pfree[i] /\ l # <<>> /\ Distinct(l)
    BY <1>1, <1>3
  <2>2. Elements(l) = Listed(i)
    BY <2>1 DEF Elements, Listed
  <2>3. /\ Head(l) \in Elements(l) /\ Distinct(Tail(l))
        /\ Elements(Tail(l)) = Elements(l) \ {Head(l)}
    BY <2>1, HeadRemoved
  <2> QED
    BY <1>1, <1>4, <2>1, <2>2, <2>3
<1>6. PICK top \in 0..(MAX_INDEX - 1) : top = m_uiCurMaxBlockIndex
  BY <1>2
<1>7. i <= top /\ \A j \in 1..(MAX_INDEX - 1) : m_pfree[j] # <<>> => j <= top
  BY <1>1, <1>6 DEF Allocating, MaxIsLargest, NonEmpty
<1>8. /\ m_pfree'[i] = s
      /\ \A j \in 1..(MAX_INDEX - 1) : j # i => m_pfree'[j] = m_pfree[j]
  BY <1>1, <1>2, <1>4
<1>9. CASE s = <<>> /\ i >= top
  <2>1. i = top
    BY <1>7, <1>9
  <2>2. PICK L : L = {0} \cup NonEmpty(1..(i - 1))
    OBVIOUS
  <2>3. L \in SUBSET (0..(MAX_INDEX - 1)) /\ L # {} /\ MAX_INDEX - 1 \in Nat
    BY <2>2, IndexAssumption DEF NonEmpty
  <2>4. PICK g \in L : g = Sets!Max(L) /\ \A j \in L : g >= j
    BY <2>3, MaxOf
  <2>5. m_uiCurMaxBlockIndex' = g
    BY <1>1, <1>4, <1>6, <1>9, <2>1, <2>2, <2>4 DEF NextLower
  <2>6. g \in 0..(MAX_INDEX - 1)
    BY <2>3
  <2>7. \A j \in 1..(MAX_INDEX - 1) :
          m_pfree'[j] # <<>> <=> j \in L
    <3>1. ASSUME NEW j \in 1..(MAX_INDEX - 1)
          PROVE  m_pfree'[j] # <<>> <=> j \in L
      <4>1. CASE j = i
        BY <1>8, <1>9, <2>2, <4>1 DEF NonEmpty
      <4>2. CASE j < i
        BY <1>8, <2>2, <4>2 DEF NonEmpty
      <4>3. CASE j > i
        BY <1>7, <1>8, <2>1, <2>2, <4>3 DEF NonEmpty
      <4> QED
        BY <4>1, <4>2, <4>3
    <3> QED
      BY <3>1
  <2>8. /\ g = 0 \/ (g \in 1..(MAX_INDEX - 1) /\ m_pfree'[g] # <<>>)
        /\ \A j \in 1..(MAX_INDEX - 1) : m_pfree'[j] # <<>> => j <= g
    BY <2>4, <2>6, <2>7
  <2>9. MaxIsLargest' /\ m_uiCurMaxBlockIndex' \in 0..(MAX_INDEX - 1)
    BY <2>5, <2>6, <2>8 DEF MaxIsLargest, NonEmpty
  <2> QED
    BY <1>1, <1>2, <1>4, <1>5, <2>9, AllocatingWhenTaken DEF Allocating
<1>10. CASE ~(s = <<>> /\ i >= top)
  <2>1. m_uiCurMaxBlockIndex' = top
    BY <1>1, <1>4, <1>6, <1>10
  <2>2. /\ top = 0 \/ (top \in 1..(MAX_INDEX - 1) /\ m_pfree[top] # <<>>)
    BY <1>6 DEF Allocating, MaxIsLargest, NonEmpty
  <2>3. top = 0 \/ (top \in 1..(MAX_INDEX - 1) /\ m_pfree'[top] # <<>>)
    <3>1. CASE top = i
      BY <1>8, <1>10, <3>1
    <3>2. CASE top # i
      BY <1>8, <2>2, <3>2
    <3> QED
      BY <3>1, <3>2
  <2>4. \A j \in 1..(MAX_INDEX - 1) : m_pfree'[j] # <<>> => j <= top
    BY <1>7, <1>8
  <2>5. MaxIsLargest' /\ m_uiCurMaxBlockIndex' \in 0..(MAX_INDEX - 1)
    BY <2>1, <2>3, <2>4 DEF MaxIsLargest, NonEmpty
  <2> QED
    BY <1>1, <1>2, <1>4, <1>5, <2>5, AllocatingWhenTaken DEF Allocating
<1> QED
  BY <1>9, <1>10

\* The first of the larger nodes that is large enough is taken.
LEMMA FoundLarge ==
  ASSUME Allocating, NEW t \in Threads, TakeLarge(t)
  PROVE  \E k \in 1..Len(m_pfree[0]), n \in Node :
           /\ n = m_pfree[0][k]
           /\ index[n] >= IndexOf(size[t])
           /\ m_pfree' = [m_pfree EXCEPT ![0] = RemovedAt(m_pfree[0], k)]
           /\ Unkeep(n) /\ HandOut(t, n)
           /\ UNCHANGED <<m_uiCurMaxBlockIndex, m_uiMaxIndex, index>>
<1>1. /\ 0 \in 0..(MAX_INDEX - 1)
      /\ m_pfree \in [0..(MAX_INDEX - 1) -> Seq(Node)]
  BY IndexAssumption DEF Allocating, TypeOK
<1>2. PICK l \in Seq(Node) : l = m_pfree[0]
  BY <1>1
<1>3. PICK F : F = Fitting(t)
  OBVIOUS
<1>4. Len(l) \in Nat
  BY <1>2, LenProperties
<1>5. F \in SUBSET Nat /\ F # {} /\ F \subseteq 1..Len(l)
  BY <1>2, <1>3, <1>4 DEF Fitting, TakeLarge
<1>6. PICK k \in F : k = Sets!Min(Fitting(t))
  BY <1>3, <1>5, MinOf
<1>7. PICK n \in Node : n = m_pfree[0][k]
  BY <1>2, <1>5, <1>6, ElementOfSeq
<1>8. index[n] >= IndexOf(size[t])
  BY <1>3, <1>6, <1>7 DEF Fitting
<1>9. /\ m_pfree' = [m_pfree EXCEPT ![0] =
                       SubSeq(m_pfree[0], 1, k - 1)
                         \o SubSeq(m_pfree[0], k + 1, Len(m_pfree[0]))]
      /\ Unkeep(n) /\ HandOut(t, n)
      /\ UNCHANGED <<m_uiCurMaxBlockIndex, m_uiMaxIndex, index>>
  BY <1>6, <1>7 DEF TakeLarge
<1>10. k \in 1..Len(m_pfree[0])
  BY <1>2, <1>5, <1>6
<1> QED
  BY <1>7, <1>8, <1>9, <1>10 DEF RemovedAt

LEMMA AllocatingLarge ==
  ASSUME Allocating, NEW t \in Threads, TakeLarge(t)
  PROVE  Allocating'
<1>1. PICK k \in 1..Len(m_pfree[0]), n \in Node :
           /\ n = m_pfree[0][k]
           /\ m_pfree' = [m_pfree EXCEPT ![0] = RemovedAt(m_pfree[0], k)]
           /\ Unkeep(n) /\ HandOut(t, n)
           /\ UNCHANGED <<m_uiCurMaxBlockIndex, m_uiMaxIndex, index>>
  BY FoundLarge
<1>2. /\ 0 \in 0..(MAX_INDEX - 1)
      /\ m_pfree \in [0..(MAX_INDEX - 1) -> Seq(Node)]
      /\ m_uiCurMaxBlockIndex \in 0..(MAX_INDEX - 1)
  BY IndexAssumption DEF Allocating, TypeOK
<1>3. PICK l \in Seq(Node) : l = m_pfree[0] /\ Distinct(l)
  BY <1>2 DEF Allocating, OnePlace, Distinct
<1>4. k \in 1..Len(l) /\ n = l[k] /\ Elements(l) = Listed(0)
  BY <1>1, <1>3 DEF Elements, Listed
<1>5. /\ RemovedAt(l, k) \in Seq(Node)
      /\ Distinct(RemovedAt(l, k))
      /\ Elements(RemovedAt(l, k)) = Elements(l) \ {l[k]}
  BY <1>3, <1>4, Removed
<1>6. PICK s \in Seq(Node) : s = RemovedAt(l, k)
  BY <1>5
<1>7. n \in Listed(0)
  BY <1>3, <1>4, LenProperties DEF Elements
<1>8. m_pfree' = [m_pfree EXCEPT ![0] = s]
  BY <1>1, <1>3, <1>6
<1>9. TypeOK' /\ OnePlace' /\ Mapped' /\ AtWork' /\ Counted'
  <2>1. Distinct(s) /\ Elements(s) = Listed(0) \ {n}
    BY <1>4, <1>5, <1>6
  <2>2. m_uiCurMaxBlockIndex' \in 0..(MAX_INDEX - 1)
    BY <1>1, <1>2
  <2> QED
    BY <1>1, <1>2, <1>7, <1>8, <2>1, <2>2, AllocatingWhenTaken
<1>10. MaxIsLargest'
  <2>1. \A j \in 1..(MAX_INDEX - 1) : m_pfree'[j] = m_pfree[j]
    BY <1>2, <1>8
  <2> QED
    BY <1>1, <2>1 DEF Allocating, MaxIsLargest, NonEmpty
<1> QED
  BY <1>9, <1>10 DEF Allocating

\* malloc() returns a node nobody has.
LEMMA AllocatingMalloc ==
  ASSUME Allocating, NEW t \in Threads, Malloc(t)
  PROVE  Allocating'
<1>1. /\ UNCHANGED <<m_pfree, m_uiCurMaxBlockIndex, m_uiCurAllocIndex,
                     m_uiMaxIndex>>
      /\ pc[t] = "malloc" /\ size[t] \in Sizes
  BY DEF Malloc, lists, Allocating, AtWork
<1>2. CASE Goto(t, "idle") /\ UNCHANGED <<index, inUse, size>>
  <2>1. /\ pc' \in [Threads -> {"idle", "lists", "large?", "large", "malloc"}]
        /\ size' \in [Threads -> Sizes \cup {0}]
        /\ pc'[t] = "idle" /\ \A u \in Threads \ {t} : pc'[u] = pc[u]
    BY <1>2 DEF Allocating, TypeOK, Goto
  <2>2. AtWork'
    BY <1>2, <2>1 DEF Allocating, AtWork
  <2> QED
    BY <1>1, <1>2, <2>1, <2>2, AllocatingWhenKept DEF lists
<1>3. ASSUME NEW n \in Node, index[n] = 0,
             index' = [index EXCEPT ![n] = IndexOf(size[t])],
             HandOut(t, n)
      PROVE  Allocating'
  <2>1. IndexOf(size[t]) \in Nat \ {0}
    BY <1>1, LargeEnoughSize
  <2>2. /\ index \in [Node -> Nat] /\ index' \in [Node -> Nat]
        /\ index'[n] # 0
        /\ \A m \in Node \ {n} : index'[m] = index[m]
    BY <1>3, <2>1 DEF Allocating, TypeOK
  <2>3. /\ inUse' = inUse \cup {n} /\ size' = size
        /\ pc' = [pc EXCEPT ![t] = "idle"]
    BY <1>3 DEF HandOut, Goto
  <2>4. DOMAIN m_pfree = 0..(MAX_INDEX - 1)
    BY DEF Allocating, TypeOK
  <2>5. \A j \in 0..(MAX_INDEX - 1) :
          Listed(j)' = Listed(j) /\ n \notin Listed(j)
    BY <1>1, <1>3, <2>4 DEF Listed, Allocating, OnePlace
  <2>6. TypeOK'
    <3>1. pc' \in [Threads -> {"idle", "lists", "large?", "large", "malloc"}]
      BY <2>3 DEF Allocating, TypeOK
    <3> QED
      BY <1>1, <2>2, <2>3, <3>1 DEF Allocating, TypeOK
  <2>7. OnePlace'
    <3>1. ASSUME NEW j \in 0..(MAX_INDEX - 1), NEW m \in Node
          PROVE  m \in Listed(j)' <=>
                   index'[m] # 0 /\ m \notin inUse' /\ j = ListOf(m)'
      <4>1. m \in Listed(j) <=>
              index[m] # 0 /\ m \notin inUse /\ j = ListOf(m)
        BY <2>4 DEF Allocating, OnePlace
      <4>2. CASE m = n
        BY <2>3, <2>5, <4>2
      <4>3. CASE m # n
        BY <2>2, <2>3, <2>5, <4>1, <4>3 DEF ListOf
      <4> QED
        BY <4>2, <4>3
    <3> QED
      BY <1>1, <2>4, <3>1 DEF Allocating, OnePlace
  <2>8. Mapped'
    BY <2>2, <2>3 DEF Allocating, Mapped, TypeOK
  <2>9. AtWork'
    BY <2>3 DEF Allocating, AtWork, TypeOK
  <2>10. MaxIsLargest'
    BY <1>1 DEF Allocating, MaxIsLargest, NonEmpty
  <2>11. KeptUnits' = KeptUnits
    <3>1. Kept' = Kept /\ Kept \subseteq Node /\ n \notin Kept
      <4>1. \A j \in 0..(MAX_INDEX - 1) : Listed(j) \subseteq Node
        BY InList
      <4> QED
        BY <1>1, <2>4, <2>5, <4>1 DEF Kept
    <3>2. \A m \in Kept : index'[m] = index[m]
      BY <2>2, <3>1
    <3>3. /\ KeptUnits = UNION {{m} \X (0..index[m]) : m \in Kept}
          /\ KeptUnits' = UNION {{m} \X (0..index'[m]) : m \in Kept'}
      BY DEF KeptUnits, Kept
    <3> QED
      BY <3>1, <3>2, <3>3
  <2>12. Counted'
    BY <1>1, <2>11 DEF Allocating, Counted, LimitIsExact
  <2> QED
    BY <2>6, <2>7, <2>8, <2>9, <2>10, <2>12 DEF Allocating
<1> QED
  BY <1>2, <1>3 DEF Malloc

\* Free() gives a node that exceeds the limit back to the system.
LEMMA AllocatingFreeUp ==
  ASSUME Allocating, NEW n \in inUse,
         index' = [index EXCEPT ![n] = 0], inUse' = inUse \ {n},
         UNCHANGED <<lists, pc, size>>
  PROVE  Allocating'
<1>1. UNCHANGED <<m_pfree, m_uiCurMaxBlockIndex, m_uiCurAllocIndex,
                  m_uiMaxIndex>>
  BY DEF lists
<1>2. /\ n \in Node /\ index \in [Node -> Nat] /\ index' \in [Node -> Nat]
      /\ index'[n] = 0
      /\ \A m \in Node \ {n} : index'[m] = index[m]
  BY DEF Allocating, TypeOK
<1>3. DOMAIN m_pfree = 0..(MAX_INDEX - 1)
  BY DEF Allocating, TypeOK
<1>4. \A j \in 0..(MAX_INDEX - 1) :
        Listed(j)' = Listed(j) /\ n \notin Listed(j) /\ Listed(j) \subseteq Node
  BY <1>1, InList DEF Listed
<1>5. TypeOK'
  BY <1>1, <1>2 DEF Allocating, TypeOK
<1>6. OnePlace'
  <2>1. ASSUME NEW j \in 0..(MAX_INDEX - 1), NEW m \in Node
        PROVE  m \in Listed(j)' <=>
                 index'[m] # 0 /\ m \notin inUse' /\ j = ListOf(m)'
    <3>1. m \in Listed(j) <=>
            index[m] # 0 /\ m \notin inUse /\ j = ListOf(m)
      BY <1>3 DEF Allocating, OnePlace
    <3>2. CASE m = n
      BY <1>2, <1>4, <3>2
    <3>3. CASE m # n
      BY <1>2, <1>4, <3>1, <3>3 DEF ListOf
    <3> QED
      BY <3>2, <3>3
  <2> QED
    BY <1>1, <1>3, <2>1 DEF Allocating, OnePlace
<1>7. Mapped'
  BY <1>2 DEF Allocating, Mapped, TypeOK
<1>8. AtWork' /\ MaxIsLargest'
  BY <1>1 DEF Allocating, AtWork, MaxIsLargest, NonEmpty
<1>9. KeptUnits' = KeptUnits
  <2>1. Kept' = Kept /\ Kept \subseteq Node /\ n \notin Kept
    BY <1>1, <1>3, <1>4 DEF Kept
  <2>2. \A m \in Kept : index'[m] = index[m]
    BY <1>2, <2>1
  <2>3. /\ KeptUnits = UNION {{m} \X (0..index[m]) : m \in Kept}
        /\ KeptUnits' = UNION {{m} \X (0..index'[m]) : m \in Kept'}
    BY DEF KeptUnits, Kept
  <2> QED
    BY <2>1, <2>2, <2>3
<1>10. Counted'
  BY <1>1, <1>9 DEF Allocating, Counted, LimitIsExact
<1> QED
  BY <1>5, <1>6, <1>7, <1>8, <1>10 DEF Allocating

\* Free() keeps a node that does not.
LEMMA AllocatingKeep ==
  ASSUME Allocating, NEW n \in inUse,
         ~(m_uiMaxIndex # 0 /\ index[n] + 1 > m_uiCurAllocIndex),
         Keep(n), inUse' = inUse \ {n}, UNCHANGED <<pc, size>>
  PROVE  Allocating'
<1>1. /\ n \in Node /\ index[n] \in Nat \ {0}
      /\ m_uiMaxIndex \in Nat /\ m_uiCurAllocIndex \in 0..m_uiMaxIndex
      /\ m_uiCurMaxBlockIndex \in 0..(MAX_INDEX - 1)
      /\ m_pfree \in [0..(MAX_INDEX - 1) -> Seq(Node)]
  BY IndexAssumption DEF Allocating, TypeOK, Mapped
<1>2. UNCHANGED <<index, m_uiMaxIndex>>
  BY DEF Keep
<1>3. PICK i \in 0..(MAX_INDEX - 1) : i = ListOf(n)
  BY <1>1, IndexAssumption DEF ListOf
<1>4. PICK l \in Seq(Node) : l = m_pfree[i] /\ Distinct(l)
  BY <1>1 DEF Allocating, OnePlace, Distinct
<1>5. Elements(l) = Listed(i)
  BY <1>4 DEF Elements, Listed
<1>6. \A j \in 0..(MAX_INDEX - 1) : n \notin Listed(j)
  BY InList
<1>7. /\ <<n>> \o l \in Seq(Node)
      /\ Distinct(<<n>> \o l)
      /\ Elements(<<n>> \o l) = Elements(l) \cup {n}
      /\ <<n>> \o l # <<>>
  BY <1>1, <1>4, <1>5, <1>6, Added
<1>8. PICK s \in Seq(Node) : s = <<n>> \o l
  BY <1>7
<1>9. /\ m_pfree' = [m_pfree EXCEPT ![i] = s]
      /\ m_pfree' \in [0..(MAX_INDEX - 1) -> Seq(Node)]
  BY <1>1, <1>3, <1>4, <1>8 DEF Keep
<1>10. /\ m_pfree'[i] = s
       /\ \A j \in 0..(MAX_INDEX - 1) : j # i => m_pfree'[j] = m_pfree[j]
  BY <1>1, <1>9
<1>11. /\ Listed(i)' = Listed(i) \cup {n}
       /\ \A j \in 0..(MAX_INDEX - 1) : j # i => Listed(j)' = Listed(j)
  <2>1. Elements(s) = Listed(i) \cup {n}
    BY <1>5, <1>7, <1>8
  <2> QED
    BY <1>10, <2>1 DEF Listed, Elements
<1>12. OnePlace'
  <2>1. \A j \in DOMAIN m_pfree' : \A k, m \in DOMAIN m_pfree'[j] :
          k # m => m_pfree'[j][k] # m_pfree'[j][m]
    BY <1>1, <1>7, <1>8, <1>9, <1>10 DEF Allocating, OnePlace, Distinct
  <2>2. ASSUME NEW j \in 0..(MAX_INDEX - 1), NEW m \in Node
        PROVE  m \in Listed(j)' <=>
                 index'[m] # 0 /\ m \notin inUse' /\ j = ListOf(m)'
    <3>1. ListOf(m)' = ListOf(m)
      BY <1>2 DEF ListOf
    <3>2. m \in Listed(j) <=>
            index[m] # 0 /\ m \notin inUse /\ j = ListOf(m)
      BY <1>1 DEF Allocating, OnePlace
    <3>3. m \in Listed(j)' <=> m \in Listed(j) \/ (m = n /\ j = i)
      BY <1>11
    <3>4. CASE m = n
      BY <1>1, <1>2, <1>3, <1>6, <3>1, <3>3, <3>4
    <3>5. CASE m # n
      BY <1>2, <3>1, <3>2, <3>3, <3>5
    <3> QED
      BY <3>4, <3>5
  <2> QED
    BY <1>9, <2>1, <2>2 DEF OnePlace
<1>13. Mapped' /\ AtWork'
  BY <1>2 DEF Allocating, Mapped, AtWork
<1>14. PICK top \in 0..(MAX_INDEX - 1) : top = m_uiCurMaxBlockIndex
  BY <1>1
<1>15. m_uiCurMaxBlockIndex' = IF l = <<>> /\ i > top THEN i ELSE top
  BY <1>3, <1>4, <1>14 DEF Keep
<1>16. MaxIsLargest' /\ m_uiCurMaxBlockIndex' \in 0..(MAX_INDEX - 1)
  <2>1. /\ top = 0 \/ (top \in 1..(MAX_INDEX - 1) /\ m_pfree[top] # <<>>)
        /\ \A j \in 1..(MAX_INDEX - 1) : m_pfree[j] # <<>> => j <= top
    BY <1>14 DEF Allocating, MaxIsLargest, NonEmpty
  <2>2. PICK g \in 0..(MAX_INDEX - 1) : g = m_uiCurMaxBlockIndex'
    BY <1>15
  <2>3. g >= top /\ g >= i /\ (g = top \/ g = i)
    <3>1. l # <<>> => i <= top
      BY <1>4, <2>1
    <3> QED
      BY <1>15, <2>2, <3>1
  <2>4. \A j \in 1..(MAX_INDEX - 1) :
          m_pfree'[j] # <<>> <=> m_pfree[j] # <<>> \/ j = i
    BY <1>7, <1>8, <1>10
  <2>5. /\ g = 0 \/ (g \in 1..(MAX_INDEX - 1) /\ m_pfree'[g] # <<>>)
        /\ \A j \in 1..(MAX_INDEX - 1) : m_pfree'[j] # <<>> => j <= g
    BY <2>1, <2>3, <2>4
  <2> QED
    BY <2>2, <2>5 DEF MaxIsLargest, NonEmpty
<1>17. m_uiCurAllocIndex' =
         IF m_uiCurAllocIndex >= index[n] + 1
         THEN m_uiCurAllocIndex - (index[n] + 1) ELSE 0
  BY DEF Keep
<1>18. m_uiCurAllocIndex' \in 0..m_uiMaxIndex'
  BY <1>1, <1>2, <1>17
<1>19. Kept' = Kept \cup {n} /\ n \notin Kept
  BY <1>1, <1>6, <1>9, <1>11 DEF Kept
<1>20. Counted'
  <2>1. PICK K : K = Kept
    OBVIOUS
  <2>2. PICK f : f = index
    OBVIOUS
  <2>3. IsFiniteSet(UnitsOf(K, f)) /\ n \notin K /\ f[n] \in Nat
    BY <1>1, <1>19, <2>1, <2>2, KeptUnitsOf DEF Allocating, Counted
  <2>4. /\ IsFiniteSet(UnitsOf(K \cup {n}, f))
        /\ Cardinality(UnitsOf(K \cup {n}, f))
             = Cardinality(UnitsOf(K, f)) + (f[n] + 1)
    BY <2>3, UnitsAdded
  <2>5. KeptUnits' = UnitsOf(K \cup {n}, f) /\ KeptUnits = UnitsOf(K, f)
    <3>1. KeptUnits' = UnitsOf(Kept', index')
      BY DEF KeptUnits, UnitsOf, Kept
    <3> QED
      BY <1>2, <1>19, <2>1, <2>2, <3>1, KeptUnitsOf
  <2>6. ASSUME m_uiMaxIndex # 0
        PROVE  m_uiCurAllocIndex' + Cardinality(KeptUnits') = m_uiMaxIndex
    <3>1. PICK c \in Nat : c = Cardinality(KeptUnits)
      BY <2>3, <2>5, FS_CardinalityType
    <3>2. m_uiCurAllocIndex + c = m_uiMaxIndex
      BY <2>6, <3>1 DEF Allocating, Counted, LimitIsExact
    <3>3. Cardinality(KeptUnits') = c + (index[n] + 1)
      BY <2>2, <2>4, <2>5, <3>1
    <3>4. m_uiCurAllocIndex' = m_uiCurAllocIndex - (index[n] + 1)
      BY <1>1, <1>17, <2>6
    <3> QED
      BY <1>1, <3>1, <3>2, <3>3, <3>4
  <2> QED
    BY <1>2, <2>4, <2>5, <2>6 DEF Counted, LimitIsExact
<1>21. TypeOK'
  <2>1. pc' \in [Threads -> {"idle", "lists", "large?", "large", "malloc"}]
    BY DEF Allocating, TypeOK
  <2> QED
    BY <1>2, <1>9, <1>16, <1>18, <2>1 DEF Allocating, TypeOK
<1> QED
  BY <1>12, <1>13, <1>16, <1>20, <1>21 DEF Allocating

LEMMA AllocatingFree ==
  ASSUME Allocating, NEW t \in Threads, NEW n \in Node, Free(t, n)
  PROVE  Allocating'
<1>1. n \in inUse /\ inUse' = inUse \ {n} /\ UNCHANGED <<pc, size>>
  BY DEF Free
<1>2. CASE m_uiMaxIndex # 0 /\ index[n] + 1 > m_uiCurAllocIndex
  BY <1>1, <1>2, AllocatingFreeUp DEF Free
<1>3. CASE ~(m_uiMaxIndex # 0 /\ index[n] + 1 > m_uiCurAllocIndex)
  BY <1>1, <1>3, AllocatingKeep DEF Free
<1> QED
  BY <1>2, <1>3

LEMMA AllocatingNext == Allocating /\ [Next]_vars => Allocating'
<1> SUFFICES ASSUME Allocating, [Next]_vars PROVE Allocating'
  OBVIOUS
<1>1. ASSUME NEW t \in Threads, NEW n \in Sizes, Alloc(t, n)
      PROVE  Allocating'
  BY <1>1, AllocatingAlloc
<1>2. ASSUME NEW t \in Threads, LookForLarge(t)
      PROVE  Allocating'
  <2>1. PICK l \in {"large", "malloc"} : Goto(t, l)
    BY <1>2 DEF LookForLarge
  <2> QED
    BY <1>2, <2>1, AllocatingGoto DEF LookForLarge
<1>3. ASSUME NEW t \in Threads, TakeFromLists(t)
      PROVE  Allocating'
  BY <1>3, AllocatingFromLists
<1>4. ASSUME NEW t \in Threads, TakeLarge(t)
      PROVE  Allocating'
  BY <1>4, AllocatingLarge
<1>5. ASSUME NEW t \in Threads, FindNothing(t)
      PROVE  Allocating'
  BY <1>5, AllocatingGoto DEF FindNothing
<1>6. ASSUME NEW t \in Threads, Malloc(t)
      PROVE  Allocating'
  BY <1>6, AllocatingMalloc
<1>7. ASSUME NEW t \in Threads, NEW n \in Node, Free(t, n)
      PROVE  Allocating'
  BY <1>7, AllocatingFree
<1>8. CASE UNCHANGED vars
  <2>1. UNCHANGED <<lists, index, inUse, pc, size>>
    BY <1>8 DEF vars
  <2>2. AtWork' /\ pc' = pc /\ size' = size
    BY <2>1 DEF Allocating, AtWork
  <2> QED
    BY <2>1, <2>2, AllocatingWhenKept DEF Allocating, TypeOK
<1> QED
  BY <1>1, <1>2, <1>3, <1>4, <1>5, <1>6, <1>7, <1>8 DEF Next, Step

LEMMA AllocatingAlways == Spec => []Allocating
<1> QED
  BY AllocatingInit, AllocatingNext, PTL DEF Spec

-----------------------------------------------------------------------------
(* The theorems.                                                           *)

\* Every variable of the allocator keeps its type; with it, what may still be
\* kept never exceeds the limit, although Alloc() adds to it without a test
\* before it is cut.
THEOREM TypeCorrect == Spec => []TypeOK
<1>1. Allocating => TypeOK
  BY DEF Allocating
<1> QED
  BY <1>1, AllocatingAlways, PTL

\* A node Alloc() got from malloc() is handed out, or in one list, once: no
\* memory is handed out to two threads, whatever they saw before they locked.
THEOREM OnePlaceHolds == Spec => []OnePlace
<1>1. Allocating => OnePlace
  BY DEF Allocating
<1> QED
  BY <1>1, AllocatingAlways, PTL

\* m_uiCurMaxBlockIndex is the largest list with a node, so Alloc()'s loop ends
\* inside m_pfree and hides no node from it.
THEOREM MaxIsExactHolds == Spec => []MaxIsExact
<1>1. Allocating => MaxIsExact
  <2> SUFFICES ASSUME Allocating PROVE MaxIsExact
    OBVIOUS
  <2>1. PICK L : L = {0} \cup NonEmpty(1..(MAX_INDEX - 1))
    OBVIOUS
  <2>2. L \in SUBSET Nat
    BY <2>1, IndexAssumption DEF NonEmpty
  <2>3. PICK top \in L : top = m_uiCurMaxBlockIndex
    BY <2>1 DEF Allocating, MaxIsLargest
  <2>4. m_uiCurMaxBlockIndex \in Nat
    BY IndexAssumption DEF Allocating, TypeOK
  <2>5. \A j \in L : top >= j
    BY <2>1, <2>2, <2>3, <2>4 DEF Allocating, MaxIsLargest
  <2>6. Sets!Max(L) = top
    BY <2>2, <2>5, MaxIs
  <2> QED
    BY <2>1, <2>3, <2>6 DEF MaxIsExact
<1> QED
  BY <1>1, AllocatingAlways, PTL

\* With a limit, the units in the lists and those that may still be put there
\* add up to it: no sequence of Alloc() and Free() loses or gains any.
THEOREM LimitIsExactHolds == Spec => []LimitIsExact
<1>1. Allocating => LimitIsExact
  BY DEF Allocating, Counted
<1> QED
  BY <1>1, AllocatingAlways, PTL

\* Nodes of more units have more bytes.
LEMMA MoreUnits ==
  ASSUME NEW a \in Nat, NEW c \in Nat, a >= c
  PROVE  (a + 1) * BOUNDARY_SIZE >= (c + 1) * BOUNDARY_SIZE
<1>1. PICK b \in Nat : b = BOUNDARY_SIZE
  BY Units
<1>2. PICK d \in Nat : a = c + d
  <2>1. a - c \in Nat /\ a = c + (a - c)
    OBVIOUS
  <2> QED
    BY <2>1
<1>3. (a + 1) * b = (c + 1) * b + d * b /\ d * b >= 0 /\ (c + 1) * b \in Nat
  BY <1>2
<1>4. (a + 1) * b >= (c + 1) * b
  BY <1>3
<1> QED
  BY <1>1, <1>4

\* What Alloc() returns is as large as what was asked for, for every size and
\* however the sums wrap: it returns NULL for a size it cannot satisfy.
THEOREM LargeEnoughHolds == Spec => LargeEnough
<1>1. ASSUME Allocating, [Next]_vars,
             NEW t \in Threads, NEW n \in Node,
             n \in inUse' \ inUse, pc[t] # pc'[t]
      PROVE  (index'[n] + 1) * BOUNDARY_SIZE - MemNodeSize >= size[t]
  <2>1. index \in [Node -> Nat] /\ DOMAIN pc = Threads
    BY <1>1 DEF Allocating, TypeOK
  <2>2. PICK u \in Threads : Step(u)
    BY <1>1 DEF Next, vars
  <2>3. /\ inUse' # inUse
        /\ ~(inUse' \subseteq inUse)
    BY <1>1
  <2>4. \/ TakeFromLists(u) \/ TakeLarge(u) \/ Malloc(u)
    BY <2>2, <2>3 DEF Step, Alloc, LookForLarge, FindNothing, Free
  <2>5. pc' = [pc EXCEPT ![u] = "idle"]
    BY <2>4 DEF TakeFromLists, TakeLarge, Malloc, HandOut, Goto
  <2>6. u = t
    BY <1>1, <2>1, <2>5
  <2>7. /\ size[t] \in Sizes /\ ~TooLarge(size[t])
    BY <1>1, <2>4, <2>6
       DEF Allocating, AtWork, TakeFromLists, TakeLarge, Malloc
  <2>8. PICK I \in Nat : I = IndexOf(size[t])
    BY <2>7, LargeEnoughSize
  <2>9. index'[n] \in Nat /\ index'[n] >= I
    <3>1. CASE TakeFromLists(u)
      <4>1. PICK m \in Node : HandOut(t, m) /\ index[m] >= I /\ index' = index
        BY <1>1, <2>6, <2>8, <3>1, FoundInLists
      <4>2. m = n
        BY <1>1, <4>1 DEF HandOut
      <4> QED
        BY <2>1, <4>1, <4>2
    <3>2. CASE TakeLarge(u)
      <4>1. PICK m \in Node : HandOut(t, m) /\ index[m] >= I /\ index' = index
        BY <1>1, <2>6, <2>8, <3>2, FoundLarge
      <4>2. m = n
        BY <1>1, <4>1 DEF HandOut
      <4> QED
        BY <2>1, <4>1, <4>2
    <3>3. CASE Malloc(u)
      <4>1. PICK m \in Node : /\ HandOut(t, m)
                              /\ index' = [index EXCEPT ![m] = I]
        BY <2>3, <2>6, <2>8, <3>3 DEF Malloc
      <4>2. m = n
        BY <1>1, <4>1 DEF HandOut
      <4> QED
        BY <2>1, <4>1, <4>2
    <3> QED
      BY <2>4, <3>1, <3>2, <3>3
  <2>10. (I + 1) * BOUNDARY_SIZE - MemNodeSize >= size[t]
    BY <2>7, <2>8, LargeEnoughSize
  <2>11. PICK a \in Nat : a = index'[n]
    BY <2>9
  <2>12. (a + 1) * BOUNDARY_SIZE >= (I + 1) * BOUNDARY_SIZE
    BY <2>9, <2>11, MoreUnits
  <2>13. PICK x \in Int, y \in Int :
           x = (a + 1) * BOUNDARY_SIZE /\ y = (I + 1) * BOUNDARY_SIZE
    BY Units
  <2>14. MemNodeSize \in Int /\ size[t] \in Int
    BY <2>7, Units
  <2>15. x - MemNodeSize >= size[t]
    BY <2>10, <2>12, <2>13, <2>14
  <2> QED
    BY <2>11, <2>13, <2>15
<1>2. Allocating /\ [Next]_vars =>
        [\A t \in Threads, n \in Node :
           n \in inUse' \ inUse /\ pc[t] # pc'[t] =>
             (index'[n] + 1) * BOUNDARY_SIZE - MemNodeSize >= size[t]]_vars
  BY <1>1
<1> QED
  BY <1>2, AllocatingAlways, PTL DEF Spec, LargeEnough

=============================================================================
