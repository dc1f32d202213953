----------------------- MODULE ConnectionPartsProofs -----------------------
(***************************************************************************)
(* Theorems about the two things a ClientSocket is made of: its IOBuffers, *)
(* for any size of a block and any bounds, and the TCPSocket that it is,   *)
(* for any sets of objects, handles and peers.                             *)
(*                                                                         *)
(* The bytes ever written are numbered, so a buffer that holds the bytes   *)
(* after lo up to hi holds a run of numbers, and so does each block.  What *)
(* the functions of the buffer do is proved of runs first; then that the   *)
(* blocks always hold the run from the last byte read to the last byte     *)
(* written, from which every property of the buffer follows.               *)
(*                                                                         *)
(* Ownership, below, is HandleOwned in a form that a step can be checked   *)
(* against, with what must be known of an object that nobody has yet and   *)
(* of the second thread in a call of it.                                   *)
(***************************************************************************)
EXTENDS IOBuffer, TCPSocket, TLAPS, SequenceTheorems, FiniteSetTheorems,
        WellFoundedInduction

\* The bytes that can be read from block b are those after byte lo up to hi.
Bytes(b, lo, hi) ==
  \E d \in Seq(1..MaxBytes), r \in Nat :
    /\ b = [data |-> d, read |-> r]
    /\ r <= Len(d) /\ Len(d) <= MAX_BLOCK_SIZE /\ hi = lo + (Len(d) - r)
    /\ \A k \in (r + 1)..Len(d) : d[k] = lo + (k - r)

\* The blocks hold the bytes after lo up to hi, in order: upTo says up to which
\* byte, block by block.
Linked(blocks, upTo, lo, hi) ==
  /\ upTo \in [0..Len(blocks) -> Nat]
  /\ upTo[0] = lo /\ upTo[Len(blocks)] = hi
  /\ \A i \in 1..Len(blocks) : Bytes(blocks[i], upTo[i - 1], upTo[i])
  /\ \A i, j \in 0..Len(blocks) : i <= j => upTo[i] <= upTo[j]

-----------------------------------------------------------------------------
(* Numbers.                                                                *)

\* A set of numbers that is not empty has a least one.
LEMMA Least ==
  ASSUME NEW S \in SUBSET Nat, S # {}
  PROVE  \E x \in S : \A y \in S : x <= y
<1>1. PICK x \in S : \A y \in S : ~(<<y, x>> \in OpToRel(<, Nat))
  BY WFMin, NatLessThanWellFounded
<1>2. ASSUME NEW y \in S
      PROVE  x <= y
  <2>1. ~(y < x)
    BY <1>1 DEF OpToRel
  <2> QED
    BY <2>1
<1> QED
  BY <1>2

\* What \div gives, with the rest.
LEMMA Division ==
  \A a \in Nat, b \in Nat \ {0} :
    \E q \in Nat, m \in 0..(b - 1) : q = a \div b /\ a = b * q + m
<1>1. ASSUME NEW a \in Nat, NEW b \in Nat \ {0}
      PROVE  \E q \in Nat, m \in 0..(b - 1) : q = a \div b /\ a = b * q + m
  <2>1. /\ a \div b \in Nat /\ a % b \in 0..(b - 1)
        /\ a = b * (a \div b) + (a % b)
    OBVIOUS
  <2> QED
    BY <2>1
<1> QED
  BY <1>1

\* More blocks hold no fewer bytes.
LEMMA Grows ==
  ASSUME NEW a \in Nat, NEW c \in Nat, NEW b \in Nat, a <= c
  PROVE  a * b \in Nat /\ c * b \in Nat /\ a * b <= c * b
<1>1. PICK e \in Nat : c = a + e
  <2>1. c - a \in Nat /\ c = a + (c - a)
    OBVIOUS
  <2> QED
    BY <2>1
<1>2. c * b = a * b + e * b /\ e * b >= 0 /\ e * b \in Nat /\ a * b \in Nat
  BY <1>1
<1> QED
  BY <1>2

\* How many blocks of b bytes a bytes take: all are full but the last one.
LEMMA PiecesOf ==
  ASSUME NEW a \in Nat, NEW b \in Nat \ {0}, NEW q, q = (a + b - 1) \div b
  PROVE  /\ q \in Nat /\ (q = 0 <=> a = 0) /\ q * b >= a
         /\ \A i \in 1..q : (i - 1) * b \in Nat /\ (i - 1) * b < a
<1>1. PICK m \in 0..(b - 1) : q \in Nat /\ a + b - 1 = b * q + m
  <2>1. a + b - 1 \in Nat
    OBVIOUS
  <2> QED
    BY <2>1, Division
<1>2. PICK p \in Nat : p = b * q /\ p = q * b
  BY <1>1
<1>3. p >= a /\ p - b < a
  BY <1>1, <1>2
<1>4. q = 0 <=> a = 0
  <2>1. q = 0 => p = 0
    BY <1>2
  <2>2. q >= 1 => p >= b
    BY <1>1, <1>2, Grows, 1 * b = b
  <2> QED
    BY <1>1, <1>3, <2>1, <2>2
<1>5. ASSUME NEW i \in 1..q
      PROVE  (i - 1) * b \in Nat /\ (i - 1) * b < a
  <2>1. /\ i - 1 \in Nat /\ q - 1 \in Nat /\ i - 1 <= q - 1
    BY <1>1
  <2>2. /\ (i - 1) * b \in Nat /\ (q - 1) * b \in Nat
        /\ (i - 1) * b <= (q - 1) * b
    BY <2>1, Grows
  <2>3. (q - 1) * b = p - b
    BY <1>1, <1>2
  <2> QED
    BY <1>3, <2>2, <2>3
<1> QED
  BY <1>1, <1>2, <1>3, <1>4, <1>5

-----------------------------------------------------------------------------
(* Blocks and chains of blocks.                                            *)

\* The m bytes after base.
Run(base, m) == [k \in 1..m |-> base + k]

\* A run is a sequence of its bytes.
LEMMA RunIs ==
  ASSUME NEW base \in Nat, NEW m \in Nat
  PROVE  /\ Run(base, m) \in Seq(Nat) /\ Len(Run(base, m)) = m
         /\ \A k \in 1..m : Run(base, m)[k] = base + k
BY IsASeq DEF Run

\* A sequence of consecutive bytes is a run.
LEMMA IsRun ==
  ASSUME NEW base \in Nat, NEW m \in Nat, NEW s \in Seq(Nat), Len(s) = m,
         \A k \in 1..m : s[k] = base + k
  PROVE  s = Run(base, m)
BY LenProperties DEF Run

\* Two runs that follow each other are one.
LEMMA RunJoined ==
  ASSUME NEW base \in Nat, NEW a \in Nat, NEW b \in Nat
  PROVE  Run(base, a) \o Run(base + a, b) = Run(base, a + b)
<1>1. PICK s \in Seq(Nat) :
        s = Run(base, a) /\ Len(s) = a /\ \A k \in 1..a : s[k] = base + k
  BY RunIs
<1>2. PICK t \in Seq(Nat) : /\ t = Run(base + a, b) /\ Len(t) = b
                            /\ \A k \in 1..b : t[k] = base + a + k
  <2>1. base + a \in Nat
    OBVIOUS
  <2> QED
    BY <2>1, RunIs
<1>3. /\ s \o t \in Seq(Nat) /\ Len(s \o t) = a + b
      /\ \A k \in 1..(a + b) :
           (s \o t)[k] = IF k <= a THEN s[k] ELSE t[k - a]
  <2>1. /\ s \o t \in Seq(Nat) /\ Len(s \o t) = Len(s) + Len(t)
        /\ \A k \in 1..(Len(s) + Len(t)) :
             (s \o t)[k] = IF k <= Len(s) THEN s[k] ELSE t[k - Len(s)]
    BY ConcatProperties
  <2> QED
    BY <1>1, <1>2, <2>1
<1>4. \A k \in 1..(a + b) : (s \o t)[k] = base + k
  <2>1. ASSUME NEW k \in 1..(a + b)
        PROVE  (s \o t)[k] = base + k
    <3>1. CASE k <= a
      <4>1. k \in 1..a
        BY <3>1
      <4> QED
        BY <1>1, <1>3, <3>1, <4>1
    <3>2. CASE ~(k <= a)
      <4>1. k - a \in 1..b /\ base + a + (k - a) = base + k
        BY <3>2
      <4> QED
        BY <1>2, <1>3, <3>2, <4>1
    <3> QED
      BY <3>1, <3>2
  <2> QED
    BY <2>1
<1>5. s \o t = Run(base, a + b)
  BY <1>3, <1>4, IsRun, a + b \in Nat
<1> QED
  BY <1>1, <1>2, <1>5

\* A part of a run is a run.
LEMMA RunPart ==
  ASSUME NEW base \in Nat, NEW n \in Nat, NEW x \in 0..n, NEW y \in x..n
  PROVE  SubSeq(Run(base, n), x + 1, y) = Run(base + x, y - x)
<1>1. PICK s \in Seq(Nat) :
        s = Run(base, n) /\ Len(s) = n /\ \A k \in 1..n : s[k] = base + k
  BY RunIs
<1>2. PICK m \in Nat, w \in Nat : m = y - x /\ w = base + x
  OBVIOUS
<1>3. PICK u \in Seq(Nat) : /\ u = SubSeq(s, x + 1, y) /\ Len(u) = m
                            /\ \A k \in 1..m : u[k] = s[x + k]
  <2>1. \A k \in (x + 1)..y : s[k] \in Nat
    <3>1. \A k \in (x + 1)..y : k \in 1..n /\ base + k \in Nat
      OBVIOUS
    <3> QED
      BY <1>1, <3>1
  <2>2. /\ SubSeq(s, x + 1, y) \in Seq(Nat)
        /\ Len(SubSeq(s, x + 1, y)) =
             IF x + 1 <= y THEN y - (x + 1) + 1 ELSE 0
        /\ \A k \in 1..(y - (x + 1) + 1) :
             SubSeq(s, x + 1, y)[k] = s[x + 1 + k - 1]
    BY <2>1, SubSeqProperties, x + 1 \in Int, y \in Int
  <2>3. y - (x + 1) + 1 = m /\ (~(x + 1 <= y) => m = 0)
    BY <1>2
  <2>4. \A k \in 1..m : x + 1 + k - 1 = x + k
    OBVIOUS
  <2>5. PICK u \in Seq(Nat) : u = SubSeq(s, x + 1, y)
    BY <2>2
  <2>6. Len(u) = m
    BY <2>2, <2>3, <2>5
  <2>7. \A k \in 1..m : u[k] = s[x + k]
    BY <2>2, <2>3, <2>4, <2>5
  <2> QED
    BY <2>5, <2>6, <2>7
<1>4. \A k \in 1..m : u[k] = w + k
  <2>1. \A k \in 1..m : x + k \in 1..n /\ base + (x + k) = w + k
    BY <1>2
  <2> QED
    BY <1>1, <1>3, <2>1
<1>5. u = Run(w, m)
  BY <1>3, <1>4, IsRun
<1> QED
  BY <1>1, <1>2, <1>3, <1>5

\* A block that holds consecutive bytes from its read index on.
LEMMA IsBlock ==
  ASSUME NEW d \in Seq(1..MaxBytes), NEW r \in Nat, NEW lo, NEW hi,
         r <= Len(d) /\ Len(d) <= MAX_BLOCK_SIZE /\ hi = lo + (Len(d) - r),
         \A k \in (r + 1)..Len(d) : d[k] = lo + (k - r)
  PROVE  Bytes([data |-> d, read |-> r], lo, hi)
<1> USE DEF Bytes
<1> WITNESS d \in Seq(1..MaxBytes), r \in Nat
<1> QED
  OBVIOUS

\* What such a block is, and how much of it can be read.
LEMMA BlockIs ==
  ASSUME NEW b, NEW lo \in Nat, NEW hi, Bytes(b, lo, hi)
  PROVE  /\ b \in Block /\ b.data \in Seq(1..MaxBytes) /\ b.read \in Nat
         /\ Len(b.data) \in Nat /\ b.read <= Len(b.data)
         /\ Len(b.data) <= MAX_BLOCK_SIZE
         /\ hi \in Nat /\ lo <= hi /\ getReadAbleSize(b) = hi - lo
<1>1. PICK d \in Seq(1..MaxBytes), r \in Nat :
        /\ b = [data |-> d, read |-> r]
        /\ r <= Len(d) /\ Len(d) <= MAX_BLOCK_SIZE /\ hi = lo + (Len(d) - r)
  BY DEF Bytes
<1>2. PICK l \in Nat : l = Len(d)
  BY LenProperties
<1>3. b.data = d /\ b.read = r /\ b \in Block
  BY <1>1 DEF Block
<1>4. hi \in Nat /\ lo <= hi /\ hi - lo = l - r
  BY <1>1, <1>2
<1>5. getReadAbleSize(b) = l - r
  BY <1>2, <1>3 DEF getReadAbleSize
<1> QED
  BY <1>1, <1>2, <1>3, <1>4, <1>5

\* Reading m bytes moves the read index by m.
LEMMA SkippedIs ==
  ASSUME NEW b, NEW lo \in Nat, NEW hi, Bytes(b, lo, hi),
         NEW m \in Nat, m <= hi - lo
  PROVE  /\ Bytes(Skipped(b, m), lo + m, hi)
         /\ Skipped(b, m).data = b.data /\ Skipped(b, m).read = b.read + m
<1>1. PICK d \in Seq(1..MaxBytes), r \in Nat :
        /\ b = [data |-> d, read |-> r]
        /\ r <= Len(d) /\ Len(d) <= MAX_BLOCK_SIZE /\ hi = lo + (Len(d) - r)
        /\ \A k \in (r + 1)..Len(d) : d[k] = lo + (k - r)
  BY DEF Bytes
<1>2. PICK l \in Nat : l = Len(d)
  BY LenProperties
<1>3. r + m <= l /\ hi = lo + m + (l - (r + m))
  BY <1>1, <1>2
<1>4. getReadAbleSize(b) = l - r
  BY <1>1, <1>2 DEF getReadAbleSize
<1>5. Min(m, getReadAbleSize(b)) = m
  BY <1>2, <1>3, <1>4 DEF Min
<1>6. Skipped(b, m) = [data |-> d, read |-> r + m]
  BY <1>1, <1>5 DEF Skipped
<1>7. \A k \in (r + m + 1)..l : d[k] = lo + m + (k - (r + m))
  <2>1. \A k \in (r + m + 1)..l :
          k \in (r + 1)..l /\ lo + m + (k - (r + m)) = lo + (k - r)
    OBVIOUS
  <2> QED
    BY <1>1, <1>2, <2>1
<1>8. PICK q \in Nat : q = r + m
  OBVIOUS
<1>9. Bytes(Skipped(b, m), lo + m, hi)
  BY <1>1, <1>2, <1>3, <1>6, <1>7, <1>8 DEF Bytes
<1> QED
  BY <1>1, <1>6, <1>9

\* What is written to a block is read after what it holds.
LEMMA FilledIs ==
  ASSUME NEW b, NEW lo \in Nat, NEW hi \in Nat, Bytes(b, lo, hi),
         NEW n \in Nat, hi + n <= MaxBytes
  PROVE  \E fits \in 0..n :
           /\ fits = Min(n, getWriteAbleSize(b))
           /\ Bytes(Filled(b, Run(hi, n)), lo, hi + fits)
           /\ Filled(b, Run(hi, n)).read = b.read
           /\ Len(Filled(b, Run(hi, n)).data) = Len(b.data) + fits
           /\ \A k \in 1..Len(b.data) :
                Filled(b, Run(hi, n)).data[k] = b.data[k]
<1>1. PICK d \in Seq(1..MaxBytes), r \in Nat :
        /\ b = [data |-> d, read |-> r]
        /\ r <= Len(d) /\ Len(d) <= MAX_BLOCK_SIZE /\ hi = lo + (Len(d) - r)
        /\ \A k \in (r + 1)..Len(d) : d[k] = lo + (k - r)
  BY DEF Bytes
<1>2. PICK l \in Nat : l = Len(d)
  BY LenProperties
<1>3. PICK s \in Seq(Nat) :
        s = Run(hi, n) /\ Len(s) = n /\ \A k \in 1..n : s[k] = hi + k
  BY RunIs
<1>4. getWriteAbleSize(b) = MAX_BLOCK_SIZE - l
  BY <1>1, <1>2 DEF getWriteAbleSize
<1>5. PICK fits \in 0..n :
        fits = Min(n, getWriteAbleSize(b)) /\ l + fits <= MAX_BLOCK_SIZE
  <2>1. Min(n, getWriteAbleSize(b)) \in 0..n
    BY <1>1, <1>2, <1>4, BlockAssumption DEF Min
  <2>2. l + Min(n, getWriteAbleSize(b)) <= MAX_BLOCK_SIZE
    BY <1>1, <1>2, <1>4, BlockAssumption DEF Min
  <2> QED
    BY <2>1, <2>2
<1>6. PICK t \in Seq(1..MaxBytes) :
        /\ t = SubSeq(s, 1, fits) /\ Len(t) = fits
        /\ \A k \in 1..fits : t[k] = hi + k
  <2>1. \A k \in 1..fits : s[k] \in 1..MaxBytes /\ k \in 1..n
    BY <1>3, BoundAssumption
  <2>2. /\ SubSeq(s, 1, fits) \in Seq(1..MaxBytes)
        /\ Len(SubSeq(s, 1, fits)) = IF 1 <= fits THEN fits - 1 + 1 ELSE 0
        /\ \A k \in 1..(fits - 1 + 1) : SubSeq(s, 1, fits)[k] = s[1 + k - 1]
    BY <2>1, SubSeqProperties
  <2>3. PICK u \in Seq(1..MaxBytes) : u = SubSeq(s, 1, fits)
    BY <2>2
  <2>4. Len(u) = fits
    BY <2>2, <2>3
  <2>5. \A k \in 1..fits : u[k] = s[k]
    <3>1. \A k \in 1..fits : k \in 1..(fits - 1 + 1) /\ 1 + k - 1 = k
      OBVIOUS
    <3> QED
      BY <2>2, <2>3, <3>1
  <2> QED
    BY <1>3, <2>1, <2>3, <2>4, <2>5
<1>7. PICK e \in Seq(1..MaxBytes) :
        /\ e = d \o t /\ Len(e) = l + fits
        /\ \A k \in 1..(l + fits) : e[k] = IF k <= l THEN d[k] ELSE t[k - l]
  <2>1. /\ d \o t \in Seq(1..MaxBytes) /\ Len(d \o t) = Len(d) + Len(t)
        /\ \A k \in 1..(Len(d) + Len(t)) :
             (d \o t)[k] = IF k <= Len(d) THEN d[k] ELSE t[k - Len(d)]
    BY ConcatProperties
  <2> QED
    BY <1>2, <1>6, <2>1
<1>8. Filled(b, s) = [data |-> e, read |-> r]
  <2>1. SubSeq(s, 1, Min(Len(s), getWriteAbleSize(b))) = t
    BY <1>3, <1>5, <1>6
  <2>2. b.data = d
    BY <1>1
  <2>3. Filled(b, s) = [b EXCEPT !.data = e]
    BY <1>7, <2>1, <2>2 DEF Filled
  <2> QED
    BY ONLY <1>1, <2>3
<1>9. \A k \in (r + 1)..(l + fits) : e[k] = lo + (k - r)
  <2>1. ASSUME NEW k \in (r + 1)..(l + fits)
        PROVE  e[k] = lo + (k - r)
    <3>1. CASE k <= l
      <4>1. k \in 1..(l + fits) /\ k \in (r + 1)..l
        BY <3>1
      <4> QED
        BY <1>1, <1>2, <1>7, <3>1, <4>1
    <3>2. CASE ~(k <= l)
      <4>1. k \in 1..(l + fits) /\ k - l \in 1..fits
        BY <3>2
      <4>2. hi + (k - l) = lo + (k - r)
        BY <1>1, <1>2
      <4> QED
        BY <1>6, <1>7, <3>2, <4>1, <4>2
    <3> QED
      BY <3>1, <3>2
  <2> QED
    BY <2>1
<1>10. hi + fits = lo + (l + fits - r) /\ r <= l + fits
  BY <1>1, <1>2
<1>11. Bytes(Filled(b, s), lo, hi + fits)
  <2>1. Bytes([data |-> e, read |-> r], lo, hi + fits)
    <3>1. /\ r <= Len(e) /\ Len(e) <= MAX_BLOCK_SIZE
          /\ hi + fits = lo + (Len(e) - r)
          /\ \A k \in (r + 1)..Len(e) : e[k] = lo + (k - r)
      <4>1. Len(e) = l + fits
        BY <1>7
      <4>2. /\ r <= l + fits /\ l + fits <= MAX_BLOCK_SIZE
            /\ hi + fits = lo + (l + fits - r)
        BY <1>5, <1>10
      <4> QED
        BY ONLY <1>9, <4>1, <4>2
    <3> QED
      BY <3>1, IsBlock, Zenon
  <2> QED
    BY <1>8, <2>1
<1>12. \A k \in 1..l : e[k] = d[k]
  <2>1. \A k \in 1..l : k \in 1..(l + fits) /\ k <= l
    OBVIOUS
  <2> QED
    BY <1>7, <2>1
<1>13. /\ Filled(b, s).read = r /\ Filled(b, s).data = e
       /\ b.read = r /\ b.data = d
  BY ONLY <1>1, <1>8
<1> QED
  BY <1>2, <1>3, <1>5, <1>7, <1>11, <1>12, <1>13

\* A new block holds nothing, at any place of the chain.
LEMMA NewBlockIs ==
  ASSUME NEW hi \in Nat
  PROVE  NewBlock \in Block /\ Bytes(NewBlock, hi, hi)
<1>1. PICK d \in Seq(1..MaxBytes) : d = <<>> /\ Len(d) = 0
  BY EmptySeq
<1>2. NewBlock = [data |-> d, read |-> 0]
  BY <1>1 DEF NewBlock
<1>3. Bytes(NewBlock, hi, hi)
  <2>1. \A k \in (0 + 1)..Len(d) : d[k] = hi + (k - 0)
    BY <1>1
  <2>2. 0 <= Len(d) /\ Len(d) <= MAX_BLOCK_SIZE /\ hi = hi + (Len(d) - 0)
    BY <1>1, BlockAssumption
  <2>3. Bytes([data |-> d, read |-> 0], hi, hi)
    BY <2>1, <2>2, IsBlock, 0 \in Nat, Zenon
  <2> QED
    BY <1>2, <2>3
<1> QED
  BY <1>3, BlockIs

-----------------------------------------------------------------------------
(* The recursive functions of the model, along a chain.                    *)

\* Readable() of a chain is where each of its blocks ends.
LEMMA ReadableIs ==
  ASSUME NEW blocks, NEW upTo, NEW lo, NEW hi, Linked(blocks, upTo, lo, hi),
         Len(blocks) \in Nat
  PROVE  \A i \in 0..Len(blocks) : Readable(blocks)[i] = upTo[i] - lo
<1> DEFINE n == Len(blocks)
           f == [i \in 0..n |-> upTo[i] - lo]
           R[i \in 0..n] ==
             IF i = 0 THEN 0 ELSE R[i - 1] + getReadAbleSize(blocks[i])
<1>1. /\ upTo \in [0..n -> Nat] /\ upTo[0] = lo
      /\ \A i \in 1..n : Bytes(blocks[i], upTo[i - 1], upTo[i])
  BY DEF Linked
<1>2. \A i \in 1..n :
        /\ getReadAbleSize(blocks[i]) \in Int
        /\ upTo[i] = upTo[i - 1] + getReadAbleSize(blocks[i])
  <2>1. ASSUME NEW i \in 1..n
        PROVE  /\ getReadAbleSize(blocks[i]) \in Int
               /\ upTo[i] = upTo[i - 1] + getReadAbleSize(blocks[i])
    <3>1. PICK a \in Nat, b \in Nat : a = upTo[i - 1] /\ b = upTo[i]
      <4>1. i \in 0..n /\ i - 1 \in 0..n
        OBVIOUS
      <4> QED
        BY <1>1, <4>1
    <3>2. getReadAbleSize(blocks[i]) = b - a
      BY <1>1, <3>1, BlockIs
    <3> QED
      BY <3>1, <3>2
  <2> QED
    BY <2>1
<1>3. f = [i \in 0..n |->
             IF i = 0 THEN 0 ELSE f[i - 1] + getReadAbleSize(blocks[i])]
  <2>1. ASSUME NEW i \in 0..n
        PROVE  f[i] = IF i = 0 THEN 0
                               ELSE f[i - 1] + getReadAbleSize(blocks[i])
    <3>1. CASE i = 0
      BY <1>1, <3>1
    <3>2. CASE i # 0
      <4>1. i \in 1..n /\ i - 1 \in 0..n
        BY <3>2
      <4>2. upTo[i] = upTo[i - 1] + getReadAbleSize(blocks[i])
        BY <1>2, <4>1
      <4>3. upTo[i - 1] \in Nat /\ getReadAbleSize(blocks[i]) \in Int
        BY <1>1, <1>2, <4>1
      <4>4. f[i] = upTo[i] - lo /\ f[i - 1] = upTo[i - 1] - lo
        BY <4>1
      <4>5. lo \in Nat
        BY <1>1
      <4> QED
        BY ONLY <3>2, <4>2, <4>3, <4>4, <4>5
    <3> QED
      BY <3>1, <3>2
  <2>2. f = [i \in 0..n |-> f[i]]
    OBVIOUS
  <2> HIDE DEF f
  <2> QED
    BY <2>1, <2>2
<1>4. R = [i \in 0..n |->
             IF i = 0 THEN 0 ELSE R[i - 1] + getReadAbleSize(blocks[i])]
  <2>1. \E g : g = [i \in 0..n |->
             IF i = 0 THEN 0 ELSE g[i - 1] + getReadAbleSize(blocks[i])]
    BY <1>3
  <2> QED
    BY <2>1 DEF R
<1>5. Readable(blocks) = R
  BY DEF Readable
<1> HIDE DEF f, R
<1>6. R[0] = f[0]
  BY <1>3, <1>4
<1>7. \A i \in 0..n : i # 0 /\ R[i - 1] = f[i - 1] => R[i] = f[i]
  BY <1>3, <1>4
<1>8. \A i \in 0..n : R[i] = f[i]
  <2> DEFINE S == {i \in 0..n : R[i] # f[i]}
  <2>1. SUFFICES ASSUME S # {}
                 PROVE  FALSE
    OBVIOUS
  <2>2. PICK x \in S : \A y \in S : x <= y
    BY <2>1, Least, S \in SUBSET Nat
  <2>3. x \in 0..n /\ x # 0 /\ R[x] # f[x]
    BY <1>6
  <2>4. x - 1 \in 0..n /\ x - 1 \notin S
    BY <2>2, <2>3
  <2> QED
    BY <1>7, <2>3, <2>4
<1> QED
  BY <1>5, <1>8 DEF f

\* Runs that follow each other are joined to one run.
LEMMA FlattenIs ==
  ASSUME NEW n \in Nat, NEW base \in Nat, NEW upTo \in [0..n -> Nat],
         NEW seqs, seqs \in Seq(Seq(Nat)), Len(seqs) = n, upTo[0] = 0,
         \A i \in 1..n :
           /\ upTo[i - 1] <= upTo[i]
           /\ seqs[i] = Run(base + upTo[i - 1], upTo[i] - upTo[i - 1])
  PROVE  SX!FlattenSeq(seqs) = Run(base, upTo[n])
<1>1. CASE n = 0
  <2>1. seqs = <<>>
    BY <1>1, EmptySeq
  <2>2. SX!FlattenSeq(seqs) = seqs
    BY <1>1 DEF SX!FlattenSeq
  <2>3. <<>> \in Seq(Nat) /\ Len(<<>>) = 0
    BY EmptySeq
  <2>4. <<>> = Run(base, 0)
    BY <2>3, IsRun, 0 \in Nat, \A k \in 1..0 : <<>>[k] = base + k
  <2> QED
    BY <1>1, <2>1, <2>2, <2>4
<1>2. CASE n # 0
  <2>1. Run(base, upTo[1]) = seqs[1]
    <3>1. seqs[1] = Run(base + upTo[0], upTo[1] - upTo[0])
      BY <1>2
    <3>2. base + upTo[0] = base /\ upTo[1] - upTo[0] = upTo[1]
      BY <1>2
    <3> QED
      BY <1>2, <3>1, <3>2
  <2>2. ASSUME NEW i \in 2..n
        PROVE  Run(base, upTo[i]) = Run(base, upTo[i - 1]) \o seqs[i]
    <3>1. i - 1 \in 0..n /\ i \in 0..n /\ i \in 1..n
      OBVIOUS
    <3>2. upTo[i - 1] \in Nat /\ upTo[i] \in Nat /\ upTo[i - 1] <= upTo[i]
      BY <3>1
    <3>3. PICK a \in Nat, b \in Nat : a = upTo[i - 1] /\ b = upTo[i] - a
      BY <3>2
    <3>4. upTo[i] = a + b
      BY <3>2, <3>3
    <3>5. seqs[i] = Run(base + a, b)
      BY <3>1, <3>3
    <3>6. Run(base, a) \o Run(base + a, b) = Run(base, a + b)
      BY RunJoined
    <3> QED
      BY ONLY <3>3, <3>4, <3>5, <3>6
  <2> DEFINE f == [i \in 1..n |-> Run(base, upTo[i])]
             F[i \in 1..n] == IF i = 1 THEN seqs[i] ELSE F[i - 1] \o seqs[i]
  <2>3. f = [i \in 1..n |-> IF i = 1 THEN seqs[i] ELSE f[i - 1] \o seqs[i]]
    <3>1. \A i \in 1..n : i = 1 \/ (i \in 2..n /\ i # 1 /\ i - 1 \in 1..n)
      OBVIOUS
    <3>2. \A i \in 1..n : f[i] = Run(base, upTo[i])
      OBVIOUS
    <3>3. f = [i \in 1..n |-> f[i]]
      OBVIOUS
    <3> HIDE DEF f
    <3>4. \A i \in 1..n : f[i] = IF i = 1 THEN seqs[i] ELSE f[i - 1] \o seqs[i]
      BY ONLY <2>1, <2>2, <3>1, <3>2
    <3> QED
      BY <3>3, <3>4
  <2>4. F = [i \in 1..n |-> IF i = 1 THEN seqs[i] ELSE F[i - 1] \o seqs[i]]
    <3>1. \E g : g = [i \in 1..n |->
                        IF i = 1 THEN seqs[i] ELSE g[i - 1] \o seqs[i]]
      BY <2>3
    <3> QED
      BY <3>1 DEF F
  <2>5. SX!FlattenSeq(seqs) = F[n]
    BY <1>2 DEF SX!FlattenSeq
  <2> HIDE DEF f, F
  <2>6. F[1] = f[1]
    BY <1>2, <2>3, <2>4
  <2>7. \A i \in 1..n : i # 1 /\ F[i - 1] = f[i - 1] => F[i] = f[i]
    <3>1. ASSUME NEW i \in 1..n, i # 1, F[i - 1] = f[i - 1]
          PROVE  F[i] = f[i]
      <4>1. F[i] = F[i - 1] \o seqs[i]
        BY ONLY <2>4, <3>1, i \in 1..n
      <4>2. f[i] = f[i - 1] \o seqs[i]
        BY ONLY <2>3, <3>1, i \in 1..n
      <4> QED
        BY ONLY <3>1, <4>1, <4>2
    <3> QED
      BY <3>1
  <2>8. \A i \in 1..n : F[i] = f[i]
    <3> DEFINE S == {i \in 1..n : F[i] # f[i]}
    <3>1. SUFFICES ASSUME S # {}
                   PROVE  FALSE
      OBVIOUS
    <3>2. PICK x \in S : \A y \in S : x <= y
      BY <3>1, Least, S \in SUBSET Nat
    <3>3. x \in 1..n /\ x # 1 /\ F[x] # f[x]
      BY <2>6
    <3>4. x - 1 \in 1..n /\ x - 1 \notin S
      BY <3>2, <3>3
    <3> QED
      BY <2>7, <3>3, <3>4
  <2>9. f[n] = Run(base, upTo[n])
    BY <1>2, n \in 1..n DEF f
  <2>10. F[n] = f[n]
    BY ONLY <2>8, <1>2, n \in Nat
  <2> QED
    BY ONLY <2>5, <2>9, <2>10
<1> QED
  BY <1>1, <1>2

-----------------------------------------------------------------------------
(* What the member functions do to a chain.                                *)

\* What is known of every block of a chain.
LEMMA LinkedIs ==
  ASSUME NEW blocks \in Seq(Block), NEW upTo, NEW lo, NEW hi,
         Linked(blocks, upTo, lo, hi)
  PROVE  /\ Len(blocks) \in Nat /\ lo \in Nat /\ hi \in Nat /\ lo <= hi
         /\ \A i \in 0..Len(blocks) :
              upTo[i] \in Nat /\ lo <= upTo[i] /\ upTo[i] <= hi
         /\ \A i \in 1..Len(blocks) :
              /\ upTo[i - 1] \in Nat /\ upTo[i] \in Nat
              /\ Bytes(blocks[i], upTo[i - 1], upTo[i])
<1>1. PICK n \in Nat : n = Len(blocks)
  BY LenProperties
<1>2. /\ upTo \in [0..n -> Nat] /\ upTo[0] = lo /\ upTo[n] = hi
      /\ \A i \in 1..n : Bytes(blocks[i], upTo[i - 1], upTo[i])
      /\ \A i, j \in 0..n : i <= j => upTo[i] <= upTo[j]
  BY <1>1 DEF Linked
<1>3. \A i \in 0..n : upTo[i] \in Nat /\ lo <= upTo[i] /\ upTo[i] <= hi
  BY <1>2
<1>4. \A i \in 1..n : i \in 0..n /\ i - 1 \in 0..n
  OBVIOUS
<1> QED
  BY <1>1, <1>2, <1>3, <1>4

\* The first k blocks are released, and the next one is read from m bytes on.
Rest(blocks, k, m) ==
  SubSeq([i \in 1..Len(blocks) |->
            IF i = k + 1 THEN Skipped(blocks[i], m) ELSE blocks[i]],
         k + 1, Len(blocks))

\* Without its first blocks, a chain holds the later bytes.
LEMMA Shortened ==
  ASSUME NEW blocks \in Seq(Block), NEW upTo, NEW lo, NEW hi,
         Linked(blocks, upTo, lo, hi),
         NEW k \in 0..Len(blocks), NEW m \in Nat,
         k < Len(blocks) => m <= upTo[k + 1] - upTo[k],
         k = Len(blocks) => m = 0
  PROVE  /\ Rest(blocks, k, m) \in Seq(Block)
         /\ Len(Rest(blocks, k, m)) = Len(blocks) - k
         /\ \A i \in 1..(Len(blocks) - k) :
              Rest(blocks, k, m)[i] =
                IF i = 1 THEN Skipped(blocks[k + 1], m) ELSE blocks[k + i]
         /\ \E g : Linked(Rest(blocks, k, m), g, upTo[k] + m, hi)
<1>1. PICK n \in Nat : n = Len(blocks) /\ k <= n
  BY LenProperties
<1>2. /\ upTo \in [0..n -> Nat] /\ upTo[0] = lo /\ upTo[n] = hi
      /\ \A i \in 1..n : Bytes(blocks[i], upTo[i - 1], upTo[i])
      /\ \A i, j \in 0..n : i <= j => upTo[i] <= upTo[j]
  BY <1>1 DEF Linked
<1>3. PICK from \in Nat : from = upTo[k]
  BY <1>1, <1>2
<1>4. ASSUME k < n
      PROVE  /\ Bytes(Skipped(blocks[k + 1], m), from + m, upTo[k + 1])
             /\ Skipped(blocks[k + 1], m) \in Block
             /\ from + m <= upTo[k + 1]
  <2>1. k + 1 \in 1..n /\ k + 1 - 1 = k /\ k + 1 \in 0..n
    BY <1>1, <1>4
  <2>2. Bytes(blocks[k + 1], from, upTo[k + 1])
    BY <1>2, <1>3, <2>1
  <2>3. m <= upTo[k + 1] - from /\ upTo[k + 1] \in Nat
    BY <1>1, <1>2, <1>3, <1>4, <2>1
  <2>4. Bytes(Skipped(blocks[k + 1], m), from + m, upTo[k + 1])
    BY <2>2, <2>3, SkippedIs
  <2>5. from + m \in Nat
    OBVIOUS
  <2> QED
    BY <2>3, <2>4, <2>5, BlockIs
<1> DEFINE all == [i \in 1..n |->
                     IF i = k + 1 THEN Skipped(blocks[i], m) ELSE blocks[i]]
           g == [i \in 0..(n - k) |-> IF i = 0 THEN from + m ELSE upTo[k + i]]
<1>5. \A i \in (k + 1)..n : all[i] \in Block
  <2>1. ASSUME NEW i \in (k + 1)..n
        PROVE  all[i] \in Block
    <3>1. i \in 1..n /\ blocks[i] \in Block
      BY <1>1, ElementOfSeq
    <3>2. i = k + 1 => k < n
      BY <3>1
    <3> QED
      BY <1>4, <3>1, <3>2
  <2> QED
    BY <2>1
<1>6. PICK rest \in Seq(Block) :
        /\ rest = Rest(blocks, k, m) /\ Len(rest) = n - k
        /\ \A i \in 1..(n - k) : rest[i] = all[k + i]
  <2>1. Rest(blocks, k, m) = SubSeq(all, k + 1, n)
    BY <1>1 DEF Rest
  <2> HIDE DEF all
  <2>2. /\ SubSeq(all, k + 1, n) \in Seq(Block)
        /\ Len(SubSeq(all, k + 1, n)) =
             IF k + 1 <= n THEN n - (k + 1) + 1 ELSE 0
        /\ \A i \in 1..(n - (k + 1) + 1) :
             SubSeq(all, k + 1, n)[i] = all[k + 1 + i - 1]
    BY <1>1, <1>5, SubSeqProperties, k + 1 \in Int
  <2>3. n - (k + 1) + 1 = n - k /\ (~(k + 1 <= n) => n - k = 0)
    BY <1>1
  <2>4. \A i \in 1..(n - k) : k + 1 + i - 1 = k + i
    OBVIOUS
  <2>5. PICK u \in Seq(Block) : u = SubSeq(all, k + 1, n)
    BY <2>2
  <2>6. Len(u) = n - k
    BY <1>1, <2>2, <2>3, <2>5
  <2>7. \A i \in 1..(n - k) : u[i] = all[k + i]
    BY <2>2, <2>3, <2>4, <2>5
  <2> QED
    BY <2>1, <2>5, <2>6, <2>7
<1>7. \A i \in 1..(n - k) :
        rest[i] = IF i = 1 THEN Skipped(blocks[k + 1], m) ELSE blocks[k + i]
  <2>1. \A i \in 1..(n - k) :
          /\ k + i \in 1..n /\ (i = 1 <=> k + i = k + 1)
    BY <1>1
  <2>2. \A i \in 1..n :
          all[i] = IF i = k + 1 THEN Skipped(blocks[i], m) ELSE blocks[i]
    OBVIOUS
  <2> HIDE DEF all
  <2> QED
    BY <1>6, <2>1, <2>2
<1>8. /\ g[0] = from + m
      /\ \A i \in 1..(n - k) : /\ g[i] = upTo[k + i] /\ upTo[k + i] \in Nat
                               /\ from + m <= upTo[k + i]
  <2>1. ASSUME NEW i \in 1..(n - k)
        PROVE  /\ g[i] = upTo[k + i] /\ upTo[k + i] \in Nat
               /\ from + m <= upTo[k + i]
    <3>1. /\ k + i \in 0..n /\ k + 1 \in 0..n /\ k + 1 <= k + i /\ k < n
          /\ i \in 0..(n - k) /\ i # 0
      BY <1>1
    <3>2. /\ upTo[k + 1] \in Nat /\ upTo[k + i] \in Nat
          /\ upTo[k + 1] <= upTo[k + i]
      BY <1>2, <3>1
    <3> QED
      BY <1>4, <3>1, <3>2
  <2>2. g[0] = from + m
    BY <1>1, 0 \in 0..(n - k)
  <2> HIDE DEF g
  <2> QED
    BY <2>1, <2>2
<1>9. g \in [0..(n - k) -> Nat]
  <2>1. \A i \in 0..(n - k) : g[i] \in Nat
    <3> HIDE DEF g
    <3>1. \A i \in 0..(n - k) : i = 0 \/ i \in 1..(n - k)
      OBVIOUS
    <3> QED
      BY <1>8, <3>1, from + m \in Nat
  <2> QED
    BY <2>1
<1>10. g[n - k] = hi
  <2>1. CASE k = n
    BY <1>1, <1>2, <1>3, <2>1
  <2>2. CASE k # n
    BY <1>1, <1>2, <1>8, <2>2
  <2> QED
    BY <2>1, <2>2
<1> HIDE DEF g, all
<1>11. \A i \in 1..(n - k) : Bytes(rest[i], g[i - 1], g[i])
  <2>1. ASSUME NEW i \in 1..(n - k)
        PROVE  Bytes(rest[i], g[i - 1], g[i])
    <3>1. CASE i = 1
      <4>1. k < n /\ i - 1 = 0 /\ k + i = k + 1
        BY <3>1
      <4> QED
        BY <1>4, <1>7, <1>8, <3>1, <4>1
    <3>2. CASE i # 1
      <4>1. /\ k + i \in 1..n /\ k + i - 1 = k + (i - 1)
            /\ i - 1 \in 1..(n - k)
        BY <1>1, <3>2
      <4>2. Bytes(blocks[k + i], upTo[k + i - 1], upTo[k + i])
        BY <1>2, <4>1
      <4>3. g[i - 1] = upTo[k + i - 1] /\ g[i] = upTo[k + i]
        BY <1>8, <4>1
      <4> QED
        BY <1>7, <3>2, <4>2, <4>3
    <3> QED
      BY <3>1, <3>2
  <2> QED
    BY <2>1
<1>12. \A i, j \in 0..(n - k) : i <= j => g[i] <= g[j]
  <2>1. ASSUME NEW i \in 0..(n - k), NEW j \in 0..(n - k), i <= j
        PROVE  g[i] <= g[j]
    <3>1. CASE i = 0
      <4>1. j = 0 \/ j \in 1..(n - k)
        OBVIOUS
      <4> QED
        BY <1>8, <3>1, <4>1, from + m \in Nat
    <3>2. CASE i # 0
      <4>1. /\ i \in 1..(n - k) /\ j \in 1..(n - k) /\ k + i <= k + j
            /\ k + i \in 0..n /\ k + j \in 0..n
        BY <1>1, <2>1, <3>2
      <4> QED
        BY <1>2, <1>8, <4>1
    <3> QED
      BY <3>1, <3>2
  <2> QED
    BY <2>1
<1>13. Linked(rest, g, from + m, hi)
  BY <1>6, <1>8, <1>9, <1>10, <1>11, <1>12 DEF Linked
<1> QED
  BY <1>1, <1>3, <1>6, <1>7, <1>13


\* One chain is appended to another one.
LEMMA Extended ==
  ASSUME NEW blocks \in Seq(Block), NEW upTo, NEW lo, NEW mid,
         Linked(blocks, upTo, lo, mid),
         NEW more \in Seq(Block), NEW g, NEW hi, Linked(more, g, mid, hi)
  PROVE  /\ blocks \o more \in Seq(Block)
         /\ Len(blocks \o more) = Len(blocks) + Len(more)
         /\ \A i \in 1..Len(blocks) : (blocks \o more)[i] = blocks[i]
         /\ \E h : Linked(blocks \o more, h, lo, hi)
<1>1. PICK n \in Nat, q \in Nat : n = Len(blocks) /\ q = Len(more)
  BY LenProperties
<1>2. /\ upTo \in [0..n -> Nat] /\ upTo[0] = lo /\ upTo[n] = mid
      /\ \A i \in 1..n : Bytes(blocks[i], upTo[i - 1], upTo[i])
      /\ \A i, j \in 0..n : i <= j => upTo[i] <= upTo[j]
  BY <1>1 DEF Linked
<1>3. /\ g \in [0..q -> Nat] /\ g[0] = mid /\ g[q] = hi
      /\ \A i \in 1..q : Bytes(more[i], g[i - 1], g[i])
      /\ \A i, j \in 0..q : i <= j => g[i] <= g[j]
  BY <1>1 DEF Linked
<1>4. PICK all \in Seq(Block) :
        /\ all = blocks \o more /\ Len(all) = n + q
        /\ \A i \in 1..(n + q) :
             all[i] = IF i <= n THEN blocks[i] ELSE more[i - n]
  <2>1. /\ blocks \o more \in Seq(Block)
        /\ Len(blocks \o more) = Len(blocks) + Len(more)
        /\ \A i \in 1..(Len(blocks) + Len(more)) :
             (blocks \o more)[i] =
               IF i <= Len(blocks) THEN blocks[i] ELSE more[i - Len(blocks)]
    BY ConcatProperties
  <2> QED
    BY <1>1, <2>1
<1> DEFINE h == [i \in 0..(n + q) |-> IF i <= n THEN upTo[i] ELSE g[i - n]]
<1>5. ASSUME NEW i \in 0..(n + q)
      PROVE  \/ i \in 0..n /\ h[i] = upTo[i] /\ upTo[i] \in Nat
                /\ lo <= upTo[i] /\ upTo[i] <= mid
             \/ i \in (n + 1)..(n + q) /\ i - n \in 1..q /\ h[i] = g[i - n]
                /\ g[i - n] \in Nat /\ mid <= g[i - n]
  <2>1. CASE i <= n
    <3>1. i \in 0..n /\ 0 \in 0..n /\ n \in 0..n /\ 0 <= i
      BY <2>1
    <3>2. upTo[i] \in Nat /\ upTo[0] <= upTo[i] /\ upTo[i] <= upTo[n]
      BY <1>2, <2>1, <3>1
    <3> QED
      BY <1>2, <2>1, <3>1, <3>2
  <2>2. CASE ~(i <= n)
    <3>1. i \in (n + 1)..(n + q) /\ i - n \in 1..q /\ i - n \in 0..q
      BY <2>2
    <3>2. 0 \in 0..q /\ 0 <= i - n
      BY <3>1
    <3>3. g[i - n] \in Nat /\ g[0] <= g[i - n]
      BY <1>3, <3>1, <3>2
    <3> QED
      BY <1>3, <2>2, <3>1, <3>3
  <2> QED
    BY <2>1, <2>2
<1>6. h \in [0..(n + q) -> Nat]
  <2>1. \A i \in 0..(n + q) : h[i] \in Nat
    BY <1>5
  <2>2. h = [i \in 0..(n + q) |-> h[i]]
    OBVIOUS
  <2> HIDE DEF h
  <2> QED
    BY <2>1, <2>2
<1>7. \A i \in 0..n : h[i] = upTo[i]
  <2>1. \A i \in 0..n : i \in 0..(n + q) /\ i <= n
    OBVIOUS
  <2> QED
    BY <2>1
<1>8. \A i \in 0..q : h[n + i] = g[i]
  <2>1. ASSUME NEW i \in 0..q
        PROVE  h[n + i] = g[i]
    <3>1. n + i \in 0..(n + q)
      OBVIOUS
    <3>2. CASE i = 0
      BY <1>2, <1>3, <1>7, <3>2, n + 0 = n
    <3>3. CASE i # 0
      BY <3>1, <3>3, ~(n + i <= n), n + i - n = i
    <3> QED
      BY <3>2, <3>3
  <2> QED
    BY <2>1
<1> HIDE DEF h
<1>9. \A i \in 1..(n + q) : Bytes(all[i], h[i - 1], h[i])
  <2>1. ASSUME NEW i \in 1..(n + q)
        PROVE  Bytes(all[i], h[i - 1], h[i])
    <3>1. CASE i <= n
      <4>1. i \in 1..n /\ i \in 0..n /\ i - 1 \in 0..n
        BY <3>1
      <4>2. h[i] = upTo[i] /\ h[i - 1] = upTo[i - 1] /\ all[i] = blocks[i]
        BY <1>4, <1>7, <3>1, <4>1
      <4> QED
        BY <1>2, <4>1, <4>2
    <3>2. CASE ~(i <= n)
      <4>1. PICK j \in 1..q : j = i - n
        BY <3>2
      <4>2. /\ i = n + j /\ i - 1 = n + (j - 1)
            /\ j \in 0..q /\ j - 1 \in 0..q
        BY <4>1
      <4>3. h[i] = g[j] /\ h[i - 1] = g[j - 1] /\ all[i] = more[j]
        BY <1>4, <1>8, <3>2, <4>1, <4>2
      <4> QED
        BY <1>3, <4>3
    <3> QED
      BY <3>1, <3>2
  <2> QED
    BY <2>1
<1>10. \A i, j \in 0..(n + q) : i <= j => h[i] <= h[j]
  <2>1. ASSUME NEW i \in 0..(n + q), NEW j \in 0..(n + q), i <= j
        PROVE  h[i] <= h[j]
    <3>1. CASE j \in 0..n
      <4>1. i \in 0..n
        BY <2>1, <3>1
      <4> QED
        BY <1>2, <1>7, <2>1, <3>1, <4>1
    <3>2. CASE i \in (n + 1)..(n + q)
      <4>1. /\ i - n \in 0..q /\ j - n \in 0..q /\ i - n <= j - n
            /\ i = n + (i - n) /\ j = n + (j - n)
        BY <2>1, <3>2
      <4> QED
        BY <1>3, <1>8, <4>1
    <3>3. CASE i \in 0..n /\ j \in (n + 1)..(n + q)
      <4>1. h[i] \in Nat /\ h[j] \in Nat /\ h[i] <= mid /\ mid <= h[j]
        <5>1. /\ ~(i \in (n + 1)..(n + q)) /\ ~(j \in 0..n)
          BY <3>3
        <5> QED
          BY <1>5, <5>1
      <4>2. mid \in Nat
        BY <1>2, n \in 0..n
      <4> QED
        BY <4>1, <4>2
    <3> QED
      BY <3>1, <3>2, <3>3
  <2> QED
    BY <2>1
<1>11. h[0] = lo /\ h[n + q] = hi
  BY <1>2, <1>3, <1>7, <1>8, 0 \in 0..n, q \in 0..q
<1>12. Linked(all, h, lo, hi)
  BY <1>4, <1>6, <1>9, <1>10, <1>11 DEF Linked
<1>13. \A i \in 1..n : all[i] = blocks[i]
  <2>1. \A i \in 1..n : i \in 1..(n + q) /\ i <= n
    OBVIOUS
  <2> QED
    BY <1>4, <2>1
<1> QED
  BY <1>1, <1>4, <1>12, <1>13

\* One block is a chain.
LEMMA Single ==
  ASSUME NEW b, NEW lo \in Nat, NEW hi \in Nat, Bytes(b, lo, hi)
  PROVE  /\ <<b>> \in Seq(Block) /\ Len(<<b>>) = 1
         /\ \E g : Linked(<<b>>, g, lo, hi)
<1>1. b \in Block /\ lo <= hi
  BY BlockIs
<1>2. PICK s \in Seq(Block) : s = <<b>> /\ Len(s) = 1 /\ s[1] = b
  <2>1. <<b>> \in Seq(Block)
    BY <1>1
  <2>2. Len(<<b>>) = 1 /\ <<b>>[1] = b
    OBVIOUS
  <2> QED
    BY <2>1, <2>2
<1>3. PICK g : g = [i \in 0..1 |-> IF i = 0 THEN lo ELSE hi]
  OBVIOUS
<1>4. g \in [0..1 -> Nat] /\ g[0] = lo /\ g[1] = hi
  BY <1>3
<1>5. \A i \in 1..1 : Bytes(s[i], g[i - 1], g[i])
  BY <1>2, <1>4, \A i \in 1..1 : i = 1 /\ i - 1 = 0
<1>6. \A i, j \in 0..1 : i <= j => g[i] <= g[j]
  BY <1>1, <1>4, \A i \in 0..1 : i = 0 \/ i = 1
<1>7. Linked(s, g, lo, hi)
  BY <1>2, <1>4, <1>5, <1>6 DEF Linked
<1> QED
  BY <1>2, <1>7


\* The current block, the last one, takes what there is room for.
LEMMA LastFilled ==
  ASSUME NEW blocks \in Seq(Block), NEW upTo, NEW lo, NEW hi,
         Linked(blocks, upTo, lo, hi), blocks # <<>>,
         NEW n \in Nat, hi + n <= MaxBytes,
         NEW c, c = Len(blocks), NEW s, s = Run(hi, n)
  PROVE  \E fits \in 0..n, all \in Seq(Block) :
           /\ fits = Min(n, getWriteAbleSize(blocks[c]))
           /\ all = [blocks EXCEPT ![c] = Filled(@, s)] /\ Len(all) = c
           /\ \E h : Linked(all, h, lo, hi + fits)
           /\ \A i \in 1..c :
                /\ all[i].read = blocks[i].read
                /\ Len(all[i].data) >= Len(blocks[i].data)
                /\ \A k \in 1..Len(blocks[i].data) :
                     all[i].data[k] = blocks[i].data[k]
<1>1. c \in Nat \ {0}
  BY EmptySeq, LenProperties
<1>2. /\ upTo \in [0..c -> Nat] /\ upTo[0] = lo /\ upTo[c] = hi
      /\ \A i \in 1..c : Bytes(blocks[i], upTo[i - 1], upTo[i])
      /\ \A i, j \in 0..c : i <= j => upTo[i] <= upTo[j]
  BY DEF Linked
<1>3. PICK from \in Nat : from = upTo[c - 1]
  BY <1>1, <1>2, c - 1 \in 0..c
<1>4. hi \in Nat /\ Bytes(blocks[c], from, hi)
  BY <1>1, <1>2, <1>3, c \in 0..c, c \in 1..c
<1>5. PICK fits \in 0..n :
        /\ fits = Min(n, getWriteAbleSize(blocks[c]))
        /\ Bytes(Filled(blocks[c], s), from, hi + fits)
        /\ Filled(blocks[c], s).read = blocks[c].read
        /\ Len(Filled(blocks[c], s).data) = Len(blocks[c].data) + fits
        /\ \A k \in 1..Len(blocks[c].data) :
             Filled(blocks[c], s).data[k] = blocks[c].data[k]
  <2>1. PICK b : b = blocks[c]
    OBVIOUS
  <2>2. Bytes(b, from, hi)
    BY <1>4, <2>1
  <2>3. PICK fits \in 0..n :
           /\ fits = Min(n, getWriteAbleSize(b))
           /\ Bytes(Filled(b, Run(hi, n)), from, hi + fits)
           /\ Filled(b, Run(hi, n)).read = b.read
           /\ Len(Filled(b, Run(hi, n)).data) = Len(b.data) + fits
           /\ \A k \in 1..Len(b.data) :
                Filled(b, Run(hi, n)).data[k] = b.data[k]
    <3>1. hi \in Nat
      BY ONLY <1>4
    <3> QED
      BY ONLY <2>2, <3>1, FilledIs, from \in Nat, n \in Nat, hi + n <= MaxBytes
  <2> QED
    BY <2>1, <2>3
<1>6. PICK b : b = Filled(blocks[c], s)
  OBVIOUS
<1>7. b \in Block /\ from <= hi + fits /\ hi <= hi + fits /\ hi + fits \in Nat
  BY <1>4, <1>5, <1>6, BlockIs
<1>8. PICK all \in Seq(Block) :
        /\ all = [blocks EXCEPT ![c] = b] /\ Len(all) = c
        /\ \A i \in 1..c : all[i] = IF i = c THEN b ELSE blocks[i]
  <2>1. blocks \in [1..c -> Block]
    BY LenProperties
  <2>2. /\ [blocks EXCEPT ![c] = b] \in Seq(Block)
        /\ Len([blocks EXCEPT ![c] = b]) = c
    BY <1>1, <1>7, ExceptSeq, c \in 1..c
  <2>3. \A i \in 1..c :
          [blocks EXCEPT ![c] = b][i] = IF i = c THEN b ELSE blocks[i]
    BY <2>1
  <2> QED
    BY <2>2, <2>3
<1>9. all = [blocks EXCEPT ![c] = Filled(@, s)]
  BY <1>6, <1>8
<1> DEFINE h == [i \in 0..c |-> IF i = c THEN hi + fits ELSE upTo[i]]
<1>10. /\ h \in [0..c -> Nat] /\ h[c] = hi + fits
       /\ \A i \in 0..c : i # c => h[i] = upTo[i]
  BY <1>1, <1>2, <1>7
<1> HIDE DEF h
<1>11. \A i \in 1..c : Bytes(all[i], h[i - 1], h[i])
  <2>1. ASSUME NEW i \in 1..c
        PROVE  Bytes(all[i], h[i - 1], h[i])
    <3>1. i - 1 \in 0..c /\ i \in 0..c /\ i - 1 # c
      BY <1>1
    <3>2. CASE i = c
      BY <1>3, <1>5, <1>6, <1>8, <1>10, <3>1, <3>2
    <3>3. CASE i # c
      BY <1>2, <1>8, <1>10, <3>1, <3>3
    <3> QED
      BY <3>2, <3>3
  <2> QED
    BY <2>1
<1>12. \A i, j \in 0..c : i <= j => h[i] <= h[j]
  <2>1. ASSUME NEW i \in 0..c, NEW j \in 0..c, i <= j
        PROVE  h[i] <= h[j]
    <3>1. CASE j # c
      BY <1>1, <1>2, <1>10, <2>1, <3>1
    <3>2. CASE j = c /\ i = c
      BY <1>7, <1>10, <3>2
    <3>3. CASE j = c /\ i # c
      <4>1. upTo[i] <= upTo[c] /\ upTo[i] \in Nat
        BY <1>1, <1>2, c \in 0..c
      <4> QED
        BY <1>2, <1>4, <1>7, <1>10, <3>3, <4>1
    <3> QED
      BY <3>1, <3>2, <3>3
  <2> QED
    BY <2>1
<1>13. h[0] = lo
  BY <1>1, <1>2, <1>10, 0 \in 0..c
<1>14. Linked(all, h, lo, hi + fits)
  BY <1>8, <1>10, <1>11, <1>12, <1>13 DEF Linked
<1>15. ASSUME NEW i \in 1..c
       PROVE  /\ all[i].read = blocks[i].read
              /\ Len(all[i].data) >= Len(blocks[i].data)
              /\ \A k \in 1..Len(blocks[i].data) :
                   all[i].data[k] = blocks[i].data[k]
  <2>1. i - 1 \in 0..c
    OBVIOUS
  <2>2. Len(blocks[i].data) \in Nat
    BY <1>2, <2>1, BlockIs
  <2>3. CASE i = c
    BY <1>5, <1>6, <1>8, <2>2, <2>3
  <2>4. CASE i # c
    BY <1>8, <2>2, <2>4
  <2> QED
    BY <2>3, <2>4
<1> QED
  BY <1>5, <1>8, <1>9, <1>14, <1>15

\* New blocks take the rest, each but the last one full.
Pieces(s, fits, left) ==
  [i \in 1..((left + MAX_BLOCK_SIZE - 1) \div MAX_BLOCK_SIZE) |->
     Filled(NewBlock, SubSeq(s, fits + (i - 1) * MAX_BLOCK_SIZE + 1,
                                fits + Min(i * MAX_BLOCK_SIZE, left)))]

\* The new blocks are a chain that follows the filled one.
LEMMA PiecesLinked ==
  ASSUME NEW hi \in Nat, NEW n \in Nat, hi + n <= MaxBytes,
         NEW s, s = Run(hi, n), NEW fits \in 0..n, NEW left, left = n - fits,
         NEW more, more = (left + MAX_BLOCK_SIZE - 1) \div MAX_BLOCK_SIZE
  PROVE  /\ more \in Nat
         /\ Pieces(s, fits, left) \in Seq(Block)
         /\ Len(Pieces(s, fits, left)) = more
         /\ \E g : Linked(Pieces(s, fits, left), g, hi + fits, hi + n)
<1>1. PICK b \in Nat \ {0} : b = MAX_BLOCK_SIZE
  BY BlockAssumption
<1>2. left \in Nat /\ fits + left = n
  OBVIOUS
<1>3. /\ more \in Nat /\ (more = 0 <=> left = 0) /\ more * b >= left
      /\ \A i \in 1..more : (i - 1) * b \in Nat /\ (i - 1) * b < left
  <2>1. more = (left + b - 1) \div b
    BY <1>1
  <2> QED
    BY <1>2, <2>1, PiecesOf
<1>4. s \in Seq(Nat) /\ Len(s) = n /\ \A k \in 1..n : s[k] = hi + k
  BY RunIs
<1> DEFINE e == [i \in 0..more |-> Min(i * b, left)]
           g == [i \in 0..more |-> hi + fits + e[i]]
<1>5. e[0] = 0 /\ e[more] = left
  <2>1. 0 * b = 0 /\ 0 \in 0..more /\ more \in 0..more
    BY <1>1, <1>3
  <2>2. Min(0, left) = 0
    BY <1>2 DEF Min
  <2>3. more * b \in Nat
    BY <1>1, <1>3
  <2>4. Min(more * b, left) = left
    BY <1>2, <1>3, <2>3 DEF Min
  <2> QED
    BY <2>1, <2>2, <2>4
<1>6. \A i \in 0..more : e[i] \in 0..left
  <2>1. ASSUME NEW i \in 0..more
        PROVE  e[i] \in 0..left
    <3>1. PICK p \in Nat : p = i * b
      BY <1>1
    <3>2. Min(p, left) \in 0..left
      BY <1>2 DEF Min
    <3> QED
      BY <3>1, <3>2
  <2> QED
    BY <2>1
<1>7. \A i, j \in 0..more : i <= j => e[i] <= e[j]
  <2>1. ASSUME NEW i \in 0..more, NEW j \in 0..more, i <= j
        PROVE  e[i] <= e[j]
    <3>1. PICK p \in Nat, q \in Nat : p = i * b /\ q = j * b /\ p <= q
      BY <1>1, <1>3, <2>1, Grows
    <3>2. Min(p, left) <= Min(q, left)
      BY <1>2, <3>1 DEF Min
    <3> QED
      BY <3>1, <3>2
  <2> QED
    BY <2>1
<1>8. \A i \in 1..more : e[i - 1] = (i - 1) * b /\ e[i] - e[i - 1] \in 0..b
  <2>1. ASSUME NEW i \in 1..more
        PROVE  e[i - 1] = (i - 1) * b /\ e[i] - e[i - 1] \in 0..b
    <3>1. PICK p \in Nat : p = (i - 1) * b /\ p < left
      BY <1>3
    <3>2. i * b = p + b /\ i - 1 \in 0..more /\ i \in 0..more
      BY <1>1, <1>3, <3>1
    <3>3. Min(p, left) = p /\ Min(p + b, left) - p \in 0..b
      BY <1>1, <1>2, <3>1 DEF Min
    <3> QED
      BY <3>1, <3>2, <3>3
  <2> QED
    BY <2>1
<1> HIDE DEF e
<1>9. ASSUME NEW i \in 1..more
      PROVE  Bytes(Pieces(s, fits, left)[i],
                   hi + fits + e[i - 1], hi + fits + e[i])
  <2>1. PICK x \in 0..left, y \in 0..left :
          x = e[i - 1] /\ y = e[i] /\ x <= y /\ y - x <= b
    <3>1. i - 1 \in 0..more /\ i \in 0..more /\ i - 1 <= i
      OBVIOUS
    <3> QED
      BY <1>6, <1>7, <1>8, <3>1
  <2>2. Pieces(s, fits, left)[i] =
          Filled(NewBlock, SubSeq(s, fits + x + 1, fits + y))
    <3>1. x = (i - 1) * b /\ y = Min(i * b, left)
      BY <1>8, <2>1, i \in 0..more DEF e
    <3> QED
      BY <1>1, <3>1 DEF Pieces
  <2>3. PICK m \in Nat, w \in Nat : m = y - x /\ w = hi + fits + x
    BY <2>1
  <2>4. SubSeq(s, fits + x + 1, fits + y) = Run(w, m)
    <3>1. PICK p \in 0..n : p = fits + x /\ w = hi + p
      BY <1>2, <2>1, <2>3
    <3>2. PICK r \in p..n : r = fits + y /\ m = r - p
      BY <1>2, <2>1, <2>3, <3>1
    <3>3. SubSeq(Run(hi, n), p + 1, r) = Run(hi + p, r - p)
      BY ONLY hi \in Nat, n \in Nat, p \in 0..n, r \in p..n, RunPart
    <3> QED
      BY ONLY <3>1, <3>2, <3>3, s = Run(hi, n)
  <2>5. w + m <= MaxBytes
    BY <1>2, <2>1, <2>3, BoundAssumption
  <2>6. Bytes(NewBlock, w, w)
    BY NewBlockIs
  <2>7. PICK f \in 0..m :
          /\ f = Min(m, getWriteAbleSize(NewBlock))
          /\ Bytes(Filled(NewBlock, Run(w, m)), w, w + f)
    BY <2>5, <2>6, FilledIs
  <2>8. getWriteAbleSize(NewBlock) = b
    <3>1. NewBlock.data = <<>>
      BY DEF NewBlock
    <3>2. Len(NewBlock.data) = 0
      BY <3>1, EmptySeq
    <3> QED
      BY <1>1, <3>2 DEF getWriteAbleSize
  <2>9. f = m
    BY <1>1, <2>1, <2>3, <2>7, <2>8 DEF Min
  <2>10. w + m = hi + fits + y
    BY <2>1, <2>3
  <2> QED
    BY <2>1, <2>2, <2>3, <2>4, <2>7, <2>9, <2>10
<1>10. g \in [0..more -> Nat] /\ g[0] = hi + fits /\ g[more] = hi + n
  <2>1. \A i \in 0..more : hi + fits + e[i] \in Nat
    BY <1>6
  <2>2. 0 \in 0..more /\ more \in 0..more /\ hi + fits + 0 = hi + fits
        /\ hi + fits + left = hi + n
    BY <1>2, <1>3
  <2> QED
    BY <1>5, <2>1, <2>2
<1>11. \A i, j \in 0..more : i <= j => g[i] <= g[j]
  <2>1. \A i \in 0..more : e[i] \in Nat
    BY <1>6
  <2> QED
    BY <1>7, <2>1
<1>12. \A i \in 1..more : Bytes(Pieces(s, fits, left)[i], g[i - 1], g[i])
  <2>1. \A i \in 1..more : i \in 0..more /\ i - 1 \in 0..more
    OBVIOUS
  <2> QED
    BY <1>9, <2>1
<1> HIDE DEF g
<1>13. Pieces(s, fits, left) \in Seq(Block) /\ Len(Pieces(s, fits, left)) = more
  <2>1. \A i \in 1..more : Pieces(s, fits, left)[i] \in Block
    <3>1. \A i \in 1..more : g[i - 1] \in Nat
      BY <1>10, \A i \in 1..more : i - 1 \in 0..more
    <3> QED
      BY <1>12, <3>1, BlockIs
  <2>2. Pieces(s, fits, left) = [i \in 1..more |-> Pieces(s, fits, left)[i]]
    BY DEF Pieces
  <2>3. PICK u : u = Pieces(s, fits, left)
    OBVIOUS
  <2>4. u = [i \in 1..more |-> u[i]] /\ \A i \in 1..more : u[i] \in Block
    BY <2>1, <2>2, <2>3
  <2>5. u \in Seq(Block) /\ Len(u) = more
    <3>1. u \in [1..more -> Block]
      BY <2>4
    <3>2. u \in Seq(Block)
      BY <1>3, <3>1, SeqDef
    <3> QED
      BY <1>3, <3>1, <3>2, LenProperties
  <2> QED
    BY <2>3, <2>5
<1>14. Linked(Pieces(s, fits, left), g, hi + fits, hi + n)
  BY <1>10, <1>11, <1>12, <1>13 DEF Linked
<1> QED
  BY <1>3, <1>13, <1>14

-----------------------------------------------------------------------------
(* The member functions, on the blocks alone.                              *)

\* The blocks hold the bytes after lo up to hi.
Stored(blocks, lo, hi) ==
  blocks \in Seq(Block) /\ \E g : Linked(blocks, g, lo, hi)

\* A set of the first numbers up to c is an interval, and its size its end.
LEMMA FirstOnes ==
  ASSUME NEW c \in Nat, NEW S, S \subseteq 1..c,
         \A i \in S : \A j \in 1..c : j <= i => j \in S
  PROVE  \E k \in 0..c : S = 1..k /\ Cardinality(S) = k
<1>1. \E k \in 0..c : S = 1..k
  <2>1. CASE S = 1..c
    BY <2>1
  <2>2. CASE S # 1..c
    <3>1. PICK x \in (1..c) \ S : \A y \in (1..c) \ S : x <= y
      <4>1. PICK T : T = (1..c) \ S
        OBVIOUS
      <4>2. T # {}
        BY <2>2, <4>1
      <4>3. T \in SUBSET Nat
        BY <4>1
      <4> QED
        BY ONLY <4>1, <4>2, <4>3, Least
    <3>2. S = 1..(x - 1)
      <4>1. ASSUME NEW i \in S
            PROVE  i \in 1..(x - 1)
        <5>1. i \in 1..c /\ x \in 1..c
          BY <3>1, <4>1
        <5>2. ~(x <= i)
          BY <3>1, <4>1, <5>1
        <5> QED
          BY <5>1, <5>2
      <4>2. ASSUME NEW i \in 1..(x - 1)
            PROVE  i \in S
        <5>1. i \in 1..c /\ ~(x <= i)
          BY <3>1, <4>2
        <5> QED
          BY <3>1, <5>1
      <4> QED
        BY <4>1, <4>2
    <3> QED
      BY <3>1, <3>2
  <2> QED
    BY <2>1, <2>2
<1>2. PICK k \in 0..c : S = 1..k
  BY <1>1
<1>3. Cardinality(1..k) = k
  BY <1>2, FS_Interval
<1> QED
  BY <1>2, <1>3

\* The part of a sequence.
LEMMA PartIs ==
  ASSUME NEW T, NEW d \in Seq(T), NEW r \in Nat, NEW q \in Nat,
         r + q <= Len(d)
  PROVE  /\ SubSeq(d, r + 1, r + q) \in Seq(T)
         /\ Len(SubSeq(d, r + 1, r + q)) = q
         /\ \A k \in 1..q : SubSeq(d, r + 1, r + q)[k] = d[r + k]
<1>1. \A k \in (r + 1)..(r + q) : d[k] \in T
  <2>1. \A k \in (r + 1)..(r + q) : k \in 1..Len(d)
    BY LenProperties
  <2> QED
    BY <2>1, ElementOfSeq
<1>2. /\ SubSeq(d, r + 1, r + q) \in Seq(T)
      /\ Len(SubSeq(d, r + 1, r + q)) =
           IF r + 1 <= r + q THEN r + q - (r + 1) + 1 ELSE 0
      /\ \A k \in 1..(r + q - (r + 1) + 1) :
           SubSeq(d, r + 1, r + q)[k] = d[r + 1 + k - 1]
  BY <1>1, SubSeqProperties, r + 1 \in Int, r + q \in Int
<1>3. /\ r + q - (r + 1) + 1 = q /\ (~(r + 1 <= r + q) => q = 0)
      /\ \A k \in 1..q : r + 1 + k - 1 = r + k
  OBVIOUS
<1>4. PICK u : u = SubSeq(d, r + 1, r + q)
  OBVIOUS
<1>5. Len(u) = q
  BY <1>2, <1>3, <1>4
<1>6. \A k \in 1..q : u[k] = d[r + k]
  BY <1>2, <1>3, <1>4
<1> QED
  BY <1>2, <1>4, <1>5, <1>6

\* What is copied from a block are its next bytes.
LEMMA PeekedIs ==
  ASSUME NEW b, NEW lo \in Nat, NEW hi, Bytes(b, lo, hi), NEW m \in Nat
  PROVE  /\ hi \in Nat /\ lo <= hi
         /\ Peeked(b, m) = Run(lo, Min(m, hi - lo))
<1>1. /\ hi \in Nat /\ lo <= hi /\ getReadAbleSize(b) = hi - lo
  BY BlockIs
<1>2. PICK d \in Seq(1..MaxBytes), r \in Nat :
        /\ b = [data |-> d, read |-> r]
        /\ r <= Len(d) /\ hi = lo + (Len(d) - r)
        /\ \A k \in (r + 1)..Len(d) : d[k] = lo + (k - r)
  BY DEF Bytes
<1>3. PICK len \in Nat : len = Len(d)
  BY <1>2, LenProperties
<1>4. PICK q \in Nat : q = Min(m, hi - lo) /\ r + q <= len
  <2>1. PICK x \in Nat : x = hi - lo /\ r + x = len
    <3>1. r <= len /\ hi = lo + (len - r)
      BY ONLY <1>2, <1>3
    <3>2. len - r \in Nat /\ len - r = hi - lo /\ r + (len - r) = len
      BY ONLY <3>1, lo \in Nat, r \in Nat, len \in Nat
    <3> QED
      BY ONLY <3>2
  <2>2. Min(m, x) \in Nat /\ Min(m, x) <= x
    BY DEF Min
  <2> QED
    BY <2>1, <2>2
<1>5. Peeked(b, m) = SubSeq(d, r + 1, r + q)
  BY <1>1, <1>2, <1>4 DEF Peeked
<1>6. PICK u : u = SubSeq(d, r + 1, r + q)
  OBVIOUS
<1>7. u \in Seq(1..MaxBytes) /\ Len(u) = q /\ \A k \in 1..q : u[k] = d[r + k]
  <2>1. r + q <= Len(d)
    BY ONLY <1>3, <1>4
  <2>2. /\ SubSeq(d, r + 1, r + q) \in Seq(1..MaxBytes)
        /\ Len(SubSeq(d, r + 1, r + q)) = q
        /\ \A k \in 1..q : SubSeq(d, r + 1, r + q)[k] = d[r + k]
    <3>1. PICK T : T = 1..MaxBytes
      OBVIOUS
    <3>2. d \in Seq(T)
      BY ONLY <3>1, d \in Seq(1..MaxBytes)
    <3>3. /\ SubSeq(d, r + 1, r + q) \in Seq(T)
          /\ Len(SubSeq(d, r + 1, r + q)) = q
          /\ \A k \in 1..q : SubSeq(d, r + 1, r + q)[k] = d[r + k]
      BY ONLY <2>1, <3>2, PartIs, r \in Nat, q \in Nat
    <3> QED
      BY ONLY <3>1, <3>3
  <2> QED
    BY ONLY <1>6, <2>2
<1>8. \A k \in 1..q : u[k] = lo + k
  <2>1. \A k \in 1..q : r + k \in (r + 1)..len /\ (r + k) - r = k
    BY <1>4
  <2> QED
    BY <1>2, <1>3, <1>7, <2>1
<1>9. u \in Seq(Nat)
  BY ONLY <1>7, BoundAssumption
<1>10. u = Run(lo, q)
  BY ONLY <1>4, <1>7, <1>8, <1>9, IsRun, lo \in Nat, q \in Nat
<1> QED
  BY <1>1, <1>4, <1>5, <1>6, <1>10

\* readData() with bDel: k blocks are left behind, n bytes are gone.
LEMMA PassedIs ==
  ASSUME NEW blocks \in Seq(Block), NEW upTo, NEW lo, NEW hi,
         Linked(blocks, upTo, lo, hi), NEW n \in 0..(hi - lo),
         NEW P, P = {i \in 1..Len(blocks) : Readable(blocks)[i] < n}
  PROVE  \E k \in 0..Len(blocks), m \in Nat :
           /\ Cardinality(P) = k /\ m = n - Readable(blocks)[k]
           /\ Len(Rest(blocks, k, m)) = Len(blocks) - k
           /\ Stored(Rest(blocks, k, m), lo + n, hi)
<1>1. /\ Len(blocks) \in Nat /\ lo \in Nat /\ hi \in Nat /\ lo <= hi
      /\ \A i \in 0..Len(blocks) :
           upTo[i] \in Nat /\ lo <= upTo[i] /\ upTo[i] <= hi
  BY LinkedIs
<1>2. \A i \in 0..Len(blocks) : Readable(blocks)[i] = upTo[i] - lo
  BY <1>1, ReadableIs
<1>3. /\ upTo[0] = lo /\ upTo[Len(blocks)] = hi
      /\ \A i, j \in 0..Len(blocks) : i <= j => upTo[i] <= upTo[j]
  BY DEF Linked
<1>4. PICK c \in Nat : c = Len(blocks)
  BY <1>1
<1>5. n \in Nat /\ n <= hi - lo
  BY <1>1
<1>6. P = {i \in 1..c : upTo[i] - lo < n}
  <2>1. \A i \in 1..c : i \in 0..c
    OBVIOUS
  <2> QED
    BY <1>2, <1>4, <2>1
<1>7. PICK k \in 0..c : P = 1..k /\ Cardinality(P) = k
  <2>1. \A i \in P : \A j \in 1..c : j <= i => j \in P
    <3>1. ASSUME NEW i \in P, NEW j \in 1..c, j <= i
          PROVE  j \in P
      <4>1. i \in 0..c /\ j \in 0..c /\ upTo[i] - lo < n
        BY <1>6, <3>1
      <4>2. upTo[j] <= upTo[i] /\ upTo[j] \in Nat /\ upTo[i] \in Nat
        BY <1>1, <1>3, <1>4, <3>1, <4>1
      <4>3. upTo[j] - lo < n
        BY <1>1, <1>5, <4>1, <4>2
      <4> QED
        BY <1>6, <3>1, <4>3
    <3> QED
      BY <3>1
  <2>2. P \subseteq 1..c
    BY <1>6
  <2> QED
    BY ONLY <1>4, <2>1, <2>2, FirstOnes
<1>8. PICK a \in Nat : a = upTo[k] /\ lo <= a
  BY <1>1, <1>4, <1>7
<1>9. a - lo <= n
  <2>1. CASE k = 0
    BY <1>1, <1>3, <1>5, <1>8, <2>1
  <2>2. CASE k # 0
    <3>1. k \in P
      BY <1>7, <2>2
    <3> QED
      BY <1>1, <1>5, <1>6, <1>8, <3>1
  <2> QED
    BY <2>1, <2>2
<1>10. PICK m \in Nat : m = n - (a - lo)
  BY <1>1, <1>5, <1>8, <1>9
<1>11. k < c => m <= upTo[k + 1] - upTo[k]
  <2>1. ASSUME k < c
        PROVE  m <= upTo[k + 1] - upTo[k]
    <3>1. k + 1 \in 1..c /\ k + 1 \in 0..c /\ k + 1 \notin P
      BY <1>7, <2>1
    <3>2. PICK e \in Nat : e = upTo[k + 1]
      BY <1>1, <1>4, <3>1
    <3>3. ~(e - lo < n)
      BY <1>6, <3>1, <3>2
    <3>4. PICK l \in Nat : l = lo
      BY <1>1
    <3>5. m <= e - a
      BY ONLY <1>5, <1>8, <1>10, <3>3, <3>4, n \in Nat, m \in Nat, e \in Nat,
              a \in Nat, l \in Nat
    <3> QED
      BY <1>8, <3>2, <3>5
  <2> QED
    BY <2>1
<1>12. k = c => m = 0
  BY <1>1, <1>3, <1>4, <1>5, <1>8, <1>10
<1>13. /\ Rest(blocks, k, m) \in Seq(Block)
       /\ Len(Rest(blocks, k, m)) = Len(blocks) - k
       /\ \E g : Linked(Rest(blocks, k, m), g, upTo[k] + m, hi)
  <2>1. k \in 0..Len(blocks) /\ (k < Len(blocks) => m <= upTo[k + 1] - upTo[k])
        /\ (k = Len(blocks) => m = 0)
    BY <1>4, <1>7, <1>11, <1>12
  <2> QED
    BY ONLY <2>1, Shortened, blocks \in Seq(Block), Linked(blocks, upTo, lo, hi),
            m \in Nat
<1>14. upTo[k] + m = lo + n
  BY <1>1, <1>5, <1>8, <1>10
<1>15. m = n - Readable(blocks)[k]
  BY <1>2, <1>4, <1>7, <1>8, <1>10
<1>16. Stored(Rest(blocks, k, m), lo + n, hi)
  BY <1>13, <1>14 DEF Stored
<1> QED
  BY <1>4, <1>7, <1>13, <1>15, <1>16

\* Nothing skipped, the block stays what it is.
LEMMA NoneSkipped ==
  ASSUME NEW b, NEW lo \in Nat, NEW hi, Bytes(b, lo, hi)
  PROVE  Skipped(b, 0) = b
<1>1. /\ b \in Block /\ hi \in Nat /\ lo <= hi
  BY BlockIs
<1>2. PICK c : c = Skipped(b, 0)
  OBVIOUS
<1>3. Bytes(c, lo, hi) /\ c.data = b.data /\ c.read = b.read
  <2>1. 0 \in Nat /\ 0 <= hi - lo /\ lo + 0 = lo
    BY <1>1
  <2>2. /\ Bytes(Skipped(b, 0), lo + 0, hi)
        /\ Skipped(b, 0).data = b.data /\ Skipped(b, 0).read = b.read + 0
    BY ONLY <2>1, SkippedIs, lo \in Nat, Bytes(b, lo, hi)
  <2>3. b.read + 0 = b.read
    BY <1>1 DEF Block
  <2> QED
    BY <1>2, <2>1, <2>2, <2>3
<1>4. c \in Block
  BY <1>3, BlockIs
<1>5. c = b
  BY ONLY <1>1, <1>3, <1>4 DEF Block
<1> QED
  BY <1>2, <1>5

\* getDataBuffer(): without the first k blocks, those kept hold what all of
\* them held, and the first of them has something, which is given away.
Address(blocks, lo, hi, k, kept) ==
  /\ kept = SubSeq(blocks, k + 1, Len(blocks))
  /\ Len(kept) = Len(blocks) - k /\ Stored(kept, lo, hi)
  /\ k = Len(blocks) => lo = hi
  /\ k < Len(blocks) =>
       /\ kept[1] = blocks[k + 1]
       /\ \E w \in Nat \ {0} :
            /\ w <= hi - lo /\ w = getReadAbleSize(blocks[k + 1])
            /\ Peeked(blocks[k + 1], MAX_BLOCK_SIZE) = Run(lo, w)

\* Those are the blocks that getDataBuffer() leaves.
LEMMA AddressIs ==
  ASSUME NEW blocks \in Seq(Block), NEW upTo, NEW lo, NEW hi,
         Linked(blocks, upTo, lo, hi),
         NEW E, E = {i \in 1..Len(blocks) : Readable(blocks)[i] = 0}
  PROVE  \E k \in 0..Len(blocks), kept \in Seq(Block) :
           Cardinality(E) = k /\ Address(blocks, lo, hi, k, kept)
<1>1. /\ Len(blocks) \in Nat /\ lo \in Nat /\ hi \in Nat /\ lo <= hi
      /\ \A i \in 0..Len(blocks) :
           upTo[i] \in Nat /\ lo <= upTo[i] /\ upTo[i] <= hi
  BY LinkedIs
<1>2. \A i \in 0..Len(blocks) : Readable(blocks)[i] = upTo[i] - lo
  BY <1>1, ReadableIs
<1>3. /\ upTo[0] = lo /\ upTo[Len(blocks)] = hi
      /\ \A i, j \in 0..Len(blocks) : i <= j => upTo[i] <= upTo[j]
  BY DEF Linked
<1>4. PICK c \in Nat : c = Len(blocks)
  BY <1>1
<1>5. E = {i \in 1..c : upTo[i] = lo}
  <2>1. \A i \in 1..c : /\ i \in 0..c /\ upTo[i] \in Nat
                        /\ (upTo[i] - lo = 0 <=> upTo[i] = lo)
    BY <1>1, <1>4
  <2> QED
    BY <1>2, <1>4, <2>1
<1>6. PICK k \in 0..c : E = 1..k /\ Cardinality(E) = k
  <2>1. \A i \in E : \A j \in 1..c : j <= i => j \in E
    <3>1. ASSUME NEW i \in E, NEW j \in 1..c, j <= i
          PROVE  j \in E
      <4>1. i \in 0..c /\ j \in 0..c /\ upTo[i] = lo
        BY <1>5, <3>1
      <4>2. upTo[j] <= lo /\ lo <= upTo[j] /\ upTo[j] \in Nat
        BY <1>1, <1>3, <1>4, <3>1, <4>1
      <4>3. upTo[j] = lo
        BY <1>1, <4>2
      <4> QED
        BY <1>5, <3>1, <4>3
    <3> QED
      BY <3>1
  <2>2. E \subseteq 1..c
    BY <1>5
  <2> QED
    BY ONLY <1>4, <2>1, <2>2, FirstOnes
<1>7. upTo[k] = lo
  <2>1. CASE k = 0
    BY <1>3, <2>1
  <2>2. CASE k # 0
    BY <1>5, <1>6, <2>2, k \in 1..k
  <2> QED
    BY <2>1, <2>2
<1>8. Rest(blocks, k, 0) = SubSeq(blocks, k + 1, c)
  <2>1. \A i \in 1..c : Skipped(blocks[i], 0) = blocks[i]
    <3>1. ASSUME NEW i \in 1..c
          PROVE  Skipped(blocks[i], 0) = blocks[i]
      <4>1. upTo[i - 1] \in Nat /\ Bytes(blocks[i], upTo[i - 1], upTo[i])
        BY <1>4, LinkedIs
      <4> QED
        BY ONLY <4>1, NoneSkipped
    <3> QED
      BY <3>1
  <2>2. blocks = [i \in 1..c |-> blocks[i]]
    BY <1>4, LenProperties
  <2>3. [i \in 1..c |-> IF i = k + 1 THEN Skipped(blocks[i], 0) ELSE blocks[i]]
          = [i \in 1..c |-> blocks[i]]
    BY <2>1
  <2> QED
    BY <1>4, <2>2, <2>3 DEF Rest
<1>9. PICK kept : kept = Rest(blocks, k, 0)
  OBVIOUS
<1>10. /\ kept \in Seq(Block) /\ Len(kept) = c - k
       /\ \A i \in 1..(c - k) :
            kept[i] = IF i = 1 THEN Skipped(blocks[k + 1], 0) ELSE blocks[k + i]
       /\ \E g : Linked(kept, g, upTo[k] + 0, hi)
  <2>1. k \in 0..Len(blocks) /\ 0 \in Nat
        /\ (k < Len(blocks) => 0 <= upTo[k + 1] - upTo[k])
    <3>1. k < Len(blocks) => k \in 0..Len(blocks) /\ k + 1 \in 0..Len(blocks)
                             /\ k <= k + 1
      BY <1>4
    <3>2. k < Len(blocks) => upTo[k] <= upTo[k + 1] /\ upTo[k] \in Nat
                             /\ upTo[k + 1] \in Nat
      BY <1>1, <1>3, <3>1
    <3> QED
      BY <1>4, <3>2
  <2>2. /\ Rest(blocks, k, 0) \in Seq(Block)
        /\ Len(Rest(blocks, k, 0)) = Len(blocks) - k
        /\ \A i \in 1..(Len(blocks) - k) :
             Rest(blocks, k, 0)[i] =
               IF i = 1 THEN Skipped(blocks[k + 1], 0) ELSE blocks[k + i]
        /\ \E g : Linked(Rest(blocks, k, 0), g, upTo[k] + 0, hi)
    BY ONLY <2>1, Shortened, blocks \in Seq(Block), Linked(blocks, upTo, lo, hi)
  <2> QED
    BY ONLY <1>4, <1>9, <2>2
<1>11. Stored(kept, lo, hi)
  <2>1. upTo[k] + 0 = lo
    BY <1>1, <1>7
  <2> QED
    BY <1>10, <2>1 DEF Stored
<1>12. k = c => lo = hi
  BY <1>3, <1>4, <1>7
<1>13. ASSUME k < c
       PROVE  /\ kept[1] = blocks[k + 1]
              /\ \E w \in Nat \ {0} :
                   /\ w <= hi - lo /\ w = getReadAbleSize(blocks[k + 1])
                   /\ Peeked(blocks[k + 1], MAX_BLOCK_SIZE) = Run(lo, w)
  <2>1. k + 1 \in 1..c /\ k + 1 \in 0..c /\ k + 1 \notin E /\ k + 1 - 1 = k
    BY <1>6, <1>13
  <2>2. PICK e \in Nat : e = upTo[k + 1] /\ lo <= e /\ e <= hi /\ e # lo
    BY <1>1, <1>4, <1>5, <2>1
  <2>3. PICK b : b = blocks[k + 1]
    OBVIOUS
  <2>4. Bytes(b, lo, e)
    <3>1. \A i \in 1..c : Bytes(blocks[i], upTo[i - 1], upTo[i])
      BY <1>4, LinkedIs
    <3> QED
      BY <1>7, <2>1, <2>2, <2>3, <3>1
  <2>5. PICK w \in Nat \ {0} : w = e - lo /\ w <= hi - lo
    BY <1>1, <2>2
  <2>6. getReadAbleSize(b) = w /\ b.read \in Nat /\ Len(b.data) \in Nat
        /\ Len(b.data) <= MAX_BLOCK_SIZE
    BY <1>1, <2>4, <2>5, BlockIs
  <2>7. w <= MAX_BLOCK_SIZE
    BY <2>6, BlockAssumption DEF getReadAbleSize
  <2>8. Peeked(b, MAX_BLOCK_SIZE) = Run(lo, w)
    <3>1. MAX_BLOCK_SIZE \in Nat
      BY BlockAssumption
    <3>2. Peeked(b, MAX_BLOCK_SIZE) = Run(lo, Min(MAX_BLOCK_SIZE, e - lo))
      BY ONLY <1>1, <2>4, <3>1, PeekedIs
    <3>3. Min(MAX_BLOCK_SIZE, w) = w
      BY <2>7, <3>1 DEF Min
    <3> QED
      BY ONLY <2>5, <3>2, <3>3
  <2>9. kept[1] = b
    <3>1. 1 \in 1..(c - k)
      BY <1>13
    <3>2. kept[1] = Skipped(b, 0)
      BY <1>10, <2>3, <3>1
    <3> QED
      BY <1>1, <2>4, <3>2, NoneSkipped
  <2> QED
    BY <2>3, <2>5, <2>6, <2>8, <2>9
<1>14. Address(blocks, lo, hi, k, kept)
  BY ONLY <1>4, <1>8, <1>9, <1>10, <1>11, <1>12, <1>13 DEF Address
<1> QED
  BY <1>4, <1>6, <1>10, <1>14

\* getEmptyBuffer() with a new block, and writeData() without a current one.
LEMMA AnotherIs ==
  ASSUME NEW blocks, NEW lo, NEW hi, Stored(blocks, lo, hi)
  PROVE  /\ Stored(Append(blocks, NewBlock), lo, hi)
         /\ Len(Append(blocks, NewBlock)) = Len(blocks) + 1
         /\ Append(blocks, NewBlock)[Len(blocks) + 1] = NewBlock
         /\ \A i \in 1..Len(blocks) :
              Append(blocks, NewBlock)[i] = blocks[i]
<1>1. PICK g : blocks \in Seq(Block) /\ Linked(blocks, g, lo, hi)
  BY DEF Stored
<1>2. hi \in Nat /\ lo \in Nat
  BY <1>1, LinkedIs
<1>3. NewBlock \in Block /\ Bytes(NewBlock, hi, hi)
  BY <1>2, NewBlockIs
<1>4. <<NewBlock>> \in Seq(Block) /\ Len(<<NewBlock>>) = 1
      /\ \E h : Linked(<<NewBlock>>, h, hi, hi)
  BY ONLY <1>2, <1>3, Single
<1>5. PICK one : one = <<NewBlock>>
  OBVIOUS
<1>6. PICK h : Linked(one, h, hi, hi) /\ one \in Seq(Block)
  BY <1>4, <1>5
<1>7. \E f : Linked(blocks \o one, f, lo, hi)
  BY ONLY <1>1, <1>6, Extended
<1>8. Append(blocks, NewBlock) = blocks \o one
  BY ONLY <1>1, <1>3, <1>5, AppendIsConcat
<1>9. Append(blocks, NewBlock) \in Seq(Block)
  BY <1>1, <1>3, AppendProperties
<1> QED
  BY <1>1, <1>3, <1>7, <1>8, <1>9, AppendProperties DEF Stored

\* writeData(): the last block takes what fits and new blocks take what is left.
Fits(blocks, s) == Min(Len(s), getWriteAbleSize(blocks[Len(blocks)]))
More(blocks, s) ==
  (Len(s) - Fits(blocks, s) + MAX_BLOCK_SIZE - 1) \div MAX_BLOCK_SIZE
WrittenTo(blocks, s) ==
  [blocks EXCEPT ![Len(blocks)] = Filled(@, s)]
    \o Pieces(s, Fits(blocks, s), Len(s) - Fits(blocks, s))

\* They hold n bytes more, and the first one still has what it had.
LEMMA WrittenIs ==
  ASSUME NEW blocks, NEW lo, NEW hi, Stored(blocks, lo, hi), blocks # <<>>,
         NEW n \in Nat, hi + n <= MaxBytes, NEW s, s = Run(hi, n)
  PROVE  /\ More(blocks, s) \in Nat
         /\ Len(WrittenTo(blocks, s)) = Len(blocks) + More(blocks, s)
         /\ Stored(WrittenTo(blocks, s), lo, hi + n)
         /\ WrittenTo(blocks, s) # <<>>
         /\ WrittenTo(blocks, s)[1].read = blocks[1].read
         /\ getReadAbleSize(WrittenTo(blocks, s)[1])
              >= getReadAbleSize(blocks[1])
<1>a. PICK c, fits, left, more, all :
        /\ c = Len(blocks) /\ fits = Fits(blocks, s) /\ left = Len(s) - fits
        /\ more = More(blocks, s) /\ all = WrittenTo(blocks, s)
  OBVIOUS
<1>b. fits = Min(Len(s), getWriteAbleSize(blocks[c]))
  BY ONLY <1>a DEF Fits
<1>c. more = (left + MAX_BLOCK_SIZE - 1) \div MAX_BLOCK_SIZE
  BY ONLY <1>a DEF More
<1>d. all = [blocks EXCEPT ![c] = Filled(@, s)] \o Pieces(s, fits, left)
  BY ONLY <1>a DEF WrittenTo
<1>1. PICK g : blocks \in Seq(Block) /\ Linked(blocks, g, lo, hi)
  BY DEF Stored
<1>2. hi \in Nat /\ lo \in Nat /\ lo <= hi
  BY <1>1, LinkedIs
<1>3. Len(s) = n
  BY <1>2, RunIs
<1>4. PICK f \in 0..n, filled \in Seq(Block) :
        /\ f = Min(n, getWriteAbleSize(blocks[c]))
        /\ filled = [blocks EXCEPT ![c] = Filled(@, s)] /\ Len(filled) = c
        /\ \E h : Linked(filled, h, lo, hi + f)
        /\ \A i \in 1..c :
             /\ filled[i].read = blocks[i].read
             /\ Len(filled[i].data) >= Len(blocks[i].data)
  BY ONLY <1>1, LastFilled, blocks # <<>>, n \in Nat, hi + n <= MaxBytes,
          <1>a, s = Run(hi, n)
<1>5. f = fits /\ left = n - f
  BY ONLY <1>3, <1>4, <1>a, <1>b
<1>6. /\ more \in Nat /\ Pieces(s, f, left) \in Seq(Block)
      /\ Len(Pieces(s, f, left)) = more
      /\ \E h : Linked(Pieces(s, f, left), h, hi + f, hi + n)
  BY ONLY <1>2, <1>5, PiecesLinked, n \in Nat, hi + n <= MaxBytes,
          s = Run(hi, n), f \in 0..n, <1>c
<1>7. PICK rest \in Seq(Block) : rest = Pieces(s, f, left)
  BY <1>6
<1>8. all = filled \o rest
  BY ONLY <1>4, <1>5, <1>7, <1>d
<1>9. PICK h1, h2 :
        Linked(filled, h1, lo, hi + f) /\ Linked(rest, h2, hi + f, hi + n)
  BY <1>4, <1>6, <1>7
<1>10. /\ all \in Seq(Block) /\ Len(all) = Len(filled) + Len(rest)
       /\ \A i \in 1..Len(filled) : all[i] = filled[i]
       /\ \E h : Linked(all, h, lo, hi + n)
  BY ONLY <1>8, <1>9, Extended, filled \in Seq(Block), rest \in Seq(Block)
<1>11. Stored(all, lo, hi + n)
  BY ONLY <1>10 DEF Stored
<1>12. c \in Nat /\ 1 \in 1..c
  BY <1>1, <1>a, LenProperties, EmptySeq
<1>13. Len(all) = c + more
  BY ONLY <1>4, <1>6, <1>7, <1>10
<1>14. all[1] = filled[1]
  BY ONLY <1>4, <1>10, <1>12
<1>15. filled[1] \in Block /\ blocks[1] \in Block
  BY <1>1, <1>4, <1>12, ElementOfSeq
<1>16. PICK p \in Nat, q \in Nat, r \in Nat :
         /\ p = Len(filled[1].data) /\ q = Len(blocks[1].data)
         /\ r = blocks[1].read
  BY ONLY <1>15, LenProperties DEF Block
<1>17. getReadAbleSize(all[1]) >= getReadAbleSize(blocks[1])
       /\ all[1].read = blocks[1].read
  <2>1. p >= q /\ filled[1].read = r
    BY ONLY <1>4, <1>12, <1>16
  <2>2. getReadAbleSize(all[1]) = p - r /\ getReadAbleSize(blocks[1]) = q - r
    BY ONLY <1>14, <1>16, <2>1 DEF getReadAbleSize
  <2>3. p - r >= q - r
    BY ONLY <2>1, p \in Nat, q \in Nat, r \in Nat
  <2> QED
    BY ONLY <1>14, <1>16, <2>1, <2>2, <2>3
<1>18. all # <<>>
  <2>1. Len(all) # 0
    BY ONLY <1>6, <1>12, <1>13
  <2> QED
    BY ONLY <2>1, EmptySeq
<1> QED
  BY ONLY <1>6, <1>11, <1>13, <1>17, <1>18, <1>a

-----------------------------------------------------------------------------
(* The invariant.                                                          *)

\* The blocks hold the bytes that were written and not read, and the last one
\* is written to.
Buffered ==
  /\ written \in 0..MaxBytes /\ m_nDataSize \in 0..written /\ alive \in BOOLEAN
  /\ Len(m_IoBlocks) <= MaxBlocks
  /\ alive => /\ m_pCurBlock = Len(m_IoBlocks)
              /\ Stored(m_IoBlocks, written - m_nDataSize, written)
  /\ ~alive => m_IoBlocks = <<>>

\* The bytes in flight are the next ones of the first block.
Posted ==
  /\ inFlight \in Seq(1..MaxBytes) /\ readAt \in Nat
  /\ inFlight # <<>> =>
       /\ m_IoBlocks # <<>> /\ readAt = m_IoBlocks[1].read
       /\ Len(inFlight) <= getReadAbleSize(m_IoBlocks[1])
       /\ inFlight = Run(written - m_nDataSize, Len(inFlight))

\* At first nothing is held and nothing is in flight.
LEMMA InitKeeps ==
  Init => Buffered /\ Posted
<1> SUFFICES ASSUME Init PROVE Buffered /\ Posted
  OBVIOUS
<1>1. <<>> \in Seq(Block) /\ Len(<<>>) = 0 /\ <<>> \in Seq(1..MaxBytes)
  BY EmptySeq
<1>2. Linked(<<>>, [i \in 0..0 |-> 0], 0, 0)
  BY <1>1 DEF Linked
<1>3. Stored(<<>>, 0, 0)
  BY <1>1, <1>2 DEF Stored
<1>4. MaxBytes \in Nat /\ MaxBlocks \in Nat
  BY BoundAssumption
<1>5. Buffered
  BY <1>1, <1>3, <1>4 DEF Init, Buffered
<1> QED
  BY <1>1, <1>5 DEF Init, Posted

\* Writing adds the next bytes, and leaves those in flight in their place.
LEMMA WriteDataKeeps ==
  ASSUME Buffered, Posted, alive, alive', NEW n \in 1..MaxBytes, WriteData(n)
  PROVE  Buffered' /\ Posted'
<1>1. PICK lo, hi : lo = written - m_nDataSize /\ hi = written
  OBVIOUS
<1>2. /\ hi \in Nat /\ lo \in Nat /\ lo <= hi /\ n \in Nat /\ hi + n <= MaxBytes
      /\ m_nDataSize \in 0..hi
  BY <1>1, BoundAssumption DEF Buffered, WriteData
<1>3. Stored(m_IoBlocks, lo, hi) /\ m_pCurBlock = Len(m_IoBlocks)
  BY <1>1 DEF Buffered
<1>4. m_IoBlocks \in Seq(Block) /\ Len(m_IoBlocks) \in Nat
  BY <1>3, LenProperties DEF Stored
<1>5. PICK first :
        first = IF m_pCurBlock = 0 THEN Append(m_IoBlocks, NewBlock)
                                   ELSE m_IoBlocks
  OBVIOUS
<1>6. /\ Stored(first, lo, hi) /\ first # <<>> /\ Len(first) \in Nat
      /\ (IF m_pCurBlock = 0 THEN Len(first) ELSE m_pCurBlock) = Len(first)
      /\ (m_IoBlocks # <<>> => first = m_IoBlocks)
  <2>1. CASE m_pCurBlock = 0
    <3>1. Stored(first, lo, hi) /\ Len(first) = Len(m_IoBlocks) + 1
      BY ONLY <1>3, <1>5, <2>1, AnotherIs
    <3>2. Len(first) = 1
      <4>1. Len(m_IoBlocks) = 0
        BY ONLY <1>3, <2>1
      <4> QED
        BY ONLY <3>1, <4>1
    <3>3. first # <<>>
      <4>1. Len(first) # 0
        BY ONLY <3>2
      <4> QED
        BY ONLY <4>1, EmptySeq
    <3>4. m_IoBlocks = <<>>
      BY <1>3, <1>4, <2>1, EmptySeq
    <3> QED
      BY <2>1, <3>1, <3>2, <3>3, <3>4
  <2>2. CASE m_pCurBlock # 0
    <3>1. m_IoBlocks # <<>>
      BY <1>3, <2>2, EmptySeq
    <3> QED
      BY <1>3, <1>4, <1>5, <2>2, <3>1
  <2> QED
    BY <2>1, <2>2
<1>7. PICK c, s, more :
        c = Len(first) /\ s = Run(hi, n) /\ more = More(first, s)
  OBVIOUS
<1>8. /\ m_IoBlocks' = WrittenTo(first, s)
      /\ m_pCurBlock' = IF more = 0 THEN c ELSE c + more
  <2>1. s = [i \in 1..n |-> written + i]
    BY <1>1, <1>7 DEF Run
  <2>2. WriteBlocks(s)
    BY <2>1 DEF WriteData
  <2> QED
    BY ONLY <1>5, <1>6, <1>7, <2>2
       DEF WriteBlocks, WrittenTo, Pieces, More, Fits
<1>9. PICK all : all = m_IoBlocks'
  OBVIOUS
<1>10. /\ more \in Nat /\ Len(all) = c + more /\ Stored(all, lo, hi + n)
       /\ all # <<>> /\ all[1].read = first[1].read
       /\ getReadAbleSize(all[1]) >= getReadAbleSize(first[1])
  <2>1. n \in Nat /\ hi + n <= MaxBytes
    BY ONLY <1>2
  <2>2. Stored(first, lo, hi) /\ first # <<>>
    BY ONLY <1>6
  <2>3. s = Run(hi, n)
    BY ONLY <1>7
  <2>4. /\ More(first, s) \in Nat
        /\ Len(WrittenTo(first, s)) = Len(first) + More(first, s)
        /\ Stored(WrittenTo(first, s), lo, hi + n)
        /\ WrittenTo(first, s) # <<>>
        /\ WrittenTo(first, s)[1].read = first[1].read
        /\ getReadAbleSize(WrittenTo(first, s)[1])
             >= getReadAbleSize(first[1])
    BY ONLY <2>1, <2>2, <2>3, WrittenIs
  <2> QED
    BY ONLY <1>7, <1>8, <1>9, <2>4
<1>11. /\ m_nDataSize' = m_nDataSize + n /\ written' = hi + n
       /\ written' - m_nDataSize' = lo /\ Len(m_IoBlocks') <= MaxBlocks
       /\ inFlight' = inFlight /\ readAt' = readAt
  BY <1>1, <1>2 DEF WriteData
<1>12. m_pCurBlock' = Len(m_IoBlocks')
  BY <1>6, <1>7, <1>8, <1>9, <1>10
<1>13. Buffered'
  <2>1. written' \in 0..MaxBytes /\ m_nDataSize' \in 0..written'
    BY <1>2, <1>11, BoundAssumption
  <2> QED
    BY <1>9, <1>10, <1>11, <1>12, <2>1 DEF Buffered
<1>14. Posted'
  <2>1. ASSUME inFlight # <<>>
        PROVE  /\ m_IoBlocks' # <<>> /\ readAt = m_IoBlocks'[1].read
               /\ Len(inFlight) <= getReadAbleSize(m_IoBlocks'[1])
               /\ inFlight = Run(lo, Len(inFlight))
    <3>1. /\ m_IoBlocks # <<>> /\ readAt = m_IoBlocks[1].read
          /\ Len(inFlight) <= getReadAbleSize(m_IoBlocks[1])
          /\ inFlight = Run(lo, Len(inFlight)) /\ Len(inFlight) \in Nat
      BY <1>1, <2>1, LenProperties DEF Posted
    <3>2. first = m_IoBlocks
      BY <1>6, <3>1
    <3>3. m_IoBlocks[1] \in Block
      <4>1. Len(m_IoBlocks) # 0
        BY <1>4, <3>1, EmptySeq
      <4> QED
        BY <1>4, <4>1, ElementOfSeq, 1 \in 1..Len(m_IoBlocks)
    <3>4. all[1] \in Block
      <4>1. all \in Seq(Block) /\ Len(all) \in Nat /\ Len(all) # 0
        BY <1>10, EmptySeq, LenProperties DEF Stored
      <4> QED
        BY <4>1, ElementOfSeq, 1 \in 1..Len(all)
    <3>5. getReadAbleSize(m_IoBlocks[1]) \in Int /\ getReadAbleSize(all[1]) \in Int
      BY <3>3, <3>4, LenProperties DEF Block, getReadAbleSize
    <3>6. Len(inFlight) <= getReadAbleSize(all[1])
      BY <1>10, <3>1, <3>2, <3>5
    <3> QED
      BY <1>9, <1>10, <3>1, <3>2, <3>6
  <2> QED
    BY <1>11, <2>1 DEF Posted
<1> QED
  BY <1>13, <1>14

\* Removing n bytes: what readData() and sendout() do.
LEMMA RemoveKeeps ==
  ASSUME Buffered, alive, alive', NEW n \in 0..m_nDataSize, Remove(n),
         written' = written
  PROVE  Buffered' /\ written' - m_nDataSize' = written - m_nDataSize + n
<1>1. PICK lo, hi : lo = written - m_nDataSize /\ hi = written
  OBVIOUS
<1>2. /\ hi \in Nat /\ lo \in Nat /\ lo <= hi /\ n \in 0..(hi - lo)
      /\ m_nDataSize \in 0..hi /\ hi - lo = m_nDataSize
  BY <1>1, BoundAssumption DEF Buffered
<1>3. Stored(m_IoBlocks, lo, hi) /\ m_pCurBlock = Len(m_IoBlocks)
  BY <1>1 DEF Buffered
<1>4. PICK g : m_IoBlocks \in Seq(Block) /\ Linked(m_IoBlocks, g, lo, hi)
  BY <1>3 DEF Stored
<1>5. PICK k \in 0..Len(m_IoBlocks), m \in Nat :
        /\ Cardinality(Passed(n)) = k /\ m = n - Readable(m_IoBlocks)[k]
        /\ Len(Rest(m_IoBlocks, k, m)) = Len(m_IoBlocks) - k
        /\ Stored(Rest(m_IoBlocks, k, m), lo + n, hi)
  <2>1. PICK P : P = {i \in 1..Len(m_IoBlocks) : Readable(m_IoBlocks)[i] < n}
    OBVIOUS
  <2>2. P = Passed(n)
    BY <2>1 DEF Passed
  <2>3. \E k \in 0..Len(m_IoBlocks), m \in Nat :
          /\ Cardinality(P) = k /\ m = n - Readable(m_IoBlocks)[k]
          /\ Len(Rest(m_IoBlocks, k, m)) = Len(m_IoBlocks) - k
          /\ Stored(Rest(m_IoBlocks, k, m), lo + n, hi)
    <3>1. n \in 0..(hi - lo) /\ m_IoBlocks \in Seq(Block)
          /\ Linked(m_IoBlocks, g, lo, hi)
      BY ONLY <1>2, <1>4
    <3> QED
      BY ONLY <2>1, <3>1, PassedIs, Zenon
  <2> QED
    BY ONLY <2>2, <2>3
<1>6. Len(m_IoBlocks) \in Nat
  BY <1>4, LenProperties
<1>7. /\ m_IoBlocks' = Rest(m_IoBlocks, k, m)
      /\ m_pCurBlock' = IF m_pCurBlock <= k THEN 0 ELSE m_pCurBlock - k
      /\ m_nDataSize' = m_nDataSize - n
  <2>1. PICK f : f = [i \in 1..Len(m_IoBlocks) |->
                        IF i = k + 1 THEN Skipped(m_IoBlocks[i], m)
                        ELSE m_IoBlocks[i]]
    OBVIOUS
  <2>2. Erase(k, f) /\ m_nDataSize' = m_nDataSize - n
    BY <1>5, <2>1 DEF Remove
  <2>3. Len(f) = Len(m_IoBlocks)
    BY <1>6, <2>1
  <2> QED
    BY <2>1, <2>2, <2>3 DEF Erase, Rest
<1>8. m_pCurBlock' = Len(m_IoBlocks') /\ Len(m_IoBlocks') <= Len(m_IoBlocks)
      /\ Len(m_IoBlocks') \in Nat
  BY <1>3, <1>5, <1>6, <1>7
<1>9. /\ written' - m_nDataSize' = lo + n /\ m_nDataSize' \in 0..written'
      /\ written' = hi
  BY <1>1, <1>2, <1>7
<1>10. Len(m_IoBlocks') <= MaxBlocks
  BY <1>6, <1>8, BoundAssumption DEF Buffered
<1>11. Stored(m_IoBlocks', written' - m_nDataSize', written')
  BY <1>5, <1>7, <1>9
<1> QED
  BY <1>1, <1>8, <1>9, <1>10, <1>11 DEF Buffered

\* Reading without bDel changes nothing; with it nothing is in flight.
LEMMA ReadDataKeeps ==
  ASSUME Buffered, Posted, alive, alive',
         NEW nLength \in 1..MaxBytes, NEW bDel \in BOOLEAN,
         ReadData(nLength, bDel)
  PROVE  Buffered' /\ Posted'
<1>1. PICK n : n = Min(nLength, m_nDataSize)
  OBVIOUS
<1>2. n \in 0..m_nDataSize
  BY <1>1, BoundAssumption DEF Buffered, Min
<1>3. /\ bDel => inFlight = <<>>
      /\ IF bDel THEN Remove(n) ELSE UNCHANGED buffer
      /\ UNCHANGED <<written, inFlight, readAt>>
  BY <1>1 DEF ReadData
<1>4. CASE bDel
  BY <1>2, <1>3, <1>4, RemoveKeeps DEF Posted
<1>5. CASE ~bDel
  BY <1>3, <1>5 DEF buffer, Buffered, Posted
<1> QED
  BY <1>4, <1>5

\* After sendout() has deleted what was sent, nothing is in flight.
LEMMA DeleteSentKeeps ==
  ASSUME Buffered, Posted, alive, alive',
         NEW n \in 1..MAX_BLOCK_SIZE, DeleteSent(n)
  PROVE  Buffered' /\ Posted'
<1>1. PICK d : d = Min(n, m_nDataSize)
  OBVIOUS
<1>2. d \in 0..m_nDataSize
  BY <1>1, BlockAssumption, BoundAssumption DEF Buffered, Min
<1>3. Remove(d) /\ inFlight' = <<>> /\ readAt' = 0 /\ written' = written
  BY <1>1 DEF DeleteSent
<1>4. Buffered'
  BY ONLY <1>2, <1>3, RemoveKeeps, Buffered, alive, alive'
<1> QED
  BY <1>3, <1>4, EmptySeq DEF Posted

\* The next bytes are bytes that were written.
LEMMA NextBytes ==
  ASSUME NEW lo \in Nat, NEW w \in Nat, lo + w <= MaxBytes
  PROVE  Run(lo, w) \in Seq(1..MaxBytes) /\ Len(Run(lo, w)) = w
<1>1. PICK u : u = Run(lo, w)
  OBVIOUS
<1>2. u \in Seq(Nat) /\ Len(u) = w /\ \A k \in 1..w : u[k] = lo + k
  BY <1>1, RunIs
<1>3. \A k \in 1..w : u[k] \in 1..MaxBytes
  BY <1>2, BoundAssumption
<1>4. u \in Seq(1..MaxBytes)
  <2>1. u = [k \in 1..w |-> lo + k]
    BY <1>1 DEF Run
  <2>2. u \in [1..w -> 1..MaxBytes]
    BY ONLY <1>2, <1>3, <2>1
  <2> QED
    BY ONLY <2>2, SeqDef, w \in Nat
<1> QED
  BY <1>1, <1>2, <1>4

\* What getDataBuffer() does, for the invariant and for the queue.
LEMMA GetDataBufferIs ==
  ASSUME Buffered, alive, GetDataBuffer
  PROVE  /\ Stored(m_IoBlocks', written - m_nDataSize, written)
         /\ m_pCurBlock' = Len(m_IoBlocks')
         /\ Len(m_IoBlocks') <= Len(m_IoBlocks)
         /\ \/ /\ m_IoBlocks' = <<>> /\ inFlight' = <<>> /\ readAt' = 0
               /\ m_nDataSize = 0 /\ out' = [bytes |-> <<>>, count |-> 0]
            \/ /\ m_IoBlocks' # <<>> /\ readAt' = m_IoBlocks'[1].read
               /\ readAt' \in Nat
               /\ \E w \in 1..m_nDataSize :
                    /\ w = getReadAbleSize(m_IoBlocks'[1])
                    /\ inFlight' = Run(written - m_nDataSize, w)
                    /\ out' = [bytes |-> Run(written - m_nDataSize, w),
                               count |-> w]
<1>1. PICK lo, hi : lo = written - m_nDataSize /\ hi = written
  OBVIOUS
<1>2. /\ hi \in Nat /\ lo \in Nat /\ lo <= hi /\ hi <= MaxBytes
      /\ m_nDataSize \in Nat /\ hi - lo = m_nDataSize
  BY <1>1, BoundAssumption DEF Buffered
<1>3. Stored(m_IoBlocks, lo, hi) /\ m_pCurBlock = Len(m_IoBlocks)
  BY <1>1 DEF Buffered
<1>4. PICK g : m_IoBlocks \in Seq(Block) /\ Linked(m_IoBlocks, g, lo, hi)
  BY <1>3 DEF Stored
<1>5. PICK E : E = {i \in 1..Len(m_IoBlocks) : Readable(m_IoBlocks)[i] = 0}
  OBVIOUS
<1>6_1. PICK k \in 0..Len(m_IoBlocks), kept \in Seq(Block) :
         Cardinality(E) = k /\ Address(m_IoBlocks, lo, hi, k, kept)
  BY ONLY <1>4, <1>5, AddressIs
<1>6. /\ Cardinality(E) = k
      /\ kept = SubSeq(m_IoBlocks, k + 1, Len(m_IoBlocks))
      /\ Len(kept) = Len(m_IoBlocks) - k /\ Stored(kept, lo, hi)
      /\ k = Len(m_IoBlocks) => lo = hi
      /\ k < Len(m_IoBlocks) =>
           /\ kept[1] = m_IoBlocks[k + 1]
           /\ \E w \in Nat \ {0} :
                /\ w <= hi - lo /\ w = getReadAbleSize(m_IoBlocks[k + 1])
                /\ Peeked(m_IoBlocks[k + 1], MAX_BLOCK_SIZE) = Run(lo, w)
  BY ONLY <1>6_1 DEF Address
<1>7. PICK s : s = IF k = Len(m_IoBlocks) THEN <<>>
                   ELSE Peeked(m_IoBlocks[k + 1], MAX_BLOCK_SIZE)
  OBVIOUS
<1>8. /\ Erase(k, m_IoBlocks) /\ inFlight' = s /\ Give(s, Len(s))
      /\ readAt' = IF s = <<>> THEN 0 ELSE m_IoBlocks[k + 1].read
  BY <1>5, <1>6, <1>7 DEF GetDataBuffer
<1>9. m_IoBlocks' = kept /\ out' = [bytes |-> s, count |-> Len(s)]
      /\ m_pCurBlock' = IF m_pCurBlock <= k THEN 0 ELSE m_pCurBlock - k
  BY <1>6, <1>8 DEF Erase, Give
<1>10. Len(m_IoBlocks) \in Nat
  BY <1>4, LenProperties
<1>11. /\ Stored(m_IoBlocks', lo, hi) /\ m_pCurBlock' = Len(m_IoBlocks')
       /\ Len(m_IoBlocks') <= Len(m_IoBlocks)
  BY <1>3, <1>6, <1>9, <1>10
<1>12. CASE k = Len(m_IoBlocks)
  <2>1. s = <<>> /\ Len(s) = 0
    BY <1>7, <1>12, EmptySeq
  <2>2. Len(kept) = 0
    BY <1>6, <1>10, <1>12
  <2>3. kept = <<>>
    BY <1>6, <2>2, EmptySeq
  <2>4. m_nDataSize = 0
    BY <1>2, <1>6, <1>12
  <2> QED
    BY <1>1, <1>8, <1>9, <1>11, <2>1, <2>3, <2>4
<1>13. CASE k < Len(m_IoBlocks)
  <2>1. PICK w \in Nat \ {0} :
          /\ w <= hi - lo /\ w = getReadAbleSize(m_IoBlocks[k + 1])
          /\ Peeked(m_IoBlocks[k + 1], MAX_BLOCK_SIZE) = Run(lo, w)
    BY <1>6, <1>13
  <2>2. s = Run(lo, w)
    BY <1>7, <1>10, <1>13, <2>1
  <2>3. lo + w <= MaxBytes /\ w \in 1..m_nDataSize
    <3>1. PICK x \in Nat, y \in Nat : x = lo /\ y = hi
      BY ONLY <1>2
    <3>2. w <= y - x /\ w \in 1..m_nDataSize
      BY ONLY <1>2, <2>1, <3>1, w \in Nat \ {0}
    <3> QED
      BY ONLY <1>2, <3>1, <3>2, w \in Nat \ {0}, BoundAssumption
  <2>4. Len(s) = w
    BY <1>2, <2>1, <2>2, <2>3, NextBytes
  <2>5. s # <<>>
    BY ONLY <2>1, <2>4, EmptySeq
  <2>6. kept # <<>> /\ Len(kept) \in Nat \ {0}
    <3>1. Len(kept) \in Nat /\ Len(kept) # 0
      BY <1>6, <1>10, <1>13
    <3> QED
      BY ONLY <3>1, EmptySeq
  <2>7. kept[1] = m_IoBlocks[k + 1]
    BY <1>6, <1>13
  <2>8. kept[1].read \in Nat
    <3>1. kept[1] \in Block
      BY <1>6, <2>6, ElementOfSeq, 1 \in 1..Len(kept)
    <3> QED
      BY <3>1 DEF Block
  <2> QED
    BY <1>1, <1>8, <1>9, <1>11, <2>1, <2>2, <2>3, <2>4, <2>5, <2>6, <2>7, <2>8
<1> QED
  BY <1>10, <1>12, <1>13

\* What is put in flight are the next bytes of the first block left.
LEMMA GetDataBufferKeeps ==
  ASSUME Buffered, Posted, alive, alive', GetDataBuffer
  PROVE  Buffered' /\ Posted'
<1>1. written' = written /\ m_nDataSize' = m_nDataSize
  BY DEF GetDataBuffer
<1>2. /\ Stored(m_IoBlocks', written - m_nDataSize, written)
      /\ m_pCurBlock' = Len(m_IoBlocks')
      /\ Len(m_IoBlocks') <= Len(m_IoBlocks)
      /\ \/ inFlight' = <<>> /\ readAt' = 0
         \/ /\ m_IoBlocks' # <<>> /\ readAt' = m_IoBlocks'[1].read
            /\ readAt' \in Nat
            /\ \E w \in 1..m_nDataSize :
                 /\ w = getReadAbleSize(m_IoBlocks'[1])
                 /\ inFlight' = Run(written - m_nDataSize, w)
  BY GetDataBufferIs
<1>3. Buffered'
  <2>1. Len(m_IoBlocks) \in Nat /\ Len(m_IoBlocks') \in Nat
    BY <1>2, LenProperties DEF Buffered, Stored
  <2>2. Len(m_IoBlocks') <= MaxBlocks
    BY <1>2, <2>1, BoundAssumption DEF Buffered
  <2> QED
    BY <1>1, <1>2, <2>2 DEF Buffered
<1>4. CASE inFlight' = <<>> /\ readAt' = 0
  BY <1>3, <1>4, EmptySeq DEF Posted
<1>5. ASSUME NEW w \in 1..m_nDataSize, m_IoBlocks' # <<>>,
             readAt' = m_IoBlocks'[1].read, readAt' \in Nat,
             w = getReadAbleSize(m_IoBlocks'[1]),
             inFlight' = Run(written - m_nDataSize, w)
      PROVE  Posted'
  <2>1. PICK lo \in Nat : lo = written - m_nDataSize /\ lo + w <= MaxBytes
    BY BoundAssumption DEF Buffered
  <2>2. w \in Nat
    BY DEF Buffered
  <2>3. inFlight' \in Seq(1..MaxBytes) /\ Len(inFlight') = w
    BY <1>5, <2>1, <2>2, NextBytes
  <2> QED
    BY <1>1, <1>5, <2>2, <2>3 DEF Posted
<1> QED
  BY <1>2, <1>3, <1>4, <1>5

\* Another block holds nothing and leaves the others alone.
LEMMA GetEmptyBufferKeeps ==
  ASSUME Buffered, Posted, alive, alive', NEW bNewBlock \in BOOLEAN,
         GetEmptyBuffer(bNewBlock)
  PROVE  Buffered' /\ Posted'
<1>1. UNCHANGED <<m_nDataSize, written, inFlight, readAt>>
  BY DEF GetEmptyBuffer
<1>2. \/ /\ Len(m_IoBlocks) < MaxBlocks
         /\ m_IoBlocks' = Append(m_IoBlocks, NewBlock)
         /\ m_pCurBlock' = Len(m_IoBlocks')
      \/ UNCHANGED <<m_IoBlocks, m_pCurBlock>>
  BY DEF GetEmptyBuffer
<1>3. CASE UNCHANGED <<m_IoBlocks, m_pCurBlock>>
  BY <1>1, <1>3 DEF Buffered, Posted
<1>4. CASE /\ Len(m_IoBlocks) < MaxBlocks
           /\ m_IoBlocks' = Append(m_IoBlocks, NewBlock)
           /\ m_pCurBlock' = Len(m_IoBlocks')
  <2>1. PICK lo, hi : lo = written - m_nDataSize /\ hi = written
    OBVIOUS
  <2>2. Stored(m_IoBlocks, lo, hi)
    BY <2>1 DEF Buffered
  <2>3. m_IoBlocks \in Seq(Block) /\ Len(m_IoBlocks) \in Nat
    BY <2>2, LenProperties DEF Stored
  <2>4. /\ Stored(m_IoBlocks', lo, hi) /\ Len(m_IoBlocks') = Len(m_IoBlocks) + 1
        /\ \A i \in 1..Len(m_IoBlocks) : m_IoBlocks'[i] = m_IoBlocks[i]
    BY ONLY <1>4, <2>2, AnotherIs
  <2>5. Len(m_IoBlocks') <= MaxBlocks
    BY <1>4, <2>3, <2>4, BoundAssumption
  <2>6. Buffered'
    BY <1>1, <1>4, <2>1, <2>4, <2>5 DEF Buffered
  <2>7. m_IoBlocks # <<>> => m_IoBlocks'[1] = m_IoBlocks[1] /\ m_IoBlocks' # <<>>
    <3>1. ASSUME m_IoBlocks # <<>>
          PROVE  m_IoBlocks'[1] = m_IoBlocks[1] /\ m_IoBlocks' # <<>>
      <4>1. Len(m_IoBlocks) # 0
        BY ONLY <2>3, <3>1, EmptySeq
      <4>2. Len(m_IoBlocks') # 0
        BY ONLY <2>3, <2>4
      <4>3. m_IoBlocks' # <<>>
        BY ONLY <4>2, EmptySeq
      <4> QED
        BY <2>3, <2>4, <4>1, <4>3
    <3> QED
      BY <3>1
  <2>8. Posted'
    BY <1>1, <2>7 DEF Posted
  <2> QED
    BY <2>6, <2>8
<1> QED
  BY <1>2, <1>3, <1>4

\* No step breaks the invariant.
LEMMA NextKeeps ==
  ASSUME Buffered, Posted, [Next]_vars
  PROVE  Buffered' /\ Posted'
<1>1. ASSUME alive, Call, UNCHANGED alive
      PROVE  Buffered' /\ Posted'
  <2>1. alive'
    BY <1>1
  <2>2. ASSUME NEW n \in 1..MaxBytes, WriteData(n)
        PROVE  Buffered' /\ Posted'
    BY <1>1, <2>1, <2>2, WriteDataKeeps
  <2>3. ASSUME NEW n \in 1..MaxBytes, NEW bDel \in BOOLEAN, ReadData(n, bDel)
        PROVE  Buffered' /\ Posted'
    BY <1>1, <2>1, <2>3, ReadDataKeeps
  <2>4. ASSUME NEW n \in 1..MAX_BLOCK_SIZE, DeleteSent(n)
        PROVE  Buffered' /\ Posted'
    BY <1>1, <2>1, <2>4, DeleteSentKeeps
  <2>5. CASE GetDataBuffer
    BY <1>1, <2>1, <2>5, GetDataBufferKeeps
  <2>6. ASSUME NEW b \in BOOLEAN, GetEmptyBuffer(b)
        PROVE  Buffered' /\ Posted'
    BY <1>1, <2>1, <2>6, GetEmptyBufferKeeps
  <2> QED
    BY <1>1, <2>2, <2>3, <2>4, <2>5, <2>6 DEF Call
<1>2. CASE ClearIOBlocks
  <2>1. Len(<<>>) = 0 /\ 0 <= MaxBlocks
    BY BoundAssumption
  <2> QED
    BY <1>2, <2>1 DEF ClearIOBlocks, Buffered, Posted
<1>3. CASE UNCHANGED vars
  BY <1>3 DEF vars, buffer, Buffered, Posted
<1> QED
  BY <1>1, <1>2, <1>3 DEF Next, Gone

\* The blocks hold what was written and not read, and what is in flight is the
\* beginning of it, always.
LEMMA Always ==
  Spec => [](Buffered /\ Posted)
<1>1. Buffered /\ Posted /\ [Next]_vars => (Buffered /\ Posted)'
  BY NextKeeps
<1> QED
  BY InitKeeps, <1>1, PTL DEF Spec

-----------------------------------------------------------------------------
(* What every call gives back.                                             *)

\* What is left to copy after x bytes were.
LEMMA MinSplit ==
  ASSUME NEW n \in Nat, NEW x \in Nat, NEW y \in Nat, x < n, x <= y
  PROVE  Min(n, x) = x /\ Min(n - x, y - x) = Min(n, y) - x /\ x <= Min(n, y)
<1>1. CASE n < y
  <2>1. n - x < y - x
    BY <1>1
  <2> QED
    BY <1>1, <2>1 DEF Min
<1>2. CASE ~(n < y)
  <2>1. ~(n - x < y - x)
    BY <1>2
  <2> QED
    BY <1>2, <2>1 DEF Min
<1> QED
  BY <1>1, <1>2

\* The bytes readData() copies are the next n ones.
LEMMA CopiedIs ==
  ASSUME NEW blocks, NEW lo, NEW hi, Stored(blocks, lo, hi),
         NEW n \in 0..(hi - lo),
         NEW parts, parts = [i \in 1..Len(blocks) |->
           IF Readable(blocks)[i - 1] >= n THEN <<>>
           ELSE Peeked(blocks[i], n - Readable(blocks)[i - 1])]
  PROVE  SX!FlattenSeq(parts) = Run(lo, n)
<1>1. PICK g : blocks \in Seq(Block) /\ Linked(blocks, g, lo, hi)
  BY DEF Stored
<1>2. PICK c \in Nat : c = Len(blocks)
  BY <1>1, LenProperties
<1>3. /\ lo \in Nat /\ hi \in Nat /\ lo <= hi
      /\ \A i \in 0..c : g[i] \in Nat /\ lo <= g[i] /\ g[i] <= hi
      /\ \A i \in 1..c : Bytes(blocks[i], g[i - 1], g[i])
  BY ONLY <1>1, <1>2, LinkedIs
<1>4. \A i \in 0..c : Readable(blocks)[i] = g[i] - lo
  BY ONLY <1>1, <1>2, ReadableIs
<1>5. /\ g[0] = lo /\ g[c] = hi
      /\ \A i, j \in 0..c : i <= j => g[i] <= g[j]
  BY ONLY <1>1, <1>2 DEF Linked
<1>6. n \in Nat /\ n <= hi - lo
  BY <1>3
<1> DEFINE to == [i \in 0..c |-> Min(n, g[i] - lo)]
<1>7. to \in [0..c -> Nat] /\ to[0] = 0 /\ to[c] = n
  <2>1. \A i \in 0..c : g[i] - lo \in Nat /\ Min(n, g[i] - lo) \in Nat
    BY <1>3, <1>6 DEF Min
  <2>2. Min(n, lo - lo) = 0 /\ Min(n, hi - lo) = n
    BY <1>3, <1>6 DEF Min
  <2>3. 0 \in 0..c /\ c \in 0..c
    OBVIOUS
  <2> QED
    BY <1>5, <2>1, <2>2, <2>3
<1>8. ASSUME NEW i \in 1..c
      PROVE  /\ to[i - 1] <= to[i]
             /\ parts[i] = Run(lo + to[i - 1], to[i] - to[i - 1])
  <2>1. i - 1 \in 0..c /\ i \in 0..c /\ i - 1 <= i
    OBVIOUS
  <2>2. PICK x \in Nat, y \in Nat :
          x = g[i - 1] - lo /\ y = g[i] - lo /\ x <= y /\ g[i - 1] = lo + x
    BY <1>3, <1>5, <2>1
  <2>3. to[i - 1] = Min(n, x) /\ to[i] = Min(n, y)
    BY <2>1, <2>2
  <2>4. parts[i] = IF x >= n THEN <<>> ELSE Peeked(blocks[i], n - x)
    BY <1>2, <1>4, <2>1, <2>2
  <2>5. CASE x >= n
    <3>1. Min(n, x) = n /\ Min(n, y) = n
      BY <1>6, <2>2, <2>5 DEF Min
    <3>2. Run(lo + n, n - n) = <<>>
      <4>1. Len(Run(lo + n, 0)) = 0 /\ Run(lo + n, 0) \in Seq(Nat)
        BY <1>3, <1>6, RunIs, lo + n \in Nat
      <4> QED
        BY <1>6, <4>1, EmptySeq
    <3> QED
      BY <1>6, <2>3, <2>4, <2>5, <3>1, <3>2
  <2>6. CASE x < n
    <3>1. PICK e \in Nat, l \in Nat, v \in Nat :
            e = g[i] /\ l = lo /\ v = n
      BY ONLY <1>3, <1>6, <2>1
    <3>2. PICK m \in Nat, w \in Nat : m = v - x /\ w = l + x
      BY ONLY <2>6, <3>1, x \in Nat
    <3>3. e = l + y /\ e - w = y - x /\ g[i - 1] = w
      BY ONLY <2>2, <3>1, <3>2, x \in Nat, y \in Nat
    <3>4. Peeked(blocks[i], m) = Run(w, Min(m, e - w))
      <4>1. Bytes(blocks[i], w, e)
        BY ONLY <1>3, <3>1, <3>3, i \in 1..c
      <4>2. PICK b : b = blocks[i]
        OBVIOUS
      <4>3. Bytes(b, w, e)
        BY ONLY <4>1, <4>2
      <4>4. Peeked(b, m) = Run(w, Min(m, e - w))
        BY ONLY <4>3, PeekedIs, w \in Nat, m \in Nat
      <4> QED
        BY ONLY <4>2, <4>4
    <3>4a. Min(v, x) = x /\ Min(m, y - x) = Min(v, y) - x /\ x <= Min(v, y)
      <4>1. x < v /\ x <= y
        BY ONLY <2>2, <2>6, <3>1
      <4> QED
        BY ONLY <3>2, <4>1, MinSplit, x \in Nat, y \in Nat, v \in Nat
    <3>5. parts[i] = Peeked(blocks[i], m)
      BY ONLY <1>6, <2>4, <2>6, <3>1, <3>2, x \in Nat
    <3> QED
      BY ONLY <2>3, <3>1, <3>2, <3>3, <3>4, <3>4a, <3>5
  <2> QED
    BY <1>6, <2>5, <2>6
<1> HIDE DEF to
<1>9. parts \in Seq(Seq(Nat)) /\ Len(parts) = c
  <2>1. \A i \in 1..c : parts[i] \in Seq(Nat)
    <3>1. ASSUME NEW i \in 1..c
          PROVE  parts[i] \in Seq(Nat)
      <4>1. PICK p \in Nat, q \in Nat : p = to[i - 1] /\ q = to[i]
        BY <1>7, i - 1 \in 0..c, i \in 0..c
      <4>2. p <= q /\ parts[i] = Run(lo + p, q - p)
        BY <1>8, <4>1
      <4>3. lo + p \in Nat /\ q - p \in Nat
        BY ONLY <1>3, <4>2, p \in Nat, q \in Nat
      <4> QED
        BY ONLY <4>2, <4>3, RunIs
    <3> QED
      BY <3>1
  <2>2. parts = [i \in 1..c |-> parts[i]]
    BY <1>2
  <2>3. parts \in [1..c -> Seq(Nat)]
    BY ONLY <2>1, <2>2
  <2> QED
    BY ONLY <2>3, SeqDef, LenProperties, c \in Nat
<1>10. SX!FlattenSeq(parts) = Run(lo, to[c])
  <2>1. \A i \in 1..c :
          /\ to[i - 1] <= to[i]
          /\ parts[i] = Run(lo + to[i - 1], to[i] - to[i - 1])
    BY ONLY <1>8
  <2> QED
    BY ONLY <1>3, <1>7, <1>9, <2>1, FlattenIs, c \in Nat
<1> QED
  BY <1>7, <1>10

\* All the blocks together.
LEMMA HeldIs ==
  ASSUME NEW blocks, NEW lo, NEW hi, Stored(blocks, lo, hi),
         NEW parts, parts = [i \in 1..Len(blocks) |->
                               Peeked(blocks[i], MAX_BLOCK_SIZE)]
  PROVE  SX!FlattenSeq(parts) = Run(lo, hi - lo)
<1>1. PICK g : blocks \in Seq(Block) /\ Linked(blocks, g, lo, hi)
  BY DEF Stored
<1>2. PICK c \in Nat : c = Len(blocks)
  BY <1>1, LenProperties
<1>3. /\ lo \in Nat /\ hi \in Nat /\ lo <= hi
      /\ \A i \in 0..c : g[i] \in Nat /\ lo <= g[i] /\ g[i] <= hi
      /\ \A i \in 1..c : Bytes(blocks[i], g[i - 1], g[i])
  BY ONLY <1>1, <1>2, LinkedIs
<1>4. g[0] = lo /\ g[c] = hi /\ \A i, j \in 0..c : i <= j => g[i] <= g[j]
  BY ONLY <1>1, <1>2 DEF Linked
<1> DEFINE to == [i \in 0..c |-> g[i] - lo]
<1>5. to \in [0..c -> Nat] /\ to[0] = 0 /\ to[c] = hi - lo
  <2>1. (\A i \in 0..c : g[i] - lo \in Nat) /\ 0 \in 0..c /\ c \in 0..c
        /\ lo - lo = 0
    BY <1>3
  <2> QED
    BY <1>4, <2>1
<1>6. ASSUME NEW i \in 1..c
      PROVE  /\ to[i - 1] <= to[i] /\ parts[i] \in Seq(Nat)
             /\ parts[i] = Run(lo + to[i - 1], to[i] - to[i - 1])
  <2>1. i - 1 \in 0..c /\ i \in 0..c /\ i - 1 <= i
    OBVIOUS
  <2>2. PICK x \in Nat, y \in Nat, l \in Nat :
          x = g[i - 1] /\ y = g[i] /\ l = lo /\ l <= x /\ x <= y
    <3>1. g[i - 1] \in Nat /\ g[i] \in Nat /\ lo <= g[i - 1] /\ lo \in Nat
      BY ONLY <1>3, <2>1
    <3>2. g[i - 1] <= g[i]
      BY ONLY <1>4, <2>1
    <3> QED
      BY ONLY <3>1, <3>2
  <2>3. to[i - 1] = x - l /\ to[i] = y - l
    BY <2>1, <2>2
  <2>4. PICK b : b = blocks[i]
    OBVIOUS
  <2>5. Bytes(b, x, y)
    BY ONLY <1>3, <2>2, <2>4, i \in 1..c
  <2>6. MAX_BLOCK_SIZE \in Nat
    BY BlockAssumption
  <2>7. Peeked(b, MAX_BLOCK_SIZE) = Run(x, Min(MAX_BLOCK_SIZE, y - x))
    BY ONLY <2>5, <2>6, PeekedIs, x \in Nat
  <2>8. y - x <= MAX_BLOCK_SIZE
    <3>1. /\ b.read \in Nat /\ Len(b.data) \in Nat
          /\ Len(b.data) <= MAX_BLOCK_SIZE /\ getReadAbleSize(b) = y - x
      BY ONLY <2>5, BlockIs, x \in Nat
    <3> QED
      BY ONLY <2>6, <3>1, x \in Nat, y \in Nat DEF getReadAbleSize
  <2>9. Min(MAX_BLOCK_SIZE, y - x) = y - x
    BY ONLY <2>6, <2>8, x \in Nat, y \in Nat DEF Min
  <2>10. parts[i] = Peeked(b, MAX_BLOCK_SIZE)
    BY <1>2, <2>4
  <2>11. x = l + (x - l) /\ y - x = (y - l) - (x - l) /\ y - x \in Nat
         /\ x - l <= y - l
    BY ONLY <2>2, x \in Nat, y \in Nat, l \in Nat
  <2>12. Run(x, y - x) \in Seq(Nat)
    BY ONLY <2>11, RunIs, x \in Nat
  <2> HIDE DEF to
  <2> QED
    BY ONLY <2>2, <2>3, <2>7, <2>9, <2>10, <2>11, <2>12
<1> HIDE DEF to
<1>7. parts \in Seq(Seq(Nat)) /\ Len(parts) = c
  <2>1. parts = [i \in 1..c |-> parts[i]]
    BY <1>2
  <2>2. parts \in [1..c -> Seq(Nat)]
    BY ONLY <1>6, <2>1
  <2> QED
    BY ONLY <2>2, SeqDef, LenProperties, c \in Nat
<1>8. SX!FlattenSeq(parts) = Run(lo, to[c])
  <2>1. \A i \in 1..c :
          /\ to[i - 1] <= to[i]
          /\ parts[i] = Run(lo + to[i - 1], to[i] - to[i - 1])
    BY ONLY <1>6
  <2> QED
    BY ONLY <1>3, <1>5, <1>7, <2>1, FlattenIs, c \in Nat
<1> QED
  BY <1>5, <1>8

\* The first block holds the next bytes.
LEMMA FirstIs ==
  ASSUME NEW blocks, NEW lo, NEW hi, Stored(blocks, lo, hi), blocks # <<>>
  PROVE  /\ lo \in Nat /\ hi \in Nat /\ lo <= hi
         /\ \E e \in Nat : lo <= e /\ e <= hi /\ Bytes(blocks[1], lo, e)
<1>1. PICK g : blocks \in Seq(Block) /\ Linked(blocks, g, lo, hi)
  BY DEF Stored
<1>2. PICK c \in Nat : c = Len(blocks) /\ c # 0
  BY <1>1, LenProperties, EmptySeq
<1>3. /\ lo \in Nat /\ hi \in Nat /\ lo <= hi
      /\ \A i \in 0..c : g[i] \in Nat /\ lo <= g[i] /\ g[i] <= hi
      /\ \A i \in 1..c : Bytes(blocks[i], g[i - 1], g[i])
  BY ONLY <1>1, <1>2, LinkedIs
<1>4. g[0] = lo
  BY ONLY <1>1 DEF Linked
<1>5. 1 \in 0..c /\ 1 \in 1..c /\ 1 - 1 = 0
  BY <1>2
<1> QED
  BY <1>3, <1>4, <1>5

-----------------------------------------------------------------------------
(* The theorems.                                                           *)

\* Every variable keeps its type, the blocks stay within their bounds.
THEOREM TypeCorrect == Spec => []TypeOK
<1>1. Buffered /\ Posted => TypeOK
  <2> SUFFICES ASSUME Buffered, Posted PROVE TypeOK
    OBVIOUS
  <2>1. /\ m_nDataSize \in 0..MaxBytes /\ written \in 0..MaxBytes
        /\ alive \in BOOLEAN
    BY BoundAssumption DEF Buffered
  <2>2. CASE ~alive
    <3>1. m_IoBlocks = <<>> /\ Len(m_IoBlocks) <= MaxBlocks
      BY <2>2 DEF Buffered
    <3>2. m_IoBlocks \in Seq(Block) /\ DOMAIN m_IoBlocks = {}
      BY <3>1, EmptySeq
    <3> QED
      BY <2>1, <2>2, <3>1, <3>2 DEF TypeOK, Posted
  <2>3. CASE alive
    <3>1. PICK lo, hi : Stored(m_IoBlocks, lo, hi)
      BY <2>3 DEF Buffered
    <3>2. PICK g : m_IoBlocks \in Seq(Block) /\ Linked(m_IoBlocks, g, lo, hi)
      BY <3>1 DEF Stored
    <3>3. \A i \in 1..Len(m_IoBlocks) :
            m_IoBlocks[i].read <= Len(m_IoBlocks[i].data)
            /\ Len(m_IoBlocks[i].data) <= MAX_BLOCK_SIZE
      <4>1. ASSUME NEW i \in 1..Len(m_IoBlocks)
            PROVE  m_IoBlocks[i].read <= Len(m_IoBlocks[i].data)
                   /\ Len(m_IoBlocks[i].data) <= MAX_BLOCK_SIZE
        <5>1. g[i - 1] \in Nat /\ Bytes(m_IoBlocks[i], g[i - 1], g[i])
          BY <3>2, <4>1, LinkedIs
        <5> QED
          BY ONLY <5>1, BlockIs
      <4> QED
        BY <4>1
    <3>4. m_pCurBlock \in 0..Len(m_IoBlocks) /\ Len(m_IoBlocks) <= MaxBlocks
          /\ DOMAIN m_IoBlocks = 1..Len(m_IoBlocks)
      BY <2>3, <3>2, LenProperties DEF Buffered
    <3> QED
      BY <2>1, <3>2, <3>3, <3>4 DEF TypeOK, Posted
  <2> QED
    BY <2>2, <2>3
<1> QED
  BY Always, <1>1, PTL

\* m_nDataSize is what the blocks hold, whatever is written, read, sent or
\* reserved: readData() never runs out of blocks before it has its bytes.
THEOREM SizeIsExactHolds == Spec => []SizeIsExact
<1>1. Buffered => SizeIsExact
  <2> SUFFICES ASSUME Buffered, alive
               PROVE  m_nDataSize = Readable(m_IoBlocks)[Len(m_IoBlocks)]
    BY DEF SizeIsExact
  <2>1. PICK lo, hi : lo = written - m_nDataSize /\ hi = written
    OBVIOUS
  <2>2. Stored(m_IoBlocks, lo, hi)
    BY <2>1 DEF Buffered
  <2>3. PICK g : m_IoBlocks \in Seq(Block) /\ Linked(m_IoBlocks, g, lo, hi)
    BY <2>2 DEF Stored
  <2>4. Len(m_IoBlocks) \in Nat
    BY <2>3, LenProperties
  <2>5. \A i \in 0..Len(m_IoBlocks) : Readable(m_IoBlocks)[i] = g[i] - lo
    BY ONLY <2>3, <2>4, ReadableIs
  <2>6. g[Len(m_IoBlocks)] = hi
    BY <2>3 DEF Linked
  <2>7. hi - lo = m_nDataSize
    BY <2>1, BoundAssumption DEF Buffered
  <2> QED
    BY <2>4, <2>5, <2>6, <2>7
<1> QED
  BY Always, <1>1, PTL

\* What WSASend was given stays where it is, byte for byte, until sendout().
THEOREM InFlightStaysHolds == Spec => []InFlightStays
<1>1. Buffered /\ Posted => InFlightStays
  <2> SUFFICES ASSUME Buffered, Posted, inFlight # <<>>
               PROVE  /\ m_IoBlocks # <<>>
                      /\ readAt + Len(inFlight) <= Len(m_IoBlocks[1].data)
                      /\ inFlight = SubSeq(m_IoBlocks[1].data, readAt + 1,
                                           readAt + Len(inFlight))
    BY DEF InFlightStays
  <2>1. PICK lo, hi : lo = written - m_nDataSize /\ hi = written
    OBVIOUS
  <2>2. /\ m_IoBlocks # <<>> /\ readAt = m_IoBlocks[1].read
        /\ Len(inFlight) <= getReadAbleSize(m_IoBlocks[1])
        /\ inFlight = Run(lo, Len(inFlight))
    BY <2>1 DEF Posted
  <2>3. Stored(m_IoBlocks, lo, hi)
    BY <2>1, <2>2 DEF Buffered
  <2>4. PICK e \in Nat : Bytes(m_IoBlocks[1], lo, e) /\ lo <= e /\ lo \in Nat
    BY ONLY <2>2, <2>3, FirstIs
  <2>5a. PICK b : b = m_IoBlocks[1]
    OBVIOUS
  <2>5b. PICK w \in Nat : w = Len(inFlight)
    BY LenProperties DEF Posted
  <2>5. b = m_IoBlocks[1] /\ w = Len(inFlight)
    BY <2>5a, <2>5b
  <2>6. Bytes(b, lo, e)
    BY ONLY <2>4, <2>5
  <2>7. /\ b.read \in Nat /\ Len(b.data) \in Nat /\ getReadAbleSize(b) = e - lo
        /\ Peeked(b, w) = Run(lo, Min(w, e - lo))
    BY ONLY <2>4, <2>6, BlockIs, PeekedIs, w \in Nat
  <2>8. w <= e - lo
    BY ONLY <2>2, <2>5, <2>7
  <2>9. Min(w, e - lo) = w
    BY ONLY <2>4, <2>8, w \in Nat, e \in Nat DEF Min
  <2>10. Peeked(b, w) = SubSeq(b.data, b.read + 1, b.read + w)
    BY ONLY <2>7, <2>9 DEF Peeked
  <2>11. b.read + w <= Len(b.data)
    BY ONLY <2>4, <2>7, <2>8, w \in Nat, e \in Nat DEF getReadAbleSize
  <2> QED
    BY ONLY <2>2, <2>5, <2>7, <2>9, <2>10, <2>11
<1> QED
  BY Always, <1>1, PTL

-----------------------------------------------------------------------------
(* The refinement of ByteQueue.                                            *)

All(blocks) ==
  SX!FlattenSeq([i \in 1..Len(blocks) |-> Peeked(blocks[i], MAX_BLOCK_SIZE)])

\* All the blocks of a chain hold the run the chain stands for.
LEMMA AllIs ==
  ASSUME NEW blocks, NEW lo, NEW hi, Stored(blocks, lo, hi)
  PROVE  All(blocks) = Run(lo, hi - lo)
<1>1. PICK parts : parts = [i \in 1..Len(blocks) |->
                              Peeked(blocks[i], MAX_BLOCK_SIZE)]
  OBVIOUS
<1>2. SX!FlattenSeq(parts) = Run(lo, hi - lo)
  BY ONLY <1>1, HeldIs, Stored(blocks, lo, hi)
<1> QED
  BY <1>1, <1>2 DEF All

\* No blocks hold nothing.
LEMMA AllOfNone == All(<<>>) = <<>>
<1>1. /\ Len(<<>>) = 0 /\ <<>> \in Seq(Block)
  BY EmptySeq
<1>2. Linked(<<>>, [i \in 0..0 |-> 0], 0, 0)
  BY <1>1 DEF Linked
<1>3. Stored(<<>>, 0, 0)
  BY <1>1, <1>2 DEF Stored
<1>4. All(<<>>) = Run(0, 0 - 0)
  BY ONLY <1>3, AllIs
<1>5. Run(0, 0) = <<>>
  <2>1. Len(Run(0, 0)) = 0 /\ Run(0, 0) \in Seq(Nat)
    BY ONLY RunIs, 0 \in Nat
  <2> QED
    BY ONLY <2>1, EmptySeq
<1> QED
  BY <1>4, <1>5

\* What can be read from the blocks are the bytes written and not read.
LEMMA ContentsAre ==
  ASSUME Buffered, alive
  PROVE  Contents = Run(written - m_nDataSize, m_nDataSize)
<1>1. PICK lo, hi : lo = written - m_nDataSize /\ hi = written
  OBVIOUS
<1>2. Stored(m_IoBlocks, lo, hi) /\ hi - lo = m_nDataSize
  BY <1>1, BoundAssumption DEF Buffered
<1>3. All(m_IoBlocks) = Run(lo, hi - lo)
  BY ONLY <1>2, AllIs
<1> QED
  BY <1>1, <1>2, <1>3 DEF Contents, All

\* The same, after a step.
LEMMA ContentsAfter ==
  ASSUME Buffered', alive'
  PROVE  Contents' = Run(written' - m_nDataSize', m_nDataSize')
<1>1. PICK lo, hi : lo = written' - m_nDataSize' /\ hi = written'
  OBVIOUS
<1>2. Stored(m_IoBlocks', lo, hi) /\ hi - lo = m_nDataSize'
  <2>1. Stored(m_IoBlocks', written' - m_nDataSize', written')
    BY DEF Buffered
  <2>2. written' \in Nat /\ m_nDataSize' \in Nat
    BY BoundAssumption DEF Buffered
  <2>3. hi - lo = m_nDataSize'
    <3>1. PICK a \in Nat, b \in Nat : a = written' /\ b = m_nDataSize'
      BY ONLY <2>2
    <3>2. a - (a - b) = b
      BY ONLY a \in Nat, b \in Nat
    <3> QED
      BY ONLY <1>1, <3>1, <3>2
  <2> QED
    BY ONLY <1>1, <2>1, <2>3
<1>3. All(m_IoBlocks') = Run(lo, hi - lo)
  BY ONLY <1>2, AllIs
<1> QED
  BY <1>1, <1>2, <1>3 DEF Contents, All

\* The first d of sz bytes, and the others.
LEMMA FirstBytes ==
  ASSUME NEW lo \in Nat, NEW sz \in Nat, NEW n \in Nat
  PROVE  /\ Min(n, sz) \in 0..sz
         /\ Queue!Prefix(Run(lo, sz), n) = Run(lo, Min(n, sz))
         /\ Queue!Rest(Run(lo, sz), n) = Run(lo + Min(n, sz), sz - Min(n, sz))
<1>0. PICK d : d = Min(n, sz)
  OBVIOUS
<1>1. d \in 0..sz
  BY <1>0 DEF Min
<1>2. Len(Run(lo, sz)) = sz
  BY RunIs
<1>3. Queue!Prefix(Run(lo, sz), n) = SubSeq(Run(lo, sz), 1, d)
      /\ Queue!Rest(Run(lo, sz), n) = SubSeq(Run(lo, sz), d + 1, sz)
  BY <1>0, <1>2 DEF Queue!Prefix, Queue!Rest, Queue!Least, Min
<1>4. SubSeq(Run(lo, sz), 0 + 1, d) = Run(lo + 0, d - 0)
  BY ONLY <1>1, RunPart, lo \in Nat, sz \in Nat, 0 \in 0..sz, d \in 0..sz
<1>5. SubSeq(Run(lo, sz), d + 1, sz) = Run(lo + d, sz - d)
  BY ONLY <1>1, RunPart, lo \in Nat, sz \in Nat, sz \in d..sz
<1> QED
  BY ONLY <1>0, <1>1, <1>3, <1>4, <1>5

\* An empty buffer is an empty queue.
LEMMA InitMaps == Init => Queue!Init
  BY AllOfNone DEF Init, Queue!Init, Contents, All

\* writeData() adds its bytes to the end of the queue.
LEMMA WriteDataMaps ==
  ASSUME Buffered, Posted, alive, alive', NEW n \in 1..MaxBytes, WriteData(n)
  PROVE  n \in 1..(MaxBytes - written) /\ Queue!Write(n)
<1>1. Buffered'
  BY WriteDataKeeps
<1>2. PICK lo \in Nat, sz \in Nat :
        lo = written - m_nDataSize /\ sz = m_nDataSize /\ written = lo + sz
  BY BoundAssumption DEF Buffered
<1>3. /\ written' = written + n /\ m_nDataSize' = m_nDataSize + n
      /\ written + n <= MaxBytes /\ out' = [bytes |-> <<>>, count |-> n]
      /\ inFlight' = inFlight
  BY DEF WriteData, Give
<1>4. Contents = Run(lo, sz)
  BY <1>2, ContentsAre
<1>5. Contents' = Run(lo, sz + n)
  <2>1. Contents' = Run(written' - m_nDataSize', m_nDataSize')
    BY <1>1, ContentsAfter
  <2>2. written' - m_nDataSize' = lo
    BY <1>2, <1>3
  <2> QED
    BY <1>2, <1>3, <2>1, <2>2 DEF Run
<1>6. Run(lo, sz) \o Run(lo + sz, n) = Run(lo, sz + n)
  <2>1. n \in Nat
    BY BoundAssumption
  <2> QED
    BY ONLY <2>1, RunJoined, lo \in Nat, sz \in Nat
<1>7. [i \in 1..n |-> written + i] = Run(lo + sz, n)
  BY <1>2 DEF Run
<1>8. n \in 1..(MaxBytes - written)
  BY <1>2, <1>3, BoundAssumption
<1> QED
  BY <1>3, <1>4, <1>5, <1>6, <1>7, <1>8 DEF Queue!Write

\* readData() copies the oldest bytes, and removes those with bDel.
LEMMA ReadDataMaps ==
  ASSUME Buffered, Posted, alive, alive',
         NEW nLength \in 1..MaxBytes, NEW bDel \in BOOLEAN,
         ReadData(nLength, bDel)
  PROVE  Queue!Read(nLength, bDel)
<1>1. Buffered'
  BY ReadDataKeeps
<1>2. PICK lo \in Nat, sz \in Nat, hi \in Nat :
        /\ lo = written - m_nDataSize /\ sz = m_nDataSize /\ hi = written
        /\ hi - lo = sz
  BY BoundAssumption DEF Buffered
<1>3. PICK n : n = Min(nLength, sz)
  OBVIOUS
<1>4. /\ n \in 0..sz /\ nLength \in Nat
      /\ Queue!Prefix(Run(lo, sz), nLength) = Run(lo, n)
      /\ Queue!Rest(Run(lo, sz), nLength) = Run(lo + n, sz - n)
  <2>1. PICK l \in Nat : l = nLength
    BY BoundAssumption
  <2>2. n = Min(l, sz)
    BY ONLY <1>3, <2>1
  <2>3. /\ Min(l, sz) \in 0..sz
        /\ Queue!Prefix(Run(lo, sz), l) = Run(lo, Min(l, sz))
        /\ Queue!Rest(Run(lo, sz), l) = Run(lo + Min(l, sz), sz - Min(l, sz))
    BY ONLY FirstBytes, lo \in Nat, sz \in Nat, l \in Nat
  <2> QED
    BY ONLY <2>1, <2>2, <2>3
<1>5. /\ bDel => inFlight = <<>>
      /\ IF bDel THEN Remove(n) ELSE UNCHANGED buffer
      /\ out' = [bytes |-> Copied(n), count |-> n]
      /\ UNCHANGED <<written, inFlight, readAt>>
  BY <1>2, <1>3 DEF ReadData, Give
<1>6. Contents = Run(lo, sz)
  BY <1>2, ContentsAre
<1>7. Copied(n) = Run(lo, n)
  <2>1. Stored(m_IoBlocks, lo, hi)
    BY <1>2 DEF Buffered
  <2>2. PICK parts : parts = [i \in 1..Len(m_IoBlocks) |->
            IF Readable(m_IoBlocks)[i - 1] >= n THEN <<>>
            ELSE Peeked(m_IoBlocks[i], n - Readable(m_IoBlocks)[i - 1])]
    OBVIOUS
  <2>3. n \in 0..(hi - lo)
    BY ONLY <1>2, <1>4
  <2>4. SX!FlattenSeq(parts) = Run(lo, n)
    BY ONLY <2>1, <2>2, <2>3, CopiedIs
  <2>5. Copied(n) = SX!FlattenSeq(parts)
    BY ONLY <2>2 DEF Copied
  <2> QED
    BY <2>4, <2>5
<1>8. Len(Run(lo, n)) = n
  BY ONLY <1>4, RunIs, lo \in Nat, n \in Nat
<1>9. Contents' = IF bDel THEN Run(lo + n, sz - n) ELSE Contents
  <2>1. CASE bDel
    <3>1. Remove(n)
      BY <1>5, <2>1
    <3>2. written' - m_nDataSize' = lo + n /\ m_nDataSize' = sz - n
      <4>1. written' - m_nDataSize' = written - m_nDataSize + n
        BY <1>2, <1>4, <1>5, <3>1, RemoveKeeps
      <4>2. m_nDataSize' = m_nDataSize - n
        BY <3>1 DEF Remove
      <4> QED
        BY <1>2, <4>1, <4>2
    <3>3. Contents' = Run(written' - m_nDataSize', m_nDataSize')
      BY <1>1, ContentsAfter
    <3> QED
      BY <2>1, <3>2, <3>3 DEF Run
  <2>2. CASE ~bDel
    BY <1>5, <2>2 DEF buffer, Contents
  <2> QED
    BY <2>1, <2>2
<1> QED
  BY <1>4, <1>5, <1>6, <1>7, <1>8, <1>9 DEF Queue!Read

\* sendout() removes exactly the bytes that were sent.
LEMMA DeleteSentMaps ==
  ASSUME Buffered, Posted, alive, alive',
         NEW n \in 1..MAX_BLOCK_SIZE, DeleteSent(n)
  PROVE  n \in 1..Len(inFlight) /\ Queue!Sent(n)
<1>1. Buffered'
  BY DeleteSentKeeps
<1>2. PICK lo \in Nat, sz \in Nat, hi \in Nat :
        /\ lo = written - m_nDataSize /\ sz = m_nDataSize /\ hi = written
        /\ hi - lo = sz
  BY BoundAssumption DEF Buffered
<1>3. /\ n \in 1..Len(inFlight) /\ inFlight' = <<>> /\ written' = written
      /\ Remove(Min(n, sz))
      /\ out' = [bytes |-> <<>>, count |-> -Min(n, sz)]
  BY <1>2 DEF DeleteSent, Give
<1>4. PICK w \in Nat : w = Len(inFlight)
  BY LenProperties DEF Posted
<1>5. n \in Nat /\ n <= w /\ w <= sz
  <2>1. n \in Nat /\ n <= w /\ w # 0
    BY ONLY <1>3, <1>4
  <2>2. inFlight # <<>>
    BY ONLY <1>4, <2>1, EmptySeq
  <2>3. m_IoBlocks # <<>> /\ w <= getReadAbleSize(m_IoBlocks[1])
    BY ONLY <1>4, <2>2, Posted DEF Posted
  <2>4. Stored(m_IoBlocks, lo, hi)
    BY <1>2 DEF Buffered
  <2>5. PICK e \in Nat : lo <= e /\ e <= hi /\ Bytes(m_IoBlocks[1], lo, e)
    BY ONLY <2>3, <2>4, FirstIs
  <2>6. getReadAbleSize(m_IoBlocks[1]) = e - lo
    BY ONLY <2>5, BlockIs, lo \in Nat
  <2> QED
    BY ONLY <1>2, <2>1, <2>3, <2>5, <2>6, lo \in Nat, hi \in Nat, sz \in Nat,
            w \in Nat
<1>6. Min(n, sz) = n /\ n \in 0..m_nDataSize
  BY ONLY <1>2, <1>4, <1>5, sz \in Nat, w \in Nat DEF Min
<1>7. Queue!Rest(Run(lo, sz), n) = Run(lo + n, sz - n)
  BY ONLY <1>5, <1>6, FirstBytes, lo \in Nat, sz \in Nat
<1>8. Contents = Run(lo, sz)
  BY <1>2, ContentsAre
<1>9. Contents' = Run(lo + n, sz - n)
  <2>1. Remove(n)
    BY ONLY <1>3, <1>6
  <2>2. written' - m_nDataSize' = lo + n
    BY <1>2, <1>3, <1>6, <2>1, RemoveKeeps
  <2>3. m_nDataSize' = sz - n
    BY <1>2, <2>1 DEF Remove
  <2>4. Contents' = Run(written' - m_nDataSize', m_nDataSize')
    BY <1>1, ContentsAfter
  <2> QED
    BY <2>2, <2>3, <2>4 DEF Run
<1> QED
  BY <1>3, <1>6, <1>7, <1>8, <1>9 DEF Queue!Sent

\* getDataBuffer() pins some of the oldest bytes, if there are any.
LEMMA GetDataBufferMaps ==
  ASSUME Buffered, Posted, alive, alive', GetDataBuffer
  PROVE  Queue!Peek
<1>1. Buffered'
  BY GetDataBufferKeeps
<1>2. PICK lo \in Nat, sz \in Nat :
        lo = written - m_nDataSize /\ sz = m_nDataSize
  BY BoundAssumption DEF Buffered
<1>3. inFlight = <<>> /\ written' = written /\ m_nDataSize' = m_nDataSize
  BY DEF GetDataBuffer
<1>4. Contents = Run(lo, sz)
  BY <1>2, ContentsAre
<1>5. Contents' = Contents
  <2>1. Contents' = Run(written' - m_nDataSize', m_nDataSize')
    BY <1>1, ContentsAfter
  <2> QED
    BY <1>2, <1>3, <1>4, <2>1 DEF Run
<1>6. Len(Run(lo, sz)) = sz /\ Run(lo, sz) \in Seq(Nat)
  BY ONLY RunIs, lo \in Nat, sz \in Nat
<1>7. \E w \in 0..sz :
        /\ w = 0 <=> sz = 0
        /\ inFlight' = Run(lo, w) /\ out' = [bytes |-> Run(lo, w), count |-> w]
  <2>1. Run(lo, 0) = <<>>
    <3>1. Len(Run(lo, 0)) = 0 /\ Run(lo, 0) \in Seq(Nat)
      BY ONLY RunIs, lo \in Nat, 0 \in Nat
    <3> QED
      BY ONLY <3>1, EmptySeq
  <2>2. \/ /\ inFlight' = <<>> /\ sz = 0
           /\ out' = [bytes |-> <<>>, count |-> 0]
        \/ \E w \in 1..sz :
             /\ inFlight' = Run(lo, w)
             /\ out' = [bytes |-> Run(lo, w), count |-> w]
    BY <1>2, GetDataBufferIs
  <2> QED
    BY ONLY <2>1, <2>2, sz \in Nat
<1>8. PICK w \in 0..sz :
        /\ w = 0 <=> sz = 0
        /\ inFlight' = Run(lo, w) /\ out' = [bytes |-> Run(lo, w), count |-> w]
  BY <1>7
<1>9. Queue!Prefix(Run(lo, sz), w) = Run(lo, w)
  <2>1. Min(w, sz) = w /\ w \in Nat
    BY DEF Min
  <2> QED
    BY ONLY <2>1, FirstBytes, lo \in Nat, sz \in Nat
<1>10. sz = 0 <=> Contents = <<>>
  BY ONLY <1>4, <1>6, EmptySeq
<1> QED
  BY <1>3, <1>4, <1>5, <1>6, <1>8, <1>9, <1>10 DEF Queue!Peek

\* getEmptyBuffer() gives room and leaves the queue alone.
LEMMA GetEmptyBufferMaps ==
  ASSUME Buffered, Posted, alive, alive', NEW bNewBlock \in BOOLEAN,
         GetEmptyBuffer(bNewBlock)
  PROVE  Queue!Reserve
<1>1. Buffered'
  BY GetEmptyBufferKeeps
<1>2. UNCHANGED <<m_nDataSize, written, inFlight>>
  BY DEF GetEmptyBuffer
<1>3. Contents' = Contents
  <2>1. Contents = Run(written - m_nDataSize, m_nDataSize)
    BY ContentsAre
  <2>2. Contents' = Run(written' - m_nDataSize', m_nDataSize')
    BY <1>1, ContentsAfter
  <2> QED
    BY <1>2, <2>1, <2>2 DEF Run
<1>4. out' = [bytes |-> <<>>,
              count |-> getWriteAbleSize(m_IoBlocks'[m_pCurBlock'])]
  BY DEF GetEmptyBuffer, Give
<1>5. getWriteAbleSize(m_IoBlocks'[m_pCurBlock']) > 0
  <2>1. \/ /\ m_IoBlocks' = Append(m_IoBlocks, NewBlock)
           /\ m_pCurBlock' = Len(m_IoBlocks')
        \/ /\ UNCHANGED <<m_IoBlocks, m_pCurBlock>> /\ m_pCurBlock # 0
           /\ ~(getWriteAbleSize(m_IoBlocks[m_pCurBlock]) <= 0)
    BY DEF GetEmptyBuffer
  <2>2. PICK lo, hi : lo = written - m_nDataSize /\ hi = written
    OBVIOUS
  <2>3. Stored(m_IoBlocks, lo, hi) /\ m_pCurBlock = Len(m_IoBlocks)
    BY <2>2 DEF Buffered
  <2>4. m_IoBlocks \in Seq(Block) /\ Len(m_IoBlocks) \in Nat
    BY <2>3, LenProperties DEF Stored
  <2>5. CASE /\ m_IoBlocks' = Append(m_IoBlocks, NewBlock)
             /\ m_pCurBlock' = Len(m_IoBlocks')
    <3>1. /\ Len(m_IoBlocks') = Len(m_IoBlocks) + 1
          /\ m_IoBlocks'[Len(m_IoBlocks) + 1] = NewBlock
      BY ONLY <2>3, <2>5, AnotherIs
    <3>2. m_IoBlocks'[m_pCurBlock'] = NewBlock
      BY ONLY <2>5, <3>1
    <3>3. Len(NewBlock.data) = 0
      BY EmptySeq DEF NewBlock
    <3> QED
      BY <3>2, <3>3, BlockAssumption DEF getWriteAbleSize
  <2>6. CASE /\ UNCHANGED <<m_IoBlocks, m_pCurBlock>> /\ m_pCurBlock # 0
             /\ ~(getWriteAbleSize(m_IoBlocks[m_pCurBlock]) <= 0)
    <3>1. m_IoBlocks[m_pCurBlock] \in Block
      BY <2>3, <2>4, <2>6, ElementOfSeq, Len(m_IoBlocks) \in 1..Len(m_IoBlocks)
    <3>2. Len(m_IoBlocks[m_pCurBlock].data) \in Nat
      BY <3>1, LenProperties DEF Block
    <3>3. getWriteAbleSize(m_IoBlocks[m_pCurBlock]) \in Int
      BY <3>2, BlockAssumption DEF getWriteAbleSize
    <3> QED
      BY <2>6, <3>3
  <2> QED
    BY <2>1, <2>5, <2>6
<1> QED
  BY <1>2, <1>3, <1>4, <1>5 DEF Queue!Reserve

\* An IOBuffer is a queue of bytes: each comes out once and in its turn, a peek
\* at them takes nothing away, what is sent is exactly what is removed, and no
\* byte in flight leaves the queue before.
THEOREM ImplementsByteQueue == Spec => IsByteQueue
<1>1. Buffered /\ Posted /\ [Next]_vars
        => [Queue!Next]_<<written, Contents, inFlight, out, alive>>
  <2> SUFFICES ASSUME Buffered, Posted, [Next]_vars
               PROVE  [Queue!Next]_<<written, Contents, inFlight, out, alive>>
    OBVIOUS
  <2>1. ASSUME alive, Call, UNCHANGED alive
        PROVE  Queue!Next
    <3>1. alive'
      BY <2>1
    <3>2. ASSUME NEW n \in 1..MaxBytes, WriteData(n)
          PROVE  Queue!Call
      BY <2>1, <3>1, <3>2, WriteDataMaps DEF Queue!Call
    <3>3. ASSUME NEW n \in 1..MaxBytes, NEW bDel \in BOOLEAN, ReadData(n, bDel)
          PROVE  Queue!Call
      BY <2>1, <3>1, <3>3, ReadDataMaps DEF Queue!Call
    <3>4. ASSUME NEW n \in 1..MAX_BLOCK_SIZE, DeleteSent(n)
          PROVE  Queue!Call
      BY <2>1, <3>1, <3>4, DeleteSentMaps DEF Queue!Call
    <3>5. ASSUME GetDataBuffer
          PROVE  Queue!Call
      BY <2>1, <3>1, <3>5, GetDataBufferMaps DEF Queue!Call
    <3>6. ASSUME NEW b \in BOOLEAN, GetEmptyBuffer(b)
          PROVE  Queue!Call
      BY <2>1, <3>1, <3>6, GetEmptyBufferMaps DEF Queue!Call
    <3>7. Queue!Call
      BY <2>1, <3>2, <3>3, <3>4, <3>5, <3>6 DEF Call
    <3> QED
      BY <2>1, <3>7 DEF Queue!Next
  <2>2. CASE ClearIOBlocks
    <3>1. m_IoBlocks' = <<>> /\ alive /\ inFlight = <<>> /\ alive' = FALSE
          /\ UNCHANGED <<written, inFlight, out>>
      BY <2>2 DEF ClearIOBlocks
    <3>2. Contents' = <<>>
      BY <3>1, AllOfNone DEF Contents, All
    <3> QED
      BY <3>1, <3>2 DEF Queue!Next, Queue!Destroy
  <2>3. CASE UNCHANGED vars
    BY <2>3 DEF vars, buffer, Contents
  <2> QED
    BY <2>1, <2>2, <2>3 DEF Next, Gone
<1> QED
  BY InitMaps, Always, <1>1, PTL DEF Spec, IsByteQueue, Queue!Spec

-----------------------------------------------------------------------------
(* The socket.                                                             *)

\* No two objects have one handle, and none has a free or a detached one.
OneHolder ==
  /\ \A s, n \in Socket, h \in Handle : Holds(s, h) /\ Holds(n, h) => s = n
  /\ \A s \in Socket, h \in Handle :
       Holds(s, h) => handle[h] # "free" /\ h \notin detached

\* No open handle is lost.
NoneLost ==
  /\ \A h \in Handle :
       handle[h] # "free" => h \in detached \/ \E s \in Socket : Holds(s, h)
  /\ \A h \in detached : handle[h] # "free"

\* An object that does not exist has no handle and no users; nobody is in a
\* call of an object that is being destroyed; and whoever is in a call has the
\* handle that the object has, if it still has one.
Users ==
  /\ \A s \in Socket : life[s] = "none" =>
       m_hSocket[s] = INVALID_SOCKET /\ pc[s] = "idle" /\ use[s] = "none"
  /\ \A s \in Socket : pc[s] = "dying" => use[s] = "none"
  /\ \A s \in Socket, h \in Handle :
       use[s] # "none" /\ Holds(s, h) => arg[s] = h

\* The library is loaded once.
LoadedOnce == process = "load" => startups = 0

Ownership ==
  LoadedOnce /\ SocketTypeOK /\ OneHolder /\ NoneLost /\ Users /\ AddrIsPeer

\* At first nobody has a handle.
LEMMA OwnershipInit == SocketInit => Ownership
<1> SUFFICES ASSUME SocketInit PROVE Ownership
  OBVIOUS
<1>1. SocketTypeOK
  <2>1. startups \in 0..1
    BY DEF SocketInit
  <2>2. s_bLoadedSockLib \in BOOLEAN /\ process \in {"load", "main", "over"}
    BY DEF SocketInit
  <2>3. m_bHaveAddr \in [Socket -> BOOLEAN]
    BY DEF SocketInit
  <2> QED
    BY <2>1, <2>2, <2>3 DEF SocketInit, SocketTypeOK, Handles
<1>2. LoadedOnce /\ OneHolder /\ NoneLost /\ Users /\ AddrIsPeer
  BY HandleAssumption
  DEF SocketInit, LoadedOnce, OneHolder, NoneLost, Users, AddrIsPeer, Holds
<1> QED
  BY <1>1, <1>2 DEF Ownership

\* An object that gets a handle is its only owner.
LEMMA OwnershipOpens ==
  ASSUME Ownership, NEW s \in Socket, OpenStep(s)
  PROVE  Ownership'
<1> USE HandleAssumption
    DEF LoadedOnce, Ownership, SocketTypeOK, OneHolder, NoneLost, Users,
        AddrIsPeer, Holds, Handles, Quiet, ForgetAddr, setPeerAddr, address,
        user, system, library
<1>1. CASE Construct(s)
  BY <1>1 DEF Construct
<1>2. CASE init(s)
  BY <1>2 DEF init
<1>3. CASE dettach(s)
  BY <1>3 DEF dettach
<1>4. CASE startServer(s)
  BY <1>4 DEF startServer
<1>5. CASE updateAcceptContext(s)
  BY <1>5 DEF updateAcceptContext
<1>6. ASSUME NEW h \in Handle, attach(s, h) PROVE Ownership'
  BY <1>6 DEF attach
<1>7. ASSUME NEW p \in Peer, connect(s, p) PROVE Ownership'
  BY <1>7 DEF connect
<1>8. ASSUME NEW n \in Socket, NEW p \in Peer, accept(s, n, p)
      PROVE  Ownership'
  BY <1>8 DEF accept
<1> QED
  BY <1>1, <1>2, <1>3, <1>4, <1>5, <1>6, <1>7, <1>8 DEF OpenStep

\* A call in another thread moves no handle.
LEMMA OwnershipUsed ==
  ASSUME Ownership, NEW s \in Socket, UserStep(s)
  PROVE  Ownership'
<1> USE HandleAssumption
    DEF LoadedOnce, Ownership, SocketTypeOK, OneHolder, NoneLost, Users,
        AddrIsPeer, Holds, Handles, setPeerAddr, Done, address, user, system,
        library
<1>1. ASSUME NEW call \in {"addr", "io"}, Use(s, call) PROVE Ownership'
  BY <1>1 DEF Use
<1>2. CASE initPeerAddress(s)
  BY <1>2 DEF initPeerAddress
<1>3. CASE UseReturns(s)
  BY <1>3 DEF UseReturns
<1> QED
  BY <1>1, <1>2, <1>3 DEF UserStep

\* A handle is closed by its owner.
LEMMA OwnershipCloses ==
  ASSUME Ownership, NEW s \in Socket, CloseStep(s)
  PROVE  Ownership'
<1> USE HandleAssumption
    DEF LoadedOnce, Ownership, SocketTypeOK, OneHolder, NoneLost, Users,
        AddrIsPeer, Holds, Handles, Quiet, ForgetAddr, address, user, system,
        library
<1>1. CASE shutdown(s)
  BY <1>1 DEF shutdown
<1>2. CASE close(s)
  BY <1>2 DEF close, CloseHandle
<1>3. CASE Reset(s)
  BY <1>3 DEF Reset
<1>4. CASE Destroy(s)
  BY <1>4 DEF Destroy, CloseHandle
<1>5. CASE ObjectGone(s)
  BY <1>5 DEF ObjectGone
<1> QED
  BY <1>1, <1>2, <1>3, <1>4, <1>5 DEF CloseStep

\* Every step keeps the inductive invariant.
LEMMA OwnershipNext == Ownership /\ [SocketNext]_socketVars => Ownership'
<1> SUFFICES ASSUME Ownership, [SocketNext]_socketVars PROVE Ownership'
  OBVIOUS
<1>1. ASSUME NEW s \in Socket, OpenStep(s) \/ UserStep(s) \/ CloseStep(s)
      PROVE  Ownership'
  BY <1>1, OwnershipOpens, OwnershipUsed, OwnershipCloses
<1>2. ASSUME NEW h \in Handle, NEW p \in Peer, Connected(h, p)
      PROVE  Ownership'
  BY <1>2
  DEF Connected, LoadedOnce, Ownership, SocketTypeOK, OneHolder, NoneLost, Users,
      AddrIsPeer, Holds, address, user, library
<1>3. CASE Load
  BY <1>3
  DEF Load, LoadedOnce, Ownership, SocketTypeOK, OneHolder, NoneLost, Users,
      AddrIsPeer, Holds, address, user, system
<1>4. CASE Unload
  <2>1. SocketTypeOK'
    <3>1. /\ handle' \in [Handle -> {"free", "made", "bound", "listening",
                                    "accepted", "connected"}]
          /\ peer' \in [Handle -> Peer \cup {Nobody}]
          /\ detached' \subseteq Handle
      BY <1>4 DEF Unload
    <3>2. s_bLoadedSockLib' \in BOOLEAN
      BY <1>4 DEF Unload
    <3>3. startups' \in 0..1
      BY <1>4 DEF Unload
    <3> QED
      BY <1>4, <3>1, <3>2, <3>3
      DEF Unload, Ownership, SocketTypeOK, address, user, Handles
  <2>2. \A s \in Socket, h \in Handle : ~Holds(s, h)'
    BY <1>4, HandleAssumption DEF Unload, Ownership, Users, Holds
  <2>3. (LoadedOnce /\ OneHolder /\ NoneLost /\ AddrIsPeer)'
    BY <1>4, <2>2 DEF Unload, LoadedOnce, OneHolder, NoneLost, AddrIsPeer
  <2>4. Users'
    BY <1>4, <2>2 DEF Unload, Ownership, Users, user
  <2> QED
    BY <2>1, <2>3, <2>4 DEF Ownership
<1>5. CASE Over \/ UNCHANGED socketVars
  BY <1>5
  DEF Over, socketVars, LoadedOnce, Ownership, SocketTypeOK, OneHolder, NoneLost, Users,
      AddrIsPeer, Holds, address, user, system, library
<1> QED
  BY <1>1, <1>2, <1>3, <1>4, <1>5 DEF SocketNext

\* Ownership is as it should be, always.
LEMMA OwnershipHolds == SocketSpec => []Ownership
  BY OwnershipInit, OwnershipNext, PTL DEF SocketSpec

\* Every variable has its type, for any number of objects and handles.
THEOREM SocketTypeCorrect == SocketSpec => []SocketTypeOK
  BY OwnershipHolds, PTL DEF Ownership

\* Socket.cpp:155-163: no handle is lost, none has two owners, and close()
\* never closes the handle that the system has given to another object.
THEOREM HandleOwnedHolds == SocketSpec => []HandleOwned
<1>1. Ownership => HandleOwned
  BY DEF Ownership, OneHolder, NoneLost, HandleOwned
<1> QED
  BY <1>1, OwnershipHolds, PTL

\* Socket.cpp:183-224: the address on record is that of the object's own
\* connection, whatever a thread does that still has an old handle.
THEOREM AddrIsPeerHolds == SocketSpec => []AddrIsPeer
  BY OwnershipHolds, PTL DEF Ownership

=============================================================================
