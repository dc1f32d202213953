------------------------------ MODULE IOBuffer ------------------------------
(***************************************************************************)
(* IOBuffer: a byte queue kept in blocks of MAX_BLOCK_SIZE bytes.  Each    *)
(* action is one member function, called as ClientSocket calls it: under   *)
(* the buffer's lock, with at most one address given away by               *)
(* getDataBuffer() (the single send that addSend() means to have in        *)
(* flight).                                                                *)
(*                                                                         *)
(* A block is [data, read]: data holds the bytes written to it, so its     *)
(* m_nWriteIndex is Len(data), and read is its m_nReadIndex.  The bytes    *)
(* ever written are numbered, so no two of them are alike.                 *)
(***************************************************************************)
EXTENDS Integers, Sequences, FiniteSets

SX == INSTANCE SequencesExt

CONSTANTS
  MAX_BLOCK_SIZE,  \* bytes in a block
  MaxBytes,        \* bound: bytes ever written
  MaxBlocks        \* bound: blocks at a time

ASSUME BlockAssumption == MAX_BLOCK_SIZE \in Nat \ {0}
ASSUME BoundAssumption == MaxBytes \in Nat /\ MaxBlocks \in Nat

VARIABLES
  m_IoBlocks,   \* the blocks, oldest first
  m_nDataSize,  \* bytes that can be read
  m_pCurBlock,  \* position of the block that is written to, 0 for NULL
  written,      \* bytes ever written (bounded by MaxBytes)
  inFlight,     \* the bytes whose address getDataBuffer() gave away
  readAt,       \* and their place in the first block
  out,          \* what the last call gave back: bytes, and a count
  alive         \* the buffer is not destroyed yet

buffer == <<m_IoBlocks, m_nDataSize, m_pCurBlock>>
vars   == <<buffer, written, inFlight, readAt, out, alive>>

Min(m, n) == IF m < n THEN m ELSE n

-----------------------------------------------------------------------------
(* IOBlock.                                                                *)

Block == [data : Seq(1..MaxBytes), read : Nat]

NewBlock == [data |-> <<>>, read |-> 0]

getReadAbleSize(b)  == Len(b.data) - b.read
getWriteAbleSize(b) == MAX_BLOCK_SIZE - Len(b.data)

\* The first n readable bytes, or all of them, and the block without them.
Peeked(b, n) ==
  SubSeq(b.data, b.read + 1, b.read + Min(n, getReadAbleSize(b)))
Skipped(b, n) == [b EXCEPT !.read = @ + Min(n, getReadAbleSize(b))]

\* Fault: the length is not limited to the room in the block.
FilledOver(b, s) == [b EXCEPT !.data = @ \o s]

\* As much of s as there is room for goes into the block.
Filled(b, s) ==
  [b EXCEPT !.data = @ \o SubSeq(s, 1, Min(Len(s), getWriteAbleSize(b)))]

-----------------------------------------------------------------------------
Init ==
  /\ m_IoBlocks = <<>> /\ m_nDataSize = 0 /\ m_pCurBlock = 0
  /\ written = 0 /\ inFlight = <<>> /\ readAt = 0
  /\ out = [bytes |-> <<>>, count |-> 0] /\ alive = TRUE

Give(s, n) == out' = [bytes |-> s, count |-> n]

\* Bytes that can be read from the first i of the blocks.
Readable(blocks) ==
  LET upTo[i \in 0..Len(blocks)] ==
        IF i = 0 THEN 0 ELSE upTo[i - 1] + getReadAbleSize(blocks[i])
  IN  upTo

\* erase() and releaseBlock() of the first k blocks.
Erase(k, blocks) ==
  /\ m_IoBlocks' = SubSeq(blocks, k + 1, Len(blocks))
  /\ m_pCurBlock' = IF m_pCurBlock <= k THEN 0 ELSE m_pCurBlock - k

-----------------------------------------------------------------------------
(* writeData(): a block is created when there is no current one, it takes  *)
(* what fits, and new blocks take what is left.                            *)

WriteBlocks(s) ==
  LET first == IF m_pCurBlock = 0 THEN Append(m_IoBlocks, NewBlock)
                                  ELSE m_IoBlocks
      cur   == IF m_pCurBlock = 0 THEN Len(first) ELSE m_pCurBlock
      fits  == Min(Len(s), getWriteAbleSize(first[cur]))
      left  == Len(s) - fits
      more  == (left + MAX_BLOCK_SIZE - 1) \div MAX_BLOCK_SIZE
      piece(i) ==
        SubSeq(s, fits + (i - 1) * MAX_BLOCK_SIZE + 1,
                  fits + Min(i * MAX_BLOCK_SIZE, left))
  IN  /\ m_IoBlocks' =
           [first EXCEPT ![cur] = Filled(@, s)]
             \o [i \in 1..more |-> Filled(NewBlock, piece(i))]
      /\ m_pCurBlock' = IF more = 0 THEN cur ELSE Len(first) + more

\* Fault: what does not fit in the current block is counted and dropped.
WriteDataDropsRest(n) ==
  LET s == [i \in 1..n |-> written + i]
      b == m_IoBlocks[m_pCurBlock]
  IN  /\ written + n <= MaxBytes
      /\ IF m_pCurBlock = 0
         THEN WriteBlocks(s)
         ELSE /\ m_IoBlocks' = [m_IoBlocks EXCEPT ![m_pCurBlock] = Filled(b, s)]
              /\ UNCHANGED m_pCurBlock
      /\ Len(m_IoBlocks') <= MaxBlocks
      /\ m_nDataSize' = m_nDataSize + n
      /\ written' = written + n
      /\ Give(<<>>, n)
      /\ UNCHANGED <<inFlight, readAt>>

WriteData(n) ==
  /\ written + n <= MaxBytes
  /\ WriteBlocks([i \in 1..n |-> written + i])
  /\ Len(m_IoBlocks') <= MaxBlocks
  /\ m_nDataSize' = m_nDataSize + n
  /\ written' = written + n
  /\ Give(<<>>, n)
  /\ UNCHANGED <<inFlight, readAt>>

-----------------------------------------------------------------------------
(* readData(): from block to block until n bytes, or all there are, were   *)
(* read.  With bDel the blocks left behind are released; the one in which  *)
(* it stops stays, even when nothing is left in it.                        *)

\* The blocks readData() is done with when it reads n bytes.
Passed(n) == {i \in 1..Len(m_IoBlocks) : Readable(m_IoBlocks)[i] < n}

\* The bytes readData() copies.
Copied(n) ==
  LET before(i) == Readable(m_IoBlocks)[i - 1] IN
  SX!FlattenSeq([i \in 1..Len(m_IoBlocks) |->
    IF before(i) >= n THEN <<>> ELSE Peeked(m_IoBlocks[i], n - before(i))])

Remove(n) ==
  LET k == Cardinality(Passed(n)) IN
  /\ Erase(k, [i \in 1..Len(m_IoBlocks) |->
       IF i = k + 1 THEN Skipped(m_IoBlocks[i], n - Readable(m_IoBlocks)[k])
                    ELSE m_IoBlocks[i]])
  /\ m_nDataSize' = m_nDataSize - n

\* Fault: drained blocks are released although bDel is false.
ReadDataReleases(nLength, bDel) ==
  LET n == Min(nLength, m_nDataSize)
      k == Cardinality(Passed(n))
  IN  /\ bDel => inFlight = <<>>
      /\ IF bDel THEN Remove(n)
         ELSE Erase(k, m_IoBlocks) /\ UNCHANGED m_nDataSize
      /\ Give(Copied(n), n)
      /\ UNCHANGED <<written, inFlight, readAt>>

\* ClientSocket::ReadData() on m_RecvBuffer, with a buffer to copy to.
ReadData(nLength, bDel) ==
  LET n == Min(nLength, m_nDataSize) IN
  /\ bDel => inFlight = <<>>
  /\ IF bDel THEN Remove(n) ELSE UNCHANGED buffer
  /\ Give(Copied(n), n)
  /\ UNCHANGED <<written, inFlight, readAt>>

\* Fault: sendout() drops all that was posted, not what was sent.
DeletePosted(n) ==
  /\ n \in 1..Len(inFlight)
  /\ Remove(Min(Len(inFlight), m_nDataSize))
  /\ inFlight' = <<>> /\ readAt' = 0
  /\ Give(<<>>, -Min(n, m_nDataSize))
  /\ UNCHANGED written

\* sendout() on m_SendBuffer: readData(NULL, n) drops the n bytes just sent.
DeleteSent(n) ==
  /\ n \in 1..Len(inFlight)
  /\ Remove(Min(n, m_nDataSize))
  /\ inFlight' = <<>> /\ readAt' = 0
  /\ Give(<<>>, -Min(n, m_nDataSize))
  /\ UNCHANGED written

-----------------------------------------------------------------------------
\* getDataBuffer(): blocks with nothing to read are released up to the first
\* one that has data, whose data are given away.
GetDataBuffer ==
  LET empty == {i \in 1..Len(m_IoBlocks) : Readable(m_IoBlocks)[i] = 0}
      k == Cardinality(empty)
      s == IF k = Len(m_IoBlocks) THEN <<>>
           ELSE Peeked(m_IoBlocks[k + 1], MAX_BLOCK_SIZE)
  IN  /\ inFlight = <<>>
      /\ Erase(k, m_IoBlocks)
      /\ inFlight' = s
      /\ readAt' = IF s = <<>> THEN 0 ELSE m_IoBlocks[k + 1].read
      /\ Give(s, Len(s))
      /\ UNCHANGED <<m_nDataSize, written>>

\* getEmptyBuffer(): room in the current block, or in a new one.
GetEmptyBuffer(bNewBlock) ==
  LET create == \/ bNewBlock \/ m_pCurBlock = 0
                \/ getWriteAbleSize(m_IoBlocks[m_pCurBlock]) <= 0
  IN  /\ IF create
         THEN /\ Len(m_IoBlocks) < MaxBlocks
              /\ m_IoBlocks' = Append(m_IoBlocks, NewBlock)
              /\ m_pCurBlock' = Len(m_IoBlocks')
         ELSE UNCHANGED <<m_IoBlocks, m_pCurBlock>>
      /\ Give(<<>>, getWriteAbleSize(m_IoBlocks'[m_pCurBlock']))
      /\ UNCHANGED <<m_nDataSize, written, inFlight, readAt>>

Call ==
  \/ \E n \in 1..MaxBytes : WriteData(n)
  \/ \E n \in 1..MaxBytes, bDel \in BOOLEAN : ReadData(n, bDel)
  \/ \E n \in 1..MAX_BLOCK_SIZE : DeleteSent(n)
  \/ GetDataBuffer
  \/ \E b \in BOOLEAN : GetEmptyBuffer(b)

\* ~IOBuffer(), with the connection it is a member of: the blocks go, its two
\* other members keep what they had.  Nothing is in flight (module ClientSocket
\* says when a connection is deleted).
ClearIOBlocks ==
  /\ alive /\ inFlight = <<>>
  /\ m_IoBlocks' = <<>> /\ alive' = FALSE
  /\ UNCHANGED <<m_nDataSize, m_pCurBlock, written, inFlight, readAt, out>>

Gone == ~alive /\ UNCHANGED vars

Next == (alive /\ Call /\ UNCHANGED alive) \/ ClearIOBlocks \/ Gone

Spec == Init /\ [][Next]_vars

-----------------------------------------------------------------------------
(* Properties.                                                             *)

TypeOK ==
  /\ m_IoBlocks \in Seq(Block) /\ Len(m_IoBlocks) <= MaxBlocks
  /\ \A i \in DOMAIN m_IoBlocks :
       LET b == m_IoBlocks[i] IN
       b.read <= Len(b.data) /\ Len(b.data) <= MAX_BLOCK_SIZE
  /\ m_nDataSize \in 0..MaxBytes
  /\ alive \in BOOLEAN /\ (alive => m_pCurBlock \in 0..Len(m_IoBlocks))
  /\ written \in 0..MaxBytes
  /\ inFlight \in Seq(1..MaxBytes) /\ readAt \in Nat

\* m_nDataSize, by which readData() limits its length, is what the blocks hold.
SizeIsExact ==
  alive => m_nDataSize = Readable(m_IoBlocks)[Len(m_IoBlocks)]

\* The address that getDataBuffer() gave to WSASend stays good, whatever is
\* written or peeked at meanwhile: the same bytes at the same place of a block
\* that was not released.
InFlightStays ==
  inFlight # <<>> =>
    /\ m_IoBlocks # <<>>
    /\ readAt + Len(inFlight) <= Len(m_IoBlocks[1].data)
    /\ inFlight =
         SubSeq(m_IoBlocks[1].data, readAt + 1, readAt + Len(inFlight))

\* What can be read from all the blocks, oldest byte first.
Contents ==
  SX!FlattenSeq([i \in 1..Len(m_IoBlocks) |->
    Peeked(m_IoBlocks[i], MAX_BLOCK_SIZE)])

\* The bytes come out in the order they went in, each once.
Queue == INSTANCE ByteQueue WITH queue <- Contents, pinned <- inFlight

IsByteQueue == Queue!Spec

=============================================================================
