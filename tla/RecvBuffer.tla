----------------------------- MODULE RecvBuffer -----------------------------
(***************************************************************************)
(* m_RecvBuffer between an I/O thread and a work thread.  ReadData() takes *)
(* the lock of the buffer, recvDone() does not, so this module goes down   *)
(* to the accesses to the fields of the IOBuffer that both have: the list  *)
(* of blocks, m_pCurBlock, and m_nDataSize, which both read, change and    *)
(* write back.  (Module IOBuffer is the same code under the lock.)         *)
(*                                                                         *)
(* There is one recvDone() of a connection at a time (RecvExclusive in     *)
(* module ClientSocket) and, by the lock, one ReadData().  Bytes are       *)
(* counted; a block has its two indices.                                   *)
(***************************************************************************)
EXTENDS Integers, Sequences

CONSTANTS
  MAX_BLOCK_SIZE,  \* bytes in a block, and in m_RecvBlock
  MaxReceived,     \* bound: bytes ever received
  MaxRead          \* bound: bytes that OnMsg() asks for

BlockId == 1..MaxReceived  \* a byte fills a new block at the latest
NULL == 0

VARIABLES
  m_IoBlocks, m_pCurBlock, m_nDataSize,  \* as in the source
  block,      \* per block: m_nWriteIndex and m_nReadIndex
  received,   \* bytes that recvDone() was called with
  readOut,    \* bytes that ReadData() has returned
  tasks,      \* IOTasks not yet taken
  writer,     \* recvDone(): where it is and its local variables
  reader,     \* ReadData(): the same
  undefined   \* what follows is not defined by the language

buffer == <<m_IoBlocks, m_pCurBlock, block>>
totals == <<received, readOut, tasks>>
vars   == <<buffer, m_nDataSize, totals, writer, reader, undefined>>

Min(m, n) == IF m < n THEN m ELSE n

Idle == [pc |-> "idle", left |-> 0, nSize |-> 0, size |-> 0]

Init ==
  /\ m_IoBlocks = <<>> /\ m_pCurBlock = NULL /\ m_nDataSize = 0
  /\ block = [b \in BlockId |-> [write |-> 0, read |-> 0]]
  /\ received = 0 /\ readOut = 0 /\ tasks = 0
  /\ writer = Idle /\ reader = Idle
  /\ undefined = FALSE

-----------------------------------------------------------------------------
(* recvDone(): m_RecvBuffer.writeData(), without the lock.                 *)

RecvDone(n) ==
  /\ ~undefined /\ writer.pc = "idle" /\ received + n <= MaxReceived
  /\ received' = received + n
  /\ \E pc \in {"create", "fill"} :
       /\ pc = "create" <=> m_pCurBlock = NULL
       /\ writer' = [Idle EXCEPT !.pc = pc, !.left = n]
  /\ UNCHANGED <<buffer, m_nDataSize, readOut, tasks, reader, undefined>>

\* createBlock(): the vector may move its elements while ReadData() has an
\* iterator into it.
CreateBlock ==
  /\ ~undefined /\ writer.pc = "create"
  /\ \E b \in BlockId :
       /\ b \notin {m_IoBlocks[k] : k \in DOMAIN m_IoBlocks}
       /\ m_IoBlocks' = Append(m_IoBlocks, b)
       /\ m_pCurBlock' = b
       /\ block' = [block EXCEPT ![b] = [write |-> 0, read |-> 0]]
  /\ undefined' \in {FALSE, reader.pc # "idle"}
  /\ writer' = [writer EXCEPT !.pc = "fill"]
  /\ UNCHANGED <<m_nDataSize, totals, reader>>

\* IOBlock::writeData() on m_pCurBlock, which may be NULL by now.
Fill ==
  /\ ~undefined /\ writer.pc = "fill"
  /\ IF m_pCurBlock = NULL
     THEN undefined' = TRUE /\ UNCHANGED <<block, writer>>
     ELSE LET n == Min(writer.left, MAX_BLOCK_SIZE - block[m_pCurBlock].write)
          IN  /\ block' = [block EXCEPT ![m_pCurBlock].write = @ + n]
              /\ writer' = [writer EXCEPT !.pc = "load", !.nSize = n,
                                          !.left = @ - n]
              /\ UNCHANGED undefined
  /\ UNCHANGED <<m_IoBlocks, m_pCurBlock, m_nDataSize, totals, reader>>

\* m_nDataSize += nSize, first half.
LoadSize ==
  /\ ~undefined /\ writer.pc = "load"
  /\ writer' = [writer EXCEPT !.pc = "store", !.size = m_nDataSize]
  /\ UNCHANGED <<buffer, m_nDataSize, totals, reader, undefined>>

\* Second half; then a new block for what is left, or the IOTask.
StoreSize ==
  /\ ~undefined /\ writer.pc = "store"
  /\ m_nDataSize' = writer.size + writer.nSize
  /\ IF writer.left > 0
     THEN writer' = [writer EXCEPT !.pc = "create"] /\ UNCHANGED tasks
     ELSE writer' = Idle /\ tasks' = tasks + 1
  /\ UNCHANGED <<buffer, received, readOut, reader, undefined>>

-----------------------------------------------------------------------------
(* ReadData(): m_RecvBuffer.readData(), under the lock.                    *)

\* The length is limited to m_nDataSize.
ReadData(n) ==
  /\ ~undefined /\ reader.pc = "idle" /\ tasks > 0
  /\ tasks' = tasks - 1
  /\ reader' = [Idle EXCEPT !.pc = "walk", !.left = Min(n, m_nDataSize)]
  /\ UNCHANGED <<buffer, m_nDataSize, received, readOut, writer, undefined>>

\* IOBlock::readData() on the first block; nothing when m_nDataSize was not
\* above zero.
Walk ==
  /\ ~undefined /\ reader.pc = "walk"
  /\ IF m_IoBlocks = <<>>
     THEN reader' = Idle /\ UNCHANGED <<block, readOut>>
     ELSE LET b == Head(m_IoBlocks)
              n == IF reader.left <= 0 THEN 0
                   ELSE Min(reader.left, block[b].write - block[b].read)
          IN  /\ block' = [block EXCEPT ![b].read = @ + n]
              /\ readOut' = readOut + n
              /\ reader' = [reader EXCEPT !.pc = "load", !.nSize = n,
                                          !.left = @ - n]
  /\ UNCHANGED <<m_IoBlocks, m_pCurBlock, m_nDataSize, received, tasks, writer,
                 undefined>>

\* m_nDataSize -= nSize, first half.
LoadSizeToo ==
  /\ ~undefined /\ reader.pc = "load"
  /\ reader' = [reader EXCEPT !.pc = "store", !.size = m_nDataSize]
  /\ UNCHANGED <<buffer, m_nDataSize, totals, writer, undefined>>

\* Second half; the walk ends when all that was asked for is there.
StoreSizeToo ==
  /\ ~undefined /\ reader.pc = "store"
  /\ m_nDataSize' = reader.size - reader.nSize
  /\ reader' = IF reader.left > 0 THEN [reader EXCEPT !.pc = "erase"] ELSE Idle
  /\ UNCHANGED <<buffer, totals, writer, undefined>>

\* The drained block is erased and released.
Erase ==
  /\ ~undefined /\ reader.pc = "erase"
  /\ m_IoBlocks' = Tail(m_IoBlocks)
  /\ m_pCurBlock' = IF m_pCurBlock = Head(m_IoBlocks) THEN NULL ELSE m_pCurBlock
  /\ reader' = [reader EXCEPT !.pc = "walk"]
  /\ UNCHANGED <<block, m_nDataSize, totals, writer, undefined>>

-----------------------------------------------------------------------------
Next ==
  \/ \E n \in 1..MAX_BLOCK_SIZE : RecvDone(n)
  \/ CreateBlock \/ Fill \/ LoadSize \/ StoreSize
  \/ \E n \in 1..MaxRead : ReadData(n)
  \/ Walk \/ LoadSizeToo \/ StoreSizeToo \/ Erase

Spec == Init /\ [][Next]_vars

-----------------------------------------------------------------------------
(* What a comment of the code promises.                                    *)

\* ClientSocket.h:135, at m_RecvBuffer: it stores all the data received.  With
\* neither thread in the buffer, what was received and not yet read is there to
\* be read, and nothing else.
AllReceivedIsThere ==
  writer.pc = "idle" /\ reader.pc = "idle" /\ ~undefined =>
    m_nDataSize + readOut = received

=============================================================================
