----------------------------- MODULE Allocator -----------------------------
(***************************************************************************)
(* The memory pool every ClientSocket and IOBlock comes from: Allocator    *)
(* keeps freed nodes in m_pfree[1..MAX_INDEX-1], one list for each size,   *)
(* and the larger ones all in the list m_pfree[0].                         *)
(*                                                                         *)
(* Alloc() looks at m_uiCurMaxBlockIndex and at m_pfree[0] before it takes *)
(* the mutex; other threads run in between.  What it does under the mutex  *)
(* is one step, and so is Free().                                          *)
(***************************************************************************)
EXTENDS Integers, Sequences, FiniteSets

Sets == INSTANCE FiniteSetsExt

CONSTANTS
  Threads,         \* the threads that allocate and free
  Node,            \* the nodes malloc() can return (bound)
  Sizes,           \* the sizes asked for, in bytes
  MAX_INDEX,       \* number of lists
  BOUNDARY_INDEX,  \* log2 of the unit sizes are rounded up to
  MemNodeSize,     \* bytes of the header in front of the memory
  SizeBits,        \* width of size_t
  Limits           \* limits it may be constructed with, 0 for none (bound)

ASSUME SizeAssumption ==
  /\ Sizes \subseteq 0..(2^SizeBits - 1)
  /\ BOUNDARY_INDEX \in Nat /\ SizeBits \in Nat /\ MemNodeSize \in Nat

ASSUME IndexAssumption == MAX_INDEX \in Nat \ {0} /\ Limits \subseteq Nat

\* The first two are arithmetic, stated for the provers.  The header and a unit
\* are small: what a sum lost to an overflow is more than what rounding adds.
ASSUME UnitAssumption ==
  /\ 2^BOUNDARY_INDEX \in Nat \ {0} /\ 2^SizeBits \in Nat \ {0}
  /\ MemNodeSize + 2^BOUNDARY_INDEX <= 2^SizeBits

VARIABLES
  m_uiMaxIndex,          \* units that may be kept, 0 for any number
  m_pfree,               \* the lists of free nodes
  m_uiCurMaxBlockIndex,  \* the largest list (but m_pfree[0]) with a node
  m_uiCurAllocIndex,     \* units that may still be kept
  index,                 \* of each node: its units less one; 0 when unmapped
  inUse,                 \* the nodes that were handed out
  pc,                    \* per thread: where it is in Alloc()
  size                   \* per thread: the bytes it asked for

lists == <<m_pfree, m_uiCurMaxBlockIndex, m_uiCurAllocIndex, m_uiMaxIndex>>
vars  == <<lists, index, inUse, pc, size>>

Min(m, n) == IF m < n THEN m ELSE n

-----------------------------------------------------------------------------
(* Sizes.  Arithmetic is that of size_t.                                   *)

BOUNDARY_SIZE == 2^BOUNDARY_INDEX

\* Align(n, BOUNDARY_SIZE): rounded up, unless that overflows.
Aligned(n) ==
  LET m == (n + BOUNDARY_SIZE - 1) % 2^SizeBits IN m - (m % BOUNDARY_SIZE)

\* nSize in Alloc().
NodeSize(n) == Aligned((n + MemNodeSize) % 2^SizeBits)

\* The sum overflowed: Alloc() returns NULL.
TooLarge(n) == NodeSize(n) < n

\* index in Alloc(): units less one, of two units at least.
IndexOf(n) ==
  LET s == NodeSize(n) IN
  (IF s < 2 * BOUNDARY_SIZE THEN 2 ELSE s \div BOUNDARY_SIZE) - 1

-----------------------------------------------------------------------------
Init ==
  /\ m_uiMaxIndex \in Limits
  /\ m_pfree = [i \in 0..(MAX_INDEX - 1) |-> <<>>]
  /\ m_uiCurMaxBlockIndex = 0
  /\ m_uiCurAllocIndex = m_uiMaxIndex
  /\ index = [n \in Node |-> 0]
  /\ inUse = {}
  /\ pc = [t \in Threads |-> "idle"]
  /\ size = [t \in Threads |-> 0]

Goto(t, l) == pc' = [pc EXCEPT ![t] = l]

\* Alloc() returns node n.
HandOut(t, n) ==
  /\ inUse' = inUse \cup {n}
  /\ Goto(t, "idle")
  /\ UNCHANGED size

\* Fault: the space is given back without the limit.
UnkeepUnbounded(n) ==
  m_uiCurAllocIndex' = m_uiCurAllocIndex + index[n] + 1

\* Node n leaves the kept space.
Unkeep(n) ==
  m_uiCurAllocIndex' = Min(m_uiCurAllocIndex + index[n] + 1, m_uiMaxIndex)

\* Alloc() up to the first look, without the mutex: is there a list with
\* nodes of this size or a larger one?
Alloc(t, n) ==
  /\ pc[t] = "idle" /\ ~TooLarge(n)
  /\ size' = [size EXCEPT ![t] = n]
  /\ Goto(t, IF IndexOf(n) <= m_uiCurMaxBlockIndex THEN "lists" ELSE "large?")
  /\ UNCHANGED <<lists, index, inUse>>

\* The second look, also without the mutex: is there any larger node?
LookForLarge(t) ==
  /\ pc[t] = "large?"
  /\ Goto(t, IF m_pfree[0] # <<>> THEN "large" ELSE "malloc")
  /\ UNCHANGED <<lists, index, inUse, size>>

\* The lists Alloc() walks over under the mutex: from the one for its size to
\* the largest; only its own when the largest has become smaller.
Walked(t) ==
  LET i == IndexOf(size[t]) IN {i} \cup i..m_uiCurMaxBlockIndex

NonEmpty(I) == {i \in I : m_pfree[i] # <<>>}

\* The largest list below i with a node, 0 when there is none.
NextLower(i) == Sets!Max({0} \cup NonEmpty(1..(i - 1)))

\* Fault: the largest list is not looked for again when it became empty.
TakeFromListsKeepsMax(t) ==
  LET from == NonEmpty(Walked(t))
      i    == Sets!Min(from)
      n    == Head(m_pfree[i])
  IN  /\ pc[t] = "lists" /\ from # {}
      /\ m_pfree' = [m_pfree EXCEPT ![i] = Tail(@)]
      /\ UNCHANGED m_uiCurMaxBlockIndex
      /\ Unkeep(n)
      /\ HandOut(t, n)
      /\ UNCHANGED <<index, m_uiMaxIndex>>

\* Under the mutex: the first node of the first list that has one.
TakeFromLists(t) ==
  LET from == NonEmpty(Walked(t))
      i    == Sets!Min(from)
      n    == Head(m_pfree[i])
  IN  /\ pc[t] = "lists" /\ from # {}
      /\ m_pfree' = [m_pfree EXCEPT ![i] = Tail(@)]
      /\ m_uiCurMaxBlockIndex' =
           IF Tail(m_pfree[i]) = <<>> /\ i >= m_uiCurMaxBlockIndex
           THEN NextLower(m_uiCurMaxBlockIndex) ELSE m_uiCurMaxBlockIndex
      /\ Unkeep(n)
      /\ HandOut(t, n)
      /\ UNCHANGED <<index, m_uiMaxIndex>>

\* The larger nodes that are large enough.
Fitting(t) ==
  {k \in 1..Len(m_pfree[0]) : index[m_pfree[0][k]] >= IndexOf(size[t])}

\* Fault: any larger node is taken.
TakeAnyLarge(t) ==
  LET n == m_pfree[0][1] IN
  /\ pc[t] = "large" /\ m_pfree[0] # <<>>
  /\ m_pfree' = [m_pfree EXCEPT ![0] = Tail(@)]
  /\ Unkeep(n)
  /\ HandOut(t, n)
  /\ UNCHANGED <<m_uiCurMaxBlockIndex, m_uiMaxIndex, index>>

\* Under the mutex: the first of the larger nodes that is large enough.
TakeLarge(t) ==
  LET k == Sets!Min(Fitting(t))
      n == m_pfree[0][k]
  IN  /\ pc[t] = "large" /\ Fitting(t) # {}
      /\ m_pfree' = [m_pfree EXCEPT ![0] =
                       SubSeq(@, 1, k - 1) \o SubSeq(@, k + 1, Len(@))]
      /\ Unkeep(n)
      /\ HandOut(t, n)
      /\ UNCHANGED <<m_uiCurMaxBlockIndex, m_uiMaxIndex, index>>

\* Under the mutex: what the look without it promised is not there (any more).
FindNothing(t) ==
  /\ \/ pc[t] = "lists" /\ NonEmpty(Walked(t)) = {}
     \/ pc[t] = "large" /\ Fitting(t) = {}
  /\ Goto(t, "malloc")
  /\ UNCHANGED <<lists, index, inUse, size>>

\* malloc() returns a new node, or NULL, which Alloc() returns too.
Malloc(t) ==
  /\ pc[t] = "malloc"
  /\ \/ \E n \in Node :
          /\ index[n] = 0
          /\ index' = [index EXCEPT ![n] = IndexOf(size[t])]
          /\ HandOut(t, n)
     \/ Goto(t, "idle") /\ UNCHANGED <<index, inUse, size>>
  /\ UNCHANGED lists

\* Where Free() keeps a node.
ListOf(n) == IF index[n] < MAX_INDEX THEN index[n] ELSE 0

\* Fault: the space a node takes is not deducted.
KeepUncounted(n) ==
  /\ m_pfree' = [m_pfree EXCEPT ![ListOf(n)] = <<n>> \o @]
  /\ m_uiCurMaxBlockIndex' =
       IF ListOf(n) > m_uiCurMaxBlockIndex THEN ListOf(n)
                                           ELSE m_uiCurMaxBlockIndex
  /\ UNCHANGED <<m_uiCurAllocIndex, m_uiMaxIndex, index>>

\* Free() keeps node n for the next Alloc().
Keep(n) ==
  /\ m_pfree' = [m_pfree EXCEPT ![ListOf(n)] = <<n>> \o @]
  /\ m_uiCurMaxBlockIndex' =
       IF m_pfree[ListOf(n)] = <<>> /\ ListOf(n) > m_uiCurMaxBlockIndex
       THEN ListOf(n) ELSE m_uiCurMaxBlockIndex
  /\ m_uiCurAllocIndex' =
       IF m_uiCurAllocIndex >= index[n] + 1
       THEN m_uiCurAllocIndex - (index[n] + 1) ELSE 0
  /\ UNCHANGED <<index, m_uiMaxIndex>>

\* Fault: the node stays in use, and is freed again.
FreeTwice(t, n) ==
  /\ pc[t] = "idle" /\ n \in inUse
  /\ Keep(n)
  /\ UNCHANGED <<inUse, pc, size>>

\* Free(): a node that would exceed the limit goes back to the system.
Free(t, n) ==
  /\ pc[t] = "idle" /\ n \in inUse
  /\ IF m_uiMaxIndex # 0 /\ index[n] + 1 > m_uiCurAllocIndex
     THEN index' = [index EXCEPT ![n] = 0] /\ UNCHANGED lists
     ELSE Keep(n)
  /\ inUse' = inUse \ {n}
  /\ UNCHANGED <<pc, size>>

Step(t) ==
  \/ \E n \in Sizes : Alloc(t, n)
  \/ LookForLarge(t) \/ TakeFromLists(t) \/ TakeLarge(t)
  \/ FindNothing(t) \/ Malloc(t)
  \/ \E n \in Node : Free(t, n)

Next == \E t \in Threads : Step(t)

Spec == Init /\ [][Next]_vars

-----------------------------------------------------------------------------
(* Properties.                                                             *)

Listed(i) == {m_pfree[i][k] : k \in DOMAIN m_pfree[i]}

TypeOK ==
  /\ m_uiMaxIndex \in Limits
  /\ m_pfree \in [0..(MAX_INDEX - 1) -> Seq(Node)]
  /\ m_uiCurMaxBlockIndex \in 0..(MAX_INDEX - 1)
  /\ m_uiCurAllocIndex \in 0..m_uiMaxIndex
  /\ index \in [Node -> Nat]
  /\ inUse \subseteq Node
  /\ pc \in [Threads -> {"idle", "lists", "large?", "large", "malloc"}]
  /\ size \in [Threads -> Sizes \cup {0}]

\* Every mapped node is at one place: handed out, or once in one list, the one
\* for its size.  So no memory is handed out twice, whatever threads saw before
\* they got the mutex.
OnePlace ==
  /\ \A i \in DOMAIN m_pfree : \A k, l \in DOMAIN m_pfree[i] :
       k # l => m_pfree[i][k] # m_pfree[i][l]
  /\ \A i \in DOMAIN m_pfree, n \in Node :
       n \in Listed(i) <=> index[n] # 0 /\ n \notin inUse /\ i = ListOf(n)

\* m_uiCurMaxBlockIndex is the largest list with a node: too small, it would
\* hide nodes; too large, the walk over the lists would go too far.
MaxIsExact ==
  m_uiCurMaxBlockIndex = Sets!Max({0} \cup NonEmpty(1..(MAX_INDEX - 1)))

\* The units of the nodes that are kept, node by node.
KeptUnits ==
  UNION {{n} \X (0..index[n]) : n \in UNION {Listed(i) : i \in DOMAIN m_pfree}}

\* With a limit, what may still be kept and what is kept add up to it.
LimitIsExact ==
  m_uiMaxIndex # 0 =>
    m_uiCurAllocIndex + Cardinality(KeptUnits) = m_uiMaxIndex

\* The memory behind the header of a node that Alloc() returns is as large as
\* what was asked for, although sizes are rounded and may overflow.
LargeEnough ==
  [][\A t \in Threads, n \in Node :
       n \in inUse' \ inUse /\ pc[t] # pc'[t] =>
         (index'[n] + 1) * BOUNDARY_SIZE - MemNodeSize >= size[t]]_vars

=============================================================================
