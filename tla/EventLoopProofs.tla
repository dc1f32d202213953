--------------------------- MODULE EventLoopProofs ---------------------------
(***************************************************************************)
(* Theorems about EventLoop, for any number of Threads.  RunOutlived holds *)
(* because join() waits on an open handle as long as run() may execute;    *)
(* so it has to be known, wherever the owner is, which handles are stored  *)
(* and open.                                                               *)
(***************************************************************************)
EXTENDS EventLoop, TLAPS

\* ThreadFunc() has not come to its last three statements.
Busy == {t \in Threads : fpc[t] \in {"begin", "run", "end"}}

Starting == opc \in {"push", "create", "assign"}

\* start() has returned for these.
Started == IF Starting THEN 1..(i - 1) ELSE Threads

\* m_ThreadList grows with the owner's position, and a Thread runs only after
\* its CreateThread().
InOrder ==
  /\ opc = "push" => size = i - 1
  /\ opc \in {"create", "assign"} => size = i
  /\ \A t \in Threads :
       (t > i /\ Starting) \/ (t = i /\ opc \in {"push", "create"}) =>
         fpc[t] = "none"
  /\ Starting => deleted = {}

\* The handle of a Thread that may be in run() is open, and start() has stored
\* it; nobody else's handle is ever stored there.
HandlesKept ==
  /\ \A t \in Threads : m_hThreadHandle[t] \in {t, NULL}
  /\ Busy \subseteq open
  /\ \A t \in Busy \cap Started : m_hThreadHandle[t] = t

\* The owner waits on the handle of the Thread it has come to, and it deletes
\* that Thread when it is not busy.
OwnerWaits ==
  /\ opc = "assign" => hThread \in {i, NULL} /\ (i \in Busy => hThread = i)
  /\ opc = "wait" /\ i \in Busy => hThread = i
  /\ opc = "wait" => hThread \in {i, NULL}
  /\ opc = "waiting" => hThread = i
  /\ opc = "joined" => i \notin Busy

Looping == TypeOK /\ InOrder /\ HandlesKept /\ OwnerWaits /\ RunOutlived

LEMMA LoopingInit == Init => Looping
<1> USE CountAssumption DEF Init, Threads, NULL
<1>1. Init => TypeOK
  BY DEF TypeOK
<1>2. Init => InOrder /\ HandlesKept /\ OwnerWaits /\ RunOutlived
  BY DEF InOrder, HandlesKept, OwnerWaits, RunOutlived, Busy, Started, Starting
<1> QED
  BY <1>1, <1>2 DEF Looping

\* The owner, while it starts the Threads.
LEMMA LoopingStarts ==
  ASSUME Looping, PushThread \/ Create \/ Assign
  PROVE  Looping'
<1> USE CountAssumption
    DEF Looping, Threads, NULL, OwnerAt, Goto, NextThread, object, owner, ender
<1>1. CASE PushThread
  <2>1. TypeOK'
    BY <1>1 DEF PushThread, TypeOK, InOrder
  <2>2. InOrder' /\ HandlesKept' /\ OwnerWaits' /\ RunOutlived'
    BY <1>1 DEF PushThread, TypeOK, InOrder, HandlesKept, OwnerWaits,
                RunOutlived, Busy, Started, Starting
  <2> QED
    BY <2>1, <2>2
<1>2. CASE Create
  <2>1. TypeOK'
    BY <1>2 DEF Create, TypeOK
  <2>2. InOrder' /\ HandlesKept' /\ OwnerWaits'
    BY <1>2 DEF Create, TypeOK, InOrder, HandlesKept, OwnerWaits, Busy,
                Started, Starting
  <2>3. RunOutlived'
    BY <1>2 DEF Create, InOrder, Starting, RunOutlived
  <2> QED
    BY <2>1, <2>2, <2>3
<1>3. CASE Assign
  <2>1. TypeOK'
    BY <1>3 DEF Assign, TypeOK
  <2>2. /\ i < m_dwThreadCount => i' = i + 1 /\ Started' = 1..i
        /\ i = m_dwThreadCount => i' = 1 /\ Started' = 1..i
    BY <1>3 DEF Assign, TypeOK, Started, Starting
  <2>3. InOrder'
    BY <1>3 DEF Assign, TypeOK, InOrder, Starting
  <2>4. OwnerWaits' /\ RunOutlived'
    BY <1>3 DEF Assign, OwnerWaits, RunOutlived, Busy
  <2>5. \A t \in Busy : t \in 1..i
    BY <1>3 DEF Assign, TypeOK, InOrder, Busy, Starting
  <2>6. HandlesKept'
    BY <1>3, <2>2, <2>5
    DEF Assign, TypeOK, HandlesKept, OwnerWaits, Busy, Started, Starting
  <2> QED
    BY <2>1, <2>3, <2>4, <2>6
<1> QED
  BY <1>1, <1>2, <1>3

\* The owner, while it waits for them and deletes them.
LEMMA LoopingJoins ==
  ASSUME Looping, BeginJoin \/ Join \/ Wait \/ JoinReturns \/ Delete \/ Clear
  PROVE  Looping'
<1> USE CountAssumption
    DEF Looping, Threads, NULL, OwnerAt, Finalize, NextThread, object, owner,
        ender
<1>1. TypeOK'
  <2>1. m_bComplete' \in [Threads -> BOOLEAN]
    BY DEF BeginJoin, Join, Wait, JoinReturns, Delete, Clear, TypeOK
  <2>2. CASE BeginJoin
    BY <2>1, <2>2 DEF BeginJoin, TypeOK
  <2>3. CASE Join \/ Wait
    BY <2>1, <2>3 DEF Join, Wait, TypeOK
  <2>4. CASE JoinReturns
    BY <2>1, <2>4 DEF JoinReturns, TypeOK
  <2>5. CASE Clear
    BY <2>1, <2>5 DEF Clear, TypeOK
  <2>6. CASE Delete
    <3>1. i' \in Threads /\ opc' \in {"started", "clear"}
      BY <2>6 DEF Delete, TypeOK
    <3>2. deleted' \subseteq Threads /\ open' \subseteq Threads
      BY <2>6 DEF Delete, TypeOK
    <3> QED
      BY <2>1, <2>6, <3>1, <3>2 DEF Delete, TypeOK
  <2> QED
    BY <2>2, <2>3, <2>4, <2>5, <2>6
<1>2. CASE BeginJoin
  BY <1>1, <1>2 DEF BeginJoin, InOrder, HandlesKept, OwnerWaits, RunOutlived,
                    Busy, Started, Starting
<1>3. CASE Join
  BY <1>1, <1>3 DEF Join, TypeOK, InOrder, HandlesKept, OwnerWaits,
                    RunOutlived, Busy, Started, Starting
<1>4. CASE Wait
  BY <1>1, <1>4 DEF Wait, TypeOK, InOrder, HandlesKept, OwnerWaits,
                    RunOutlived, Busy, Started, Starting
<1>5. CASE JoinReturns
  BY <1>1, <1>5 DEF JoinReturns, TypeOK, InOrder, HandlesKept, OwnerWaits,
                    RunOutlived, Busy, Started, Starting
<1>6. CASE Delete
  <2>1. i \notin Busy /\ m_hThreadHandle[i] \in {i, NULL}
    BY <1>6 DEF Delete, TypeOK, HandlesKept, OwnerWaits
  <2>2. Busy' = Busy /\ Started = Threads /\ Started' = Threads
    BY <1>6 DEF Delete, Busy, Started, Starting
  <2>3. InOrder' /\ OwnerWaits'
    BY <1>6, <2>1 DEF Delete, InOrder, OwnerWaits, Busy, Starting
  <2>4. RunOutlived'
    BY <1>6, <2>1 DEF Delete, RunOutlived, Busy, TypeOK
  <2>5. HandlesKept'
    BY <1>6, <2>1, <2>2 DEF Delete, TypeOK, HandlesKept, Busy
  <2> QED
    BY <1>1, <2>3, <2>4, <2>5
<1>7. CASE Clear
  BY <1>1, <1>7 DEF Clear, InOrder, HandlesKept, OwnerWaits, RunOutlived,
                    Busy, Started, Starting
<1> QED
  BY <1>2, <1>3, <1>4, <1>5, <1>6, <1>7

\* The caller of end_event_loop().
LEMMA LoopingEnders ==
  ASSUME Looping, EndEventLoop \/ EndOne
  PROVE  Looping'
<1> USE CountAssumption
    DEF Looping, Threads, NULL, EnderAt, Finalize, object, owner, ender
<1>1. TypeOK'
  <2>1. m_bComplete' \in [Threads -> BOOLEAN]
    BY DEF EndEventLoop, EndOne, TypeOK
  <2>2. CASE EndEventLoop
    BY <2>2 DEF EndEventLoop, TypeOK
  <2>3. CASE EndOne
    BY <2>1, <2>3 DEF EndOne, TypeOK
  <2> QED
    BY <2>2, <2>3
<1>2. UNCHANGED <<m_hThreadHandle, deleted, owner, open, fpc>>
  BY DEF EndEventLoop, EndOne
<1>3. InOrder' /\ HandlesKept' /\ OwnerWaits' /\ RunOutlived'
  BY <1>2 DEF InOrder, HandlesKept, OwnerWaits, RunOutlived, Busy, Started,
              Starting
<1> QED
  BY <1>1, <1>3

\* ThreadFunc().  A Thread that is done is not busy any more, and it is only
\* then that its handle is closed and cleared.
LEMMA LoopingFunc ==
  ASSUME Looping, NEW t \in Threads, FuncStep(t)
  PROVE  Looping'
<1> USE CountAssumption
    DEF Looping, Threads, NULL, FuncAt, Goto, object, owner, ender
<1>1. TypeOK'
  BY DEF FuncStep, Begin, RunReturns, End, CloseOwn, ClearHandle,
         UseAfterDelete, TypeOK
<1>2. CASE Begin(t) \/ RunReturns(t) \/ End(t)
  <2>1. t \notin deleted /\ t \in Busy /\ Busy' \subseteq Busy
    BY <1>2 DEF Begin, RunReturns, End, TypeOK, Busy
  <2>2. \A u \in Threads : u # t => fpc'[u] = fpc[u]
    BY <1>2 DEF Begin, RunReturns, End, TypeOK
  <2>3. UNCHANGED <<m_hThreadHandle, deleted, owner, open>>
    BY <1>2 DEF Begin, RunReturns, End
  <2>4. fpc[t] # "none"
    BY <2>1 DEF Busy
  <2>5. InOrder'
    BY <2>2, <2>3, <2>4 DEF InOrder, Starting, TypeOK
  <2>6. HandlesKept' /\ OwnerWaits' /\ RunOutlived'
    BY <2>1, <2>2, <2>3 DEF HandlesKept, OwnerWaits, RunOutlived, Started,
                            Starting, TypeOK
  <2> QED
    BY <1>1, <2>5, <2>6
<1>3. CASE CloseOwn(t)
  BY <1>1, <1>3 DEF CloseOwn, TypeOK, InOrder, HandlesKept, OwnerWaits,
                    RunOutlived, Busy, Started, Starting
<1>4. CASE ClearHandle(t)
  BY <1>1, <1>4 DEF ClearHandle, TypeOK, InOrder, HandlesKept, OwnerWaits,
                    RunOutlived, Busy, Started, Starting
<1>5. CASE UseAfterDelete(t)
  BY <1>1, <1>5 DEF UseAfterDelete, InOrder, HandlesKept, OwnerWaits,
                    RunOutlived, Busy, Started, Starting
<1> QED
  BY <1>2, <1>3, <1>4, <1>5 DEF FuncStep

\* Every step keeps the inductive invariant.
LEMMA LoopingNext == Looping /\ [Next]_vars => Looping'
<1> SUFFICES ASSUME Looping, [Next]_vars PROVE Looping'
  OBVIOUS
<1>1. CASE UNCHANGED vars
  BY <1>1 DEF Looping, TypeOK, InOrder, HandlesKept, OwnerWaits, RunOutlived,
              Busy, Started, Starting, vars, object, owner, ender
<1>2. CASE OwnerStep
  BY <1>2, LoopingStarts, LoopingJoins DEF OwnerStep
<1>3. CASE EndEventLoop \/ EndOne
  BY <1>3, LoopingEnders
<1>4. CASE \E t \in Threads : FuncStep(t)
  BY <1>4, LoopingFunc
<1> QED
  BY <1>1, <1>2, <1>3, <1>4 DEF Next, Finished

LEMMA LoopingHolds == Spec => []Looping
  BY LoopingInit, LoopingNext, PTL DEF Spec

\* Every variable has its type, for any number of Threads: the owner's position
\* stays in m_ThreadList.
THEOREM TypeCorrect == Spec => []TypeOK
  BY LoopingHolds, PTL DEF Looping

\* Thread.cpp:15-52 and IOCP.cpp:121-158: no Thread is deleted while its run()
\* executes, however start(), ThreadFunc() and join() get in each other's way
\* at m_hThreadHandle.
THEOREM RunOutlivedHolds == Spec => []RunOutlived
  BY LoopingHolds, PTL DEF Looping

=============================================================================
