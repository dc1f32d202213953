------------------------- MODULE ClientSocketProofs -------------------------
(***************************************************************************)
(* Proofs about ClientSocket, for any number of threads and any bounds.    *)
(*                                                                         *)
(* Everything rests on the inductive invariant Typed: the types, Roles     *)
(* (which thread can be where) and the sign of the count.  With it, the    *)
(* exact value of the count (Balanced), who will still close an unclosed   *)
(* connection (Anchored), and the invariants about receives (ReceiveInv)   *)
(* and sends (SendInv) are each inductive.                                 *)
(***************************************************************************)
EXTENDS ClientSocket, FiniteSetTheorems, TLAPS

\* What kind of thread can be where.
Roles ==
  /\ \A t \in WorkThreads : pc[t] \in {"idle", "unlockDead"} \cup TaskLabels
  /\ \A t \in IocpThreads : pc[t] \notin MsgLabels
  /\ pc[PoolThread] \in {"idle", "unlockDead"} \cup CloseLabels

\* decReference() lets a live object keep a positive count.
CountSign ==
  /\ object = "live" => m_reference >= 1
  /\ object \in {"unborn", "deleted"} => m_reference = 0

\* Whoever will one day call final() on an object that was not closed yet.
Anchored ==
  object \in {"live", "deleted"} =>
    \/ m_bComplete
    \/ \E t \in Threads : pc[t] \in AcceptLabels \cup {"final"}
    \/ poolQueue + poolList + abandoned > 0

-----------------------------------------------------------------------------
(* Types.                                                                  *)

LEMMA TypeInit == Init => TypeOK /\ Roles /\ CountSign
<1> SUFFICES ASSUME Init PROVE TypeOK /\ Roles /\ CountSign
  OBVIOUS
<1>1. BooleanTypes
  BY Zenon DEF Init, BooleanTypes
<1>2. NumberTypes
  <2>1. len \in [Threads -> Nat]
    BY DEF Init
  <2>2. sends \in Seq(Nat)
    BY DEF Init
  <2> QED BY <2>1, <2>2, BoundAssumption DEF Init, NumberTypes
<1>3. PlaceTypes
  BY DEF Init, PlaceTypes, Labels
<1>4. Roles /\ CountSign
  BY DEF Init, Roles, CountSign, Threads, MsgLabels
<1> QED BY <1>1, <1>2, <1>3, <1>4 DEF TypeOK

\* Every step leaves the Boolean variables Boolean.
LEMMA BooleanStep == ASSUME BooleanTypes, [Next]_vars PROVE BooleanTypes'
<1> USE DEF BooleanTypes, flags
<1>1. ASSUME NEW t \in Threads, AcceptStep(t) PROVE BooleanTypes'
  BY <1>1 DEF AcceptStep, OnAccept, OpenRefused, OpenAccepted, Enlist
<1>2. ASSUME NEW t \in Threads, RecvStep(t) PROVE BooleanTypes'
  BY <1>2 DEF RecvStep, RecvCompletes, RecvDone, PostRecv
<1>3. ASSUME NEW t \in Threads, SendStep(t) PROVE BooleanTypes'
  BY <1>3 DEF SendStep, AddSend, PeekSendBuffer, MarkSending, PostSend,
              SendCompletes, Sendout, ClearSending
<1>4. ASSUME NEW t \in Threads, CountStep(t) PROVE BooleanTypes'
  BY <1>4 DEF CountStep, AddReference, DecReference, UnlockDeleted, Final
<1>5. ASSUME NEW t \in Threads, MsgStep(t) PROVE BooleanTypes'
  BY <1>5 DEF MsgStep, TakeTask, SendData, WriteSendBuffer, FinishMsg
<1>6. ASSUME NEW t \in Threads, UseAfterDelete(t) PROVE BooleanTypes'
  BY <1>6 DEF UseAfterDelete
<1>7. CASE PoolStep \/ HeartLapses
  BY <1>7 DEF PoolStep, CheckQueue, Expire, HeartLapses
<1>8. CASE UNCHANGED vars
  BY <1>8 DEF vars
<1> QED
  BY <1>1, <1>2, <1>3, <1>4, <1>5, <1>6, <1>7, <1>8
  DEF Next, ThreadStep, Stop

\* decReference() goes on at a program location.
LEMMA AfterDecType ==
  \A l \in DOMAIN AfterDec : AfterDec[l] \in {"rePost", "sendCheck", "idle"}
BY DEF AfterDec

\* Every step takes a thread from a program location to another one.
LEMMA PlaceStep == ASSUME PlaceTypes, [Next]_vars PROVE PlaceTypes'
<1> USE DEF PlaceTypes, flags, Goto, Running, Labels, AcceptLabels,
            RecvLabels, SendLabels, DoneLabels, CloseLabels, MsgLabels
<1>1. ASSUME NEW t \in Threads, AcceptStep(t) PROVE PlaceTypes'
  BY <1>1 DEF AcceptStep, OnAccept, OpenRefused, OpenAccepted, Enlist
<1>2. ASSUME NEW t \in Threads, RecvStep(t) PROVE PlaceTypes'
  BY <1>2 DEF RecvStep, RecvCompletes, RecvDone, PostRecv
<1>3. ASSUME NEW t \in Threads, SendStep(t) PROVE PlaceTypes'
  BY <1>3 DEF SendStep, AddSend, PeekSendBuffer, MarkSending, PostSend,
              SendCompletes, Sendout, ClearSending, Return
<1>4. ASSUME NEW t \in Threads, CountStep(t) PROVE PlaceTypes'
  <2>1. CASE AddReference(t)
    BY <2>1 DEF AddReference, Return
  <2>2. CASE DecReference(t)
    BY <2>2, AfterDecType DEF DecReference
  <2>3. CASE UnlockDeleted(t) \/ Final(t)
    BY <2>3 DEF UnlockDeleted, Final
  <2> QED BY <1>4, <2>1, <2>2, <2>3 DEF CountStep
<1>5. ASSUME NEW t \in Threads, MsgStep(t) PROVE PlaceTypes'
  BY <1>5 DEF MsgStep, TakeTask, SendData, WriteSendBuffer, FinishMsg
<1>6. ASSUME NEW t \in Threads, UseAfterDelete(t) PROVE PlaceTypes'
  BY <1>6 DEF UseAfterDelete
<1>7. CASE PoolStep \/ HeartLapses
  BY <1>7 DEF PoolStep, CheckQueue, Expire, HeartLapses
<1>8. CASE UNCHANGED vars
  BY <1>8 DEF vars
<1> QED
  BY <1>1, <1>2, <1>3, <1>4, <1>5, <1>6, <1>7, <1>8
  DEF Next, ThreadStep, Stop

\* Every step leaves the numbers in their ranges; the count needs CountSign.
LEMMA NumberStep ==
  ASSUME NumberTypes, PlaceTypes, CountSign, [Next]_vars
  PROVE  NumberTypes' /\ CountSign'
<1> DEFINE Goal == NumberTypes' /\ CountSign'
<1> USE BoundAssumption DEF NumberTypes, PlaceTypes, CountSign, Running,
                            flags, counts, data
<1>1. ASSUME NEW t \in Threads PROVE AcceptStep(t) => Goal
  <2>1. OnAccept(t) => Goal  BY DEF OnAccept
  <2>2. OpenRefused(t) => Goal  BY DEF OpenRefused
  <2>3. OpenAccepted(t) => Goal  BY DEF OpenAccepted
  <2>4. Enlist(t) => Goal  BY DEF Enlist
  <2> QED BY <2>1, <2>2, <2>3, <2>4 DEF AcceptStep
<1>2. ASSUME NEW t \in Threads PROVE RecvStep(t) => Goal
  <2>1. RecvCompletes(t) => Goal  BY DEF RecvCompletes
  <2>2. RecvDone(t) => Goal  BY DEF RecvDone
  <2>3. PostRecv(t) => Goal  BY DEF PostRecv
  <2> QED BY <2>1, <2>2, <2>3 DEF RecvStep
<1>3. ASSUME NEW t \in Threads PROVE SendStep(t) => Goal
  <2>1. AddSend(t) \/ MarkSending(t) \/ ClearSending(t) => Goal
    BY DEF AddSend, MarkSending, ClearSending
  <2>2. PeekSendBuffer(t) => Goal  BY DEF PeekSendBuffer
  <2>3. PostSend(t) => Goal  BY DEF PostSend, At
  <2>4. SendCompletes(t) => Goal  BY DEF SendCompletes
  <2>5. Sendout(t) => Goal  BY DEF Sendout
  <2> QED BY <2>1, <2>2, <2>3, <2>4, <2>5 DEF SendStep
<1>4. ASSUME NEW t \in Threads PROVE CountStep(t) => Goal
  <2>1. AddReference(t) => Goal  BY DEF AddReference
  <2>2. DecReference(t) => Goal  BY DEF DecReference
  <2>3. UnlockDeleted(t) \/ Final(t) => Goal  BY DEF UnlockDeleted, Final
  <2> QED BY <2>1, <2>2, <2>3 DEF CountStep
<1>5. ASSUME NEW t \in Threads PROVE MsgStep(t) => Goal
  <2>1. TakeTask(t) => Goal  BY DEF TakeTask
  <2>2. SendData(t) => Goal  BY DEF SendData
  <2>3. WriteSendBuffer(t) => Goal  BY DEF WriteSendBuffer
  <2>4. FinishMsg(t) => Goal  BY DEF FinishMsg
  <2> QED BY <2>1, <2>2, <2>3, <2>4 DEF MsgStep
<1>6. ASSUME NEW t \in Threads PROVE UseAfterDelete(t) => Goal
  BY DEF UseAfterDelete
<1>7. PoolStep \/ HeartLapses => Goal
  <2>1. CheckQueue => Goal  BY DEF CheckQueue
  <2>2. Expire => Goal  BY DEF Expire
  <2>3. HeartLapses => Goal  BY DEF HeartLapses
  <2> QED BY <2>1, <2>2, <2>3 DEF PoolStep
<1>8. UNCHANGED vars => Goal
  BY DEF vars
<1> QED
  BY <1>1, <1>2, <1>3, <1>4, <1>5, <1>6, <1>7, <1>8
  DEF Next, ThreadStep, Stop

\* Every step keeps a thread of each kind where its kind can be.
LEMMA RolesStep == ASSUME PlaceTypes, Roles, [Next]_vars PROVE Roles'
<1> USE ThreadAssumption
        DEF Roles, PlaceTypes, Goto, Running, Threads, AcceptLabels,
            RecvLabels, SendLabels, DoneLabels, CloseLabels, MsgLabels,
            TaskLabels
<1>1. ASSUME NEW t \in Threads, AcceptStep(t) PROVE Roles'
  BY <1>1 DEF AcceptStep, OnAccept, OpenRefused, OpenAccepted, Enlist
<1>2. ASSUME NEW t \in Threads, RecvStep(t) PROVE Roles'
  BY <1>2 DEF RecvStep, RecvCompletes, RecvDone, PostRecv
<1>3. ASSUME NEW t \in Threads, SendStep(t) PROVE Roles'
  BY <1>3 DEF SendStep, AddSend, PeekSendBuffer, MarkSending, PostSend,
              SendCompletes, Sendout, ClearSending, Return
<1>4. ASSUME NEW t \in Threads, CountStep(t) PROVE Roles'
  <2>1. CASE AddReference(t)
    BY <2>1 DEF AddReference, CountLabels, Return
  <2>2. CASE DecReference(t)
    BY <2>2 DEF DecReference, AfterDec
  <2>3. CASE UnlockDeleted(t) \/ Final(t)
    BY <2>3 DEF UnlockDeleted, Final
  <2> QED BY <1>4, <2>1, <2>2, <2>3 DEF CountStep
<1>5. ASSUME NEW t \in Threads, MsgStep(t) PROVE Roles'
  BY <1>5 DEF MsgStep, TakeTask, SendData, WriteSendBuffer, FinishMsg
<1>6. ASSUME NEW t \in Threads, UseAfterDelete(t) PROVE Roles'
  BY <1>6 DEF UseAfterDelete
<1>7. CASE PoolStep \/ HeartLapses
  BY <1>7 DEF PoolStep, CheckQueue, Expire, HeartLapses
<1>8. CASE UNCHANGED vars
  BY <1>8 DEF vars
<1> QED
  BY <1>1, <1>2, <1>3, <1>4, <1>5, <1>6, <1>7, <1>8
  DEF Next, ThreadStep, Stop

\* The types together with what keeps them: no step breaks any of them.
Typed == TypeOK /\ Roles /\ CountSign

LEMMA TypedStep == Typed /\ [Next]_vars => Typed'
BY BooleanStep, PlaceStep, NumberStep, RolesStep DEF Typed, TypeOK

LEMMA TypedAlways == Spec => []Typed
BY TypeInit, TypedStep, PTL DEF Spec, Typed

\* Every variable keeps its type.  That m_reference stays a natural number is
\* a fact about decReference(): it is never called on a count of zero.
THEOREM TypeCorrect == Spec => []TypeOK
BY TypedAlways, PTL DEF Typed

-----------------------------------------------------------------------------
(* Counting threads.                                                       *)

LEMMA FiniteThreads == IsFiniteSet(Threads)
BY ThreadAssumption, FS_AddElement, FS_Union DEF Threads

\* Two finite sets that differ in at most one element.
LEMMA OneMoves ==
  ASSUME NEW S, NEW T, NEW t, IsFiniteSet(S), S \ {t} = T \ {t}
  PROVE  /\ IsFiniteSet(T) /\ Cardinality(S) \in Nat /\ Cardinality(T) \in Nat
         /\ Cardinality(T) + (IF t \in S THEN 1 ELSE 0)
              = Cardinality(S) + (IF t \in T THEN 1 ELSE 0)
<1> DEFINE R == S \ {t}
<1>1. IsFiniteSet(R) /\ Cardinality(R) \in Nat
  BY FS_RemoveElement, FS_CardinalityType
<1>2. t \notin R /\ IsFiniteSet(R \cup {t})
  BY <1>1, FS_AddElement
<1>3. Cardinality(R \cup {t}) = Cardinality(R) + 1
  BY <1>1, <1>2, FS_AddElement
<1>4. S = IF t \in S THEN R \cup {t} ELSE R
  OBVIOUS
<1>5. T = IF t \in T THEN R \cup {t} ELSE R
  OBVIOUS
<1> HIDE DEF R
<1>6. Cardinality(S) = Cardinality(R) + (IF t \in S THEN 1 ELSE 0)
  BY <1>1, <1>3, <1>4
<1>7. /\ Cardinality(T) = Cardinality(R) + (IF t \in T THEN 1 ELSE 0)
      /\ IsFiniteSet(T)
  BY <1>1, <1>2, <1>3, <1>5
<1> QED BY <1>1, <1>6, <1>7

\* What a thread at location l adds to Owners, to Uncounted, and to Receivers.
Owns(t, l)  == IF l \in OwnerPlaces(t) THEN 1 ELSE 0
Lacks(l)    == IF l \in CountLabels THEN 1 ELSE 0
Receives(l) == IF l \in ReceiverLabels THEN 1 ELSE 0

\* Threads alone: how many references they own and have counted.
Debt == Cardinality(Owners) - Cardinality(Uncounted)

\* The share of thread t, at location l, in the debt.
Share(t, l) == Owns(t, l) - Lacks(l)

\* When one thread moves, only its own share changes.
LEMMA CountsMove ==
  ASSUME PlaceTypes, NEW t \in Threads, NEW l, Goto(t, l)
  PROVE  /\ Debt \in Int
         /\ Debt' = Debt - Share(t, pc[t]) + Share(t, l)
         /\ Cardinality(Receivers) \in Nat
         /\ Cardinality(Receivers)'
              = Cardinality(Receivers) - Receives(pc[t]) + Receives(l)
<1>1. IsFiniteSet(Owners) /\ IsFiniteSet(Uncounted) /\ IsFiniteSet(Receivers)
  BY FiniteThreads, FS_Subset DEF Owners, Uncounted, Receivers, At
<1>2. pc'[t] = l /\ \A u \in Threads \ {t} : pc'[u] = pc[u]
  BY DEF PlaceTypes, Goto
<1>3. /\ Owners \ {t} = Owners' \ {t}
      /\ t \in Owners <=> pc[t] \in OwnerPlaces(t)
      /\ t \in Owners' <=> l \in OwnerPlaces(t)
  BY <1>2 DEF Owners
<1>4. /\ Uncounted \ {t} = Uncounted' \ {t}
      /\ t \in Uncounted <=> pc[t] \in CountLabels
      /\ t \in Uncounted' <=> l \in CountLabels
  BY <1>2 DEF Uncounted, At
<1>5. /\ Receivers \ {t} = Receivers' \ {t}
      /\ t \in Receivers <=> pc[t] \in ReceiverLabels
      /\ t \in Receivers' <=> l \in ReceiverLabels
  BY <1>2 DEF Receivers, At
<1>6. /\ Cardinality(Owners)'
           = Cardinality(Owners) - Owns(t, pc[t]) + Owns(t, l)
      /\ Cardinality(Owners) \in Nat /\ Cardinality(Owners)' \in Nat
  BY <1>1, <1>3, OneMoves DEF Owns
<1>7. /\ Cardinality(Uncounted)'
           = Cardinality(Uncounted) - Lacks(pc[t]) + Lacks(l)
      /\ Cardinality(Uncounted) \in Nat /\ Cardinality(Uncounted)' \in Nat
  BY <1>1, <1>4, OneMoves DEF Lacks
<1>8. /\ Cardinality(Receivers)'
           = Cardinality(Receivers) - Receives(pc[t]) + Receives(l)
      /\ Cardinality(Receivers) \in Nat
  BY <1>1, <1>5, OneMoves DEF Receives
<1>9. \A k : Owns(t, k) \in Int /\ Lacks(k) \in Int
  BY DEF Owns, Lacks
<1>10. /\ Debt \in Int
       /\ Debt' = Debt - Share(t, pc[t]) + Share(t, l)
  BY <1>6, <1>7, <1>9 DEF Debt, Share
<1> QED BY <1>8, <1>10

\* When no thread moves, nothing changes.
LEMMA CountsStay ==
  ASSUME PlaceTypes, pc' = pc
  PROVE  /\ Debt \in Int /\ Debt' = Debt
         /\ Cardinality(Receivers) \in Nat
         /\ Cardinality(Receivers)' = Cardinality(Receivers)
<1>1. IsFiniteSet(Owners) /\ IsFiniteSet(Uncounted) /\ IsFiniteSet(Receivers)
  BY FiniteThreads, FS_Subset DEF Owners, Uncounted, Receivers, At
<1>2. Owners' = Owners /\ Uncounted' = Uncounted /\ Receivers' = Receivers
  BY DEF Owners, Uncounted, Receivers, At
<1> QED BY <1>1, <1>2, FS_CardinalityType DEF Debt

\* The share of each kind of thread at each location.
LEMMA Shares ==
  ASSUME NEW t \in Threads
  PROVE  /\ \A l \in {"idle", "unlockDead"} : Share(t, l) = 0
         /\ t \in WorkThreads =>
              /\ \A l \in TaskLabels \ {"sendCount"} : Share(t, l) = 1
              /\ Share(t, "sendCount") = 0
         /\ t \notin WorkThreads =>
              /\ \A l \in OwnerLabels \ {"acceptCount"} : Share(t, l) = 1
              /\ \A l \in {"acceptCount", "rePost", "sendCheck", "sendPeek",
                          "sendMark", "sendPost"} : Share(t, l) = 0
              /\ Share(t, "recvCount") = -1 /\ Share(t, "sendCount") = -1
BY DEF Share, Owns, Lacks, OwnerPlaces, OwnerLabels, TaskLabels, CountLabels,
       AcceptLabels, SendLabels, DoneLabels, CloseLabels, MsgLabels

\* Which kind of thread is at a location.
LEMMA Kinds ==
  ASSUME Roles, NEW t \in Threads
  PROVE  /\ t \in IocpThreads => t \notin WorkThreads
         /\ pc[t] \in AcceptLabels \cup RecvLabels \cup DoneLabels
                       \cup CloseLabels => t \notin WorkThreads
         /\ pc[t] \in MsgLabels => t \in WorkThreads
         /\ PoolThread \in Threads \ WorkThreads
BY ThreadAssumption
DEF Roles, Threads, TaskLabels, MsgLabels, SendLabels, AcceptLabels,
    RecvLabels, DoneLabels, CloseLabels

-----------------------------------------------------------------------------
(* What each action does to the debt of the threads.                       *)

LEMMA AcceptDebt ==
  ASSUME TypeOK, Roles, NEW t \in Threads
  PROVE  /\ OnAccept(t) => Debt \in Int /\ Debt' = Debt + 1
         /\ OpenAccepted(t) =>
              /\ Debt \in Int
              /\ \/ Debt' = Debt /\ abandoned' = abandoned
                 \/ Debt' = Debt - 1 /\ abandoned' = abandoned + 1
         /\ Enlist(t) => Debt \in Int /\ Debt' = Debt - 1
<1>1. ASSUME OnAccept(t) PROVE Debt \in Int /\ Debt' = Debt + 1
  <2>1. Goto(t, "onOpen") /\ pc[t] = "idle" /\ t \notin WorkThreads
    BY <1>1, Kinds DEF OnAccept
  <2>2. Share(t, "idle") = 0 /\ Share(t, "onOpen") = 1
    BY <2>1, Shares DEF OwnerLabels, AcceptLabels
  <2> QED BY <2>1, <2>2, CountsMove DEF TypeOK
<1>2. ASSUME OpenAccepted(t)
      PROVE  /\ Debt \in Int
             /\ \/ Debt' = Debt /\ abandoned' = abandoned
                \/ Debt' = Debt - 1 /\ abandoned' = abandoned + 1
  <2>1. /\ pc[t] = "onOpen" /\ t \notin WorkThreads
        /\ \/ Goto(t, "acceptRecv") /\ abandoned' = abandoned
           \/ Goto(t, "idle") /\ abandoned' = abandoned + 1
    BY <1>2, Kinds DEF OpenAccepted, Running, AcceptLabels
  <2>2. /\ Share(t, "onOpen") = 1 /\ Share(t, "acceptRecv") = 1
        /\ Share(t, "idle") = 0
    BY <2>1, Shares DEF OwnerLabels, AcceptLabels
  <2> QED BY <2>1, <2>2, CountsMove DEF TypeOK
<1>3. ASSUME Enlist(t) PROVE Debt \in Int /\ Debt' = Debt - 1
  <2>1. Goto(t, "idle") /\ pc[t] = "enlist" /\ t \notin WorkThreads
    BY <1>3, Kinds DEF Enlist, AcceptLabels
  <2>2. Share(t, "idle") = 0 /\ Share(t, "enlist") = 1
    BY <2>1, Shares DEF OwnerLabels, AcceptLabels
  <2> QED BY <2>1, <2>2, CountsMove DEF TypeOK
<1> QED BY <1>1, <1>2, <1>3

LEMMA RecvDebt ==
  ASSUME TypeOK, Roles, NEW t \in Threads
  PROVE  /\ RecvCompletes(t) => Debt \in Int /\ Debt' = Debt + 1
         /\ RecvDone(t) => Debt \in Int /\ Debt' = Debt
         /\ PostRecv(t) =>
              /\ Debt \in Int
              /\ \/ /\ Debt' = Debt - 1
                    /\ recvs' = recvs + 1 /\ abandoned' = abandoned
                 \/ /\ Debt' = Debt - 1
                    /\ recvs' = recvs /\ abandoned' = abandoned + 1
                 \/ Debt' = Debt /\ recvs' = recvs /\ abandoned' = abandoned
<1>1. ASSUME RecvCompletes(t) PROVE Debt \in Int /\ Debt' = Debt + 1
  <2>1. /\ pc[t] = "idle" /\ t \notin WorkThreads
        /\ Goto(t, "recvDone") \/ Goto(t, "final")
    BY <1>1, Kinds DEF RecvCompletes
  <2>2. /\ Share(t, "idle") = 0
        /\ Share(t, "recvDone") = 1 /\ Share(t, "final") = 1
    BY <2>1, Shares DEF OwnerLabels, CloseLabels
  <2> QED BY <2>1, <2>2, CountsMove DEF TypeOK
<1>2. ASSUME RecvDone(t) PROVE Debt \in Int /\ Debt' = Debt
  <2>1. pc[t] = "recvDone" /\ t \notin WorkThreads /\ Goto(t, "recvDec")
    BY <1>2, Kinds DEF RecvDone, Running, RecvLabels
  <2>2. Share(t, "recvDone") = 1 /\ Share(t, "recvDec") = 1
    BY <2>1, Shares DEF OwnerLabels
  <2> QED BY <2>1, <2>2, CountsMove DEF TypeOK
<1>3. ASSUME PostRecv(t)
      PROVE  /\ Debt \in Int
             /\ \/ /\ Debt' = Debt - 1
                   /\ recvs' = recvs + 1 /\ abandoned' = abandoned
                \/ /\ Debt' = Debt - 1
                   /\ recvs' = recvs /\ abandoned' = abandoned + 1
                \/ Debt' = Debt /\ recvs' = recvs /\ abandoned' = abandoned
  <2>1. t \notin WorkThreads
    BY <1>3, Kinds DEF PostRecv, Running, AcceptLabels, RecvLabels
  <2>2. \/ /\ pc[t] = "acceptRecv" /\ Goto(t, "acceptCount")
           /\ recvs' = recvs + 1 /\ abandoned' = abandoned
        \/ /\ pc[t] = "acceptRecv" /\ Goto(t, "idle")
           /\ recvs' = recvs /\ abandoned' = abandoned + 1
        \/ /\ pc[t] = "rePost" /\ Goto(t, "recvCount")
           /\ recvs' = recvs + 1 /\ abandoned' = abandoned
        \/ /\ pc[t] = "rePost" /\ Goto(t, "idle")
           /\ recvs' = recvs /\ abandoned' = abandoned
    BY <1>3 DEF PostRecv, Running
  <2>3. /\ Share(t, "acceptRecv") = 1 /\ Share(t, "acceptCount") = 0
        /\ Share(t, "rePost") = 0 /\ Share(t, "recvCount") = -1
        /\ Share(t, "idle") = 0
    BY <2>1, Shares DEF OwnerLabels, AcceptLabels
  <2> QED BY <2>2, <2>3, CountsMove DEF TypeOK
<1> QED BY <1>1, <1>2, <1>3

LEMMA CountDebt ==
  ASSUME TypeOK, Roles, NEW t \in Threads
  PROVE  /\ AddReference(t) => Debt \in Int /\ Debt' = Debt + 1
         /\ DecReference(t) => Debt \in Int /\ Debt' = Debt - 1
         /\ UnlockDeleted(t) \/ Final(t) => Debt \in Int /\ Debt' = Debt
<1>1. ASSUME AddReference(t) PROVE Debt \in Int /\ Debt' = Debt + 1
  <2>1. CASE t \in WorkThreads
    <3>1. pc[t] = "sendCount" /\ Goto(t, "onMsg")
      BY <1>1, <2>1, Kinds
      DEF AddReference, CountLabels, Return, AcceptLabels, RecvLabels
    <3>2. Share(t, "sendCount") = 0 /\ Share(t, "onMsg") = 1
      BY <2>1, Shares DEF TaskLabels, MsgLabels
    <3> QED BY <3>1, <3>2, CountsMove DEF TypeOK
  <2>2. CASE t \notin WorkThreads
    <3>1. \/ pc[t] = "acceptCount" /\ Goto(t, "enlist")
          \/ pc[t] \in {"recvCount", "sendCount"} /\ Goto(t, "idle")
      BY <1>1, <2>2 DEF AddReference, CountLabels, Return
    <3>2. /\ Share(t, "acceptCount") = 0 /\ Share(t, "enlist") = 1
          /\ Share(t, "recvCount") = -1 /\ Share(t, "sendCount") = -1
          /\ Share(t, "idle") = 0
      BY <2>2, Shares DEF OwnerLabels, AcceptLabels
    <3> QED BY <3>1, <3>2, CountsMove DEF TypeOK
  <2> QED BY <2>1, <2>2
<1>2. ASSUME DecReference(t) PROVE Debt \in Int /\ Debt' = Debt - 1
  <2>1. /\ pc[t] \in {"recvDec", "sendDec", "relDec", "taskDec"}
        /\ Goto(t, "unlockDead") \/ Goto(t, AfterDec[pc[t]])
    BY <1>2 DEF DecReference, AfterDec
  <2>2. Share(t, pc[t]) = 1
    BY <2>1, Shares, Kinds DEF OwnerLabels, TaskLabels, MsgLabels, DoneLabels,
                               CloseLabels, RecvLabels
  <2>3. Share(t, "unlockDead") = 0
    BY Shares
  <2>4. Share(t, AfterDec[pc[t]]) = 0
    <3>1. CASE pc[t] \in {"relDec", "taskDec"}
      BY <3>1, Shares DEF AfterDec
    <3>2. CASE pc[t] \in {"recvDec", "sendDec"}
      <4>1. t \notin WorkThreads
        BY <3>2, Kinds DEF RecvLabels, DoneLabels
      <4> QED BY <3>2, <4>1, Shares DEF AfterDec
    <3> QED BY <2>1, <3>1, <3>2
  <2> QED BY <2>1, <2>2, <2>3, <2>4, CountsMove DEF TypeOK
<1>3. ASSUME UnlockDeleted(t) \/ Final(t)
      PROVE  Debt \in Int /\ Debt' = Debt
  <2>1. \/ pc[t] = "unlockDead" /\ Goto(t, "idle")
        \/ pc[t] = "final" /\ Goto(t, "relDec") /\ t \notin WorkThreads
    BY <1>3, Kinds DEF UnlockDeleted, Final, Running, CloseLabels
  <2>2. Share(t, "unlockDead") = Share(t, "idle")
    BY Shares
  <2>3. t \notin WorkThreads => Share(t, "final") = Share(t, "relDec")
    BY Shares DEF OwnerLabels, CloseLabels
  <2>4. Share(t, "unlockDead") \in Int
        /\ (t \notin WorkThreads => Share(t, "final") \in Int)
    BY Shares DEF OwnerLabels, CloseLabels
  <2> QED BY <2>1, <2>2, <2>3, <2>4, CountsMove DEF TypeOK
<1> QED BY <1>1, <1>2, <1>3

LEMMA MsgDebt ==
  ASSUME TypeOK, Roles, NEW t \in Threads
  PROVE  /\ TakeTask(t) => Debt \in Int /\ Debt' = Debt + 1
         /\ SendData(t) \/ WriteSendBuffer(t) \/ FinishMsg(t) =>
              Debt \in Int /\ Debt' = Debt
<1>1. ASSUME TakeTask(t) PROVE Debt \in Int /\ Debt' = Debt + 1
  <2>1. pc[t] = "idle" /\ Goto(t, "onMsg") /\ t \in WorkThreads
    BY <1>1 DEF TakeTask
  <2>2. Share(t, "idle") = 0 /\ Share(t, "onMsg") = 1
    BY <2>1, Shares DEF TaskLabels, MsgLabels
  <2> QED BY <2>1, <2>2, CountsMove DEF TypeOK
<1>2. ASSUME SendData(t) \/ WriteSendBuffer(t) \/ FinishMsg(t)
      PROVE  Debt \in Int /\ Debt' = Debt
  <2>1. \/ pc[t] = "onMsg" /\ (Goto(t, "write") \/ Goto(t, "taskDec"))
        \/ pc[t] = "write" /\ Goto(t, "sendCheck")
    BY <1>2 DEF SendData, WriteSendBuffer, FinishMsg, Running
  <2>2. t \in WorkThreads
    BY <2>1, Kinds DEF MsgLabels
  <2>3. \A l \in {"onMsg", "write", "taskDec", "sendCheck"} : Share(t, l) = 1
    BY <2>2, Shares DEF TaskLabels, MsgLabels, SendLabels
  <2> QED BY <2>1, <2>3, CountsMove DEF TypeOK
<1> QED BY <1>1, <1>2

LEMMA SendDebt ==
  ASSUME TypeOK, Roles, NEW t \in Threads
  PROVE  /\ AddSend(t) \/ PeekSendBuffer(t) \/ MarkSending(t)
              \/ Sendout(t) \/ ClearSending(t) =>
                Debt \in Int /\ Debt' = Debt
         /\ PostSend(t) =>
              /\ Debt \in Int /\ Debt' \in Int
              /\ Debt' = Debt + Len(sends) - Len(sends')
         /\ SendCompletes(t) => Debt \in Int /\ Debt' = Debt + 1
<1>1. ASSUME AddSend(t) \/ PeekSendBuffer(t) \/ MarkSending(t)
      PROVE  Debt \in Int /\ Debt' = Debt
  <2>1. \/ pc[t] = "sendCheck" /\ (Goto(t, Return(t)) \/ Goto(t, "sendPeek"))
        \/ pc[t] = "sendPeek" /\ (Goto(t, Return(t)) \/ Goto(t, "sendMark"))
        \/ pc[t] = "sendMark" /\ Goto(t, "sendPost")
    BY <1>1 DEF AddSend, PeekSendBuffer, MarkSending, Running
  <2> DEFINE n == IF t \in WorkThreads THEN 1 ELSE 0
  <2>2. /\ Share(t, "sendCheck") = n /\ Share(t, "sendPeek") = n
        /\ Share(t, "sendMark") = n /\ Share(t, "sendPost") = n
        /\ Share(t, Return(t)) = n
    BY Shares DEF Return, TaskLabels, MsgLabels, SendLabels
  <2>3. n \in Int
    OBVIOUS
  <2> HIDE DEF n
  <2> QED BY <2>1, <2>2, <2>3, CountsMove DEF TypeOK
<1>2. ASSUME Sendout(t) \/ ClearSending(t)
      PROVE  Debt \in Int /\ Debt' = Debt
  <2>1. \/ pc[t] = "sendout" /\ Goto(t, "sendClear")
        \/ pc[t] = "sendClear" /\ Goto(t, "sendDec")
    BY <1>2 DEF Sendout, ClearSending, Running
  <2>2. t \notin WorkThreads
    BY <2>1, Kinds DEF DoneLabels
  <2>3. \A l \in {"sendout", "sendClear", "sendDec"} : Share(t, l) = 1
    BY <2>2, Shares DEF OwnerLabels, DoneLabels
  <2> QED BY <2>1, <2>3, CountsMove DEF TypeOK
<1>3. ASSUME PostSend(t)
      PROVE  /\ Debt \in Int /\ Debt' \in Int
              /\ Debt' = Debt + Len(sends) - Len(sends')
  <2>1. /\ pc[t] = "sendPost"
        /\ \/ /\ Goto(t, "sendCount")
              /\ \E u \in At({"sendPost"}) : sends' = Append(sends, len[u])
           \/ Goto(t, Return(t)) /\ sends' = sends
    BY <1>3 DEF PostSend, Running
  <2>2. \/ Goto(t, "sendCount") /\ Len(sends') = Len(sends) + 1
        \/ Goto(t, Return(t)) /\ Len(sends') = Len(sends)
    BY <2>1 DEF TypeOK, NumberTypes, At
  <2> DEFINE n == IF t \in WorkThreads THEN 1 ELSE 0
  <2>3. /\ Share(t, "sendPost") = n /\ Share(t, "sendCount") = n - 1
        /\ Share(t, Return(t)) = n
    BY Shares DEF Return, TaskLabels, MsgLabels, SendLabels
  <2>4. n \in Int /\ Len(sends) \in Int /\ Len(sends') \in Int
    BY <2>2 DEF TypeOK, NumberTypes
  <2> HIDE DEF n
  <2>5. \/ Debt \in Int /\ Debt' = Debt - 1 /\ Len(sends') = Len(sends) + 1
        \/ Debt \in Int /\ Debt' = Debt /\ Len(sends') = Len(sends)
    BY <2>1, <2>2, <2>3, <2>4, CountsMove DEF TypeOK
  <2> QED BY <2>4, <2>5
<1>4. ASSUME SendCompletes(t) PROVE Debt \in Int /\ Debt' = Debt + 1
  <2>1. /\ pc[t] = "idle" /\ t \notin WorkThreads
        /\ Goto(t, "sendout") \/ Goto(t, "final")
    BY <1>4, Kinds DEF SendCompletes
  <2>2. /\ Share(t, "idle") = 0
        /\ Share(t, "sendout") = 1 /\ Share(t, "final") = 1
    BY <2>1, Shares DEF OwnerLabels, CloseLabels, DoneLabels
  <2> QED BY <2>1, <2>2, CountsMove DEF TypeOK
<1> QED BY <1>1, <1>2, <1>3, <1>4

LEMMA PoolDebt ==
  ASSUME TypeOK, Roles, Expire
  PROVE  Debt \in Int /\ Debt' = Debt + 1
<1>1. /\ pc[PoolThread] = "idle" /\ Goto(PoolThread, "final")
      /\ PoolThread \in Threads \ WorkThreads
  BY Kinds DEF Expire, Running, Threads
<1>2. Share(PoolThread, "idle") = 0 /\ Share(PoolThread, "final") = 1
  BY <1>1, Shares DEF OwnerLabels, CloseLabels
<1> QED BY <1>1, <1>2, CountsMove DEF TypeOK

-----------------------------------------------------------------------------
(* The exact value of the reference count.                                 *)

\* What does not depend on where the threads are.
Rest == poolQueue + poolList + abandoned + recvs + Len(sends) + tasks

\* RefAccounting, with the threads' part as one number.
Balanced == object # "refused" => m_reference = Debt + Rest

LEMMA BalancedIsRefAccounting == TypeOK => (Balanced <=> RefAccounting)
<1> SUFFICES ASSUME TypeOK PROVE Balanced <=> RefAccounting
  OBVIOUS
<1>1. IsFiniteSet(Owners) /\ IsFiniteSet(Uncounted)
  BY FiniteThreads, FS_Subset DEF Owners, Uncounted, At
<1>2. Cardinality(Owners) \in Nat /\ Cardinality(Uncounted) \in Nat
  BY <1>1, FS_CardinalityType
<1>3. /\ m_reference \in Nat /\ Rest \in Nat
      /\ Holders = Cardinality(Owners) + Rest
  BY <1>2 DEF TypeOK, NumberTypes, Rest, Holders
<1>4. m_reference = Debt + Rest
        <=> m_reference + Cardinality(Uncounted) = Holders
  BY <1>2, <1>3 DEF Debt
<1> QED BY <1>4 DEF Balanced, RefAccounting

\* No step changes the count without changing what it counts.
LEMMA BalanceStep ==
  ASSUME TypeOK, Roles, CountSign, Balanced, [Next]_vars
  PROVE  Balanced'
<1>0. Rest \in Nat /\ m_reference \in Nat
  BY DEF Rest, TypeOK, NumberTypes
<1> USE DEF Running, flags, counts, data
<1>1. ASSUME NEW t \in Threads, AcceptStep(t) PROVE Balanced'
  <2>1. CASE OnAccept(t)
    BY <2>1, AcceptDebt, <1>0
    DEF Balanced, Rest, TypeOK, NumberTypes, OnAccept, CountSign
  <2>2. CASE OpenRefused(t)
    BY <2>2 DEF OpenRefused, Balanced
  <2>3. CASE OpenAccepted(t)
    <3>1. /\ object = "live" /\ m_reference' = m_reference
          /\ UNCHANGED <<poolQueue, poolList, recvs, sends, tasks>>
      BY <2>3 DEF OpenAccepted
    <3>2. /\ Debt \in Int
          /\ \/ Debt' = Debt /\ Rest' = Rest
             \/ Debt' = Debt - 1 /\ Rest' = Rest + 1
      BY <2>3, <3>1, AcceptDebt DEF Rest, TypeOK, NumberTypes
    <3> QED BY <1>0, <3>1, <3>2 DEF Balanced
  <2>4. CASE Enlist(t)
    BY <2>4, AcceptDebt, <1>0
    DEF Balanced, Rest, TypeOK, NumberTypes, Enlist
  <2> QED BY <1>1, <2>1, <2>2, <2>3, <2>4 DEF AcceptStep
<1>2. ASSUME NEW t \in Threads, RecvStep(t) PROVE Balanced'
  <2>1. CASE RecvCompletes(t)
    BY <2>1, RecvDebt, <1>0
    DEF Balanced, Rest, TypeOK, NumberTypes, RecvCompletes
  <2>2. CASE RecvDone(t)
    <3>1. Debt \in Int /\ Debt' = Debt
      BY <2>2, RecvDebt
    <3>2. m_reference' = m_reference + 1 /\ Rest' = Rest + 1 /\ object = "live"
      BY <2>2 DEF RecvDone, Rest, TypeOK, NumberTypes
    <3> QED BY <1>0, <3>1, <3>2 DEF Balanced
  <2>3. CASE PostRecv(t)
    <3>1. /\ object = "live" /\ m_reference' = m_reference
          /\ UNCHANGED <<poolQueue, poolList, sends, tasks>>
      BY <2>3 DEF PostRecv
    <3>2. /\ Debt \in Int
          /\ \/ Debt' = Debt /\ Rest' = Rest
             \/ Debt' = Debt - 1 /\ Rest' = Rest + 1
      BY <2>3, <3>1, RecvDebt DEF Rest, TypeOK, NumberTypes
    <3> QED BY <1>0, <3>1, <3>2 DEF Balanced
  <2> QED BY <1>2, <2>1, <2>2, <2>3 DEF RecvStep
<1>3. ASSUME NEW t \in Threads, SendStep(t) PROVE Balanced'
  <2>1. CASE AddSend(t) \/ PeekSendBuffer(t) \/ MarkSending(t)
    BY <2>1, SendDebt, <1>0
    DEF Balanced, Rest, TypeOK, NumberTypes,
        AddSend, PeekSendBuffer, MarkSending
  <2>2. CASE Sendout(t) \/ ClearSending(t)
    BY <2>2, SendDebt, <1>0
    DEF Balanced, Rest, TypeOK, NumberTypes, Sendout, ClearSending
  <2>3. CASE PostSend(t)
    <3>1. /\ Debt \in Int /\ Debt' \in Int
          /\ Debt' = Debt + Len(sends) - Len(sends')
      BY <2>3, SendDebt
    <3>2. Len(sends) \in Nat /\ Len(sends') \in Nat
      BY <2>3 DEF PostSend, At, TypeOK, NumberTypes
    <3>3. /\ object = "live" /\ m_reference' = m_reference
          /\ Rest' = Rest - Len(sends) + Len(sends')
      BY <2>3, <3>2 DEF PostSend, Rest, TypeOK, NumberTypes
    <3>4. Rest' \in Nat
      BY <2>3, <3>2 DEF PostSend, Rest, TypeOK, NumberTypes
    <3>5. m_reference = Debt + Rest
      BY <3>3 DEF Balanced
    <3>6. m_reference' = Debt' + Rest'
      BY <1>0, <3>1, <3>2, <3>3, <3>4, <3>5
    <3> QED BY <3>6 DEF Balanced
  <2>4. CASE SendCompletes(t)
    BY <2>4, SendDebt, <1>0
    DEF Balanced, Rest, TypeOK, NumberTypes, SendCompletes
  <2> QED BY <1>3, <2>1, <2>2, <2>3, <2>4 DEF SendStep
<1>4. ASSUME NEW t \in Threads, CountStep(t) PROVE Balanced'
  <2>1. CASE AddReference(t)
    BY <2>1, CountDebt, <1>0
    DEF Balanced, Rest, TypeOK, NumberTypes, AddReference
  <2>2. CASE DecReference(t)
    <3>1. Debt \in Int /\ Debt' = Debt - 1
      BY <2>2, CountDebt
    <3>2. object = "live" /\ m_reference' = m_reference - 1 /\ Rest' = Rest
      BY <2>2 DEF DecReference, Rest
    <3> QED BY <1>0, <3>1, <3>2 DEF Balanced
  <2>3. CASE UnlockDeleted(t) \/ Final(t)
    BY <2>3, CountDebt, <1>0
    DEF Balanced, Rest, TypeOK, NumberTypes, UnlockDeleted, Final
  <2> QED BY <1>4, <2>1, <2>2, <2>3 DEF CountStep
<1>5. ASSUME NEW t \in Threads, MsgStep(t) PROVE Balanced'
  <2>1. CASE TakeTask(t)
    BY <2>1, MsgDebt, <1>0
    DEF Balanced, Rest, TypeOK, NumberTypes, TakeTask
  <2>2. CASE SendData(t) \/ WriteSendBuffer(t) \/ FinishMsg(t)
    BY <2>2, MsgDebt, <1>0
    DEF Balanced, Rest, TypeOK, NumberTypes,
        SendData, WriteSendBuffer, FinishMsg
  <2> QED BY <1>5, <2>1, <2>2 DEF MsgStep
<1>6. ASSUME NEW t \in Threads, UseAfterDelete(t) PROVE Balanced'
  BY <1>6, CountsStay, <1>0
    DEF Balanced, Rest, TypeOK, NumberTypes, UseAfterDelete
<1>7. CASE CheckQueue
  BY <1>7, CountsStay, <1>0
    DEF Balanced, Rest, TypeOK, NumberTypes, CheckQueue
<1>8. CASE Expire
  BY <1>8, PoolDebt, <1>0
    DEF Balanced, Rest, TypeOK, NumberTypes, Expire
<1>9. CASE HeartLapses \/ UNCHANGED vars
  BY <1>9, CountsStay, <1>0
    DEF Balanced, Rest, TypeOK, NumberTypes, HeartLapses, vars
<1> QED
  BY <1>1, <1>2, <1>3, <1>4, <1>5, <1>6, <1>7, <1>8, <1>9
  DEF Next, ThreadStep, PoolStep, Stop

LEMMA BalanceInit == Init => Balanced
<1> SUFFICES ASSUME Init PROVE Balanced
  OBVIOUS
<1>1. Owners = {} /\ Uncounted = {}
  BY DEF Init, Owners, OwnerPlaces, OwnerLabels, TaskLabels, Uncounted, At,
         CountLabels, AcceptLabels, SendLabels, DoneLabels, CloseLabels,
         MsgLabels
<1>2. Debt = 0
  BY <1>1, FS_EmptySet DEF Debt
<1> QED BY <1>2 DEF Init, Balanced, Rest

\* m_reference is at every moment the number of holders of the object, short
\* by exactly the operations addRecv() and addSend() have started and not yet
\* counted.
THEOREM RefAccountingHolds == Spec => []RefAccounting
<1>1. Init => Typed /\ Balanced
  BY TypeInit, BalanceInit DEF Typed
<1>2. Typed /\ Balanced /\ [Next]_vars => (Typed /\ Balanced)'
  BY TypedStep, BalanceStep DEF Typed
<1>3. Typed /\ Balanced => RefAccounting
  BY BalancedIsRefAccounting DEF Typed
<1> QED BY <1>1, <1>2, <1>3, PTL DEF Spec

\* When the count is exact, a count of zero means that nobody holds the object.
LEMMA ZeroMeansUnheld ==
  ASSUME TypeOK, CountSign, RefAccounting, object = "deleted", Uncounted = {}
  PROVE  Holders = 0 /\ Owners = {} /\ poolQueue + poolList + abandoned = 0
<1>1. IsFiniteSet(Owners) /\ Cardinality(Owners) \in Nat
  BY FiniteThreads, FS_Subset, FS_CardinalityType DEF Owners
<1>2. m_reference = 0 /\ Cardinality(Uncounted) = 0
  BY FS_EmptySet DEF CountSign
<1>3. Holders = 0
  BY <1>2 DEF RefAccounting
<1>4. Cardinality(Owners) = 0 /\ poolQueue + poolList + abandoned = 0
  BY <1>1, <1>3 DEF Holders, TypeOK, NumberTypes
<1> QED BY <1>1, <1>3, <1>4, FS_EmptySet

\* decReference() deletes the object only when nothing points to it, except a
\* thread between WSARecv/WSASend and addReference().
THEOREM DeletedUnheldHolds == Spec => []DeletedUnheld
<1>1. TypeOK /\ CountSign /\ RefAccounting => DeletedUnheld
  BY ZeroMeansUnheld DEF DeletedUnheld
<1> QED BY <1>1, TypedAlways, RefAccountingHolds, PTL DEF Typed

-----------------------------------------------------------------------------
(* OnClosed() comes before delete.                                         *)

\* No step leaves an unclosed object without someone who will close it.
LEMMA AnchorStep ==
  ASSUME TypeOK, Anchored, [Next]_vars
  PROVE  Anchored'
<1> USE DEF Anchored, TypeOK, NumberTypes, PlaceTypes, Running, Goto, flags,
            counts, data, AcceptLabels
<1>1. ASSUME NEW t \in Threads, AcceptStep(t) PROVE Anchored'
  BY <1>1 DEF AcceptStep, OnAccept, OpenRefused, OpenAccepted, Enlist
<1>2. ASSUME NEW t \in Threads, RecvStep(t) PROVE Anchored'
  <2>1. CASE RecvCompletes(t) \/ RecvDone(t)
    BY <2>1 DEF RecvCompletes, RecvDone
  <2>2. CASE PostRecv(t)
    BY <2>2 DEF PostRecv
  <2> QED BY <1>2, <2>1, <2>2 DEF RecvStep
<1>3. ASSUME NEW t \in Threads, SendStep(t) PROVE Anchored'
  BY <1>3 DEF SendStep, AddSend, PeekSendBuffer, MarkSending, PostSend,
              SendCompletes, Sendout, ClearSending
<1>4. ASSUME NEW t \in Threads, CountStep(t) PROVE Anchored'
  <2>1. CASE AddReference(t)
    BY <2>1 DEF AddReference, CountLabels
  <2>2. CASE DecReference(t)
    BY <2>2 DEF DecReference, AfterDec
  <2>3. CASE UnlockDeleted(t) \/ Final(t)
    BY <2>3 DEF UnlockDeleted, Final
  <2> QED BY <1>4, <2>1, <2>2, <2>3 DEF CountStep
<1>5. ASSUME NEW t \in Threads, MsgStep(t) PROVE Anchored'
  BY <1>5 DEF MsgStep, TakeTask, SendData, WriteSendBuffer, FinishMsg
<1>6. ASSUME NEW t \in Threads, UseAfterDelete(t) PROVE Anchored'
  BY <1>6 DEF UseAfterDelete
<1>7. CASE PoolStep \/ HeartLapses
  BY <1>7 DEF PoolStep, CheckQueue, Expire, HeartLapses, Threads
<1>8. CASE UNCHANGED vars
  BY <1>8 DEF vars
<1> QED
  BY <1>1, <1>2, <1>3, <1>4, <1>5, <1>6, <1>7, <1>8
  DEF Next, ThreadStep, Stop

\* Whenever the object has been deleted, OnClosed() has been called, with the
\* same sole exception.
THEOREM ClosedBeforeDeleteHolds == Spec => []ClosedBeforeDelete
<1>1. Init => Typed /\ Anchored
  BY TypeInit DEF Typed, Init, Anchored
<1>2. Typed /\ Anchored /\ [Next]_vars => (Typed /\ Anchored)'
  BY TypedStep, AnchorStep DEF Typed
<1>3. Typed /\ Anchored /\ RefAccounting => ClosedBeforeDelete
  <2> SUFFICES ASSUME Typed, Anchored, RefAccounting, object = "deleted",
                      Uncounted = {}
               PROVE  m_bComplete
    BY DEF ClosedBeforeDelete
  <2>1. Owners = {} /\ poolQueue + poolList + abandoned = 0
    BY ZeroMeansUnheld DEF Typed
  <2>2. \A t \in Threads : pc[t] \notin AcceptLabels \cup {"final"}
    BY <2>1, Kinds DEF Owners, OwnerPlaces, OwnerLabels, CloseLabels, Typed
  <2> QED BY <2>1, <2>2 DEF Anchored
<1> QED BY <1>1, <1>2, <1>3, RefAccountingHolds, PTL DEF Spec

-----------------------------------------------------------------------------
(* One receive at a time.                                                  *)

\* What RecvExclusive needs to start from.
ReceiveInv ==
  recvs + Cardinality(Receivers) <= IF object = "unborn" THEN 0 ELSE 1

LEMMA ReceiveStep ==
  ASSUME TypeOK, ReceiveInv, [Next]_vars
  PROVE  ReceiveInv'
<1> USE DEF ReceiveInv, Running, flags, counts, data, Receives, ReceiverLabels
<1>0. PlaceTypes /\ recvs \in Nat
  BY DEF TypeOK, NumberTypes
<1>1. ASSUME NEW t \in Threads, AcceptStep(t) PROVE ReceiveInv'
  BY <1>0, <1>1, CountsMove
  DEF AcceptStep, OnAccept, OpenRefused, OpenAccepted, Enlist
<1>2. ASSUME NEW t \in Threads, RecvStep(t) PROVE ReceiveInv'
  BY <1>0, <1>2, CountsMove DEF RecvStep, RecvCompletes, RecvDone, PostRecv
<1>3. ASSUME NEW t \in Threads, SendStep(t) PROVE ReceiveInv'
  <2>1. /\ pc[t] \in SendLabels \cup DoneLabels \cup {"idle"}
        /\ \E l \in SendLabels \cup DoneLabels \cup {"idle", "onMsg", "final"} :
             Goto(t, l)
        /\ object' = object /\ recvs' = recvs
    BY <1>3
    DEF SendStep, AddSend, PeekSendBuffer, MarkSending, PostSend,
        SendCompletes, Sendout, ClearSending, Return, SendLabels, DoneLabels
  <2> QED BY <1>0, <2>1, CountsMove DEF SendLabels, DoneLabels
<1>4. ASSUME NEW t \in Threads, CountStep(t) PROVE ReceiveInv'
  <2>1. CASE AddReference(t)
    BY <1>0, <2>1, CountsMove DEF AddReference, CountLabels, Return
  <2>2. CASE DecReference(t)
    <3>1. /\ object = "live" /\ object' \in {"live", "deleted"}
          /\ recvs' = recvs
      BY <2>2 DEF DecReference
    <3>2. /\ pc[t] \in DOMAIN AfterDec
          /\ Goto(t, "unlockDead") \/ Goto(t, AfterDec[pc[t]])
      BY <2>2 DEF DecReference
    <3>3. Receives(AfterDec[pc[t]]) <= Receives(pc[t])
      BY <3>2 DEF AfterDec
    <3>4. Receives("unlockDead") <= Receives(pc[t])
      BY <3>2 DEF AfterDec
    <3>5. \A l : Receives(l) \in Int
      OBVIOUS
    <3> HIDE DEF Receives
    <3>6. Cardinality(Receivers)' <= Cardinality(Receivers)
      BY <1>0, <3>2, <3>3, <3>4, <3>5, CountsMove
    <3>7. Cardinality(Receivers) \in Nat /\ Cardinality(Receivers)' \in Int
      BY <1>0, <3>2, <3>5, CountsMove
    <3> QED BY <1>0, <3>1, <3>6, <3>7
  <2>3. CASE UnlockDeleted(t) \/ Final(t)
    <3>1. /\ pc[t] \in {"unlockDead", "final"}
          /\ Goto(t, "idle") \/ Goto(t, "relDec")
          /\ object' = object /\ recvs' = recvs
      BY <2>3 DEF UnlockDeleted, Final
    <3> QED BY <1>0, <3>1, CountsMove
  <2> QED BY <1>4, <2>1, <2>2, <2>3 DEF CountStep
<1>5. ASSUME NEW t \in Threads, MsgStep(t) PROVE ReceiveInv'
  BY <1>0, <1>5, CountsMove
  DEF MsgStep, TakeTask, SendData, WriteSendBuffer, FinishMsg
<1>6. ASSUME NEW t \in Threads, UseAfterDelete(t) PROVE ReceiveInv'
  BY <1>0, <1>6, CountsStay DEF UseAfterDelete
<1>7. CASE PoolStep \/ HeartLapses
  BY <1>0, <1>7, CountsStay, CountsMove
  DEF PoolStep, CheckQueue, Expire, HeartLapses, Threads
<1>8. CASE UNCHANGED vars
  BY <1>0, <1>8, CountsStay DEF vars
<1> QED
  BY <1>1, <1>2, <1>3, <1>4, <1>5, <1>6, <1>7, <1>8
  DEF Next, ThreadStep, Stop

\* addRecv() never touches m_olpRead and m_RecvBlock while the kernel or
\* another thread uses them.
THEOREM RecvExclusiveHolds == Spec => []RecvExclusive
<1>1. Init => ReceiveInv
  <2> SUFFICES ASSUME Init PROVE ReceiveInv
    OBVIOUS
  <2>1. Receivers = {}
    BY DEF Init, Receivers, At, ReceiverLabels
  <2> QED BY <2>1, FS_EmptySet DEF Init, ReceiveInv
<1>2. Typed /\ ReceiveInv /\ [Next]_vars => ReceiveInv'
  BY ReceiveStep DEF Typed
<1>3. Typed /\ ReceiveInv => RecvExclusive
  <2> SUFFICES ASSUME Typed, ReceiveInv PROVE RecvExclusive
    OBVIOUS
  <2>1. IsFiniteSet(Receivers) /\ recvs \in Nat
    BY FiniteThreads, FS_Subset DEF Receivers, At, Typed, TypeOK, NumberTypes
  <2> QED BY <2>1, FS_CardinalityType DEF ReceiveInv, RecvExclusive
<1> QED BY <1>1, <1>2, <1>3, TypedAlways, PTL DEF Spec

-----------------------------------------------------------------------------
(* No wake-up of the send path is lost.                                    *)

\* Nothing is in the buffer of an object that does not exist yet.
SendInv == NoLostSend /\ (object = "unborn" => unsent = 0)

LEMMA SendInvStep ==
  ASSUME Typed, SendInv, [Next]_vars
  PROVE  SendInv'
<1> USE DEF Typed, TypeOK, NumberTypes, PlaceTypes, SendInv, NoLostSend, At,
            Running, Goto, flags, counts, data
<1>1. ASSUME NEW t \in Threads, AcceptStep(t) PROVE SendInv'
  BY <1>1 DEF AcceptStep, OnAccept, OpenRefused, OpenAccepted, Enlist
<1>2. ASSUME NEW t \in Threads, RecvStep(t) PROVE SendInv'
  BY <1>2 DEF RecvStep, RecvCompletes, RecvDone, PostRecv
<1>3. ASSUME NEW t \in Threads, SendStep(t) PROVE SendInv'
  <2>1. CASE AddSend(t)
    BY <2>1 DEF AddSend
  <2>2. CASE PeekSendBuffer(t)
    BY <2>2 DEF PeekSendBuffer
  <2>3. CASE MarkSending(t) \/ ClearSending(t)
    BY <2>3 DEF MarkSending, ClearSending
  <2>4. CASE PostSend(t)
    BY <2>4 DEF PostSend
  <2>5. CASE SendCompletes(t)
    BY <2>5 DEF SendCompletes
  <2>6. CASE Sendout(t)
    BY <2>6 DEF Sendout
  <2> QED BY <1>3, <2>1, <2>2, <2>3, <2>4, <2>5, <2>6 DEF SendStep
<1>4. ASSUME NEW t \in Threads, CountStep(t) PROVE SendInv'
  <2>1. CASE AddReference(t)
    BY <2>1 DEF AddReference, CountLabels
  <2>2. CASE DecReference(t)
    BY <2>2 DEF DecReference, AfterDec
  <2>3. CASE UnlockDeleted(t) \/ Final(t)
    BY <2>3 DEF UnlockDeleted, Final
  <2> QED BY <1>4, <2>1, <2>2, <2>3 DEF CountStep
<1>5. ASSUME NEW t \in Threads, MsgStep(t) PROVE SendInv'
  BY <1>5 DEF MsgStep, TakeTask, SendData, WriteSendBuffer, FinishMsg
<1>6. ASSUME NEW t \in Threads, UseAfterDelete(t) PROVE SendInv'
  BY <1>6 DEF UseAfterDelete
<1>7. CASE PoolStep \/ HeartLapses
  BY <1>7 DEF PoolStep, CheckQueue, Expire, HeartLapses
<1>8. CASE UNCHANGED vars
  BY <1>8 DEF vars
<1> QED
  BY <1>1, <1>2, <1>3, <1>4, <1>5, <1>6, <1>7, <1>8
  DEF Next, ThreadStep, Stop

\* What is left in m_SendBuffer always has somebody looking after it: the flag
\* or a thread that is about to look at the buffer again.
THEOREM NoLostSendHolds == Spec => []NoLostSend
<1>1. Init => SendInv
  BY DEF Init, SendInv, NoLostSend
<1>2. Typed /\ SendInv /\ [Next]_vars => SendInv'
  BY SendInvStep
<1>3. SendInv => NoLostSend
  BY DEF SendInv
<1> QED BY <1>1, <1>2, <1>3, TypedAlways, PTL DEF Spec

=============================================================================
