---------------------------- MODULE ClientSocket ----------------------------
(***************************************************************************)
(* The life of one ClientSocket object: its creation in Acceptor::onAccept,*)
(* the overlapped receives and sends it has in the completion port, the    *)
(* message tasks that point to it, its entry in the SocketPool, and the    *)
(* reference count that decides when it is deleted.                        *)
(*                                                                         *)
(* A step is what one thread does under one lock, or between two accesses  *)
(* to shared state.  m_mutex (every access to m_reference, m_bComplete and *)
(* m_bIsSending) and the buffer's own lock each guard a stretch of code    *)
(* that blocks on nothing, so such a stretch is one step.                  *)
(***************************************************************************)
EXTENDS Integers, Sequences, FiniteSets

CONSTANTS
  IocpThreads,  \* the IocpRecvThreads, one per processor
  WorkThreads,  \* the IOWorkThreads that run OnMsg
  PoolThread,   \* the SocketPool heart-check thread
  MaxRecv,      \* bound: receives that deliver data
  MaxSend       \* bound: pieces of data handed to SendData

Threads == IocpThreads \cup WorkThreads \cup {PoolThread}

ASSUME ThreadAssumption ==
  /\ IsFiniteSet(IocpThreads)
  /\ IsFiniteSet(WorkThreads)
  /\ IocpThreads \cap WorkThreads = {}
  /\ PoolThread \notin IocpThreads \cup WorkThreads

ASSUME BoundAssumption == MaxRecv \in Nat /\ MaxSend \in Nat

VARIABLES
  object,        \* "unborn", "live", "deleted", or "refused" by OnOpen
  m_reference,   \* as in the source
  m_bComplete,   \* as in the source: final() has run, OnClosed was called
  m_bIsSending,  \* as in the source
  connected,     \* m_hSocket is a valid handle
  stale,         \* more than m_nHeartCheckGap passed since the last heart
  poolQueue,     \* entries for this object in SocketPool's m_taskQueue
  poolList,      \* entries for this object in m_connectSockets
  abandoned,     \* 1 when onAccept returned early and kept nobody's pointer
  recvs,         \* overlapped receives that have not left the port
  sends,         \* lengths of the overlapped sends that have not left it
  tasks,         \* IOTasks for this object that no worker has started
  unsent,        \* m_SendBuffer.m_nDataSize
  len,           \* per thread: nDataSize in addSend, nSendDoneSize in sendout
  pc,            \* per thread: where it is
  delivered,     \* receives that delivered data so far (bounded by MaxRecv)
  written,       \* pieces given to SendData so far (bounded by MaxSend)
  undefined      \* a deleted object was accessed; nothing is modelled after

counts == <<poolQueue, poolList, abandoned, recvs, sends, tasks>>
flags  == <<object, m_reference, m_bComplete, m_bIsSending, connected>>
data   == <<unsent, len, written>>
vars   == <<flags, counts, data, stale, pc, delivered, undefined>>

-----------------------------------------------------------------------------
(* Program locations. *)

AcceptLabels == {"onOpen", "acceptRecv", "acceptCount", "enlist"}
RecvLabels   == {"recvDone", "recvDec", "rePost", "recvCount"}
SendLabels   == {"sendCheck", "sendPeek", "sendMark", "sendPost", "sendCount"}
DoneLabels   == {"sendout", "sendClear", "sendDec"}
CloseLabels  == {"final", "relDec"}
MsgLabels    == {"onMsg", "write", "taskDec"}

Labels == {"idle", "unlockDead"} \cup AcceptLabels \cup RecvLabels
            \cup SendLabels \cup DoneLabels \cup CloseLabels \cup MsgLabels

\* Between the call that starts an overlapped operation and addReference().
CountLabels == {"acceptCount", "recvCount", "sendCount"}

\* Where an I/O or pool thread still owns a reference it will give up.
OwnerLabels == AcceptLabels \cup DoneLabels \cup CloseLabels
                 \cup {"recvDone", "recvDec"}

\* Where a worker still owns the reference of its IOTask.
TaskLabels == MsgLabels \cup SendLabels

\* Everything a thread does that reads or writes the object's memory.
TouchLabels == Labels \ {"idle", "unlockDead", "enlist"}

At(L) == {t \in Threads : pc[t] \in L}

Goto(t, l) == pc' = [pc EXCEPT ![t] = l]

\* addSend() ends: a worker is back in OnMsg, an I/O thread is done.
Return(t) == IF t \in WorkThreads THEN "onMsg" ELSE "idle"

Running(t, l) == ~undefined /\ object = "live" /\ pc[t] = l

-----------------------------------------------------------------------------
Init ==
  /\ object = "unborn"
  /\ m_reference = 0
  /\ m_bComplete = FALSE
  /\ m_bIsSending = FALSE
  /\ connected = FALSE
  /\ stale = FALSE
  /\ poolQueue = 0 /\ poolList = 0 /\ abandoned = 0
  /\ recvs = 0 /\ sends = <<>> /\ tasks = 0
  /\ unsent = 0 /\ written = 0 /\ delivered = 0
  /\ len = [t \in Threads |-> 0]
  /\ pc = [t \in Threads |-> "idle"]
  /\ undefined = FALSE

-----------------------------------------------------------------------------
(* Acceptor::onAccept, run by the I/O thread that dequeued the AcceptEx.   *)

OnAccept(t) ==
  /\ t \in IocpThreads /\ pc[t] = "idle" /\ object = "unborn"
  /\ object' = "live" /\ m_reference' = 1 /\ connected' = TRUE
  /\ Goto(t, "onOpen")
  /\ UNCHANGED <<m_bComplete, m_bIsSending, counts, data, stale, delivered,
                 undefined>>

\* OnOpen() returned false: disConnect() and delete, whatever the count is.
OpenRefused(t) ==
  /\ Running(t, "onOpen")
  /\ object' = "refused" /\ connected' = FALSE
  /\ Goto(t, "idle")
  /\ UNCHANGED <<m_reference, m_bComplete, m_bIsSending, counts, data, stale,
                 delivered, undefined>>

\* OnOpen() returned true; bindIocpPort() may fail and then onAccept returns
\* without giving the object to anyone.
OpenAccepted(t) ==
  /\ Running(t, "onOpen")
  /\ \/ Goto(t, "acceptRecv") /\ UNCHANGED abandoned
     \/ Goto(t, "idle") /\ abandoned' = abandoned + 1
  /\ UNCHANGED <<flags, poolQueue, poolList, recvs, sends, tasks, data, stale,
                 delivered, undefined>>

\* m_SocketPool.addTask(): stores the pointer, does not follow it.
Enlist(t) ==
  /\ ~undefined /\ pc[t] = "enlist"
  /\ poolQueue' = poolQueue + 1
  /\ Goto(t, "idle")
  /\ UNCHANGED <<flags, poolList, abandoned, recvs, sends, tasks, data, stale,
                 delivered, undefined>>

-----------------------------------------------------------------------------
(* The completion port: GetQueuedCompletionStatus and the kernel behind it.*)

\* Fault: an operation that failed leaves the port without release().
RecvCompletesUnreleased(t) ==
  /\ ~undefined /\ t \in IocpThreads /\ pc[t] = "idle" /\ recvs > 0
  /\ recvs' = recvs - 1
  /\ \/ /\ delivered < MaxRecv
        /\ delivered' = delivered + 1
        /\ Goto(t, "recvDone")
     \/ Goto(t, "idle") /\ UNCHANGED delivered
  /\ UNCHANGED <<flags, poolQueue, poolList, abandoned, sends, tasks, data,
                 stale, undefined>>

\* An overlapped receive leaves the port: with data, or with an end of
\* stream or an error, on which the thread calls release().
RecvCompletes(t) ==
  /\ ~undefined /\ t \in IocpThreads /\ pc[t] = "idle" /\ recvs > 0
  /\ recvs' = recvs - 1
  /\ \/ /\ delivered < MaxRecv
        /\ delivered' = delivered + 1
        /\ Goto(t, "recvDone")
     \/ Goto(t, "final") /\ UNCHANGED delivered
  /\ UNCHANGED <<flags, poolQueue, poolList, abandoned, sends, tasks, data,
                 stale, undefined>>

\* An overlapped send leaves the port, in the order the sends were posted.
SendCompletes(t) ==
  /\ ~undefined /\ t \in IocpThreads /\ pc[t] = "idle" /\ sends # <<>>
  /\ sends' = Tail(sends)
  /\ \/ Goto(t, "sendout") /\ len' = [len EXCEPT ![t] = Head(sends)]
     \/ Goto(t, "final") /\ UNCHANGED len
  /\ UNCHANGED <<flags, poolQueue, poolList, abandoned, recvs, tasks, unsent,
                 written, stale, delivered, undefined>>

-----------------------------------------------------------------------------
(* Receiving.                                                              *)

\* Fault: the IOTask does not take a reference.
RecvDoneUncounted(t) ==
  /\ Running(t, "recvDone")
  /\ stale' = FALSE
  /\ tasks' = tasks + 1
  /\ Goto(t, "recvDec")
  /\ UNCHANGED <<flags, poolQueue, poolList, abandoned, recvs, sends, data,
                 delivered, undefined>>

\* recvDone(): the heart is refreshed, the bytes move to m_RecvBuffer and an
\* IOTask, which holds a reference, goes to a worker's queue.
RecvDone(t) ==
  /\ Running(t, "recvDone")
  /\ stale' = FALSE
  /\ tasks' = tasks + 1 /\ m_reference' = m_reference + 1
  /\ Goto(t, "recvDec")
  /\ UNCHANGED <<object, m_bComplete, m_bIsSending, connected, poolQueue,
                 poolList, abandoned, recvs, sends, data, delivered, undefined>>

\* addRecv(): m_olpRead and m_RecvBlock are reset and WSARecv is called.  It
\* fails on a closed handle and may fail on an open one.
PostRecv(t) ==
  /\ Running(t, "acceptRecv") \/ Running(t, "rePost")
  /\ LET accepting == pc[t] = "acceptRecv" IN
     \/ /\ connected
        /\ recvs' = recvs + 1
        /\ Goto(t, IF accepting THEN "acceptCount" ELSE "recvCount")
        /\ UNCHANGED abandoned
     \/ /\ abandoned' = IF accepting THEN abandoned + 1 ELSE abandoned
        /\ Goto(t, "idle")
        /\ UNCHANGED recvs
  /\ UNCHANGED <<flags, poolQueue, poolList, sends, tasks, data, stale,
                 delivered, undefined>>

-----------------------------------------------------------------------------
(* The reference count.                                                    *)

\* addReference() at the end of addRecv() and addSend(), after the operation
\* was started.
AddReference(t) ==
  /\ ~undefined /\ object = "live" /\ pc[t] \in CountLabels
  /\ m_reference' = m_reference + 1
  /\ Goto(t, IF pc[t] = "acceptCount" THEN "enlist" ELSE Return(t))
  /\ UNCHANGED <<object, m_bComplete, m_bIsSending, connected, counts, data,
                 stale, delivered, undefined>>

\* Fault: sendout() does not end with addSend().
AfterDecNoResend ==
  [recvDec |-> "rePost", sendDec |-> "idle",
   relDec  |-> "idle",   taskDec |-> "idle"]

\* Fault: sendout() ends with addRecv().
AfterDecWrongPost ==
  [recvDec |-> "rePost", sendDec |-> "rePost",
   relDec  |-> "idle",   taskDec |-> "idle"]

\* Where decReference() is called, and what follows when it returns true.
AfterDec ==
  [recvDec |-> "rePost", sendDec |-> "sendCheck",
   relDec  |-> "idle",   taskDec |-> "idle"]

\* decReference(): deletes the object when the count drops to zero, while
\* its AutoLock still holds m_mutex, a member of the object.
DecReference(t) ==
  /\ ~undefined /\ object = "live" /\ pc[t] \in DOMAIN AfterDec
  /\ m_reference' = m_reference - 1
  /\ IF m_reference' <= 0
     THEN object' = "deleted" /\ connected' = FALSE /\ Goto(t, "unlockDead")
     ELSE UNCHANGED <<object, connected>> /\ Goto(t, AfterDec[pc[t]])
  /\ UNCHANGED <<m_bComplete, m_bIsSending, counts, data, stale, delivered,
                 undefined>>

\* ~AutoLock() leaves the critical section of the object just deleted.  The
\* memory is still mapped (MemoryPool keeps it), so the thread goes on.
UnlockDeleted(t) ==
  /\ ~undefined /\ pc[t] = "unlockDead"
  /\ Goto(t, "idle")
  /\ UNCHANGED <<flags, counts, data, stale, delivered, undefined>>

\* Fault: final() forgets disConnect().
FinalNoDisconnect(t) ==
  /\ Running(t, "final")
  /\ m_bComplete' = TRUE
  /\ Goto(t, "relDec")
  /\ UNCHANGED <<object, m_reference, m_bIsSending, connected, counts, data,
                 stale, delivered, undefined>>

\* final(): under m_mutex, disConnect() and OnClosed() unless already done.
Final(t) ==
  /\ Running(t, "final")
  /\ m_bComplete' = TRUE
  /\ connected' = IF m_bComplete THEN connected ELSE FALSE
  /\ Goto(t, "relDec")
  /\ UNCHANGED <<object, m_reference, m_bIsSending, counts, data, stale,
                 delivered, undefined>>

-----------------------------------------------------------------------------
(* Sending.                                                                *)

\* addSend(): returns at once when a send is thought to be in flight.
AddSend(t) ==
  /\ Running(t, "sendCheck")
  /\ Goto(t, IF m_bIsSending THEN Return(t) ELSE "sendPeek")
  /\ UNCHANGED <<flags, counts, data, stale, delivered, undefined>>

\* getDataBuffer(): the data of the first block, if there is any.
PeekSendBuffer(t) ==
  /\ Running(t, "sendPeek")
  /\ IF unsent = 0
     THEN Goto(t, Return(t)) /\ UNCHANGED len
     ELSE /\ \E n \in 1..unsent : len' = [len EXCEPT ![t] = n]
          /\ Goto(t, "sendMark")
  /\ UNCHANGED <<flags, counts, unsent, written, stale, delivered, undefined>>

MarkSending(t) ==
  /\ Running(t, "sendMark")
  /\ m_bIsSending' = TRUE
  /\ Goto(t, "sendPost")
  /\ UNCHANGED <<object, m_reference, m_bComplete, connected, counts, data,
                 stale, delivered, undefined>>

\* m_olpWrite is filled and WSASend called with it.  No lock is held: when
\* two threads are here, WSASend reads what either of them has written.  It
\* fails on a closed handle and may fail on an open one; m_bIsSending stays
\* as it is.
PostSend(t) ==
  /\ Running(t, "sendPost")
  /\ \/ /\ connected
        /\ \E u \in At({"sendPost"}) : sends' = Append(sends, len[u])
        /\ Goto(t, "sendCount")
     \/ Goto(t, Return(t)) /\ UNCHANGED sends
  /\ len' = [len EXCEPT ![t] = 0]
  /\ UNCHANGED <<flags, poolQueue, poolList, abandoned, recvs, tasks, unsent,
                 written, stale, delivered, undefined>>

\* Fault: readData() does not limit the length to what there is.
SendoutUnclamped(t) ==
  /\ Running(t, "sendout")
  /\ unsent' = unsent - len[t]
  /\ len' = [len EXCEPT ![t] = 0]
  /\ Goto(t, "sendClear")
  /\ UNCHANGED <<flags, counts, written, stale, delivered, undefined>>

\* sendout(): what was sent leaves m_SendBuffer; readData() never removes
\* more than there is.
Sendout(t) ==
  /\ Running(t, "sendout")
  /\ unsent' = IF len[t] > unsent THEN 0 ELSE unsent - len[t]
  /\ len' = [len EXCEPT ![t] = 0]
  /\ Goto(t, "sendClear")
  /\ UNCHANGED <<flags, counts, written, stale, delivered, undefined>>

ClearSending(t) ==
  /\ Running(t, "sendClear")
  /\ m_bIsSending' = FALSE
  /\ Goto(t, "sendDec")
  /\ UNCHANGED <<object, m_reference, m_bComplete, connected, counts, data,
                 stale, delivered, undefined>>

-----------------------------------------------------------------------------
(* IOWorkThread: one IOTask at a time.  OnMsg() is the user's; it may call *)
(* SendData() any number of times.                                         *)

TakeTask(t) ==
  /\ ~undefined /\ t \in WorkThreads /\ pc[t] = "idle" /\ tasks > 0
  /\ tasks' = tasks - 1
  /\ Goto(t, "onMsg")
  /\ UNCHANGED <<flags, poolQueue, poolList, abandoned, recvs, sends, data,
                 stale, delivered, undefined>>

\* SendData() gives up when the connection is already closed.
SendData(t) ==
  /\ Running(t, "onMsg") /\ ~m_bComplete /\ written < MaxSend
  /\ written' = written + 1
  /\ Goto(t, "write")
  /\ UNCHANGED <<flags, counts, unsent, len, stale, delivered, undefined>>

\* m_SendBuffer.writeData() under the buffer's lock, then addSend().
WriteSendBuffer(t) ==
  /\ Running(t, "write")
  /\ unsent' = unsent + 1
  /\ Goto(t, "sendCheck")
  /\ UNCHANGED <<flags, counts, len, written, stale, delivered, undefined>>

\* OnMsg() returns and the IOTask is destroyed.
FinishMsg(t) ==
  /\ Running(t, "onMsg")
  /\ Goto(t, "taskDec")
  /\ UNCHANGED <<flags, counts, data, stale, delivered, undefined>>

-----------------------------------------------------------------------------
(* SocketPool::run, the heart check.                                       *)

\* Time passes without a receive.
HeartLapses ==
  /\ ~undefined /\ object = "live" /\ ~stale
  /\ stale' = TRUE
  /\ UNCHANGED <<flags, counts, data, pc, delivered, undefined>>

\* checkQueue(): the new entries move to m_connectSockets.
CheckQueue ==
  /\ ~undefined /\ pc[PoolThread] = "idle" /\ poolQueue > 0
  /\ poolList' = poolList + poolQueue /\ poolQueue' = 0
  /\ UNCHANGED <<flags, abandoned, recvs, sends, tasks, data, stale, pc,
                 delivered, undefined>>

\* Fault: the pool drops its reference without closing the connection.
ExpireUnclosed ==
  /\ Running(PoolThread, "idle") /\ poolList > 0 /\ (m_bComplete \/ stale)
  /\ poolList' = poolList - 1
  /\ Goto(PoolThread, "relDec")
  /\ UNCHANGED <<flags, poolQueue, abandoned, recvs, sends, tasks, data, stale,
                 delivered, undefined>>

\* A connection that is closed or has been silent too long leaves the list;
\* then release() is called on it.
Expire ==
  /\ Running(PoolThread, "idle") /\ poolList > 0 /\ (m_bComplete \/ stale)
  /\ poolList' = poolList - 1
  /\ Goto(PoolThread, "final")
  /\ UNCHANGED <<flags, poolQueue, abandoned, recvs, sends, tasks, data, stale,
                 delivered, undefined>>

-----------------------------------------------------------------------------
\* A thread follows a pointer to the deleted object.
UseAfterDelete(t) ==
  /\ ~undefined /\ object = "deleted"
  /\ \/ pc[t] \in TouchLabels
     \/ t = PoolThread /\ pc[t] = "idle" /\ poolList > 0
  /\ undefined' = TRUE
  /\ UNCHANGED <<flags, counts, data, stale, pc, delivered>>

\* The object is gone, or nothing will ever happen to it again, or the
\* behaviour is no longer defined.
Finished ==
  \/ undefined
  \/ /\ \A t \in Threads : pc[t] = "idle"
     /\ recvs = 0 /\ sends = <<>> /\ tasks = 0
     /\ poolQueue = 0 /\ poolList = 0
     /\ object \in {"deleted", "refused"} \/ abandoned = 1

Stop == Finished /\ UNCHANGED vars

-----------------------------------------------------------------------------
AcceptStep(t) == OnAccept(t) \/ OpenRefused(t) \/ OpenAccepted(t) \/ Enlist(t)

RecvStep(t) == RecvCompletes(t) \/ RecvDone(t) \/ PostRecv(t)

SendStep(t) ==
  \/ AddSend(t) \/ PeekSendBuffer(t) \/ MarkSending(t) \/ PostSend(t)
  \/ SendCompletes(t) \/ Sendout(t) \/ ClearSending(t)

CountStep(t) ==
  AddReference(t) \/ DecReference(t) \/ UnlockDeleted(t) \/ Final(t)

MsgStep(t) ==
  TakeTask(t) \/ SendData(t) \/ WriteSendBuffer(t) \/ FinishMsg(t)

ThreadStep(t) ==
  \/ AcceptStep(t) \/ RecvStep(t) \/ SendStep(t) \/ CountStep(t)
  \/ MsgStep(t) \/ UseAfterDelete(t)

PoolStep == CheckQueue \/ Expire

Next ==
  \/ \E t \in Threads : ThreadStep(t)
  \/ PoolStep \/ HeartLapses \/ Stop

Spec == Init /\ [][Next]_vars

(***************************************************************************)
(* Fairness.  A thread that has something to do next goes on (the system   *)
(* schedules it; no lock is held for ever).  The kernel completes every    *)
(* operation on a closed handle and every send.  Nothing makes a peer send *)
(* data or close, nothing makes a user's OnMsg send, and a connection that *)
(* is heard from again and again never lapses.                             *)
(***************************************************************************)
Fairness ==
  /\ \A t \in Threads : WF_vars(pc[t] # "idle" /\ ThreadStep(t))
  /\ WF_vars(~connected /\ \E t \in IocpThreads : RecvCompletes(t))
  /\ WF_vars(\E t \in IocpThreads : SendCompletes(t))
  /\ WF_vars(\E t \in WorkThreads : TakeTask(t))
  /\ WF_vars(PoolStep)

\* The peer falls silent, and time passes.
PeerFallsSilent == WF_vars(HeartLapses)

FairSpec == Spec /\ Fairness

-----------------------------------------------------------------------------
(* Properties.                                                             *)

BooleanTypes ==
  /\ m_bComplete \in BOOLEAN /\ m_bIsSending \in BOOLEAN
  /\ connected \in BOOLEAN /\ stale \in BOOLEAN /\ undefined \in BOOLEAN

NumberTypes ==
  /\ m_reference \in Nat
  /\ poolQueue \in Nat /\ poolList \in Nat /\ abandoned \in Nat
  /\ recvs \in Nat /\ sends \in Seq(Nat) /\ tasks \in Nat
  /\ unsent \in Nat /\ written \in 0..MaxSend /\ delivered \in 0..MaxRecv
  /\ len \in [Threads -> Nat]

PlaceTypes ==
  /\ object \in {"unborn", "live", "deleted", "refused"}
  /\ pc \in [Threads -> Labels]

\* Every variable has its type; in particular the count never goes below
\* zero and readData() never makes the send buffer's size negative.
TypeOK == BooleanTypes /\ NumberTypes /\ PlaceTypes

\* Threads that will give up one reference, each by a decReference() or, for
\* the accepting thread, by handing it to the pool.
OwnerPlaces(t) == IF t \in WorkThreads THEN TaskLabels ELSE OwnerLabels

Owners == {t \in Threads : pc[t] \in OwnerPlaces(t)}

\* Threads that have started an operation and not counted it yet.
Uncounted == At(CountLabels)

Holders == Cardinality(Owners) + poolQueue + poolList + abandoned
             + recvs + Len(sends) + tasks

\* The count is the number of holders, short by exactly the operations that
\* addRecv() and addSend() have started and not counted yet.
RefAccounting ==
  object # "refused" => m_reference + Cardinality(Uncounted) = Holders

\* decReference() deletes the object only when nothing points to it any more:
\* the sole exception is a thread that has not yet counted its operation.
DeletedUnheld ==
  object = "deleted" => Uncounted # {} \/ Holders = 0

\* OnClosed() was called before the object went away, with the same sole
\* exception.
ClosedBeforeDelete ==
  object = "deleted" => Uncounted # {} \/ m_bComplete

\* Threads on the way to posting the next receive.
ReceiverLabels == {"onOpen", "acceptRecv", "recvDone", "recvDec", "rePost"}
Receivers == At(ReceiverLabels)

\* addRecv() resets m_olpRead and m_RecvBlock only when the kernel does not
\* use them and no other thread is filling m_RecvBuffer from them.
RecvExclusive == recvs + Cardinality(Receivers) <= 1

\* Data left in m_SendBuffer is on its way: a send is believed to be in
\* flight or some thread is going to look at the buffer again.  (SendData
\* writes and then tests the flag, sendout() clears it and then looks.)
NoLostSend ==
  object = "live" /\ unsent > 0 =>
    m_bIsSending \/ At({"sendDec", "sendCheck", "sendPeek", "sendMark"}) # {}

\* A connection that entered the pool is finally deleted, whoever closes it:
\* the peer, an error, or the heart check once the peer is silent.
Released == PeerFallsSilent => (poolQueue > 0 ~> object = "deleted")

\* WSASend has failed at once: the flag says that a send is in flight, there is
\* none, and nobody will clear it.
SendFailed ==
  m_bIsSending /\ sends = <<>> /\ At({"sendPost", "sendout", "sendClear"}) = {}

\* Data in m_SendBuffer are all sent in the end, also those written while
\* earlier ones are being sent, and when they go out in pieces; unless the
\* connection ends, or a WSASend fails at once, which leaves m_bIsSending set.
SendsSettle ==
  object = "live" /\ unsent > 0 ~>
    unsent = 0 \/ m_bComplete \/ object # "live" \/ SendFailed

-----------------------------------------------------------------------------
(* What the comments of the code promise.                                  *)

\* ClientSocket.cpp:87 and :155, at addReference(): the count keeps the
\* object valid until its operation has come out of the completion port.
ValidOutOfPort == object = "deleted" => recvs = 0 /\ sends = <<>>

=============================================================================
