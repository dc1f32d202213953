--------------------------- MODULE AcceptorProofs ---------------------------
(***************************************************************************)
(* Theorems about Acceptor, for any number of slots, threads and handles.  *)
(* OneOwner and OpenAccounted become inductive with what must be known of  *)
(* a slot: which of them startServer() has not reached yet, that one that  *)
(* is in use has a socket of its own, and that one thread at most handles  *)
(* it.                                                                     *)
(***************************************************************************)
EXTENDS Acceptor, TLAPS

\* startServer() runs once, and it has posted the slots before the i-th.
Starting ==
  /\ ~m_bIsServering => spc = "idle"
  /\ ~m_bIsServering \/ spc \in {"listen", "startPool", "bindPort"} =>
       i = 1 /\ \A k \in Slots : slot[k] = "unused"
  /\ spc = "post" => \A k \in Slots : k >= i => slot[k] = "unused"

\* A slot in use has an open socket, which no other such slot has.
SlotSockets ==
  /\ \A k \in Slots : InSlot(k) =>
       m_hAccept[k] \in Handle /\ handle[m_hAccept[k]] # "none"
  /\ \A j, k \in Slots :
       InSlot(j) /\ InSlot(k) /\ m_hAccept[j] = m_hAccept[k] => j = k

\* A thread between AcceptEx and addAccept() has taken its slot, alone.
Taken ==
  /\ \A t \in IocpThreads : pc[t] \in {"attach", "repost"} =>
       slot[at[t]] = "taken"
  /\ \A t, u \in IocpThreads :
       /\ pc[t] \in {"attach", "repost"} /\ pc[u] \in {"attach", "repost"}
       /\ at[t] = at[u]
       => t = u
  /\ \A t \in IocpThreads :
       pc[t] = "attach" => handle[m_hAccept[at[t]]] = "connected"
  /\ \A t \in Making : client[t] \in Handle

Sockets == Starting /\ SlotSockets /\ Taken /\ OneOwner /\ OpenAccounted

Accepting == TypeOK /\ Sockets

LEMMA AcceptingInit == Init => Accepting
<1> SUFFICES ASSUME Init PROVE Accepting
  OBVIOUS
<1> USE AcceptAssumption DEF Init, Slots, Handles
<1>1. TypeOK
  <2>1. m_bIsServering \in BOOLEAN
    OBVIOUS
  <2>2. i \in Slots
    OBVIOUS
  <2> QED
    BY <2>1, <2>2 DEF TypeOK
<1>2. Sockets
  BY DEF Sockets, Starting, SlotSockets, Taken, OneOwner, OpenAccounted,
         InSlot, Making
<1> QED
  BY <1>1, <1>2 DEF Accepting

LEMMA AcceptingStarts ==
  ASSUME Accepting, StartServer \/ Prepare
  PROVE  Accepting'
<1> USE AcceptAssumption
    DEF Accepting, server, thread, fates
<1>1. TypeOK'
  <2>1. CASE StartServer
    BY <2>1 DEF StartServer, TypeOK
  <2>2. CASE Prepare
    BY <2>2 DEF Prepare, TypeOK
  <2> QED
    BY <2>1, <2>2
<1>2. Sockets'
  <2> USE DEF Sockets, Starting, SlotSockets, Taken, OneOwner, OpenAccounted,
              InSlot, Making, TypeOK
  <2>1. CASE StartServer
    BY <2>1 DEF StartServer
  <2>2. CASE Prepare
    BY <2>2 DEF Prepare
  <2> QED
    BY <2>1, <2>2
<1> QED
  BY <1>1, <1>2

LEMMA AcceptingPosts ==
  ASSUME Accepting, PostFirst
  PROVE  Accepting'
<1> USE AcceptAssumption DEF Accepting, server, thread, fates
<1>1. i \in Slots /\ slot[i] = "unused" /\ ~InSlot(i)
  BY DEF PostFirst, Sockets, Starting, Taken, InSlot, TypeOK, Slots
<1>2. /\ i' \in Slots /\ i' >= i /\ (spc' = "post" => i' > i)
      /\ spc' \in {"post", "idle"} /\ spc = "post"
      /\ UNCHANGED <<m_bIsServering, pc, at, client, clients, dropped>>
  BY <1>1 DEF PostFirst, Slots
<1>3. ASSUME NEW h \in Handle, NEW r \in {"posted", "lost"},
             handle[h] = "none",
             handle' = [handle EXCEPT ![h] = "made"],
             m_hAccept' = [m_hAccept EXCEPT ![i] = h],
             slot' = [slot EXCEPT ![i] = r]
      PROVE  Accepting'
  <2> USE <1>1, <1>2, <1>3
  <2>1. TypeOK'
    BY DEF TypeOK, Handles
  <2>2. Starting'
    BY DEF Sockets, Starting, TypeOK, Slots
  <2>3. (SlotSockets /\ Taken)'
    BY DEF Sockets, SlotSockets, Taken, InSlot, Making, TypeOK
  <2>4. OneOwner'
    BY DEF Sockets, OneOwner, InSlot, Making, TypeOK
  <2>5. OpenAccounted'
    BY DEF Sockets, OpenAccounted, InSlot, Making, TypeOK
  <2> QED
    BY <2>1, <2>2, <2>3, <2>4, <2>5 DEF Sockets
<1>4. ASSUME m_hAccept' = [m_hAccept EXCEPT ![i] = INVALID_SOCKET],
             slot' = [slot EXCEPT ![i] = "lost"], UNCHANGED handle
      PROVE  Accepting'
  <2> USE <1>1, <1>2, <1>4
  <2>1. TypeOK'
    BY DEF TypeOK, Handles
  <2>2. Starting'
    BY DEF Sockets, Starting, TypeOK, Slots
  <2>3. (SlotSockets /\ Taken)'
    BY DEF Sockets, SlotSockets, Taken, InSlot, Making, TypeOK
  <2>4. OneOwner'
    BY DEF Sockets, OneOwner, InSlot, Making, TypeOK
  <2>5. OpenAccounted'
    BY DEF Sockets, OpenAccounted, InSlot, Making, TypeOK
  <2> QED
    BY <2>1, <2>2, <2>3, <2>4, <2>5 DEF Sockets
<1> QED
  BY <1>3, <1>4 DEF PostFirst, AddAccept

LEMMA AcceptingCompletes ==
  ASSUME Accepting, NEW t \in IocpThreads, NEW k \in Slots,
         AcceptCompletes(t, k) \/ AcceptFails(t, k)
  PROVE  Accepting'
<1> USE AcceptAssumption DEF Accepting, server, thread, fates, Goto
<1>1. CASE AcceptCompletes(t, k)
  <2> USE <1>1 DEF AcceptCompletes
  <2>1. TypeOK'
    BY DEF TypeOK
  <2>2. (Starting /\ SlotSockets)'
    BY DEF Sockets, Starting, SlotSockets, Taken, InSlot, TypeOK, Slots
  <2>3. Taken'
    BY DEF Sockets, SlotSockets, Taken, InSlot, Making, TypeOK
  <2>4. OneOwner'
    BY DEF Sockets, SlotSockets, Taken, OneOwner, InSlot, Making, TypeOK
  <2>5. OpenAccounted'
    BY DEF Sockets, SlotSockets, Taken, OpenAccounted, InSlot, Making, TypeOK
  <2> QED
    BY <2>1, <2>2, <2>3, <2>4, <2>5 DEF Sockets
<1>2. CASE AcceptFails(t, k)
  <2> USE <1>2 DEF AcceptFails
  <2>1. TypeOK'
    BY DEF TypeOK
  <2>2. (Starting /\ SlotSockets)'
    BY DEF Sockets, Starting, SlotSockets, InSlot, TypeOK, Slots
  <2>3. Taken'
    BY DEF Sockets, Taken, Making, TypeOK
  <2>4. OneOwner'
    BY DEF Sockets, OneOwner, InSlot, Making, TypeOK
  <2>5. OpenAccounted'
    BY DEF Sockets, OpenAccounted, InSlot, Making, TypeOK
  <2> QED
    BY <2>1, <2>2, <2>3, <2>4, <2>5 DEF Sockets
<1> QED
  BY <1>1, <1>2

LEMMA AcceptingHandles ==
  ASSUME Accepting, NEW t \in IocpThreads, OnAccept(t)
  PROVE  Accepting'
<1> USE AcceptAssumption DEF Accepting, server, thread, fates, Goto
<1>1. CASE Attach(t)
  <2> USE <1>1 DEF Attach
  <2>1. TypeOK'
    BY DEF TypeOK
  <2>2. (Starting /\ SlotSockets /\ Taken)'
    BY DEF Sockets, Starting, SlotSockets, Taken, InSlot, Making, TypeOK
  <2>3. OneOwner'
    BY DEF Sockets, SlotSockets, Taken, OneOwner, InSlot, Making, TypeOK
  <2>4. OpenAccounted'
    BY DEF Sockets, Taken, OpenAccounted, InSlot, Making, TypeOK
  <2> QED
    BY <2>1, <2>2, <2>3, <2>4 DEF Sockets
<1>2. CASE Repost(t)
  <2> USE <1>2 DEF Repost, AddAccept
  <2>1. TypeOK'
    BY DEF TypeOK, Handles
  <2>2. ~InSlot(at[t])
    BY DEF Sockets, Taken, InSlot, TypeOK
  <2>3. Starting'
    BY DEF Sockets, Starting, Taken, TypeOK, Slots
  <2>4. (SlotSockets /\ Taken)'
    BY <2>2 DEF Sockets, SlotSockets, Taken, InSlot, Making, TypeOK
  <2>5. OneOwner'
    BY <2>2 DEF Sockets, SlotSockets, Taken, OneOwner, InSlot, Making, TypeOK
  <2>6. OpenAccounted'
    BY <2>2 DEF Sockets, Taken, OpenAccounted, InSlot, Making, TypeOK
  <2> QED
    BY <2>1, <2>3, <2>4, <2>5, <2>6 DEF Sockets
<1>3. CASE OpenRefused(t)
  <2> USE <1>3 DEF OpenRefused
  <2>1. TypeOK'
    BY DEF TypeOK, Handles
  <2>2. (Starting /\ SlotSockets /\ Taken)'
    BY DEF Sockets, Starting, SlotSockets, Taken, OneOwner, InSlot, Making,
           TypeOK
  <2>3. OneOwner'
    BY DEF Sockets, Taken, OneOwner, InSlot, Making, TypeOK
  <2>4. OpenAccounted'
    BY DEF Sockets, Taken, OneOwner, OpenAccounted, InSlot, Making, TypeOK
  <2> QED
    BY <2>1, <2>2, <2>3, <2>4 DEF Sockets
<1>4. CASE OpenAccepted(t)
  <2> USE <1>4 DEF OpenAccepted
  <2>1. TypeOK'
    BY DEF TypeOK, Handles, Sockets, Taken, Making
  <2>2. (Starting /\ SlotSockets /\ Taken)'
    BY DEF Sockets, Starting, SlotSockets, Taken, InSlot, Making, TypeOK
  <2>3. OneOwner'
    BY DEF Sockets, Taken, OneOwner, InSlot, Making, TypeOK
  <2>4. OpenAccounted'
    BY DEF Sockets, Taken, OneOwner, OpenAccounted, InSlot, Making, TypeOK
  <2> QED
    BY <2>1, <2>2, <2>3, <2>4 DEF Sockets
<1> QED
  BY <1>1, <1>2, <1>3, <1>4 DEF OnAccept

LEMMA AcceptingEnds ==
  ASSUME Accepting, Destroy \/ \E h \in Handle : ClientCloses(h)
  PROVE  Accepting'
<1> USE AcceptAssumption DEF Accepting, server, thread, fates
<1>1. CASE Destroy
  BY <1>1 DEF Destroy, TypeOK, Sockets, Starting, SlotSockets, Taken, OneOwner,
              OpenAccounted, InSlot, Making
<1>2. ASSUME NEW h \in Handle, ClientCloses(h) PROVE Accepting'
  <2> USE <1>2 DEF ClientCloses
  <2>1. TypeOK'
    BY DEF TypeOK
  <2>2. (Starting /\ SlotSockets /\ Taken)'
    BY DEF Sockets, Starting, SlotSockets, Taken, OneOwner, InSlot, Making,
           TypeOK
  <2>3. (OneOwner /\ OpenAccounted)'
    BY DEF Sockets, OneOwner, OpenAccounted, InSlot, Making, TypeOK
  <2> QED
    BY <2>1, <2>2, <2>3 DEF Sockets
<1> QED
  BY <1>1, <1>2

\* Every step keeps the inductive invariant.
LEMMA AcceptingNext == Accepting /\ [Next]_vars => Accepting'
<1> SUFFICES ASSUME Accepting, [Next]_vars PROVE Accepting'
  OBVIOUS
<1>1. CASE UNCHANGED vars
  BY <1>1 DEF vars, server, thread, fates, Accepting, TypeOK, Sockets,
              Starting, SlotSockets, Taken, OneOwner, OpenAccounted, InSlot,
              Making
<1> QED
  BY <1>1, AcceptingStarts, AcceptingPosts, AcceptingCompletes,
     AcceptingHandles, AcceptingEnds DEF Next, StartStep, Finished

LEMMA AcceptingHolds == Spec => []Accepting
  BY AcceptingInit, AcceptingNext, PTL DEF Spec

\* Every variable has its type, for any number of slots and threads; i never
\* leaves the array m_olpAccept.
THEOREM TypeCorrect == Spec => []TypeOK
  BY AcceptingHolds, PTL DEF Accepting

\* Acceptor.h:94-126: a connected socket has one owner, whichever threads
\* handle and post the slots at the same time.
THEOREM OneOwnerHolds == Spec => []OneOwner
  BY AcceptingHolds, PTL DEF Accepting, Sockets

\* Acceptor.cpp:97-130: no socket is forgotten but where a call has failed.
THEOREM OpenAccountedHolds == Spec => []OpenAccounted
  BY AcceptingHolds, PTL DEF Accepting, Sockets

\* Acceptor.h:100: AcceptEx is never called on a slot whose operation is in
\* flight, by startServer() or by onAccept().
THEOREM OneUseHolds == Spec => OneUse
<1>1. ASSUME Accepting, [Next]_vars
      PROVE  [\A k \in Slots :
                slot[k] = "posted" => m_hAccept'[k] = m_hAccept[k]]_vars
  <2> SUFFICES ASSUME NEW k \in Slots, slot[k] = "posted"
               PROVE  m_hAccept'[k] = m_hAccept[k]
    OBVIOUS
  <2> USE <1>1, AcceptAssumption DEF Accepting, TypeOK
  <2>1. CASE PostFirst
    <3>1. i # k
      BY <2>1 DEF PostFirst, Sockets, Starting, Slots
    <3> QED
      BY <2>1, <3>1 DEF PostFirst, AddAccept
  <2>2. ASSUME NEW t \in IocpThreads, Repost(t)
        PROVE  m_hAccept'[k] = m_hAccept[k]
    <3>1. at[t] # k
      BY <2>2 DEF Repost, Sockets, Taken
    <3> QED
      BY <2>2, <3>1 DEF Repost, AddAccept
  <2>3. CASE UNCHANGED m_hAccept
    BY <2>3
  <2> QED
    BY <2>1, <2>2, <2>3
    DEF Next, StartServer, StartStep, Prepare, OnAccept, Attach, OpenRefused,
        OpenAccepted, AcceptCompletes, AcceptFails, ClientCloses, Destroy,
        Finished, vars
<1> QED
  BY <1>1, AcceptingHolds, PTL DEF Spec, OneUse

=============================================================================
