----------------------------- MODULE SocketPool -----------------------------
(***************************************************************************)
(* The pool that watches the connections of an acceptor: I/O threads put   *)
(* new connections into a queue, the pool's thread moves them to its list, *)
(* walks over the list again and again, and releases those that are closed *)
(* or silent for too long.                                                 *)
(*                                                                         *)
(* A connection is reduced to its count, its state and the time of its     *)
(* last receive; what happens to one connection in detail is in module     *)
(* ClientSocket.  Times are kept as ages, in seconds: age[c] is the time   *)
(* since the last receive, sinceRound the time since CurTime was read.     *)
(***************************************************************************)
EXTENDS Integers, Sequences, FiniteSets

SX == INSTANCE SequencesExt

CONSTANTS
  Client,    \* the connections
  Gaps,      \* the values setHeartGap() is called with
  MaxRound   \* bound: seconds a round over the list takes

MaxOf(S) == CHOOSE x \in S : \A y \in S : y <= x

\* No comparison tells higher ages apart.
MaxAge == MaxOf(Gaps) + MaxRound + 1

ASSUME GapAssumption ==
  /\ Gaps \subseteq Nat /\ MaxRound \in Nat
  /\ \E g \in Gaps : \A h \in Gaps : h <= g

VARIABLES
  m_taskQueue,       \* connections handed over and not yet looked at
  m_connectSockets,  \* connections that are watched
  m_nHeartCheckGap,  \* as in the source
  stopping,          \* the pool's Thread::m_bComplete: final() was called
  pc,                \* where the pool's thread is
  it,                \* its iterator, as a position
  pClient,           \* the connection it is about to release, or none
  elapsed,           \* CurTime - LastHeart, as computed for pClient
  sinceRound,        \* seconds since CurTime was read
  age,               \* per connection: seconds since its last receive
  m_reference,       \* per connection: its count, 0 when it is deleted
  m_bComplete,       \* per connection: final() has run
  io,                \* per connection: what the I/O threads are at with it
  entering,          \* connections between addRecv() and addTask()
  main               \* "running", "loopEnded", "destroying" or "destroyed"

lists   == <<m_taskQueue, m_connectSockets>>
walk    == <<pc, it, pClient, elapsed>>
times   == <<age, sinceRound>>
clients == <<m_reference, m_bComplete, io, entering>>
ends    == <<stopping, main, m_nHeartCheckGap>>
vars    == <<lists, walk, times, clients, ends>>

None == "none"  \* no connection

Init ==
  /\ m_taskQueue = <<>> /\ m_connectSockets = <<>>
  /\ m_nHeartCheckGap \in Gaps
  /\ stopping = FALSE /\ main = "running"
  /\ pc = "check" /\ it = 1 /\ pClient = None /\ elapsed = 0
  /\ sinceRound = 0 /\ age = [c \in Client |-> 0]
  /\ m_reference = [c \in Client |-> 0]
  /\ m_bComplete = [c \in Client |-> FALSE]
  /\ io = [c \in Client |-> "unborn"] /\ entering = {}

-----------------------------------------------------------------------------
(* The I/O threads and the peers, as the pool sees them.                   *)

\* onAccept() has made the connection and posted its first receive: one
\* reference is for the pool, one for the receive.
OnAccept(c) ==
  /\ main = "running" /\ io[c] = "unborn"
  /\ m_reference' = [m_reference EXCEPT ![c] = 2]
  /\ io' = [io EXCEPT ![c] = "port"]
  /\ age' = [age EXCEPT ![c] = 0]
  /\ entering' = entering \cup {c}
  /\ UNCHANGED <<lists, walk, sinceRound, m_bComplete, ends>>

\* addTask(): the connection may be closed by now.
AddTask(c) ==
  /\ c \in entering
  /\ entering' = entering \ {c}
  /\ m_taskQueue' = Append(m_taskQueue, c)
  /\ UNCHANGED <<m_connectSockets, walk, times, m_reference, m_bComplete, io,
                 ends>>

\* A receive completes with data and is posted again; on a closed handle it
\* cannot be, and only its reference is given up.
Receive(c) ==
  /\ main = "running" /\ io[c] = "port"
  /\ age' = [age EXCEPT ![c] = 0]
  /\ io' = [io EXCEPT ![c] = IF m_bComplete[c] THEN "dec" ELSE "port"]
  /\ UNCHANGED <<lists, walk, sinceRound, m_reference, m_bComplete, entering,
                 ends>>

\* A receive fails or ends: the I/O thread calls release().
Hangup(c) ==
  /\ main = "running" /\ io[c] = "port"
  /\ io' = [io EXCEPT ![c] = "final"]
  /\ UNCHANGED <<lists, walk, times, m_reference, m_bComplete, entering, ends>>

IoFinal(c) ==
  /\ io[c] = "final"
  /\ io' = [io EXCEPT ![c] = "dec"]
  /\ m_bComplete' = [m_bComplete EXCEPT ![c] = TRUE]
  /\ UNCHANGED <<lists, walk, times, m_reference, entering, ends>>

IoDec(c) ==
  /\ io[c] = "dec"
  /\ io' = [io EXCEPT ![c] = "gone"]
  /\ m_reference' = [m_reference EXCEPT ![c] = @ - 1]
  /\ UNCHANGED <<lists, walk, times, m_bComplete, entering, ends>>

\* A second passes.
Tick ==
  /\ sinceRound < MaxRound
  /\ sinceRound' = sinceRound + 1
  /\ age' = [c \in Client |-> IF age[c] < MaxAge THEN age[c] + 1 ELSE MaxAge]
  /\ UNCHANGED <<lists, walk, clients, ends>>

SetHeartGap(g) ==
  /\ main = "running"
  /\ m_nHeartCheckGap' = g
  /\ UNCHANGED <<lists, walk, times, clients, stopping, main>>

-----------------------------------------------------------------------------
(* SocketPool::run().                                                      *)

\* Where decReference() leads to.
AfterDec == [dec |-> "heart", decAll |-> "clearing"]

Loop ==
  /\ pc = "check"
  /\ pc' = IF stopping THEN "clear" ELSE "round"
  /\ UNCHANGED <<lists, it, pClient, elapsed, times, clients, ends>>

\* checkQueue(): all that is in the queue goes to the list.
CheckQueue ==
  /\ m_connectSockets' = m_connectSockets \o m_taskQueue
  /\ m_taskQueue' = <<>>

StartRound ==
  /\ pc = "round" /\ CheckQueue
  /\ it' = 1 /\ sinceRound' = 0
  /\ pc' = "heart"
  /\ UNCHANGED <<pClient, elapsed, age, clients, ends>>

GetLastHeart ==
  /\ pc = "heart"
  /\ IF it > Len(m_connectSockets)
     THEN pc' = "check" /\ pClient' = None /\ UNCHANGED elapsed
     ELSE /\ pc' = "judge"
          /\ pClient' = m_connectSockets[it]
          /\ elapsed' = age[pClient'] - sinceRound
  /\ UNCHANGED <<lists, it, times, clients, ends>>

\* Fault: only closed connections are released.
DueWhenClosed == m_bComplete[pClient]

\* Fault: a connection is due when the gap is reached, not exceeded.
DueAtGap == m_bComplete[pClient] \/ elapsed >= m_nHeartCheckGap

\* isFinal(), and the comparison with what getLastHeart() said before.
Due == m_bComplete[pClient] \/ elapsed > m_nHeartCheckGap

\* Fault: the iterator also moves on after an entry was erased.
EraseSkips ==
  m_connectSockets' = SX!RemoveAt(m_connectSockets, it) /\ it' = it + 1

\* Fault: the entry stays in the list.
EraseKeeps == it' = it + 1 /\ UNCHANGED m_connectSockets

Erase == m_connectSockets' = SX!RemoveAt(m_connectSockets, it) /\ UNCHANGED it

\* The entry is erased and the connection released, or the iterator moves on.
Judge ==
  /\ pc = "judge"
  /\ \/ Due /\ Erase /\ pc' = "final"
     \/ ~Due /\ it' = it + 1 /\ pc' = "heart" /\ UNCHANGED m_connectSockets
  /\ elapsed' = 0
  /\ UNCHANGED <<m_taskQueue, pClient, times, clients, ends>>

\* release(): final(), then decReference().
Final ==
  /\ pc \in {"final", "finalAll"}
  /\ m_bComplete' = [m_bComplete EXCEPT ![pClient] = TRUE]
  /\ pc' = IF pc = "final" THEN "dec" ELSE "decAll"
  /\ UNCHANGED <<lists, it, pClient, elapsed, times, m_reference, io, entering,
                 ends>>

DecReference ==
  /\ pc \in DOMAIN AfterDec
  /\ m_reference' = [m_reference EXCEPT ![pClient] = @ - 1]
  /\ pc' = AfterDec[pc] /\ pClient' = None
  /\ UNCHANGED <<lists, it, elapsed, times, m_bComplete, io, entering,
                 ends>>

-----------------------------------------------------------------------------
(* clear(), at the end of run().                                           *)

\* Fault: what is still in the queue is forgotten.
ClearKeepsQueue ==
  /\ pc = "clear"
  /\ it' = 1 /\ pc' = "clearing"
  /\ UNCHANGED <<lists, pClient, elapsed, times, clients, ends>>

Clear ==
  /\ pc = "clear" /\ CheckQueue
  /\ it' = 1 /\ pc' = "clearing"
  /\ UNCHANGED <<pClient, elapsed, times, clients, ends>>

ClearNext ==
  /\ pc = "clearing"
  /\ IF it > Len(m_connectSockets)
     THEN /\ m_connectSockets' = <<>> /\ it' = 1 /\ pClient' = None
          /\ pc' = "done"
     ELSE /\ pClient' = m_connectSockets[it] /\ it' = it + 1
          /\ pc' = "finalAll" /\ UNCHANGED m_connectSockets
  /\ UNCHANGED <<m_taskQueue, elapsed, times, clients, ends>>

-----------------------------------------------------------------------------
(* The end of the program, as in main().                                   *)

\* wait_event_loop() has returned: there are no I/O threads any more.
LoopEnds ==
  /\ main = "running" /\ entering = {}
  /\ \A c \in Client : io[c] \notin {"final", "dec"}
  /\ main' = "loopEnded"
  /\ UNCHANGED <<lists, walk, times, clients, stopping, m_nHeartCheckGap>>

\* ~SocketPool(): final(), then join().
Finalize ==
  /\ main = "loopEnded"
  /\ main' = "destroying" /\ stopping' = TRUE
  /\ UNCHANGED <<lists, walk, times, clients, m_nHeartCheckGap>>

Join ==
  /\ main = "destroying" /\ pc = "done"
  /\ main' = "destroyed"
  /\ UNCHANGED <<lists, walk, times, clients, stopping, m_nHeartCheckGap>>

Ended == main = "destroyed" /\ UNCHANGED vars

-----------------------------------------------------------------------------
PoolStep ==
  \/ Loop \/ StartRound \/ GetLastHeart \/ Judge \/ Final \/ DecReference
  \/ Clear \/ ClearNext

IoStep(c) == AddTask(c) \/ IoFinal(c) \/ IoDec(c)

Next ==
  \/ \E c \in Client : OnAccept(c) \/ Receive(c) \/ Hangup(c) \/ IoStep(c)
  \/ \E g \in Gaps : SetHeartGap(g)
  \/ Tick \/ PoolStep \/ LoopEnds \/ Finalize \/ Join \/ Ended

Spec == Init /\ [][Next]_vars

\* The system runs the pool's thread, an I/O thread in the middle of a call
\* and the destructor, and time passes.  Nobody owes a receive, a hangup or
\* the end of the program.
Fairness ==
  /\ WF_vars(PoolStep) /\ WF_vars(Tick) /\ WF_vars(Finalize \/ Join)
  /\ \A c \in Client : WF_vars(IoStep(c))

FairSpec == Spec /\ Fairness

-----------------------------------------------------------------------------
(* Properties.                                                             *)

TypeOK ==
  /\ m_taskQueue \in Seq(Client) /\ m_connectSockets \in Seq(Client)
  /\ m_nHeartCheckGap \in Gaps /\ stopping \in BOOLEAN
  /\ pc \in {"check", "round", "heart", "judge", "final", "dec", "clear",
             "clearing", "finalAll", "decAll", "done"}
  /\ it \in 1..(Len(m_connectSockets) + 1)
  /\ pClient \in Client \cup {None} /\ elapsed \in -MaxRound..MaxAge
  /\ sinceRound \in 0..MaxRound /\ age \in [Client -> 0..MaxAge]
  /\ m_reference \in [Client -> 0..2] /\ m_bComplete \in [Client -> BOOLEAN]
  /\ io \in [Client -> {"unborn", "port", "final", "dec", "gone"}]
  /\ entering \subseteq Client
  /\ main \in {"running", "loopEnded", "destroying", "destroyed"}

\* Entries of the list that still stand for a reference: clear() releases them
\* one after the other and empties the list only at the end.
Watched ==
  IF pc \in {"clearing", "finalAll", "decAll"}
  THEN SubSeq(m_connectSockets, it, Len(m_connectSockets))
  ELSE m_connectSockets

Count(c, s) == Cardinality({n \in DOMAIN s : s[n] = c})
One(b) == IF b THEN 1 ELSE 0

Releasing(c) == pClient = c /\ pc \in {"final", "dec", "finalAll", "decAll"}

\* The pool gives back its reference to a connection once, wherever the
\* connection is on its way: one reference for the pool until then, one for the
\* receive.  So no entry ever points to a deleted connection.
PoolReference ==
  \A c \in Client :
    m_reference[c] =
      Count(c, m_taskQueue) + Count(c, Watched) + One(c \in entering)
        + One(Releasing(c)) + One(io[c] \in {"port", "final", "dec"})

\* When ~SocketPool() is done, every connection that was ever handed over has
\* been closed, and the pool holds none.
NoneLeft ==
  main = "destroyed" =>
    /\ m_taskQueue = <<>> /\ m_connectSockets = <<>>
    /\ \A c \in Client : io[c] # "unborn" => m_bComplete[c]

\* The heart check never closes a connection for silence that was heard from
\* within the gap before the round began.  (A receive that comes after the round
\* began may be too late: the heart was read before.)
HeardIsKept ==
  [][\A c \in Client :
       pc = "judge" /\ pc' = "final" /\ pClient = c /\ ~m_bComplete[c] =>
         age[c] > m_nHeartCheckGap \/ age[c] <= sinceRound]_vars

InPool(c) == Count(c, m_taskQueue \o m_connectSockets) > 0

\* A connection in the pool is heard from again or let go of, be it closed by
\* someone else or silent.
HeartIsChecked ==
  \A c \in Client : InPool(c) ~> (age[c] = 0 \/ ~InPool(c))

=============================================================================
