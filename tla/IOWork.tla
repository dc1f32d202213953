------------------------------- MODULE IOWork -------------------------------
(***************************************************************************)
(* How a received message gets to a work thread: the IocpRecvThreads call  *)
(* IOWorkFactory::getInstance()->AddTask(), which puts the IOTask into the *)
(* m_taskQueue of one IOWorkThread; that thread moves the whole queue to   *)
(* its private m_workTaskList and executes the list from its back.         *)
(*                                                                         *)
(* getInstance() starts the factory on its first call.  Its two static     *)
(* flags are read and written without a lock, and m_ThreadList is filled   *)
(* while other callers may already use it.  Each access is one step;       *)
(* a stretch under a lock is one step too.                                 *)
(***************************************************************************)
EXTENDS Integers, Sequences, FiniteSets

Seqs == INSTANCE SequencesExt

CONSTANTS
  Callers,          \* the IocpRecvThreads
  Task,             \* the tasks they add (bound)
  m_workThreadNum,  \* as in the source
  UIntBits          \* width of unsigned int

ASSUME WorkAssumption ==
  /\ IsFiniteSet(Callers)
  /\ m_workThreadNum \in Nat \ {0} /\ UIntBits \in Nat
  \* Arithmetic, stated for the provers.
  /\ 2^UIntBits \in Nat \ {0}
  /\ 2^UIntBits % m_workThreadNum = 0  \* 4 threads, 32 bits

\* Work threads that can come into being: each caller may run start().
Workers == 1..(m_workThreadNum * Cardinality(Callers))

VARIABLES
  bIsStart,      \* the static flag of getInstance()
  m_bIsStart,    \* the factory's own flag
  m_ThreadList,  \* work threads, in the order start() created them
  m_TaskSize,    \* tasks added, modulo the width of unsigned int
  queue,         \* per work thread: its m_taskQueue
  list,          \* per work thread: its m_workTaskList
  stop,          \* work threads whose final() was called
  wpc,           \* per work thread: where it is
  doing,         \* per work thread: the tasks it is executing, one at most
  cpc,           \* per caller: where it is
  adding,        \* per caller: the tasks it is adding, one at most
  nIndex,        \* per caller: as in AddTask()
  made,          \* per caller: i in the loop of start()
  handed,        \* per index: tasks that were assigned to it so far
  closing,       \* main() has returned and ~IOWorkFactory() runs
  done,          \* tasks executed, or destroyed with their thread
  undefined      \* m_ThreadList was raced on or indexed past its end

startup == <<bIsStart, m_bIsStart, m_ThreadList, made>>
worker  == <<list, wpc, doing>>
caller  == <<cpc, adding, nIndex, m_TaskSize, handed>>
ending  == <<stop, closing>>
vars    == <<startup, worker, caller, ending, queue, done, undefined>>

Numbers == 0..(m_workThreadNum - 1)

-----------------------------------------------------------------------------
Init ==
  /\ bIsStart = FALSE /\ m_bIsStart = FALSE /\ m_ThreadList = <<>>
  /\ m_TaskSize = 0
  /\ queue = [w \in Workers |-> <<>>] /\ list = [w \in Workers |-> <<>>]
  /\ stop = {} /\ closing = FALSE
  /\ wpc = [w \in Workers |-> "unborn"]
  /\ doing = [w \in Workers |-> {}]
  /\ cpc = [c \in Callers |-> "idle"]
  /\ adding = [c \in Callers |-> {}]
  /\ nIndex = [c \in Callers |-> 0] /\ made = [c \in Callers |-> 0]
  /\ handed = [i \in Numbers |-> 0]
  /\ done = {} /\ undefined = FALSE

Goto(c, l) == cpc' = [cpc EXCEPT ![c] = l]

Running(c, l) == ~undefined /\ cpc[c] = l

\* Tasks that are somewhere between AddTask() and the end of exec().
Held ==
  (UNION {adding[c] : c \in Callers})
    \cup (UNION {doing[w] \cup Seqs!ToSet(queue[w]) \cup Seqs!ToSet(list[w]) :
                   w \in Workers})

-----------------------------------------------------------------------------
(* A caller: getInstance(), start(), AddTask().                            *)

\* getInstance(): the static flag.
GetInstance(c, k) ==
  /\ Running(c, "idle") /\ ~closing /\ k \notin Held \cup done
  /\ adding' = [adding EXCEPT ![c] = {k}]
  /\ Goto(c, IF bIsStart THEN "number" ELSE "start")
  /\ UNCHANGED <<startup, worker, nIndex, m_TaskSize, handed, ending, queue,
                 done, undefined>>

\* start(): returns when another caller has begun it.
Start(c) ==
  /\ Running(c, "start")
  /\ Goto(c, IF m_bIsStart THEN "started" ELSE "mark")
  /\ UNCHANGED <<startup, worker, adding, nIndex, m_TaskSize, handed, ending,
                 queue, done, undefined>>

MarkStart(c) ==
  /\ Running(c, "mark")
  /\ m_bIsStart' = TRUE
  /\ Goto(c, "push")
  /\ UNCHANGED <<bIsStart, m_ThreadList, made, worker, adding, nIndex,
                 m_TaskSize, handed, ending, queue, done, undefined>>

\* Another caller accesses m_ThreadList at the same time as c.
Raced(c) == \E d \in Callers \ {c} : cpc[d] \in {"push", "put"}

\* The next thread object that comes into being.
NewWorker == 1 + Cardinality({w \in Workers : wpc[w] # "unborn"})

\* Fault: the loop makes one round too many.
PushThreadOneMore(c) ==
  /\ Running(c, "push")
  /\ m_ThreadList' = Append(m_ThreadList, NewWorker)
  /\ wpc' = [wpc EXCEPT ![NewWorker] = "loop"]
  /\ made' = [made EXCEPT ![c] = @ + 1]
  /\ Goto(c, IF made'[c] <= m_workThreadNum THEN "push" ELSE "started")
  /\ undefined' \in {FALSE, Raced(c)}
  /\ UNCHANGED <<bIsStart, m_bIsStart, list, doing, adding, nIndex, m_TaskSize,
                 handed, ending, queue, done>>

\* One round of the loop: new IOWorkThread, start() and push_back().
PushThread(c) ==
  /\ Running(c, "push")
  /\ m_ThreadList' = Append(m_ThreadList, NewWorker)
  /\ wpc' = [wpc EXCEPT ![NewWorker] = "loop"]
  /\ made' = [made EXCEPT ![c] = @ + 1]
  /\ Goto(c, IF made'[c] < m_workThreadNum THEN "push" ELSE "started")
  /\ undefined' \in {FALSE, Raced(c)}
  /\ UNCHANGED <<bIsStart, m_bIsStart, list, doing, adding, nIndex, m_TaskSize,
                 handed, ending, queue, done>>

\* start() returned to getInstance().
Started(c) ==
  /\ Running(c, "started")
  /\ bIsStart' = TRUE
  /\ Goto(c, "number")
  /\ UNCHANGED <<m_bIsStart, m_ThreadList, made, worker, adding, nIndex,
                 m_TaskSize, handed, ending, queue, done, undefined>>

\* Fault: only every second task moves on to the next thread.
NumberTaskHalved(c) ==
  /\ Running(c, "number")
  /\ m_TaskSize' = (m_TaskSize + 1) % 2^UIntBits
  /\ nIndex' = [nIndex EXCEPT ![c] = (m_TaskSize' \div 2) % m_workThreadNum]
  /\ handed' = [handed EXCEPT ![nIndex'[c]] = @ + 1]
  /\ Goto(c, "put")
  /\ UNCHANGED <<startup, worker, adding, ending, queue, done, undefined>>

\* AddTask() under the factory's mutex.
NumberTask(c) ==
  /\ Running(c, "number")
  /\ m_TaskSize' = (m_TaskSize + 1) % 2^UIntBits
  /\ nIndex' = [nIndex EXCEPT ![c] = m_TaskSize' % m_workThreadNum]
  /\ handed' = [handed EXCEPT ![nIndex'[c]] = @ + 1]
  /\ Goto(c, "put")
  /\ UNCHANGED <<startup, worker, adding, ending, queue, done, undefined>>

\* Is there a thread for the index that c has?  Others may be filling the list.
NoThread(c) == nIndex[c] + 1 \notin DOMAIN m_ThreadList

Filling(c) == \E d \in Callers \ {c} : cpc[d] = "push"

\* m_ThreadList[nIndex]->addTask(), under the thread's own mutex.
PutTask(c) ==
  /\ Running(c, "put")
  /\ \/ /\ NoThread(c) \/ Filling(c)
        /\ undefined' = TRUE
        /\ UNCHANGED <<cpc, adding, queue>>
     \/ /\ ~NoThread(c)
        /\ \E k \in adding[c] :
             queue' = [queue EXCEPT ![m_ThreadList[nIndex[c] + 1]] =
                                      Append(@, k)]
        /\ adding' = [adding EXCEPT ![c] = {}]
        /\ Goto(c, "idle")
        /\ UNCHANGED undefined
  /\ UNCHANGED <<startup, worker, nIndex, m_TaskSize, handed, ending, done>>

-----------------------------------------------------------------------------
(* A work thread: IOWorkThread::run().                                     *)

\* Fault: the queue is copied and not emptied.
CheckQueueCopies(w) ==
  /\ ~undefined /\ wpc[w] = "loop" /\ w \notin stop
  /\ list' = [list EXCEPT ![w] = @ \o queue[w]]
  /\ wpc' = [wpc EXCEPT ![w] = IF list'[w] = <<>> THEN "loop" ELSE "drain"]
  /\ UNCHANGED <<startup, caller, doing, ending, queue, done, undefined>>

\* checkQueue() moves every waiting task to the private list; without any the
\* thread sleeps and looks again.
CheckQueue(w) ==
  /\ ~undefined /\ wpc[w] = "loop" /\ w \notin stop
  /\ list' = [list EXCEPT ![w] = @ \o queue[w]]
  /\ queue' = [queue EXCEPT ![w] = <<>>]
  /\ wpc' = [wpc EXCEPT ![w] = IF list'[w] = <<>> THEN "loop" ELSE "drain"]
  /\ UNCHANGED <<startup, caller, doing, ending, done, undefined>>

\* The last task of the list leaves it.
TakeTask(w) ==
  /\ ~undefined /\ wpc[w] = "drain" /\ list[w] # <<>>
  /\ doing' = [doing EXCEPT ![w] = {Seqs!Last(list[w])}]
  /\ list' = [list EXCEPT ![w] = Seqs!Front(@)]
  /\ wpc' = [wpc EXCEPT ![w] = "exec"]
  /\ UNCHANGED <<startup, caller, ending, queue, done, undefined>>

\* Task.exec() returns and the local IOTask is destroyed.
Exec(w) ==
  /\ ~undefined /\ wpc[w] = "exec"
  /\ done' = done \cup doing[w]
  /\ doing' = [doing EXCEPT ![w] = {}]
  /\ wpc' = [wpc EXCEPT ![w] = "drain"]
  /\ UNCHANGED <<startup, caller, list, ending, queue, undefined>>

\* Fault: the thread ends instead of looking for more tasks.
LeaveDrainEnds(w) ==
  /\ ~undefined /\ wpc[w] = "drain" /\ list[w] = <<>>
  /\ wpc' = [wpc EXCEPT ![w] = "ended"]
  /\ UNCHANGED <<startup, caller, list, doing, ending, queue, done, undefined>>

LeaveDrain(w) ==
  /\ ~undefined /\ wpc[w] = "drain" /\ list[w] = <<>>
  /\ wpc' = [wpc EXCEPT ![w] = "loop"]
  /\ UNCHANGED <<startup, caller, list, doing, ending, queue, done, undefined>>

\* isFinal() is read before the queue is: what is in it stays there.
LeaveLoop(w) ==
  /\ ~undefined /\ wpc[w] = "loop" /\ w \in stop
  /\ wpc' = [wpc EXCEPT ![w] = "ended"]
  /\ UNCHANGED <<startup, caller, list, doing, ending, queue, done, undefined>>

-----------------------------------------------------------------------------
(* ~IOWorkFactory(), after the IocpRecvThreads have ended.                 *)

\* main() returns.
Close ==
  /\ ~undefined /\ ~closing /\ m_ThreadList # <<>>
  /\ \A c \in Callers : cpc[c] = "idle"
  /\ closing' = TRUE
  /\ UNCHANGED <<startup, worker, caller, stop, queue, done, undefined>>

\* How many threads the destructor has left to end.
ToEnd == m_workThreadNum - Cardinality({w \in Workers : wpc[w] = "deleted"})

StopThread ==
  /\ closing /\ ToEnd > 0 /\ m_ThreadList # <<>>
  /\ Seqs!Last(m_ThreadList) \notin stop
  /\ stop' = stop \cup {Seqs!Last(m_ThreadList)}
  /\ UNCHANGED <<startup, worker, caller, closing, queue, done, undefined>>

\* join() returned: the thread object is deleted, and with it its tasks.
DeleteThread ==
  LET w == Seqs!Last(m_ThreadList) IN
  /\ closing /\ ToEnd > 0 /\ m_ThreadList # <<>>
  /\ wpc[w] = "ended"
  /\ m_ThreadList' = Seqs!Front(m_ThreadList)
  /\ done' = done \cup Seqs!ToSet(queue[w] \o list[w])
  /\ queue' = [queue EXCEPT ![w] = <<>>]
  /\ list' = [list EXCEPT ![w] = <<>>]
  /\ wpc' = [wpc EXCEPT ![w] = "deleted"]
  /\ UNCHANGED <<bIsStart, m_bIsStart, made, caller, doing, ending, undefined>>

\* The end of the process ends the threads that nobody has joined.
Exited == closing /\ ToEnd = 0

\* The program has ended, or its behaviour is not defined any more, or it has
\* no more tasks to add and does not end.
Finished ==
  \/ undefined
  \/ Exited
  \/ \A c \in Callers : cpc[c] = "idle"

Stutter == Finished /\ UNCHANGED vars

AddStep(c) == Start(c) \/ MarkStart(c) \/ PushThread(c) \/ Started(c)
                \/ NumberTask(c) \/ PutTask(c)

WorkStep(w) ==
  /\ ~Exited
  /\ \/ CheckQueue(w) \/ TakeTask(w) \/ Exec(w)
     \/ LeaveDrain(w) \/ LeaveLoop(w)

CloseStep == StopThread \/ DeleteThread

Next ==
  \/ \E c \in Callers, k \in Task : GetInstance(c, k)
  \/ \E c \in Callers : AddStep(c)
  \/ \E w \in Workers : WorkStep(w)
  \/ Close \/ CloseStep \/ Stutter

Spec == Init /\ [][Next]_vars

\* Every thread that can run does so in the end; OnMsg() returns.  Nobody is
\* bound to add a task or to end the program.
FairSpec ==
  /\ Spec
  /\ \A c \in Callers : WF_vars(AddStep(c))
  /\ \A w \in Workers : WF_vars(WorkStep(w))
  /\ WF_vars(CloseStep)

-----------------------------------------------------------------------------
(* Properties.                                                             *)

TypeOK ==
  /\ bIsStart \in BOOLEAN /\ m_bIsStart \in BOOLEAN
  /\ m_ThreadList \in Seq(Workers)
  /\ m_TaskSize \in 0..(2^UIntBits - 1)
  /\ queue \in [Workers -> Seq(Task)] /\ list \in [Workers -> Seq(Task)]
  /\ stop \subseteq Workers
  /\ wpc \in [Workers -> {"unborn", "loop", "drain", "exec", "ended",
                           "deleted"}]
  /\ doing \in [Workers -> SUBSET Task]
  /\ cpc \in [Callers -> {"idle", "start", "mark", "push", "started", "number",
                           "put"}]
  /\ adding \in [Callers -> SUBSET Task]
  /\ nIndex \in [Callers -> Numbers]
  /\ made \in [Callers -> 0..m_workThreadNum]
  /\ handed \in [Numbers -> Nat]
  /\ closing \in BOOLEAN /\ done \subseteq Task /\ undefined \in BOOLEAN

\* The factory, with its queues, lists and threads, is a TaskPool: a task that
\* was added is executed or destroyed once, and is never dropped, duplicated
\* or executed again, whatever checkQueue(), AddTask() and the destructor do
\* at the same time.
Pool == INSTANCE TaskPool WITH waiting <- Held, finished <- done

IsTaskPool == Pool!Spec

\* AddTask() gives each thread one task in turn (Acceptor.cpp:181), also when
\* callers overtake each other and when m_TaskSize wraps around.
EachInTurn == \A i, j \in Numbers : handed[i] - handed[j] <= 1

\* Both callers ran the loop of start(): the factory has too many threads, and
\* its destructor does not end them all.
StartedTwice == \E c, d \in Callers : c # d /\ made[c] > 0 /\ made[d] > 0

\* A task that was added is executed or destroyed in the end, although threads
\* work from the back of their lists and are told to end at any time.
TaskSettled ==
  \A k \in Task :
    k \in Held ~> k \in done \/ undefined \/ StartedTwice

=============================================================================
