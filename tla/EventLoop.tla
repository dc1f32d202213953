----------------------------- MODULE EventLoop -----------------------------
(***************************************************************************)
(* The Thread objects of IOCPDriver from start() to their deletion.  The   *)
(* owner starts them, and ends them in wait_event_loop() or ~IOCPDriver(); *)
(* each runs ThreadFunc(); a third thread may call end_event_loop().       *)
(* IOWorkFactory and SocketPool use their Threads as ~IOCPDriver() does.   *)
(*                                                                         *)
(* A step is one access to shared memory, or one call of the system.       *)
(* Every Thread of the program is joinable, its run() is a loop on         *)
(* isFinal(), and start() is called once on it; so a handle is named after *)
(* its Thread.                                                             *)
(***************************************************************************)
EXTENDS Integers

CONSTANTS
  m_dwThreadCount,  \* as in the source
  MaxEnd            \* bound: calls of end_event_loop()

ASSUME CountAssumption == m_dwThreadCount \in Nat \ {0} /\ MaxEnd \in Nat

NULL    == 0
Threads == 1..m_dwThreadCount  \* as they are in m_ThreadList

VARIABLES
  m_bActive, m_bComplete, m_hThreadHandle,  \* per Thread, as in the source
  size,     \* m_ThreadList.size()
  deleted,  \* the Threads that were deleted
  open,     \* the open handles
  fpc,      \* per Thread: where it is in ThreadFunc()
  opc,      \* where the owner is
  i,        \* the owner's position in m_ThreadList
  hThread,  \* the owner's: what CreateThread returned, or join() has read
  epc,      \* where the caller of end_event_loop() is
  e,        \* its position in m_ThreadList
  ends,     \* calls of end_event_loop() so far
  undefined \* what went wrong: "no", "thread" or "loop"; nothing comes after

object == <<m_bActive, m_bComplete, m_hThreadHandle, deleted>>
owner  == <<opc, i, hThread, size>>
ender  == <<epc, e, ends>>
vars   == <<object, owner, ender, open, fpc, undefined>>

-----------------------------------------------------------------------------
Init ==
  /\ m_bActive = [t \in Threads |-> FALSE]
  /\ m_bComplete = [t \in Threads |-> FALSE]
  /\ m_hThreadHandle = [t \in Threads |-> NULL]
  /\ size = 0 /\ deleted = {} /\ open = {}
  /\ fpc = [t \in Threads |-> "none"]
  /\ opc = "push" /\ i = 1 /\ hThread = NULL
  /\ epc = "idle" /\ e = 1 /\ ends = 0
  /\ undefined = "no"

OwnerAt(l) == undefined = "no" /\ opc = l
EnderAt(l) == undefined = "no" /\ epc = l

FuncAt(t, l) == undefined = "no" /\ t \notin deleted /\ fpc[t] = l

Goto(t, l) == fpc' = [fpc EXCEPT ![t] = l]

\* final() on the set T of Threads.
Finalize(T) ==
  /\ m_bComplete' = [t \in Threads |-> m_bComplete[t] \/ t \in T]

-----------------------------------------------------------------------------
(* The owner: IOCPDriver::start().                                         *)

PushThread ==
  /\ OwnerAt("push")
  /\ size' = size + 1
  /\ opc' = "create"
  /\ UNCHANGED <<object, i, hThread, ender, open, fpc, undefined>>

\* Thread::start(), its CreateThread(): the new thread runs, or there is none.
Create ==
  /\ OwnerAt("create")
  /\ opc' = "assign"
  /\ \/ Goto(i, "begin") /\ open' = open \cup {i} /\ hThread' = i
     \/ hThread' = NULL /\ UNCHANGED <<open, fpc>>
  /\ UNCHANGED <<object, i, size, ender, undefined>>

\* Fault: the loop makes one round too many.
NextThreadPastEnd(here, next) ==
  IF i <= m_dwThreadCount THEN i' = i + 1 /\ opc' = here
                          ELSE i' = 1 /\ opc' = next

\* Where the loop goes on: one Thread after the other, then the next loop.
NextThread(here, next) ==
  IF i < m_dwThreadCount THEN i' = i + 1 /\ opc' = here
                         ELSE i' = 1 /\ opc' = next

\* Fault: the handle is not kept.
AssignNothing ==
  /\ OwnerAt("assign")
  /\ NextThread("push", "started")
  /\ UNCHANGED <<object, hThread, size, ender, open, fpc, undefined>>

\* The handle is kept, by when the new thread may be anywhere.
Assign ==
  /\ OwnerAt("assign")
  /\ m_hThreadHandle' = [m_hThreadHandle EXCEPT ![i] = hThread]
  /\ NextThread("push", "started")
  /\ UNCHANGED <<m_bActive, m_bComplete, deleted, hThread, size, ender, open,
                 fpc, undefined>>

-----------------------------------------------------------------------------
(* The owner: wait_event_loop(), or ~IOCPDriver(), for each Thread.        *)

\* ~IOCPDriver() calls final() first, wait_event_loop() does not.
BeginJoin ==
  /\ OwnerAt("started")
  /\ \/ Finalize({i})
     \/ UNCHANGED m_bComplete
  /\ opc' = "join"
  /\ UNCHANGED <<m_bActive, m_hThreadHandle, deleted, i, hThread, size, ender,
                 open, fpc, undefined>>

\* join() reads the handle ...
Join ==
  /\ OwnerAt("join")
  /\ hThread' = m_hThreadHandle[i]
  /\ opc' = "wait"
  /\ UNCHANGED <<object, i, size, ender, open, fpc, undefined>>

\* ... and gives it to WaitForSingleObject(), which fails at once when it is
\* not open.
Wait ==
  /\ OwnerAt("wait")
  /\ opc' = IF hThread \in open THEN "waiting" ELSE "joined"
  /\ UNCHANGED <<object, i, hThread, size, ender, open, fpc, undefined>>

\* The system thread has ended.
JoinReturns ==
  /\ OwnerAt("waiting") /\ fpc[hThread] = "ended"
  /\ opc' = "joined"
  /\ UNCHANGED <<object, i, hThread, size, ender, open, fpc, undefined>>

\* delete; ~Thread() closes the handle.  The pointer stays in m_ThreadList.
Delete ==
  /\ OwnerAt("joined")
  /\ deleted' = deleted \cup {i}
  /\ open' = open \ {m_hThreadHandle[i]}
  /\ NextThread("started", "clear")
  /\ UNCHANGED <<m_bActive, m_bComplete, m_hThreadHandle, hThread, size, ender,
                 fpc, undefined>>

\* m_ThreadList.clear().
Clear ==
  /\ OwnerAt("clear")
  /\ size' = 0 /\ opc' = "gone"
  /\ UNCHANGED <<object, i, hThread, ender, open, fpc, undefined>>

-----------------------------------------------------------------------------
(* Another thread: end_event_loop().                                       *)

EndEventLoop ==
  /\ EnderAt("idle") /\ ends < MaxEnd
  /\ opc \notin {"push", "create", "assign"}
  /\ ends' = ends + 1 /\ e' = 1 /\ epc' = "loop"
  /\ UNCHANGED <<object, owner, open, fpc, undefined>>

\* One round of the loop, which ends when its iterator equals end().  The
\* iterator may point at a Thread that was deleted, and it may be beyond
\* end() when the owner has cleared the list meanwhile.
EndOne ==
  /\ EnderAt("loop")
  /\ IF e = size + 1 THEN epc' = "idle" /\ UNCHANGED e
                     ELSE e' = e + 1 /\ UNCHANGED epc
  /\ IF e \in 1..size /\ e \notin deleted THEN Finalize({e})
                                          ELSE UNCHANGED m_bComplete
  /\ undefined' = IF e = size + 1 \/ (e \in 1..size /\ e \notin deleted)
                  THEN "no" ELSE "loop"
  /\ UNCHANGED <<m_bActive, m_hThreadHandle, deleted, owner, ends, open, fpc>>

-----------------------------------------------------------------------------
(* ThreadFunc().                                                           *)

\* Under m_ThreadMutex, before run().
Begin(t) ==
  /\ FuncAt(t, "begin")
  /\ m_bActive' = [m_bActive EXCEPT ![t] = TRUE]
  /\ m_bComplete' = [m_bComplete EXCEPT ![t] = FALSE]
  /\ Goto(t, "run")
  /\ UNCHANGED <<m_hThreadHandle, deleted, owner, ender, open, undefined>>

\* Fault: the loop looks at the wrong flag.
RunReturnsInactive(t) ==
  /\ FuncAt(t, "run") /\ ~m_bActive[t]
  /\ Goto(t, "end")
  /\ UNCHANGED <<object, owner, ender, open, undefined>>

\* run() returns once isFinal().
RunReturns(t) ==
  /\ FuncAt(t, "run") /\ m_bComplete[t]
  /\ Goto(t, "end")
  /\ UNCHANGED <<object, owner, ender, open, undefined>>

\* Under m_ThreadMutex, after run().
End(t) ==
  /\ FuncAt(t, "end")
  /\ m_bActive' = [m_bActive EXCEPT ![t] = FALSE]
  /\ m_bComplete' = [m_bComplete EXCEPT ![t] = TRUE]
  /\ Goto(t, "close")
  /\ UNCHANGED <<m_hThreadHandle, deleted, owner, ender, open, undefined>>

\* CloseHandle(m_hThreadHandle); on NULL or a closed handle it does nothing.
CloseOwn(t) ==
  /\ FuncAt(t, "close")
  /\ open' = open \ {m_hThreadHandle[t]}
  /\ Goto(t, "clear")
  /\ UNCHANGED <<object, owner, ender, undefined>>

\* m_hThreadHandle = NULL; the last access.
ClearHandle(t) ==
  /\ FuncAt(t, "clear")
  /\ m_hThreadHandle' = [m_hThreadHandle EXCEPT ![t] = NULL]
  /\ Goto(t, "ended")
  /\ UNCHANGED <<m_bActive, m_bComplete, deleted, owner, ender, open,
                 undefined>>

\* ThreadFunc() goes on with an object that the owner has deleted.
UseAfterDelete(t) ==
  /\ undefined = "no" /\ t \in deleted /\ fpc[t] \notin {"none", "ended"}
  /\ undefined' = "thread"
  /\ UNCHANGED <<object, owner, ender, open, fpc>>

-----------------------------------------------------------------------------
Finished == (opc \in {"gone", "waiting"} \/ undefined # "no") /\ UNCHANGED vars

OwnerStep == PushThread \/ Create \/ Assign \/ BeginJoin \/ Join \/ Wait
               \/ JoinReturns \/ Delete \/ Clear

FuncStep(t) == Begin(t) \/ RunReturns(t) \/ End(t) \/ CloseOwn(t)
                 \/ ClearHandle(t) \/ UseAfterDelete(t)

Next == \/ OwnerStep \/ EndEventLoop \/ EndOne
        \/ \E t \in Threads : FuncStep(t)
        \/ Finished

Spec == Init /\ [][Next]_vars

\* The system runs every thread.  Nobody is bound to call end_event_loop().
FairSpec ==
  /\ Spec
  /\ WF_vars(OwnerStep) /\ WF_vars(EndOne)
  /\ \A t \in Threads : WF_vars(FuncStep(t))

-----------------------------------------------------------------------------
(* Properties.                                                             *)

TypeOK ==
  /\ m_bActive \in [Threads -> BOOLEAN] /\ m_bComplete \in [Threads -> BOOLEAN]
  /\ m_hThreadHandle \in [Threads -> Threads \cup {NULL}]
  /\ size \in 0..m_dwThreadCount
  /\ deleted \subseteq Threads /\ open \subseteq Threads
  /\ fpc \in [Threads -> {"none", "begin", "run", "end", "close", "clear",
                          "ended"}]
  /\ opc \in {"push", "create", "assign", "started", "join", "wait", "waiting",
              "joined", "clear", "gone"}
  /\ i \in Threads /\ hThread \in Threads \cup {NULL}
  /\ epc \in {"idle", "loop"} /\ e \in Nat /\ ends \in 0..MaxEnd
  /\ undefined \in {"no", "thread", "loop"}

\* run() is never executing on a Thread that the owner deletes, although the
\* handle that join() waits on is stored by one thread while another closes
\* and clears it.
RunOutlived ==
  \A t \in deleted : fpc[t] \notin {"begin", "run", "end"}

\* A final() that finds the thread in run() ends it; and when every thread that
\* runs was told to end while it ran, the owner's loop comes to its end: no
\* join() waits for ever.
LoopReturns ==
  /\ \A t \in Threads :
       fpc[t] = "run" /\ m_bComplete[t] ~> fpc[t] = "ended" \/ undefined # "no"
  /\ (\A t \in Threads : fpc[t] # "begin" /\ (fpc[t] = "run" => m_bComplete[t]))
       /\ opc = "waiting"
         ~> opc = "gone" \/ undefined # "no"

=============================================================================
