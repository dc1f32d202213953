------------------------------ MODULE Acceptor ------------------------------
(***************************************************************************)
(* AcceptSocket: startServer() posts s_maxAcceptCon AcceptEx operations,   *)
(* each with a socket made for the connection to come; an IocpRecvThread   *)
(* that dequeues one runs onAccept(), which gives that socket to a new     *)
(* ClientSocket and posts the operation again.  What becomes of the        *)
(* ClientSocket is in module ClientSocket.                                 *)
(*                                                                         *)
(* A step is one call that changes a slot, a socket handle or the state of *)
(* the server.  The system may give a closed handle out again.             *)
(***************************************************************************)
EXTENDS Integers, FiniteSets

CONSTANTS
  IocpThreads,     \* the IocpRecvThreads
  Handle,          \* the socket handles the system has (bound)
  INVALID_SOCKET,  \* no handle
  s_maxAcceptCon   \* as in the source

ASSUME AcceptAssumption ==
  /\ INVALID_SOCKET \notin Handle
  /\ s_maxAcceptCon \in Nat \ {0}

Slots == 1..s_maxAcceptCon

Handles == Handle \cup {INVALID_SOCKET}

VARIABLES
  m_bIsServering,  \* as in the source
  spc,             \* where startServer() is
  i,               \* as in startServer()
  slot,            \* per m_olpAccept[k]: what became of its last AcceptEx
  m_hAccept,       \* per m_olpAccept[k]: as in the source
  handle,          \* of each socket: "none", "made" or "connected"
  pc,              \* per thread: where it is in onAccept()
  at,              \* per thread: the slot it handles
  client,          \* per thread: m_hSocket of the ClientSocket it makes
  clients,         \* sockets of ClientSockets with a receive posted
  dropped          \* sockets of ClientSockets that onAccept() has dropped

server == <<m_bIsServering, spc, i>>
thread == <<pc, at, client>>
fates  == <<clients, dropped>>
vars   == <<server, slot, m_hAccept, handle, thread, fates>>

-----------------------------------------------------------------------------
Init ==
  /\ m_bIsServering = FALSE /\ spc = "idle" /\ i = 1
  /\ slot = [k \in Slots |-> "unused"]
  /\ m_hAccept = [k \in Slots |-> INVALID_SOCKET]
  /\ handle = [h \in Handle |-> "none"]
  /\ pc = [t \in IocpThreads |-> "idle"]
  /\ at = [t \in IocpThreads |-> 1]
  /\ client = [t \in IocpThreads |-> INVALID_SOCKET]
  /\ clients = {} /\ dropped = {}

Goto(t, l) == pc' = [pc EXCEPT ![t] = l]

\* addAccept(): a socket is made and AcceptEx is called with it.  Either may
\* fail; the handle then stays where it is.
AddAccept(k, result) ==
  \/ /\ \E h \in Handle :
          /\ handle[h] = "none"
          /\ handle' = [handle EXCEPT ![h] = "made"]
          /\ m_hAccept' = [m_hAccept EXCEPT ![k] = h]
     /\ slot' = [slot EXCEPT ![k] = result]
  \/ /\ result = "lost"
     /\ m_hAccept' = [m_hAccept EXCEPT ![k] = INVALID_SOCKET]
     /\ slot' = [slot EXCEPT ![k] = "lost"]
     /\ UNCHANGED handle

-----------------------------------------------------------------------------
(* startServer(): each call may fail, and then it returns.                 *)

StartServer ==
  /\ spc = "idle" /\ ~m_bIsServering
  /\ m_bIsServering' = TRUE
  /\ spc' = "listen"
  /\ UNCHANGED <<i, slot, m_hAccept, handle, thread, fates>>

\* TCPSocket::startServer(), m_SocketPool.start() and bindIocpPort().
Prepare ==
  /\ \/ spc = "listen" /\ spc' \in {"startPool", "idle"}
     \/ spc = "startPool" /\ spc' \in {"bindPort", "idle"}
     \/ spc = "bindPort" /\ spc' \in {"post", "idle"}
  /\ UNCHANGED <<m_bIsServering, i, slot, m_hAccept, handle, thread, fates>>

\* Fault: the loop makes one round too many.
PostFirstPastEnd ==
  /\ spc = "post"
  /\ \/ /\ AddAccept(i, "posted")
        /\ i' = i + 1
        /\ spc' = IF i <= s_maxAcceptCon THEN "post" ELSE "idle"
     \/ AddAccept(i, "lost") /\ spc' = "idle" /\ UNCHANGED i
  /\ UNCHANGED <<m_bIsServering, thread, fates>>

\* Fault: every operation is posted with m_olpAccept[1].
PostFirstSlot ==
  /\ spc = "post"
  /\ \/ /\ AddAccept(1, "posted")
        /\ i' = IF i < s_maxAcceptCon THEN i + 1 ELSE i
        /\ spc' = IF i < s_maxAcceptCon THEN "post" ELSE "idle"
     \/ AddAccept(i, "lost") /\ spc' = "idle" /\ UNCHANGED i
  /\ UNCHANGED <<m_bIsServering, thread, fates>>

\* One round of the loop that posts the operations.
PostFirst ==
  /\ spc = "post"
  /\ \/ /\ AddAccept(i, "posted")
        /\ i' = IF i < s_maxAcceptCon THEN i + 1 ELSE i
        /\ spc' = IF i < s_maxAcceptCon THEN "post" ELSE "idle"
     \/ AddAccept(i, "lost") /\ spc' = "idle" /\ UNCHANGED i
  /\ UNCHANGED <<m_bIsServering, thread, fates>>

-----------------------------------------------------------------------------
(* An IocpRecvThread dequeues an AcceptEx.                                 *)

AcceptCompletes(t, k) ==
  /\ pc[t] = "idle" /\ slot[k] = "posted" /\ spc # "ended"
  /\ slot' = [slot EXCEPT ![k] = "taken"]
  /\ handle' = [handle EXCEPT ![m_hAccept[k]] = "connected"]
  /\ at' = [at EXCEPT ![t] = k]
  /\ Goto(t, "attach")
  /\ UNCHANGED <<server, m_hAccept, client, fates>>

\* The operation failed, because the connection is gone already: only a log
\* entry is written.
AcceptFails(t, k) ==
  /\ pc[t] = "idle" /\ slot[k] = "posted" /\ spc # "ended"
  /\ slot' = [slot EXCEPT ![k] = "failed"]
  /\ UNCHANGED <<server, m_hAccept, handle, thread, fates>>

-----------------------------------------------------------------------------
(* onAccept().                                                             *)

\* new _ClientType, attach(), and the addresses.
Attach(t) ==
  /\ pc[t] = "attach"
  /\ client' = [client EXCEPT ![t] = m_hAccept[at[t]]]
  /\ Goto(t, "repost")
  /\ UNCHANGED <<server, slot, m_hAccept, handle, at, fates>>

\* Fault: the operation is posted again before its socket is taken.
RepostEarly(t) ==
  /\ pc[t] = "repost"
  /\ AddAccept(at[t], "posted") \/ AddAccept(at[t], "lost")
  /\ client' = [client EXCEPT ![t] = m_hAccept'[at[t]]]
  /\ Goto(t, "open")
  /\ UNCHANGED <<server, at, fates>>

\* Fault: onAccept() returns when addAccept() fails.
RepostGivesUp(t) ==
  /\ pc[t] = "repost"
  /\ \/ AddAccept(at[t], "posted") /\ Goto(t, "open")
     \/ AddAccept(at[t], "lost") /\ Goto(t, "idle")
  /\ UNCHANGED <<server, at, client, fates>>

\* addAccept(), whose result is not looked at.
Repost(t) ==
  /\ pc[t] = "repost"
  /\ AddAccept(at[t], "posted") \/ AddAccept(at[t], "lost")
  /\ Goto(t, "open")
  /\ UNCHANGED <<server, at, client, fates>>

\* Fault: the ClientSocket is deleted and its socket is not closed.
OpenRefusedUnclosed(t) ==
  /\ pc[t] = "open"
  /\ client' = [client EXCEPT ![t] = INVALID_SOCKET]
  /\ Goto(t, "idle")
  /\ UNCHANGED <<server, slot, m_hAccept, handle, at, fates>>

\* OnOpen() returned false: disConnect() and delete.
OpenRefused(t) ==
  /\ pc[t] = "open"
  /\ handle' = [handle EXCEPT ![client[t]] = "none"]
  /\ client' = [client EXCEPT ![t] = INVALID_SOCKET]
  /\ Goto(t, "idle")
  /\ UNCHANGED <<server, slot, m_hAccept, at, fates>>

\* OnOpen() returned true.  bindIocpPort() and addRecv() give the ClientSocket
\* to the completion port; when one of them fails onAccept() just returns.
OpenAccepted(t) ==
  /\ pc[t] = "open"
  /\ \/ clients' = clients \cup {client[t]} /\ UNCHANGED dropped
     \/ dropped' = dropped \cup {client[t]} /\ UNCHANGED clients
  /\ client' = [client EXCEPT ![t] = INVALID_SOCKET]
  /\ Goto(t, "idle")
  /\ UNCHANGED <<server, slot, m_hAccept, handle, at>>

\* The ClientSocket closes its connection.
ClientCloses(h) ==
  /\ h \in clients
  /\ clients' = clients \ {h}
  /\ handle' = [handle EXCEPT ![h] = "none"]
  /\ UNCHANGED <<server, slot, m_hAccept, thread, dropped>>

\* wait_event_loop() has returned, so no thread dequeues any more, and main()
\* destroys the acceptor.  What is posted is never completed.
Destroy ==
  /\ spc = "idle" /\ m_bIsServering
  /\ \A t \in IocpThreads : pc[t] = "idle"
  /\ spc' = "ended"
  /\ UNCHANGED <<m_bIsServering, i, slot, m_hAccept, handle, thread, fates>>

OnAccept(t) ==
  Attach(t) \/ Repost(t) \/ OpenRefused(t) \/ OpenAccepted(t)

StartStep == Prepare \/ PostFirst

\* The pool, the last member to go, has closed what was connected.
Finished ==
  /\ spc = "ended" /\ clients = {} /\ UNCHANGED vars

Next ==
  \/ StartServer \/ StartStep
  \/ \E t \in IocpThreads :
       OnAccept(t) \/ \E k \in Slots : AcceptCompletes(t, k) \/ AcceptFails(t, k)
  \/ \E h \in Handle : ClientCloses(h)
  \/ Destroy \/ Finished

Spec == Init /\ [][Next]_vars

\* The system runs every thread; nobody is bound to connect or to disconnect.
FairSpec == Spec /\ WF_vars(StartStep) /\ \A t \in IocpThreads : WF_vars(OnAccept(t))

-----------------------------------------------------------------------------
(* Properties.                                                             *)

TypeOK ==
  /\ m_bIsServering \in BOOLEAN
  /\ spc \in {"idle", "listen", "startPool", "bindPort", "post", "ended"}
  /\ i \in Slots
  /\ slot \in [Slots -> {"unused", "posted", "taken", "failed", "lost"}]
  /\ m_hAccept \in [Slots -> Handles]
  /\ handle \in [Handle -> {"none", "made", "connected"}]
  /\ pc \in [IocpThreads -> {"idle", "attach", "repost", "open"}]
  /\ at \in [IocpThreads -> Slots]
  /\ client \in [IocpThreads -> Handles]
  /\ clients \subseteq Handle /\ dropped \subseteq Handle

\* A slot's operation is in flight, or dequeued and its socket not yet taken.
InSlot(k) ==
  slot[k] = "posted" \/ \E t \in IocpThreads : pc[t] = "attach" /\ at[t] = k

Making == {t \in IocpThreads : pc[t] \in {"repost", "open"}}

\* A connected socket belongs to one ClientSocket only, and never to one and
\* to an accept operation: onAccept() takes it out of the slot in time.
OneOwner ==
  /\ \A t \in Making :
       /\ client[t] \notin clients \cup dropped
       /\ handle[client[t]] = "connected"
       /\ \A u \in Making : client[u] = client[t] => u = t
       /\ \A k \in Slots : InSlot(k) => m_hAccept[k] # client[t]
  /\ clients \cap dropped = {}
  /\ \A h \in clients \cup dropped :
       /\ handle[h] = "connected"
       /\ \A k \in Slots : InSlot(k) => m_hAccept[k] # h

\* A slot is handled by one thread, and AcceptEx is never called on one whose
\* operation is in flight: the system would write to an OVERLAPPED in use.
OneUse ==
  [][\A k \in Slots :
       slot[k] = "posted" => m_hAccept'[k] = m_hAccept[k]]_vars

\* No socket is forgotten but where a call has failed: every open one belongs
\* to a slot, to a ClientSocket, or to what a failure has left behind.
OpenAccounted ==
  \A h \in Handle : handle[h] # "none" =>
    \/ \E k \in Slots :
         m_hAccept[k] = h /\ (InSlot(k) \/ slot[k] \in {"failed", "lost"})
    \/ h \in clients \cup dropped
    \/ \E t \in Making : client[t] = h

\* A connection that was accepted becomes a ClientSocket or is closed, and its
\* slot is posted again unless addAccept() fails, also when that fails.
AcceptedSettles ==
  /\ \A h \in Handle :
       handle[h] = "connected" ~> h \in clients \cup dropped \/ handle[h] = "none"
  /\ \A k \in Slots : slot[k] = "taken" ~> slot[k] \in {"posted", "lost"}

=============================================================================
