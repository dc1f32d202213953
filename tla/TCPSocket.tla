------------------------------ MODULE TCPSocket ------------------------------
(***************************************************************************)
(* TCPSocket objects and the socket handles of the system.  A handle is    *)
(* made by init() or accept(), travels from one object to another by       *)
(* dettach() and attach() (AcceptSocket makes it, a ClientSocket gets it), *)
(* and is closed by close(), disConnect() or the destructor.  The system   *)
(* may give a closed handle out again at once.                             *)
(*                                                                         *)
(* One thread opens and closes an object.  Another one may meanwhile be in *)
(* getPeerAddr(), send(), recv() or an overlapped call, as a work thread   *)
(* in OnMsg() is while final() closes its connection: it has read          *)
(* m_hSocket and calls the system with that value.                         *)
(*                                                                         *)
(* As their callers do, init() and attach() are called on an object without *)
(* a handle only, and no object is destroyed while a thread is in a call   *)
(* of it.  Bytes and the formatting of addresses are left out.             *)
(***************************************************************************)
EXTENDS Naturals

CONSTANTS
  Socket,          \* the places of TCPSocket objects
  Handle,          \* the socket handles the system has (bound)
  Peer,            \* the addresses of peers
  INVALID_SOCKET   \* no handle

ASSUME HandleAssumption == INVALID_SOCKET \notin Handle

Handles == Handle \cup {INVALID_SOCKET}

VARIABLES
  life,              \* per object: "none" or "live"
  m_hSocket,         \* per object, as in the source
  m_bHaveAddr,       \* per object, as in the source
  m_addrPeer,        \* per object, as in the source
  pc,                \* per object: where the thread is that closes it
  use,               \* per object: the call another thread is in
  arg,               \* per object: the handle this call was made with
  handle,            \* per handle: its state in the system
  peer,              \* per handle: whom it is connected to
  detached,          \* handles that dettach() returned and nobody attached
  s_bLoadedSockLib,  \* as in the source
  startups,          \* successful WSAStartup() less WSACleanup()
  process            \* "load", "main" or "over"

address == <<m_bHaveAddr, m_addrPeer>>
user    == <<use, arg>>
system  == <<handle, peer>>
library == <<s_bLoadedSockLib, startups, process>>
socketVars == <<life, m_hSocket, address, pc, user, system, detached, library>>

Nobody == "nobody"  \* an address of zeros

-----------------------------------------------------------------------------
SocketInit ==
  /\ life = [s \in Socket |-> "none"]
  /\ m_hSocket = [s \in Socket |-> INVALID_SOCKET]
  /\ m_bHaveAddr = [s \in Socket |-> FALSE]
  /\ m_addrPeer = [s \in Socket |-> Nobody]
  /\ pc = [s \in Socket |-> "idle"]
  /\ use = [s \in Socket |-> "none"]
  /\ arg = [s \in Socket |-> INVALID_SOCKET]
  /\ handle = [h \in Handle |-> "free"]
  /\ peer = [h \in Handle |-> Nobody]
  /\ detached = {}
  /\ s_bLoadedSockLib = FALSE /\ startups = 0 /\ process = "load"

\* s_loadSockLib(), before main(): WSAStartup() fails, or starts a version
\* that is too old and is given back, or succeeds.
Load ==
  /\ process = "load" /\ process' = "main"
  /\ s_bLoadedSockLib' = TRUE
  /\ startups' \in {startups, startups + 1}
  /\ UNCHANGED <<life, m_hSocket, address, pc, user, system, detached>>

\* s_destroySockLib(), after main(): the system closes what is still open, and
\* WSACleanup() fails when nothing was started.
Unload ==
  /\ process = "main" /\ \A s \in Socket : life[s] = "none"
  /\ process' = "over" /\ s_bLoadedSockLib' = FALSE
  /\ startups' = 0
  /\ handle' = [h \in Handle |-> "free"] /\ peer' = [h \in Handle |-> Nobody]
  /\ detached' = {}
  /\ UNCHANGED <<life, m_hSocket, address, pc, user>>

-----------------------------------------------------------------------------
(* Opening, by a thread that has the object for itself.                    *)

Quiet(s) == life[s] = "live" /\ pc[s] = "idle" /\ use[s] = "none"

\* Fault: init() and attach() leave the address of the earlier connection.
KeepAddr(s) == UNCHANGED address

\* memset() of the address, and m_bHaveAddr = false.
ForgetAddr(s) ==
  /\ m_bHaveAddr' = [m_bHaveAddr EXCEPT ![s] = FALSE]
  /\ m_addrPeer' = [m_addrPeer EXCEPT ![s] = Nobody]

setPeerAddr(s, p) ==
  /\ m_bHaveAddr' = [m_bHaveAddr EXCEPT ![s] = TRUE]
  /\ m_addrPeer' = [m_addrPeer EXCEPT ![s] = p]

Construct(s) ==
  /\ process = "main" /\ life[s] = "none"
  /\ life' = [life EXCEPT ![s] = "live"]
  /\ m_hSocket' = [m_hSocket EXCEPT ![s] = INVALID_SOCKET]
  /\ ForgetAddr(s)
  /\ UNCHANGED <<pc, user, system, detached, library>>

\* A failure of socket() changes nothing, not even the address.
init(s) ==
  /\ Quiet(s) /\ m_hSocket[s] = INVALID_SOCKET /\ startups > 0
  /\ \E h \in Handle :
       /\ handle[h] = "free"
       /\ handle' = [handle EXCEPT ![h] = "made"]
       /\ m_hSocket' = [m_hSocket EXCEPT ![s] = h]
  /\ ForgetAddr(s)
  /\ UNCHANGED <<life, pc, user, peer, detached, library>>

attach(s, h) ==
  /\ Quiet(s) /\ m_hSocket[s] = INVALID_SOCKET
  /\ h \in detached /\ detached' = detached \ {h}
  /\ m_hSocket' = [m_hSocket EXCEPT ![s] = h]
  /\ ForgetAddr(s)
  /\ UNCHANGED <<life, pc, user, system, library>>

dettach(s) ==
  /\ Quiet(s) /\ m_hSocket[s] # INVALID_SOCKET
  /\ detached' = detached \cup {m_hSocket[s]}
  /\ m_hSocket' = [m_hSocket EXCEPT ![s] = INVALID_SOCKET]
  /\ ForgetAddr(s)
  /\ UNCHANGED <<life, pc, user, system, library>>

\* bind() and listen(); each may fail, and then the rest is not done.
startServer(s) ==
  /\ Quiet(s) /\ m_hSocket[s] # INVALID_SOCKET
  /\ handle[m_hSocket[s]] = "made"
  /\ \E result \in {"bound", "listening"} :
       handle' = [handle EXCEPT ![m_hSocket[s]] = result]
  /\ UNCHANGED <<life, m_hSocket, address, pc, user, peer, detached, library>>

\* A new object n gets the socket of a connection that has come in, and its
\* address.  When ::accept() fails n is deleted again.
accept(s, n, p) ==
  /\ Quiet(s) /\ m_hSocket[s] # INVALID_SOCKET
  /\ handle[m_hSocket[s]] = "listening" /\ life[n] = "none"
  /\ \E h \in Handle :
       /\ handle[h] = "free"
       /\ handle' = [handle EXCEPT ![h] = "connected"]
       /\ peer' = [peer EXCEPT ![h] = p]
       /\ m_hSocket' = [m_hSocket EXCEPT ![n] = h]
  /\ life' = [life EXCEPT ![n] = "live"]
  /\ setPeerAddr(n, p)
  /\ UNCHANGED <<pc, user, detached, library>>

connect(s, p) ==
  /\ Quiet(s) /\ m_hSocket[s] # INVALID_SOCKET
  /\ handle[m_hSocket[s]] \in {"made", "bound"}
  /\ handle' = [handle EXCEPT ![m_hSocket[s]] = "connected"]
  /\ peer' = [peer EXCEPT ![m_hSocket[s]] = p]
  /\ setPeerAddr(s, p)
  /\ UNCHANGED <<life, m_hSocket, pc, user, detached, library>>

\* The system connects a socket that was given to AcceptEx.  It does not know
\* its peer before updateAcceptContext().
Connected(h, p) ==
  /\ h \in detached /\ handle[h] = "made"
  /\ \E l \in Handle : handle[l] = "listening"
  /\ handle' = [handle EXCEPT ![h] = "accepted"]
  /\ peer' = [peer EXCEPT ![h] = p]
  /\ UNCHANGED <<life, m_hSocket, address, pc, user, detached, library>>

updateAcceptContext(s) ==
  /\ Quiet(s) /\ m_hSocket[s] # INVALID_SOCKET
  /\ handle[m_hSocket[s]] = "accepted"
  /\ handle' = [handle EXCEPT ![m_hSocket[s]] = "connected"]
  /\ UNCHANGED <<life, m_hSocket, address, pc, user, peer, detached, library>>

-----------------------------------------------------------------------------
(* The thread that uses the object, whatever the first one does.           *)

\* getPeerAddr() without an address on record, or a call that sends or
\* receives: m_hSocket is read for the system call.
Use(s, call) ==
  /\ life[s] = "live" /\ pc[s] # "dying" /\ use[s] = "none"
  /\ call = "addr" => ~m_bHaveAddr[s]
  /\ use' = [use EXCEPT ![s] = call]
  /\ arg' = [arg EXCEPT ![s] = m_hSocket[s]]
  /\ UNCHANGED <<life, m_hSocket, address, pc, system, detached, library>>

Done(s) ==
  /\ use' = [use EXCEPT ![s] = "none"]
  /\ arg' = [arg EXCEPT ![s] = INVALID_SOCKET]

\* getpeername() succeeds on a connected handle, whosever it is now.
initPeerAddress(s) ==
  /\ use[s] = "addr"
  /\ arg[s] # INVALID_SOCKET /\ handle[arg[s]] = "connected"
  /\ setPeerAddr(s, peer[arg[s]])
  /\ Done(s)
  /\ UNCHANGED <<life, m_hSocket, pc, system, detached, library>>

\* getpeername() fails, also on INVALID_SOCKET; send() or recv() has returned.
UseReturns(s) ==
  /\ use[s] # "none"
  /\ Done(s)
  /\ UNCHANGED <<life, m_hSocket, address, pc, system, detached, library>>

-----------------------------------------------------------------------------
(* Closing, while the other thread may be in a call.                       *)

\* ::shutdown(), the first half of disConnect(); the connection ends, and
\* the handle stays open.
shutdown(s) ==
  /\ life[s] = "live" /\ pc[s] = "idle" /\ m_hSocket[s] # INVALID_SOCKET
  /\ pc' = [pc EXCEPT ![s] = "close"]
  /\ UNCHANGED <<life, m_hSocket, address, user, system, detached, library>>

\* closesocket(): the handle is the system's again.
CloseHandle(s, next) ==
  /\ life[s] = "live" /\ m_hSocket[s] # INVALID_SOCKET
  /\ handle' = [handle EXCEPT ![m_hSocket[s]] = "free"]
  /\ peer' = [peer EXCEPT ![m_hSocket[s]] = Nobody]
  /\ pc' = [pc EXCEPT ![s] = next]
  /\ UNCHANGED <<life, m_hSocket, address, user, detached, library>>

close(s) == pc[s] \in {"idle", "close"} /\ CloseHandle(s, "reset")

\* Fault: m_hSocket keeps its value.
ResetKeeps(s) ==
  /\ pc[s] = "reset"
  /\ pc' = [pc EXCEPT ![s] = "idle"]
  /\ UNCHANGED <<life, m_hSocket, address, user, system, detached, library>>

\* m_hSocket = INVALID_SOCKET, in close().
Reset(s) ==
  /\ pc[s] = "reset"
  /\ m_hSocket' = [m_hSocket EXCEPT ![s] = INVALID_SOCKET]
  /\ pc' = [pc EXCEPT ![s] = "idle"]
  /\ UNCHANGED <<life, address, user, system, detached, library>>

\* ~TCPSocket() calls close().
Destroy(s) == Quiet(s) /\ CloseHandle(s, "dying")

\* The object is gone, after close() has reset m_hSocket or had nothing to do.
ObjectGone(s) ==
  /\ \/ pc[s] = "dying"
     \/ Quiet(s) /\ m_hSocket[s] = INVALID_SOCKET
  /\ life' = [life EXCEPT ![s] = "none"]
  /\ m_hSocket' = [m_hSocket EXCEPT ![s] = INVALID_SOCKET]
  /\ ForgetAddr(s)
  /\ pc' = [pc EXCEPT ![s] = "idle"]
  /\ UNCHANGED <<user, system, detached, library>>

Over == process = "over" /\ UNCHANGED socketVars

-----------------------------------------------------------------------------
OpenStep(s) ==
  \/ Construct(s) \/ init(s) \/ dettach(s) \/ startServer(s)
  \/ updateAcceptContext(s) \/ \E h \in Handle : attach(s, h)
  \/ \E p \in Peer : connect(s, p) \/ \E n \in Socket : accept(s, n, p)

UserStep(s) ==
  \/ \E call \in {"addr", "io"} : Use(s, call)
  \/ initPeerAddress(s) \/ UseReturns(s)

CloseStep(s) == shutdown(s) \/ close(s) \/ Reset(s) \/ Destroy(s) \/ ObjectGone(s)

SocketNext ==
  \/ \E s \in Socket : OpenStep(s) \/ UserStep(s) \/ CloseStep(s)
  \/ \E h \in Handle, p \in Peer : Connected(h, p)
  \/ Load \/ Unload \/ Over

SocketSpec == SocketInit /\ [][SocketNext]_socketVars

-----------------------------------------------------------------------------
(* Properties.                                                             *)

SocketTypeOK ==
  /\ life \in [Socket -> {"none", "live"}]
  /\ m_hSocket \in [Socket -> Handles]
  /\ m_bHaveAddr \in [Socket -> BOOLEAN]
  /\ m_addrPeer \in [Socket -> Peer \cup {Nobody}]
  /\ pc \in [Socket -> {"idle", "close", "reset", "dying"}]
  /\ use \in [Socket -> {"none", "addr", "io"}]
  /\ arg \in [Socket -> Handles]
  /\ handle \in [Handle ->
       {"free", "made", "bound", "listening", "accepted", "connected"}]
  /\ peer \in [Handle -> Peer \cup {Nobody}]
  /\ detached \subseteq Handle
  /\ s_bLoadedSockLib \in BOOLEAN /\ startups \in 0..1
  /\ process \in {"load", "main", "over"}

\* The object has the handle: closesocket() was not called on it.
Holds(s, h) == m_hSocket[s] = h /\ pc[s] \in {"idle", "close"}

\* Every open handle belongs to one object, or is on the way from dettach() to
\* attach(), and an object that is not just closing its handle has an open
\* one: no handle is lost, none is closed twice, and close() never hits the
\* socket that another object was given under the same number.
HandleOwned ==
  /\ \A h \in Handle : handle[h] # "free" =>
       \/ h \in detached /\ \A s \in Socket : ~Holds(s, h)
       \/ /\ h \notin detached
          /\ \E s \in Socket : \A n \in Socket : Holds(n, h) <=> n = s
  /\ \A s \in Socket, h \in Handle : Holds(s, h) => handle[h] # "free"
  /\ \A h \in detached : handle[h] # "free"

\* While an object has its connection, the address it has on record is that of
\* this connection's peer.  A thread that reads m_hSocket before close() and
\* calls getpeername() after it may be told the peer of another connection;
\* that address never becomes the one of a later connection of the object.
AddrIsPeer ==
  \A s \in Socket, h \in Handle :
    Holds(s, h) /\ m_bHaveAddr[s] => m_addrPeer[s] = peer[h]

=============================================================================
