----------------------------- MODULE ByteQueue -----------------------------
(***************************************************************************)
(* What an IOBuffer promises to ClientSocket: a queue of bytes.            *)
(*                                                                         *)
(* addSend() asks where the oldest bytes are, hands their address to       *)
(* WSASend, and lets go of it when sendout() deletes what was sent.  Those *)
(* bytes are pinned: until then they stay the oldest ones.                 *)
(***************************************************************************)
EXTENDS Integers, Sequences

CONSTANT MaxBytes  \* bound: bytes ever written

VARIABLES
  written, \* how many bytes were ever written; they are numbered
  queue,   \* the bytes in the buffer, oldest first
  pinned,  \* the bytes the kernel is sending from the buffer
  out,     \* what the last call gave back: bytes, and a count
  alive    \* the buffer is not destroyed yet

Least(m, n) == IF m < n THEN m ELSE n

Prefix(s, n) == SubSeq(s, 1, Least(n, Len(s)))
Rest(s, n)   == SubSeq(s, Least(n, Len(s)) + 1, Len(s))

Init ==
  /\ written = 0 /\ queue = <<>> /\ pinned = <<>>
  /\ out = [bytes |-> <<>>, count |-> 0] /\ alive = TRUE

\* The next n bytes go to the end of the queue.
Write(n) ==
  /\ written' = written + n
  /\ queue' = queue \o [i \in 1..n |-> written + i]
  /\ out' = [bytes |-> <<>>, count |-> n]
  /\ UNCHANGED pinned

\* The oldest n bytes, or all there are, are copied, and removed if del.
Read(n, del) ==
  /\ del => pinned = <<>>
  /\ out' = [bytes |-> Prefix(queue, n), count |-> Len(Prefix(queue, n))]
  /\ queue' = IF del THEN Rest(queue, n) ELSE queue
  /\ UNCHANGED <<written, pinned>>

\* Some of the oldest bytes are pinned; there are none only if there are none.
Peek ==
  /\ pinned = <<>>
  /\ \E n \in 0..Len(queue) :
       /\ n = 0 <=> queue = <<>>
       /\ pinned' = Prefix(queue, n)
       /\ out' = [bytes |-> Prefix(queue, n), count |-> n]
  /\ UNCHANGED <<written, queue>>

\* The first n of the pinned bytes were sent: exactly they are removed.
Sent(n) ==
  /\ n \in 1..Len(pinned)
  /\ pinned' = <<>>
  /\ queue' = Rest(queue, n)
  /\ out' = [bytes |-> <<>>, count |-> -n]
  /\ UNCHANGED written

\* The caller gets room for new bytes; what is in the queue stays as it is.
Reserve ==
  UNCHANGED <<written, queue, pinned>> /\ out'.bytes = <<>> /\ out'.count > 0

\* The buffer is destroyed, with what is in it, unless bytes are pinned.
Destroy ==
  /\ alive /\ pinned = <<>>
  /\ alive' = FALSE /\ queue' = <<>>
  /\ UNCHANGED <<written, pinned, out>>

Call ==
  \/ \E n \in 1..(MaxBytes - written) : Write(n)
  \/ \E n \in 1..MaxBytes, del \in BOOLEAN : Read(n, del)
  \/ Peek
  \/ \E n \in 1..Len(pinned) : Sent(n)
  \/ Reserve

Next == (alive /\ Call /\ UNCHANGED alive) \/ Destroy

Spec == Init /\ [][Next]_<<written, queue, pinned, out, alive>>

=============================================================================
