-------------------------- MODULE SocketPoolProofs --------------------------
(***************************************************************************)
(* Theorems about SocketPool, for any number of connections and any gaps.  *)
(* The count of a connection and the end of the pool become inductive with *)
(* the one place where the pool has a connection, and the heart check with *)
(* what may have happened to an age since it was read.                     *)
(***************************************************************************)
EXTENDS SocketPool, TLAPS, FiniteSetTheorems, SequenceTheorems

Holds(s, c) == \E n \in DOMAIN s : s[n] = c

Distinct(s) == \A m, n \in DOMAIN s : s[m] = s[n] => m = n

\* The pool has the connection somewhere.
Pooled(c) == \/ Holds(m_taskQueue, c) \/ Holds(Watched, c)
             \/ c \in entering \/ Releasing(c)

\* It has it in one place.
OnePlace ==
  /\ Distinct(m_taskQueue) /\ Distinct(m_connectSockets)
  /\ \A c \in Client : Holds(m_taskQueue, c) => ~Holds(m_connectSockets, c)
  /\ \A c \in entering :
       ~Holds(m_taskQueue, c) /\ ~Holds(m_connectSockets, c)
  /\ \A c \in Client : Releasing(c) =>
       ~Holds(m_taskQueue, c) /\ ~Holds(Watched, c) /\ c \notin entering

\* Nobody knows a connection that was not accepted yet.
Unknown ==
  \A c \in Client : io[c] = "unborn" =>
    /\ ~Holds(m_taskQueue, c) /\ ~Holds(m_connectSockets, c)
    /\ c \notin entering /\ ~Releasing(c)

\* One reference while the pool has the connection, one while a receive has.
References ==
  \A c \in Client :
    m_reference[c] =
      One(Pooled(c)) + One(io[c] \in {"port", "final", "dec"})

\* What the thread has in hand.
AtWork ==
  /\ pc \in {"judge", "final", "dec", "finalAll", "decAll"} =>
       pClient \in Client
  /\ pc = "judge" =>
       it <= Len(m_connectSockets) /\ pClient = m_connectSockets[it]

\* The order in which the program ends.
Ending ==
  /\ main # "running" => entering = {}
  /\ stopping <=> main \in {"destroying", "destroyed"}
  /\ pc \in {"clear", "clearing", "finalAll", "decAll", "done"} => stopping
  /\ pc \in {"clearing", "finalAll", "decAll", "done"} => m_taskQueue = <<>>
  /\ pc = "done" => m_connectSockets = <<>>
  /\ main = "destroyed" => pc = "done"

\* A connection that is not closed is still to be released.
Covered ==
  \A c \in Client :
    \/ io[c] = "unborn" \/ m_bComplete[c]
    \/ Holds(m_taskQueue, c) \/ Holds(Watched, c) \/ c \in entering
    \/ pClient = c /\ pc \in {"final", "finalAll"}

\* Since the heart was read, the age has grown with the round, has reached its
\* bound, or was set to 0 within the round.
Measured ==
  pc = "judge" =>
    \/ age[pClient] = elapsed + sinceRound
    \/ age[pClient] = MaxAge
    \/ age[pClient] <= sinceRound

Pooling ==
  /\ TypeOK /\ OnePlace /\ Unknown /\ References
  /\ AtWork /\ Ending /\ Covered /\ Measured

-----------------------------------------------------------------------------
(* Sequences that hold an entry once.                                      *)

LEMMA HoldsNothing ==
  ASSUME NEW S
  PROVE  /\ <<>> \in Seq(S) /\ Len(<<>>) = 0
         /\ Distinct(<<>>) /\ \A c : ~Holds(<<>>, c)
  BY EmptySeq DEF Distinct, Holds

LEMMA HoldsAppended ==
  ASSUME NEW S, NEW s \in Seq(S), NEW e \in S
  PROVE  /\ Append(s, e) \in Seq(S)
         /\ \A c : Holds(Append(s, e), c) <=> Holds(s, c) \/ c = e
         /\ Distinct(s) /\ ~Holds(s, e) => Distinct(Append(s, e))
<1> DEFINE t == Append(s, e)
<1>1. /\ t \in Seq(S) /\ Len(s) \in Nat /\ DOMAIN s = 1..Len(s)
      /\ \A i \in 1..Len(s) : t[i] = s[i]
      /\ t[Len(s) + 1] = e
  BY AppendProperties, LenProperties
<1>2. DOMAIN t = 1..(Len(s) + 1)
  BY AppendProperties, LenProperties
<1> HIDE DEF t
<1>3. ASSUME NEW c
      PROVE  Holds(t, c) <=> Holds(s, c) \/ c = e
  <2>1. \A i \in DOMAIN t : i \in DOMAIN s \/ i = Len(s) + 1
    BY <1>1, <1>2
  <2>2. \A i \in DOMAIN s : i \in DOMAIN t
    BY <1>1, <1>2
  <2>3. Len(s) + 1 \in DOMAIN t
    BY <1>1, <1>2
  <2> QED
    BY <1>1, <2>1, <2>2, <2>3 DEF Holds
<1>4. ASSUME Distinct(s), ~Holds(s, e)
      PROVE  Distinct(t)
  BY <1>1, <1>2, <1>4 DEF Distinct, Holds
<1> QED
  BY <1>1, <1>3, <1>4 DEF t

LEMMA HoldsJoined ==
  ASSUME NEW S, NEW s \in Seq(S), NEW t \in Seq(S)
  PROVE  /\ s \o t \in Seq(S)
         /\ \A c : Holds(s \o t, c) <=> Holds(s, c) \/ Holds(t, c)
         /\ Distinct(s) /\ Distinct(t) =>
              ((\A c : Holds(s, c) => ~Holds(t, c)) => Distinct(s \o t))
<1> DEFINE u == s \o t
           n == Len(s)
<1>1. /\ n \in Nat /\ Len(t) \in Nat /\ u \in Seq(S)
      /\ DOMAIN s = 1..n /\ DOMAIN t = 1..Len(t)
      /\ DOMAIN u = 1..(n + Len(t))
  BY ConcatProperties, LenProperties
<1>2. \A i \in 1..(n + Len(t)) : u[i] = IF i <= n THEN s[i] ELSE t[i - n]
  BY ConcatProperties
<1> HIDE DEF u, n
<1>3. \A i \in DOMAIN s : i \in DOMAIN u /\ u[i] = s[i]
  BY <1>1, <1>2
<1>4. \A i \in DOMAIN t : n + i \in DOMAIN u /\ u[n + i] = t[i]
  BY <1>1, <1>2
<1>5. \A i \in DOMAIN u : i \in DOMAIN s \/ \E j \in DOMAIN t : i = n + j
  <2> TAKE i \in DOMAIN u
  <2>1. i > n => i - n \in DOMAIN t /\ i = n + (i - n)
    BY <1>1
  <2> QED
    BY <1>1, <2>1
<1>6. ASSUME NEW c
      PROVE  Holds(u, c) <=> Holds(s, c) \/ Holds(t, c)
  BY <1>3, <1>4, <1>5 DEF Holds
<1>7. ASSUME Distinct(s), Distinct(t), \A c : Holds(s, c) => ~Holds(t, c),
             NEW i \in DOMAIN u, NEW j \in DOMAIN u, u[i] = u[j]
      PROVE  i = j
  <2>1. CASE i \in DOMAIN s
    BY <1>3, <1>4, <1>5, <1>7, <2>1 DEF Distinct, Holds
  <2>2. CASE \E k \in DOMAIN t : i = n + k
    <3>1. PICK k \in DOMAIN t : i = n + k
      BY <2>2
    <3>2. u[i] = t[k]
      BY <1>4, <3>1
    <3>3. PICK l \in DOMAIN t : j = n + l
      BY <1>3, <1>5, <1>7, <3>2 DEF Holds
    <3> QED
      BY <1>4, <1>7, <3>1, <3>2, <3>3 DEF Distinct
  <2> QED
    BY <1>5, <2>1, <2>2
<1> QED
  BY <1>1, <1>6, <1>7 DEF u, Distinct

\* What is left of a list from position i on.
LEMMA HoldsRest ==
  ASSUME NEW S, NEW s \in Seq(S), NEW i \in 1..(Len(s) + 1)
  PROVE  /\ SubSeq(s, i, Len(s)) \in Seq(S)
         /\ Len(SubSeq(s, i, Len(s))) = Len(s) + 1 - i
         /\ \A c : Holds(SubSeq(s, i, Len(s)), c) <=>
                     \E n \in i..Len(s) : s[n] = c
         /\ Distinct(s) => Distinct(SubSeq(s, i, Len(s)))
<1> DEFINE t == SubSeq(s, i, Len(s))
<1>1. /\ Len(s) \in Nat /\ DOMAIN s = 1..Len(s)
      /\ \A n \in 1..Len(s) : s[n] \in S
  BY LenProperties, ElementOfSeq
<1>2. /\ t \in Seq(S) /\ Len(t) = Len(s) + 1 - i
      /\ \A n \in 1..(Len(s) - i + 1) : t[n] = s[i + n - 1]
  BY <1>1, SubSeqProperties
<1>3. DOMAIN t = 1..(Len(s) + 1 - i)
  BY <1>2, LenProperties
<1> HIDE DEF t
<1>4. \A n \in DOMAIN t : i + n - 1 \in i..Len(s) /\ t[n] = s[i + n - 1]
  BY <1>1, <1>2, <1>3
<1>5. \A n \in i..Len(s) : n - i + 1 \in DOMAIN t /\ t[n - i + 1] = s[n]
  <2> TAKE n \in i..Len(s)
  <2>1. n - i + 1 \in DOMAIN t /\ i + (n - i + 1) - 1 = n
    BY <1>1, <1>3
  <2> QED
    BY <1>4, <2>1
<1>6. ASSUME NEW c
      PROVE  Holds(t, c) <=> \E n \in i..Len(s) : s[n] = c
  BY <1>4, <1>5 DEF Holds
<1>7. ASSUME Distinct(s), NEW m \in DOMAIN t, NEW n \in DOMAIN t, t[m] = t[n]
      PROVE  m = n
  <2>1. i + m - 1 \in DOMAIN s /\ i + n - 1 \in DOMAIN s
    BY <1>1, <1>4
  <2>2. i + m - 1 = i + n - 1
    BY <1>4, <1>7, <2>1 DEF Distinct
  <2> QED
    BY <1>3, <2>2
<1> QED
  BY <1>2, <1>6, <1>7 DEF t, Distinct

\* An entry erased: the list holds it no more, and everything else.
LEMMA HoldsErased ==
  ASSUME NEW S, NEW s \in Seq(S), NEW i \in 1..Len(s)
  PROVE  /\ SX!RemoveAt(s, i) \in Seq(S)
         /\ Len(SX!RemoveAt(s, i)) = Len(s) - 1
         /\ Distinct(s) =>
              /\ Distinct(SX!RemoveAt(s, i))
              /\ \A c : Holds(SX!RemoveAt(s, i), c) <=> Holds(s, c) /\ c # s[i]
<1> DEFINE a == SubSeq(s, 1, i - 1)
           b == SubSeq(s, i + 1, Len(s))
<1>1. /\ Len(s) \in Nat /\ DOMAIN s = 1..Len(s)
      /\ \A n \in 1..Len(s) : s[n] \in S
  BY LenProperties, ElementOfSeq
<1>2. /\ a \in Seq(S) /\ Len(a) = i - 1
      /\ \A n \in 1..(i - 1) : a[n] = s[n]
  <2>1. \A n \in 1..(i - 1) : s[n] \in S
    BY <1>1
  <2>2. /\ a \in Seq(S) /\ Len(a) = IF 1 <= i - 1 THEN i - 1 - 1 + 1 ELSE 0
        /\ \A n \in 1..(i - 1 - 1 + 1) : a[n] = s[1 + n - 1]
    BY <2>1, SubSeqProperties
  <2> HIDE DEF a
  <2> QED
    BY <2>2
<1>3. /\ b \in Seq(S) /\ Len(b) = Len(s) - i
      /\ \A c : Holds(b, c) <=> \E n \in (i + 1)..Len(s) : s[n] = c
      /\ Distinct(s) => Distinct(b)
  <2>1. Len(s) \in Nat
    BY <1>1
  <2>2. i + 1 \in 1..(Len(s) + 1)
    BY <2>1
  <2>3. Len(s) + 1 - (i + 1) = Len(s) - i
    BY <2>1
  <2> QED
    BY <2>2, <2>3, HoldsRest
<1>4. DOMAIN a = 1..(i - 1)
  BY <1>2, LenProperties
<1> HIDE DEF a, b
<1>5. \A c : Holds(a, c) <=> \E n \in 1..(i - 1) : s[n] = c
  BY <1>2, <1>4 DEF Holds
<1>6. Distinct(s) => Distinct(a)
  BY <1>1, <1>2, <1>4 DEF Distinct
<1>7. Distinct(s) => \A c : Holds(a, c) => ~Holds(b, c)
  BY <1>1, <1>3, <1>5 DEF Distinct
<1>8. SX!RemoveAt(s, i) = a \o b
  BY DEF a, b, SX!RemoveAt
<1>9. a \o b \in Seq(S) /\ Len(a \o b) = Len(s) - 1
  <2>1. a \o b \in Seq(S) /\ Len(a \o b) = Len(a) + Len(b)
    BY <1>2, <1>3, ConcatProperties
  <2> QED
    BY <1>1, <1>2, <1>3, <2>1
<1>10. ASSUME Distinct(s)
       PROVE  /\ Distinct(a \o b)
              /\ \A c : Holds(a \o b, c) <=> Holds(s, c) /\ c # s[i]
  <2>1. Distinct(a \o b)
    BY <1>2, <1>3, <1>6, <1>7, <1>10, HoldsJoined
  <2>2. \A c : Holds(a \o b, c) <=> Holds(a, c) \/ Holds(b, c)
    BY <1>2, <1>3, HoldsJoined
  <2>3. ASSUME NEW c
        PROVE  Holds(a, c) \/ Holds(b, c) <=> Holds(s, c) /\ c # s[i]
    <3>1. ASSUME Holds(a, c) \/ Holds(b, c)
          PROVE  Holds(s, c) /\ c # s[i]
      <4>1. PICK n \in 1..Len(s) : n # i /\ s[n] = c
        BY <1>1, <1>3, <1>5, <3>1
      <4> QED
        BY <1>1, <1>10, <4>1 DEF Holds, Distinct
    <3>2. ASSUME Holds(s, c), c # s[i]
          PROVE  Holds(a, c) \/ Holds(b, c)
      <4>1. PICK n \in 1..Len(s) : n # i /\ s[n] = c
        BY <1>1, <3>2 DEF Holds
      <4>2. n \in 1..(i - 1) \/ n \in (i + 1)..Len(s)
        BY <1>1, <4>1
      <4> QED
        BY <1>3, <1>5, <4>1, <4>2
    <3> QED
      BY <3>1, <3>2
  <2> QED
    BY <2>1, <2>2, <2>3
<1> QED
  BY <1>8, <1>9, <1>10

\* Without duplicates, an entry counts once.
LEMMA CountDistinct ==
  ASSUME NEW s, NEW c, Distinct(s)
  PROVE  Count(c, s) = One(Holds(s, c))
<1> DEFINE P == {n \in DOMAIN s : s[n] = c}
<1>1. CASE Holds(s, c)
  <2>1. PICK n \in DOMAIN s : s[n] = c
    BY <1>1 DEF Holds
  <2>2. P = {n}
    BY <2>1 DEF Distinct
  <2> QED
    BY <1>1, <2>2, FS_Singleton DEF Count, One
<1>2. CASE ~Holds(s, c)
  <2>1. P = {}
    BY <1>2 DEF Holds
  <2> QED
    BY <1>2, <2>1, FS_EmptySet DEF Count, One
<1> QED
  BY <1>1, <1>2

-----------------------------------------------------------------------------
(* What the invariant says about the variables it is made of.              *)

\* Every gap is below the bound of the ages.
LEMMA MaxAgeBound ==
  /\ MaxAge \in Nat /\ MaxRound \in Nat /\ MaxRound < MaxAge
  /\ \A g \in Gaps : g \in Nat /\ g < MaxAge
<1>1. /\ MaxOf(Gaps) \in Gaps
      /\ \A g \in Gaps : g <= MaxOf(Gaps)
  BY GapAssumption DEF MaxOf
<1> DEFINE m == MaxOf(Gaps)
<1> HIDE DEF m
<1>2. /\ m \in Nat /\ MaxRound \in Nat
      /\ \A g \in Gaps : g \in Nat /\ g <= m
  BY <1>1, GapAssumption DEF m
<1>3. MaxAge = m + MaxRound + 1
  BY DEF MaxAge, m
<1> QED
  BY <1>2, <1>3

\* A count that is made of two references at most is one of 0..2.
LEMMA ReferenceTyped ==
  ASSUME m_reference' \in [Client -> Int], References'
  PROVE  m_reference' \in [Client -> 0..2]
  BY DEF References, One

\* Watched, entry by entry.
LEMMA WatchedEntries ==
  ASSUME TypeOK
  PROVE  /\ \A c : Holds(Watched, c) => Holds(m_connectSockets, c)
         /\ pc \notin {"clearing", "finalAll", "decAll"} =>
              Watched = m_connectSockets
         /\ pc \in {"clearing", "finalAll", "decAll"} =>
              \A c : Holds(Watched, c) <=>
                       \E n \in it..Len(m_connectSockets) :
                         m_connectSockets[n] = c
<1>1. /\ m_connectSockets \in Seq(Client)
      /\ it \in 1..(Len(m_connectSockets) + 1)
  BY DEF TypeOK
<1>2. /\ Len(m_connectSockets) \in Nat
      /\ DOMAIN m_connectSockets = 1..Len(m_connectSockets)
  BY <1>1, LenProperties
<1>3. \A n \in it..Len(m_connectSockets) : n \in DOMAIN m_connectSockets
  BY <1>1, <1>2
<1>4. CASE pc \in {"clearing", "finalAll", "decAll"}
  <2>1. \A c : Holds(Watched, c) <=>
                 \E n \in it..Len(m_connectSockets) : m_connectSockets[n] = c
    BY <1>1, <1>4, HoldsRest DEF Watched
  <2> QED
    BY <1>3, <1>4, <2>1 DEF Holds
<1>5. CASE pc \notin {"clearing", "finalAll", "decAll"}
  BY <1>5 DEF Watched
<1> QED
  BY <1>4, <1>5

LEMMA PoolingInit == Init => Pooling
<1> SUFFICES ASSUME Init PROVE Pooling
  OBVIOUS
<1> USE DEF Init
<1>1. TypeOK
  <2>1. 0 \in 0..MaxAge /\ 0 \in -MaxRound..MaxAge /\ 0 \in 0..MaxRound
    BY MaxAgeBound
  <2>2. 1 \in 1..(Len(<<>>) + 1) /\ <<>> \in Seq(Client)
    BY HoldsNothing
  <2>3. stopping \in BOOLEAN
    OBVIOUS
  <2> QED
    BY <2>1, <2>2, <2>3 DEF TypeOK
<1>2. Watched = <<>> /\ \A c : ~Releasing(c)
  BY DEF Watched, Releasing
<1>3. OnePlace /\ Unknown /\ References
  BY <1>2, HoldsNothing DEF OnePlace, Unknown, References, Pooled, One
<1>4. AtWork /\ Ending /\ Covered /\ Measured
  BY DEF AtWork, Ending, Covered, Measured
<1> QED
  BY <1>1, <1>3, <1>4 DEF Pooling

-----------------------------------------------------------------------------
(* The I/O threads and the time.                                           *)

\* A new connection is with the thread that made it.
LEMMA PoolingAccepted ==
  ASSUME Pooling, NEW c \in Client, OnAccept(c)
  PROVE  Pooling'
<1> USE DEF Pooling, OnAccept
<1>1. /\ UNCHANGED <<m_taskQueue, m_connectSockets, Watched, pc, it, pClient,
                     elapsed, sinceRound, m_bComplete, stopping, main>>
      /\ \A d : Releasing(d)' <=> Releasing(d)
  BY DEF lists, walk, ends, Watched, Releasing
<1>2. /\ io[c] = "unborn" /\ io' = [io EXCEPT ![c] = "port"]
      /\ entering' = entering \cup {c} /\ main = "running"
      /\ ~Holds(m_taskQueue, c) /\ ~Holds(m_connectSockets, c)
      /\ ~Holds(Watched, c) /\ c \notin entering /\ ~Releasing(c)
  BY WatchedEntries DEF Unknown
<1> USE <1>1, <1>2
<1>3. OnePlace'
  BY DEF OnePlace
<1>4. Unknown'
  BY DEF Unknown, TypeOK
<1>5. \A d \in Client : /\ Pooled(d)' <=> d = c \/ Pooled(d)
                        /\ Pooled(c) => FALSE
  BY DEF Pooled
<1>6. References'
  <2>1. m_reference'[c] = 2
    BY DEF TypeOK
  <2>2. One(Pooled(c)') = 1 /\ One(io'[c] \in {"port", "final", "dec"}) = 1
    BY <1>5 DEF One, TypeOK
  <2>3. \A d \in Client : d # c =>
          /\ m_reference'[d] = m_reference[d] /\ io'[d] = io[d]
          /\ One(Pooled(d)') = One(Pooled(d))
    BY <1>5 DEF One, TypeOK
  <2> QED
    BY <2>1, <2>2, <2>3 DEF References
<1>7. TypeOK'
  <2>1. m_reference' \in [Client -> Int]
    BY DEF TypeOK
  <2>2. age' \in [Client -> 0..MaxAge]
    BY MaxAgeBound DEF TypeOK
  <2>3. stopping' \in BOOLEAN /\ m_bComplete' \in [Client -> BOOLEAN]
    BY DEF TypeOK
  <2> QED
    BY <1>6, <2>1, <2>2, <2>3, ReferenceTyped DEF TypeOK, ends
<1>8. AtWork' /\ Ending'
  BY DEF AtWork, Ending
<1>9. Covered'
  BY DEF Covered, TypeOK
<1>10. Measured'
  BY MaxAgeBound DEF Measured, TypeOK
<1> QED
  BY <1>3, <1>4, <1>6, <1>7, <1>8, <1>9, <1>10

\* addTask() puts it into the queue.
LEMMA PoolingAdded ==
  ASSUME Pooling, NEW c \in Client, AddTask(c)
  PROVE  Pooling'
<1> USE DEF Pooling, AddTask
<1>1. /\ UNCHANGED <<m_connectSockets, Watched, pc, it, pClient, elapsed,
                     sinceRound, age, m_reference, m_bComplete, io, stopping,
                     main, m_nHeartCheckGap>>
      /\ \A d : Releasing(d)' <=> Releasing(d)
  BY DEF walk, times, ends, Watched, Releasing
<1>2. /\ c \in entering /\ entering' = entering \ {c}
      /\ m_taskQueue' = Append(m_taskQueue, c)
      /\ ~Holds(m_taskQueue, c) /\ ~Holds(m_connectSockets, c)
      /\ ~Holds(Watched, c) /\ ~Releasing(c) /\ main = "running"
  BY WatchedEntries DEF OnePlace, Ending
<1>3. /\ m_taskQueue' \in Seq(Client)
      /\ \A d : Holds(m_taskQueue', d) <=> Holds(m_taskQueue, d) \/ d = c
      /\ Distinct(m_taskQueue')
  BY <1>2, HoldsAppended DEF TypeOK, OnePlace
<1>4. m_taskQueue' \in Seq(Client) /\ pc \notin {"clearing", "finalAll",
                                               "decAll", "done"}
  BY <1>2, <1>3 DEF Ending
<1>5. OnePlace' /\ Unknown'
  BY <1>1, <1>2, <1>3 DEF OnePlace, Unknown
<1>6. \A d \in Client : Pooled(d)' <=> Pooled(d)
  BY <1>1, <1>2, <1>3 DEF Pooled
<1>7. References'
  BY <1>1, <1>6 DEF References, One
<1>8. TypeOK'
  <2>1. stopping' \in BOOLEAN /\ m_bComplete' \in [Client -> BOOLEAN]
    BY <1>1 DEF TypeOK
  <2> QED
    BY <1>1, <1>2, <1>3, <2>1 DEF TypeOK
<1>9. AtWork' /\ Ending'
  BY <1>1, <1>2, <1>4 DEF AtWork, Ending
<1>10. Covered' /\ Measured'
  BY <1>1, <1>2, <1>3 DEF Covered, Measured
<1> QED
  BY <1>5, <1>7, <1>8, <1>9, <1>10

\* What the I/O threads do with a connection that they have.
LEMMA PoolingReceives ==
  ASSUME Pooling, NEW c \in Client,
         Receive(c) \/ Hangup(c) \/ IoFinal(c) \/ IoDec(c)
  PROVE  Pooling'
<1> USE DEF Pooling, Receive, Hangup, IoFinal, IoDec, times
<1>1. /\ UNCHANGED <<m_taskQueue, m_connectSockets, Watched, pc, it, pClient,
                     elapsed, sinceRound, entering, stopping, main,
                     m_nHeartCheckGap>>
      /\ \A d : Releasing(d)' <=> Releasing(d)
  BY DEF lists, walk, ends, Watched, Releasing
<1>2. /\ io[c] \in {"port", "final", "dec"}
      /\ io' \in [Client -> {"unborn", "port", "final", "dec", "gone"}]
      /\ io'[c] # "unborn" /\ \A d \in Client : d # c => io'[d] = io[d]
  BY DEF TypeOK
<1>3. /\ m_bComplete' \in [Client -> BOOLEAN]
      /\ \A d \in Client : m_bComplete[d] => m_bComplete'[d]
  BY DEF TypeOK
<1>4. OnePlace' /\ Unknown'
  BY <1>1, <1>2 DEF OnePlace, Unknown
<1>5. \A d \in Client : Pooled(d)' <=> Pooled(d)
  BY <1>1 DEF Pooled
<1>6. References' /\ m_reference' \in [Client -> Int]
  <2>1. \A d \in Client : One(Pooled(d)') = One(Pooled(d))
    BY <1>5 DEF One
  <2>2. CASE IoDec(c)
    BY <1>2, <2>1, <2>2 DEF References, One, TypeOK
  <2>3. CASE Receive(c) \/ Hangup(c) \/ IoFinal(c)
    <3>1. /\ io'[c] \in {"port", "final", "dec"}
          /\ m_reference' = m_reference
      BY <2>3 DEF TypeOK
    <3>2. \A d \in Client : One(io'[d] \in {"port", "final", "dec"})
                              = One(io[d] \in {"port", "final", "dec"})
      BY <1>2, <3>1 DEF One
    <3>3. m_reference' \in [Client -> Int]
      BY <3>1 DEF TypeOK
    <3> QED
      BY <2>1, <3>1, <3>2, <3>3 DEF References
  <2> QED
    BY <2>2, <2>3
<1>7. /\ age' \in [Client -> 0..MaxAge]
      /\ \A d \in Client : age'[d] = age[d] \/ age'[d] = 0
  <2>1. CASE UNCHANGED age
    BY <2>1 DEF TypeOK
  <2>2. CASE age' = [age EXCEPT ![c] = 0]
    BY <2>2, MaxAgeBound DEF TypeOK
  <2> QED
    BY <2>1, <2>2
<1>8. TypeOK'
  <2>1. stopping' \in BOOLEAN
    BY <1>1 DEF TypeOK
  <2>2. m_reference' \in [Client -> 0..2]
    BY <1>6, ReferenceTyped
  <2> QED
    BY <1>1, <1>2, <1>3, <1>7, <2>1, <2>2 DEF TypeOK
<1>9. AtWork' /\ Ending'
  BY <1>1 DEF AtWork, Ending
<1>10. Covered'
  BY <1>1, <1>2, <1>3 DEF Covered
<1>11. Measured'
  BY <1>1, <1>7 DEF Measured, AtWork, TypeOK
<1> QED
  BY <1>4, <1>6, <1>8, <1>9, <1>10, <1>11

\* A second passes for the round and for every connection; the gap changes.
LEMMA PoolingTime ==
  ASSUME Pooling, Tick \/ (\E g \in Gaps : SetHeartGap(g)) \/ UNCHANGED vars
  PROVE  Pooling'
<1> USE DEF Pooling
<1>1. /\ UNCHANGED <<m_taskQueue, m_connectSockets, Watched, pc, it, pClient,
                     elapsed, m_reference, m_bComplete, io, entering,
                     stopping, main>>
      /\ \A d : Releasing(d)' <=> Releasing(d)
  BY DEF Tick, SetHeartGap, vars, lists, walk, clients, ends, Watched,
         Releasing
<1>2. m_nHeartCheckGap' \in Gaps
  BY DEF Tick, SetHeartGap, vars, ends, TypeOK
<1>3. CASE UNCHANGED times
  BY <1>1, <1>2, <1>3
  DEF OnePlace, Unknown, References, Pooled, One, TypeOK, AtWork, Ending,
      Covered, Measured, times
<1>4. CASE Tick
  <2>1. sinceRound' = sinceRound + 1 /\ sinceRound' \in 0..MaxRound
    BY <1>4, MaxAgeBound DEF Tick, TypeOK
  <2>2. \A d \in Client :
          age'[d] = IF age[d] < MaxAge THEN age[d] + 1 ELSE MaxAge
    BY <1>4 DEF Tick
  <2>3. age' \in [Client -> 0..MaxAge]
    BY <1>4, MaxAgeBound DEF Tick, TypeOK
  <2>4. TypeOK'
    <3>1. stopping' \in BOOLEAN /\ m_bComplete' \in [Client -> BOOLEAN]
      BY <1>1 DEF TypeOK
    <3> QED
      BY <1>1, <1>2, <2>1, <2>3, <3>1 DEF TypeOK
  <2>5. Measured'
    <3> SUFFICES ASSUME pc = "judge"
                 PROVE  Measured'
      BY <1>1 DEF Measured
    <3> DEFINE p == pClient
    <3>1. /\ p \in Client /\ age[p] \in 0..MaxAge /\ sinceRound \in 0..MaxRound
          /\ elapsed \in Int
      BY MaxAgeBound DEF AtWork, TypeOK
    <3>2. \/ age[p] = elapsed + sinceRound
          \/ age[p] = MaxAge \/ age[p] <= sinceRound
      BY DEF Measured
    <3>3. /\ age'[p] = IF age[p] < MaxAge THEN age[p] + 1 ELSE MaxAge
          /\ p' = p /\ elapsed' = elapsed
      BY <1>1, <2>2, <3>1
    <3> HIDE DEF p
    <3>4. \/ age'[p] = elapsed' + sinceRound'
          \/ age'[p] = MaxAge \/ age'[p] <= sinceRound'
      BY <2>1, <3>1, <3>2, <3>3, MaxAgeBound
    <3> QED
      BY <3>3, <3>4 DEF Measured, p
  <2> QED
    BY <1>1, <2>4, <2>5
    DEF OnePlace, Unknown, References, Pooled, One, AtWork, Ending, Covered
<1> QED
  BY <1>3, <1>4 DEF SetHeartGap, vars, times

-----------------------------------------------------------------------------
(* The pool's thread.                                                      *)

\* Types of what the thread does not change.
LEMMA TypesKept ==
  ASSUME TypeOK,
         UNCHANGED <<age, sinceRound, m_reference, m_bComplete, io, entering,
                     stopping, main, m_nHeartCheckGap>>,
         m_taskQueue' \in Seq(Client), m_connectSockets' \in Seq(Client),
         it' \in 1..(Len(m_connectSockets') + 1),
         pClient' \in Client \cup {None}, elapsed' \in -MaxRound..MaxAge,
         pc' \in {"check", "round", "heart", "judge", "final", "dec", "clear",
                  "clearing", "finalAll", "decAll", "done"}
  PROVE  TypeOK'
<1>1. stopping' \in BOOLEAN /\ m_bComplete' \in [Client -> BOOLEAN]
  BY DEF TypeOK
<1> QED
  BY <1>1 DEF TypeOK

\* checkQueue(): the queue goes to the list, which is whole then.
LEMMA PoolingChecked ==
  ASSUME Pooling, StartRound \/ Clear
  PROVE  Pooling'
<1> USE DEF Pooling, StartRound, Clear, CheckQueue
<1>1. /\ UNCHANGED <<pClient, elapsed, age, m_reference, m_bComplete, io,
                     entering, stopping, main, m_nHeartCheckGap>>
      /\ pc \in {"round", "clear"} /\ pc' \in {"heart", "clearing"}
      /\ pc' = "clearing" => stopping
      /\ it' = 1 /\ m_taskQueue' = <<>>
      /\ m_connectSockets' = m_connectSockets \o m_taskQueue
      /\ sinceRound' \in {0, sinceRound}
  BY DEF clients, ends, times, Ending
<1>2. m_taskQueue \in Seq(Client) /\ m_connectSockets \in Seq(Client)
  BY DEF TypeOK
<1>3. /\ m_connectSockets' \in Seq(Client)
      /\ \A c : Holds(m_connectSockets', c) <=>
                  Holds(m_connectSockets, c) \/ Holds(m_taskQueue, c)
  BY <1>1, <1>2, HoldsJoined
<1>4. \A c : Holds(m_taskQueue, c) => c \in Client
  BY <1>2, ElementOfSeq, LenProperties DEF Holds
<1>5. Distinct(m_connectSockets')
  BY <1>1, <1>2, <1>4, HoldsJoined DEF OnePlace
<1>6. /\ m_taskQueue' \in Seq(Client) /\ Distinct(m_taskQueue')
      /\ \A c : ~Holds(m_taskQueue', c)
  BY <1>1, HoldsNothing
<1>7. Watched = m_connectSockets /\ Watched' = m_connectSockets'
  <2>1. SubSeq(m_connectSockets', 1, Len(m_connectSockets'))
          = m_connectSockets'
    BY <1>3, SubSeqFull
  <2>2. \/ Watched' = m_connectSockets'
        \/ Watched' = SubSeq(m_connectSockets', 1, Len(m_connectSockets'))
    BY <1>1 DEF Watched
  <2>3. Watched = m_connectSockets
    BY <1>1 DEF Watched
  <2> QED
    BY <2>1, <2>2, <2>3
<1>8. \A c : ~Releasing(c) /\ ~Releasing(c)'
  BY <1>1 DEF Releasing
<1>9. OnePlace' /\ Unknown'
  BY <1>1, <1>3, <1>5, <1>6, <1>7, <1>8 DEF OnePlace, Unknown
<1>10. References'
  <2>1. \A c \in Client : Pooled(c)' <=> Pooled(c)
    BY <1>1, <1>3, <1>6, <1>7, <1>8 DEF Pooled
  <2> QED
    BY <1>1, <2>1 DEF References, One
<1>11. AtWork' /\ Ending' /\ Measured'
  BY <1>1 DEF AtWork, Ending, Measured
<1>12. Covered'
  BY <1>1, <1>3, <1>6, <1>7 DEF Covered
<1>13. TypeOK'
  <2>1. it' \in 1..(Len(m_connectSockets') + 1)
    BY <1>1, <1>3
  <2>2. sinceRound' \in 0..MaxRound
    BY <1>1, MaxAgeBound DEF TypeOK
  <2>3. stopping' \in BOOLEAN /\ m_bComplete' \in [Client -> BOOLEAN]
    BY <1>1 DEF TypeOK
  <2> QED
    BY <1>1, <1>3, <1>6, <2>1, <2>2, <2>3 DEF TypeOK
<1> QED
  BY <1>9, <1>10, <1>11, <1>12, <1>13

\* The thread looks at the next entry of its list, or at isFinal().
LEMMA PoolingLooks ==
  ASSUME Pooling, Loop \/ GetLastHeart
  PROVE  Pooling'
<1> USE DEF Pooling
<1>1. /\ UNCHANGED <<m_taskQueue, m_connectSockets, it, age, sinceRound,
                     m_reference, m_bComplete, io, entering, stopping, main,
                     m_nHeartCheckGap>>
      /\ pc \in {"check", "heart"}
      /\ pc' \in {"clear", "round", "check", "judge"}
      /\ pc' = "clear" => stopping
  BY DEF Loop, GetLastHeart, lists, times, clients, ends
<1>2. /\ m_connectSockets \in Seq(Client) /\ Len(m_connectSockets) \in Nat
      /\ \A n \in 1..Len(m_connectSockets) : m_connectSockets[n] \in Client
      /\ it \in 1..(Len(m_connectSockets) + 1)
  <2>1. /\ m_connectSockets \in Seq(Client)
        /\ it \in 1..(Len(m_connectSockets) + 1)
    BY DEF TypeOK
  <2> QED
    BY <2>1, ElementOfSeq, LenProperties
<1>3. /\ pClient' \in Client \cup {None} /\ elapsed' \in -MaxRound..MaxAge
      /\ pc' = "judge" =>
           /\ pClient' \in Client /\ it <= Len(m_connectSockets)
           /\ pClient' = m_connectSockets[it]
           /\ age[pClient'] = elapsed' + sinceRound
  <2>1. CASE pc' # "judge"
    BY <1>1, <2>1 DEF Loop, GetLastHeart, TypeOK
  <2>2. CASE pc' = "judge"
    <3>1. /\ it <= Len(m_connectSockets) /\ pClient' = m_connectSockets[it]
          /\ elapsed' = age[pClient'] - sinceRound
      BY <1>1, <1>2, <2>2 DEF Loop, GetLastHeart, TypeOK
    <3>2. pClient' \in Client
      BY <1>2, <3>1
    <3>3. age[pClient'] \in 0..MaxAge /\ sinceRound \in 0..MaxRound
      BY <3>2 DEF TypeOK
    <3> QED
      BY <3>1, <3>2, <3>3, MaxAgeBound
  <2> QED
    BY <2>1, <2>2
<1>4. /\ Watched = m_connectSockets /\ Watched' = m_connectSockets'
      /\ \A c : ~Releasing(c) /\ ~Releasing(c)'
  BY <1>1 DEF Watched, Releasing
<1>5. OnePlace' /\ Unknown' /\ Covered'
  BY <1>1, <1>4 DEF OnePlace, Unknown, Covered
<1>6. References'
  <2>1. \A c \in Client : Pooled(c)' <=> Pooled(c)
    BY <1>1, <1>4 DEF Pooled
  <2> QED
    BY <1>1, <2>1 DEF References, One
<1>7. AtWork' /\ Measured'
  BY <1>1, <1>3 DEF AtWork, Measured
<1>8. Ending'
  BY <1>1 DEF Ending
<1>9. TypeOK'
  BY <1>1, <1>3, TypesKept DEF TypeOK
<1> QED
  BY <1>5, <1>6, <1>7, <1>8, <1>9

\* An entry is due and leaves the list, or stays.
LEMMA PoolingJudges ==
  ASSUME Pooling, Judge
  PROVE  Pooling'
<1> USE DEF Pooling
<1>1. /\ UNCHANGED <<m_taskQueue, pClient, age, sinceRound, m_reference,
                     m_bComplete, io, entering, stopping, main,
                     m_nHeartCheckGap>>
      /\ pc = "judge" /\ elapsed' = 0
  BY DEF Judge, times, clients, ends
<1>2. /\ m_connectSockets \in Seq(Client)
      /\ it \in 1..Len(m_connectSockets) /\ Len(m_connectSockets) \in Nat
      /\ pClient \in Client /\ pClient = m_connectSockets[it]
  <2>1. m_connectSockets \in Seq(Client)
    BY DEF TypeOK
  <2> QED
    BY <1>1, <2>1 DEF AtWork, TypeOK
<1>3. Watched = m_connectSockets /\ \A c : ~Releasing(c)
  BY <1>1 DEF Watched, Releasing
<1>4. 0 \in -MaxRound..MaxAge
  BY MaxAgeBound
<1>5. ASSUME Erase, pc' = "final"
      PROVE  Pooling'
  <2>1. /\ m_connectSockets' \in Seq(Client)
        /\ Len(m_connectSockets') = Len(m_connectSockets) - 1
        /\ Distinct(m_connectSockets')
        /\ \A c : Holds(m_connectSockets', c) <=>
                    Holds(m_connectSockets, c) /\ c # pClient
        /\ it' = it
    BY <1>2, <1>5, HoldsErased DEF Erase, OnePlace
  <2>2. Holds(m_connectSockets, pClient)
    BY <1>2, LenProperties DEF Holds
  <2>3. /\ Watched' = m_connectSockets'
        /\ \A c : Releasing(c)' <=> c = pClient
    BY <1>1, <1>5 DEF Watched, Releasing
  <2>4. OnePlace'
    BY <1>1, <1>2, <2>1, <2>2, <2>3 DEF OnePlace
  <2>5. Unknown'
    BY <1>1, <1>2, <2>1, <2>2, <2>3 DEF Unknown
  <2>6. References'
    <3>1. \A c \in Client : Pooled(c)' <=> Pooled(c)
      BY <1>1, <1>3, <2>1, <2>2, <2>3 DEF Pooled
    <3> QED
      BY <1>1, <3>1 DEF References, One
  <2>7. AtWork' /\ Measured' /\ Ending'
    BY <1>1, <1>2, <1>5 DEF AtWork, Measured, Ending
  <2>8. Covered'
    BY <1>1, <1>3, <1>5, <2>1, <2>3 DEF Covered
  <2>9. TypeOK'
    <3>1. it' \in 1..(Len(m_connectSockets') + 1)
      BY <1>2, <2>1
    <3> QED
      BY <1>1, <1>2, <1>4, <1>5, <2>1, <3>1, TypesKept DEF TypeOK
  <2> QED
    BY <2>4, <2>5, <2>6, <2>7, <2>8, <2>9
<1>6. ASSUME it' = it + 1, pc' = "heart", UNCHANGED m_connectSockets
      PROVE  Pooling'
  <2>1. /\ Watched' = m_connectSockets'
        /\ \A c : ~Releasing(c)'
    BY <1>6 DEF Watched, Releasing
  <2>2. OnePlace' /\ Unknown' /\ Covered'
    BY <1>1, <1>3, <1>6, <2>1 DEF OnePlace, Unknown, Covered
  <2>3. References'
    <3>1. \A c \in Client : Pooled(c)' <=> Pooled(c)
      BY <1>1, <1>3, <1>6, <2>1 DEF Pooled
    <3> QED
      BY <1>1, <3>1 DEF References, One
  <2>4. AtWork' /\ Measured' /\ Ending'
    BY <1>1, <1>6 DEF AtWork, Measured, Ending
  <2>5. TypeOK'
    <3>1. it' \in 1..(Len(m_connectSockets') + 1)
      BY <1>2, <1>6
    <3> QED
      BY <1>1, <1>2, <1>4, <1>6, <3>1, TypesKept DEF TypeOK
  <2> QED
    BY <2>2, <2>3, <2>4, <2>5
<1> QED
  BY <1>5, <1>6 DEF Judge

\* release(), first half: the connection is closed.
LEMMA PoolingFinal ==
  ASSUME Pooling, Final
  PROVE  Pooling'
<1> USE DEF Pooling
<1>1. /\ UNCHANGED <<m_taskQueue, m_connectSockets, it, pClient, elapsed, age,
                     sinceRound, m_reference, io, entering, stopping, main,
                     m_nHeartCheckGap>>
      /\ \/ pc = "final" /\ pc' = "dec"
         \/ pc = "finalAll" /\ pc' = "decAll"
      /\ m_bComplete' = [m_bComplete EXCEPT ![pClient] = TRUE]
  BY DEF Final, lists, times, ends
<1>2. Watched' = Watched /\ \A c : Releasing(c)' <=> Releasing(c)
  BY <1>1 DEF Watched, Releasing
<1>3. /\ m_bComplete' \in [Client -> BOOLEAN]
      /\ \A c \in Client : m_bComplete[c] \/ pClient = c => m_bComplete'[c]
  BY <1>1 DEF TypeOK
<1>4. OnePlace' /\ Unknown'
  BY <1>1, <1>2 DEF OnePlace, Unknown
<1>5. References'
  <2>1. \A c \in Client : Pooled(c)' <=> Pooled(c)
    BY <1>1, <1>2 DEF Pooled
  <2> QED
    BY <1>1, <2>1 DEF References, One
<1>6. AtWork' /\ Measured'
  BY <1>1 DEF AtWork, Measured
<1>7. Ending'
  BY <1>1 DEF Ending
<1>8. Covered'
  BY <1>1, <1>2, <1>3 DEF Covered
<1>9. TypeOK'
  <2>1. stopping' \in BOOLEAN
    BY <1>1 DEF TypeOK
  <2>2. pc' \in {"dec", "decAll"}
    BY <1>1
  <2> QED
    BY <1>1, <1>3, <2>1, <2>2 DEF TypeOK
<1> QED
  BY <1>4, <1>5, <1>6, <1>7, <1>8, <1>9

\* release(), second half: the pool has it no more.
LEMMA PoolingDec ==
  ASSUME Pooling, DecReference
  PROVE  Pooling'
<1> USE DEF Pooling
<1>1. /\ UNCHANGED <<m_taskQueue, m_connectSockets, it, elapsed, age,
                     sinceRound, m_bComplete, io, entering, stopping, main,
                     m_nHeartCheckGap>>
      /\ \/ pc = "dec" /\ pc' = "heart"
         \/ pc = "decAll" /\ pc' = "clearing"
      /\ m_reference' = [m_reference EXCEPT ![pClient] = @ - 1]
      /\ pClient' = None
  BY DEF DecReference, AfterDec, lists, times, ends
<1>2. pClient \in Client /\ Releasing(pClient)
  BY <1>1 DEF AtWork, Releasing
<1>3. /\ Watched' = Watched
      /\ \A c : ~Releasing(c)' /\ (Releasing(c) <=> c = pClient)
  BY <1>1 DEF Watched, Releasing
<1>4. OnePlace' /\ Unknown'
  BY <1>1, <1>3 DEF OnePlace, Unknown
<1>5. References' /\ m_reference' \in [Client -> Int]
  <2>1. PICK p \in Client : p = pClient
    BY <1>2
  <2>2. Pooled(p)
    BY <1>2, <2>1 DEF Pooled
  <2>3. ~Pooled(p)'
    <3>1. /\ ~Holds(m_taskQueue, pClient) /\ ~Holds(Watched, pClient)
          /\ pClient \notin entering
      BY <1>2 DEF OnePlace
    <3> QED
      BY <1>1, <1>3, <2>1, <3>1 DEF Pooled
  <2>4. \A c \in Client : c # p => (Pooled(c)' <=> Pooled(c))
    BY <1>1, <1>3, <2>1 DEF Pooled
  <2>5. \A c \in Client : m_reference[c] \in Int
    BY DEF TypeOK
  <2>6. /\ m_reference' \in [Client -> Int]
        /\ m_reference'[p] = m_reference[p] - 1
        /\ \A c \in Client : c # p => m_reference'[c] = m_reference[c]
    BY <1>1, <2>1, <2>5 DEF TypeOK
  <2>7. References'
    <3>1. ASSUME NEW c \in Client
          PROVE  m_reference'[c] =
                   One(Pooled(c)') + One(io'[c] \in {"port", "final", "dec"})
      <4>1. m_reference[c] =
              One(Pooled(c)) + One(io[c] \in {"port", "final", "dec"})
        BY DEF References
      <4>2. io'[c] = io[c]
        BY <1>1
      <4>3. CASE c = p
        BY <2>2, <2>3, <2>6, <4>1, <4>2, <4>3 DEF One
      <4>4. CASE c # p
        BY <2>4, <2>6, <4>1, <4>2, <4>4 DEF One
      <4> QED
        BY <4>3, <4>4
    <3> QED
      BY <3>1 DEF References
  <2> QED
    BY <2>6, <2>7
<1>6. AtWork' /\ Measured' /\ Ending'
  BY <1>1 DEF AtWork, Measured, Ending
<1>7. Covered'
  BY <1>1, <1>3 DEF Covered
<1>8. TypeOK'
  <2>1. stopping' \in BOOLEAN /\ m_bComplete' \in [Client -> BOOLEAN]
    BY <1>1 DEF TypeOK
  <2>2. m_reference' \in [Client -> 0..2]
    BY <1>5, ReferenceTyped
  <2>3. pc' \in {"heart", "clearing"}
    BY <1>1
  <2> QED
    BY <1>1, <2>1, <2>2, <2>3 DEF TypeOK
<1> QED
  BY <1>4, <1>5, <1>6, <1>7, <1>8

\* clear() releases what is left of the list, entry by entry.
LEMMA PoolingClears ==
  ASSUME Pooling, ClearNext
  PROVE  Pooling'
<1> USE DEF Pooling
<1>1. /\ UNCHANGED <<m_taskQueue, elapsed, age, sinceRound, m_reference,
                     m_bComplete, io, entering, stopping, main,
                     m_nHeartCheckGap>>
      /\ pc = "clearing" /\ m_taskQueue = <<>>
      /\ stopping
  BY DEF ClearNext, times, clients, ends, Ending
<1>2. /\ m_connectSockets \in Seq(Client) /\ Len(m_connectSockets) \in Nat
      /\ DOMAIN m_connectSockets = 1..Len(m_connectSockets)
      /\ it \in 1..(Len(m_connectSockets) + 1)
  <2>1. /\ m_connectSockets \in Seq(Client)
        /\ it \in 1..(Len(m_connectSockets) + 1)
    BY DEF TypeOK
  <2> QED
    BY <2>1, LenProperties
<1>3. /\ \A c : Holds(Watched, c) <=> \E n \in it..Len(m_connectSockets) :
                                        m_connectSockets[n] = c
      /\ \A c : ~Releasing(c)
  BY <1>1, WatchedEntries DEF Releasing
<1>4. CASE it > Len(m_connectSockets)
  <2>1. /\ m_connectSockets' = <<>> /\ it' = 1 /\ pClient' = None
        /\ pc' = "done"
    BY <1>4 DEF ClearNext
  <2>2. /\ Watched' = <<>> /\ \A c : ~Releasing(c)'
        /\ \A c : ~Holds(Watched, c)
    BY <1>2, <1>3, <1>4, <2>1 DEF Watched, Releasing
  <2>3. OnePlace' /\ Unknown'
    BY <1>1, <2>1, <2>2, HoldsNothing DEF OnePlace, Unknown
  <2>4. References'
    <3>1. \A c \in Client : Pooled(c)' <=> Pooled(c)
      BY <1>1, <1>3, <2>2, HoldsNothing DEF Pooled
    <3> QED
      BY <1>1, <3>1 DEF References, One
  <2>5. AtWork' /\ Measured' /\ Ending'
    BY <1>1, <2>1 DEF AtWork, Measured, Ending
  <2>6. Covered'
    BY <1>1, <2>1, <2>2 DEF Covered
  <2>7. TypeOK'
    <3>1. it' \in 1..(Len(m_connectSockets') + 1)
      BY <2>1, HoldsNothing
    <3>2. m_connectSockets' \in Seq(Client)
      BY <2>1, HoldsNothing
    <3> QED
      BY <1>1, <2>1, <3>1, <3>2, TypesKept DEF TypeOK
  <2> QED
    BY <2>3, <2>4, <2>5, <2>6, <2>7
<1>5. CASE it <= Len(m_connectSockets)
  <2>1. /\ pClient' = m_connectSockets[it] /\ it' = it + 1
        /\ pc' = "finalAll" /\ m_connectSockets' = m_connectSockets
    BY <1>2, <1>5 DEF ClearNext
  <2>2. PICK p \in Client : p = m_connectSockets[it]
    BY <1>2, <1>5, ElementOfSeq
  <2>3. Holds(m_connectSockets, p)
    BY <1>2, <1>5, <2>2 DEF Holds
  <2>4. \A c : Releasing(c)' <=> c = p
    BY <2>1, <2>2 DEF Releasing
  <2>5. /\ it + 1 \in 1..(Len(m_connectSockets) + 1)
        /\ \A n : n \in it..Len(m_connectSockets) <=>
                    n = it \/ n \in (it + 1)..Len(m_connectSockets)
    BY <1>2, <1>5
  <2>6. \A c : Holds(Watched', c) <=>
                 \E n \in (it + 1)..Len(m_connectSockets) :
                   m_connectSockets[n] = c
    <3>1. Watched' = SubSeq(m_connectSockets, it + 1, Len(m_connectSockets))
      BY <2>1 DEF Watched
    <3> QED
      BY <1>2, <2>5, <3>1, HoldsRest
  <2>7. /\ ~Holds(Watched', p)
        /\ \A c : Holds(Watched, c) <=> c = p \/ Holds(Watched', c)
    <3>1. \A n \in (it + 1)..Len(m_connectSockets) :
            n \in DOMAIN m_connectSockets /\ n # it
      BY <1>2
    <3>2. it \in DOMAIN m_connectSockets
      BY <1>2, <1>5
    <3>3. ~Holds(Watched', p)
      BY <2>2, <2>6, <3>1, <3>2 DEF OnePlace, Distinct
    <3>4. \A c : Holds(Watched, c) <=> c = p \/ Holds(Watched', c)
      BY <1>3, <2>2, <2>5, <2>6
    <3> QED
      BY <3>3, <3>4
  <2>8. OnePlace'
    BY <1>1, <2>1, <2>3, <2>4, <2>7 DEF OnePlace
  <2>9. Unknown'
    BY <1>1, <2>1, <2>3, <2>4 DEF Unknown
  <2>10. References'
    <3>1. \A c \in Client : Pooled(c)' <=> Pooled(c)
      BY <1>1, <1>3, <2>4, <2>7 DEF Pooled
    <3> QED
      BY <1>1, <3>1 DEF References, One
  <2>11. AtWork' /\ Measured' /\ Ending'
    BY <1>1, <2>1, <2>2 DEF AtWork, Measured, Ending
  <2>12. Covered'
    BY <1>1, <2>1, <2>2, <2>7 DEF Covered
  <2>13. TypeOK'
    <3>1. it' \in 1..(Len(m_connectSockets') + 1)
      BY <2>1, <2>5
    <3> QED
      BY <1>1, <1>2, <2>1, <2>2, <3>1, TypesKept DEF TypeOK
  <2> QED
    BY <2>8, <2>9, <2>10, <2>11, <2>12, <2>13
<1> QED
  BY <1>2, <1>4, <1>5

\* main() goes on to the end.
LEMMA PoolingEnds ==
  ASSUME Pooling, LoopEnds \/ Finalize \/ Join
  PROVE  Pooling'
<1> USE DEF Pooling
<1>1. /\ UNCHANGED <<m_taskQueue, m_connectSockets, Watched, pc, it, pClient,
                     elapsed, age, sinceRound, m_reference, m_bComplete, io,
                     entering, m_nHeartCheckGap>>
      /\ \A c : Releasing(c)' <=> Releasing(c)
  BY DEF LoopEnds, Finalize, Join, lists, walk, times, clients, Watched,
         Releasing
<1>2. Ending'
  BY <1>1 DEF LoopEnds, Finalize, Join, Ending
<1>3. main' \in {"loopEnded", "destroying", "destroyed"}
  BY DEF LoopEnds, Finalize, Join
<1>4. stopping' \in BOOLEAN
  BY DEF LoopEnds, Finalize, Join, TypeOK
<1>5. TypeOK'
  <2>1. m_bComplete' \in [Client -> BOOLEAN]
    BY <1>1 DEF TypeOK
  <2> QED
    BY <1>1, <1>3, <1>4, <2>1 DEF TypeOK
<1> QED
  BY <1>1, <1>2, <1>5
  DEF OnePlace, Unknown, References, Pooled, One, AtWork, Covered, Measured

-----------------------------------------------------------------------------
(* The theorems.                                                           *)

\* Every step keeps the inductive invariant.
LEMMA PoolingNext == Pooling /\ [Next]_vars => Pooling'
<1> SUFFICES ASSUME Pooling, [Next]_vars PROVE Pooling'
  OBVIOUS
<1>1. CASE \E c \in Client : OnAccept(c) \/ AddTask(c)
  BY <1>1, PoolingAccepted, PoolingAdded
<1>2. CASE \E c \in Client : Receive(c) \/ Hangup(c) \/ IoFinal(c) \/ IoDec(c)
  BY <1>2, PoolingReceives
<1>3. CASE Tick \/ (\E g \in Gaps : SetHeartGap(g)) \/ UNCHANGED vars
  BY <1>3, PoolingTime
<1>4. CASE PoolStep
  BY <1>4, PoolingChecked, PoolingLooks, PoolingJudges, PoolingFinal,
     PoolingDec, PoolingClears DEF PoolStep
<1>5. CASE LoopEnds \/ Finalize \/ Join
  BY <1>5, PoolingEnds
<1> QED
  BY <1>1, <1>2, <1>3, <1>4, <1>5 DEF Next, IoStep, Ended

LEMMA PoolingHolds == Spec => []Pooling
  BY PoolingInit, PoolingNext, PTL DEF Spec

\* Every variable has its type, for any connections and gaps: the iterator of
\* run() stays in its list, and no count leaves 0..2.
THEOREM TypeCorrect == Spec => []TypeOK
  BY PoolingHolds, PTL DEF Pooling

\* SocketPool.cpp: the pool has one reference to each connection that it was
\* given, wherever it has it, and gives it back once.
THEOREM PoolReferenceHolds == Spec => []PoolReference
<1>1. Pooling => PoolReference
  <2> SUFFICES ASSUME Pooling, NEW c \in Client
               PROVE  m_reference[c] =
                        Count(c, m_taskQueue) + Count(c, Watched)
                          + One(c \in entering) + One(Releasing(c))
                          + One(io[c] \in {"port", "final", "dec"})
    BY DEF PoolReference
  <2> USE DEF Pooling
  <2>1. Distinct(Watched)
    BY HoldsRest DEF OnePlace, Watched, TypeOK
  <2>2. /\ Count(c, m_taskQueue) = One(Holds(m_taskQueue, c))
        /\ Count(c, Watched) = One(Holds(Watched, c))
    BY <2>1, CountDistinct DEF OnePlace
  <2>3. /\ Holds(m_taskQueue, c) =>
             ~Holds(Watched, c) /\ c \notin entering /\ ~Releasing(c)
        /\ Holds(Watched, c) => c \notin entering /\ ~Releasing(c)
        /\ c \in entering => ~Releasing(c)
    BY WatchedEntries DEF OnePlace
  <2>4. One(Pooled(c)) = One(Holds(m_taskQueue, c)) + One(Holds(Watched, c))
                           + One(c \in entering) + One(Releasing(c))
    BY <2>3 DEF Pooled, One
  <2> QED
    BY <2>2, <2>4 DEF References, One
<1> QED
  BY <1>1, PoolingHolds, PTL

\* SocketPool.cpp: ~SocketPool() leaves no connection behind, neither in the
\* queue nor in the list, and each of them is closed.
THEOREM NoneLeftHolds == Spec => []NoneLeft
<1>1. Pooling => NoneLeft
  <2> SUFFICES ASSUME Pooling, main = "destroyed"
               PROVE  /\ m_taskQueue = <<>> /\ m_connectSockets = <<>>
                      /\ \A c \in Client :
                           io[c] # "unborn" => m_bComplete[c]
    BY DEF NoneLeft
  <2>1. /\ pc = "done" /\ m_taskQueue = <<>> /\ m_connectSockets = <<>>
        /\ entering = {}
    BY DEF Pooling, Ending
  <2>2. Watched = <<>>
    BY <2>1 DEF Watched
  <2> QED
    BY <2>1, <2>2, HoldsNothing DEF Pooling, Covered
<1> QED
  BY <1>1, PoolingHolds, PTL

\* SocketPool.cpp: the heart check closes nothing that was heard from within
\* the gap before the round began, for any gaps and whenever they change.
THEOREM HeardIsKeptHolds == Spec => HeardIsKept
<1>1. Pooling /\ [Next]_vars =>
        [\A c \in Client :
           pc = "judge" /\ pc' = "final" /\ pClient = c /\ ~m_bComplete[c] =>
             age[c] > m_nHeartCheckGap \/ age[c] <= sinceRound]_vars
  <2> SUFFICES ASSUME Pooling, [Next]_vars, NEW c \in Client,
                      pc = "judge", pc' = "final", pClient = c,
                      ~m_bComplete[c]
               PROVE  age[c] > m_nHeartCheckGap \/ age[c] <= sinceRound
    OBVIOUS
  <2>1. Judge
    BY DEF Next, PoolStep, IoStep, Ended, OnAccept, AddTask, Receive, Hangup,
           IoFinal, IoDec, Tick, SetHeartGap, Loop, StartRound, GetLastHeart,
           Final, DecReference, AfterDec, Clear, ClearNext, LoopEnds,
           Finalize, Join, vars, walk, clients
  <2>2. Due
    BY <2>1 DEF Judge
  <2>3. elapsed > m_nHeartCheckGap
    BY <2>2 DEF Due
  <2>4. /\ m_nHeartCheckGap \in Gaps /\ sinceRound \in 0..MaxRound
        /\ age[c] \in 0..MaxAge /\ elapsed \in Int
    BY MaxAgeBound DEF Pooling, TypeOK
  <2>5. \/ age[c] = elapsed + sinceRound
        \/ age[c] = MaxAge \/ age[c] <= sinceRound
    BY DEF Pooling, Measured
  <2> QED
    BY <2>3, <2>4, <2>5, MaxAgeBound
<1> QED
  BY <1>1, PoolingHolds, PTL DEF Spec, HeardIsKept

=============================================================================
