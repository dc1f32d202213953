---------------------------- MODULE IOWorkProofs ----------------------------
(***************************************************************************)
(* Theorems about IOWork, for any number of callers, work threads and      *)
(* tasks: its types, the fair distribution of tasks, and that it           *)
(* implements TaskPool.  The refinement needs that a task is in one place  *)
(* at a time; the types need that start() never makes more thread objects  *)
(* than there are, which is shown by counting rounds of its loop.          *)
(***************************************************************************)
EXTENDS IOWork, TLAPS, FiniteSetTheorems, SequenceTheorems

\* Rounds of the loop of start() that are done.
Rounds == {p \in Callers \X (1..m_workThreadNum) : p[2] <= made[p[1]]}

Born == {w \in Workers : wpc[w] # "unborn"}

\* Work threads come into being in turn, one in each round of a loop, and a
\* caller runs the loop once.
ThreadPerRound ==
  /\ Born = 1..Cardinality(Born)
  /\ Cardinality(Born) = Cardinality(Rounds)
  /\ ~m_bIsStart =>
       \A c \in Callers : made[c] = 0 /\ cpc[c] # "push"
  /\ \A c \in Callers : cpc[c] = "mark" => made[c] = 0
  /\ \A c \in Callers : cpc[c] = "push" => made[c] < m_workThreadNum

\* The threads up to the one whose turn it was last have one task more.
Turn ==
  \A j \in Numbers :
    handed[j] =
      handed[0] + IF j \in 1..(m_TaskSize % m_workThreadNum) THEN 1 ELSE 0

\* The tasks that a work thread has.
InThread(w) == doing[w] \cup Seqs!ToSet(queue[w]) \cup Seqs!ToSet(list[w])

\* What a caller adds and a thread executes, depending on where it is.
InHand ==
  /\ \A c \in Callers : cpc[c] = "idle" => adding[c] = {}
  /\ \A c \in Callers :
       cpc[c] # "idle" => \E k \in Task : adding[c] = {k}
  /\ \A w \in Workers : wpc[w] # "exec" => doing[w] = {}

\* A task is with one caller, with one thread or done.
Apart ==
  /\ \A c, d \in Callers : c # d => adding[c] \cap adding[d] = {}
  /\ \A v, w \in Workers : v # w => InThread(v) \cap InThread(w) = {}
  /\ \A c \in Callers, w \in Workers : adding[c] \cap InThread(w) = {}
  /\ \A c \in Callers : adding[c] \cap done = {}
  /\ \A w \in Workers : InThread(w) \cap done = {}

\* A thread has a task once.
Once(w) ==
  /\ doing[w] \cap Seqs!ToSet(queue[w]) = {}
  /\ doing[w] \cap Seqs!ToSet(list[w]) = {}
  /\ Seqs!ToSet(queue[w]) \cap Seqs!ToSet(list[w]) = {}
  /\ IsInjective(queue[w]) /\ IsInjective(list[w])

OnePlace == InHand /\ Apart /\ \A w \in Workers : Once(w)

Working == TypeOK /\ ThreadPerRound /\ Turn /\ OnePlace

-----------------------------------------------------------------------------
(* Sequences without duplicates, as the queues and lists are.              *)

\* Tasks appended to tasks.
LEMMA ConcatMembers ==
  ASSUME NEW S, NEW s \in Seq(S), NEW t \in Seq(S)
  PROVE  /\ Seqs!ToSet(s \o t) = Seqs!ToSet(s) \cup Seqs!ToSet(t)
         /\ IsInjective(s) /\ IsInjective(t) =>
              (Seqs!ToSet(s) \cap Seqs!ToSet(t) = {} => IsInjective(s \o t))
<1> DEFINE u == s \o t
<1>1. /\ Len(s) \in Nat /\ Len(t) \in Nat
      /\ DOMAIN s = 1..Len(s) /\ DOMAIN t = 1..Len(t)
      /\ DOMAIN u = 1..(Len(s) + Len(t))
  BY ConcatProperties, LenProperties
<1>2. \A i \in DOMAIN u :
        \/ i \in DOMAIN s /\ u[i] = s[i]
        \/ ~(i <= Len(s)) /\ i - Len(s) \in DOMAIN t /\ u[i] = t[i - Len(s)]
  <2> TAKE i \in DOMAIN u
  <2>1. u[i] = IF i <= Len(s) THEN s[i] ELSE t[i - Len(s)]
    BY <1>1, ConcatProperties
  <2> HIDE DEF u
  <2> QED
    BY <1>1, <2>1
<1>3. Seqs!ToSet(u) = Seqs!ToSet(s) \cup Seqs!ToSet(t)
  <2>1. \A v : Seqs!ToSet(v) = Range(v)
    BY DEF Range, Seqs!ToSet
  <2> QED
    BY <2>1, RangeConcatenation
<1>4. ASSUME IsInjective(s), IsInjective(t),
             Seqs!ToSet(s) \cap Seqs!ToSet(t) = {},
             NEW i \in DOMAIN u, NEW j \in DOMAIN u, u[i] = u[j]
      PROVE  i = j
  <2> HIDE DEF u
  <2>1. \A m \in DOMAIN s, n \in DOMAIN t : s[m] # t[n]
    BY <1>4 DEF Seqs!ToSet
  <2>2. CASE i \in DOMAIN s /\ u[i] = s[i]
    BY <1>2, <1>4, <2>1, <2>2 DEF IsInjective
  <2>3. CASE i - Len(s) \in DOMAIN t /\ u[i] = t[i - Len(s)]
    <3>1. j - Len(s) \in DOMAIN t /\ u[j] = t[j - Len(s)]
      BY <1>2, <1>4, <2>1, <2>3
    <3>2. i - Len(s) = j - Len(s)
      BY <1>4, <2>3, <3>1 DEF IsInjective
    <3> QED
      BY <1>1, <3>2
  <2> QED
    BY <1>2, <2>2, <2>3
<1> QED
  BY <1>3, <1>4 DEF IsInjective

\* One task appended.
LEMMA AppendMembers ==
  ASSUME NEW S, NEW s \in Seq(S), NEW e \in S
  PROVE  /\ Append(s, e) \in Seq(S)
         /\ Seqs!ToSet(Append(s, e)) = Seqs!ToSet(s) \cup {e}
         /\ IsInjective(s) /\ e \notin Seqs!ToSet(s) =>
              IsInjective(Append(s, e))
<1>1. /\ <<e>> \in Seq(S) /\ Append(s, e) = s \o <<e>>
      /\ Append(s, e) \in Seq(S)
  BY AppendIsConcat
<1>2. Seqs!ToSet(<<e>>) = {e} /\ IsInjective(<<e>>)
  BY DEF Seqs!ToSet, IsInjective
<1> QED
  BY <1>1, <1>2, ConcatMembers

\* The last task taken from a list.
LEMMA LastLeaves ==
  ASSUME NEW S, NEW s \in Seq(S), s # <<>>
  PROVE  /\ Seqs!Front(s) \in Seq(S) /\ Seqs!Last(s) \in S
         /\ Seqs!ToSet(s) = Seqs!ToSet(Seqs!Front(s)) \cup {Seqs!Last(s)}
         /\ IsInjective(s) => /\ IsInjective(Seqs!Front(s))
                              /\ Seqs!Last(s) \notin Seqs!ToSet(Seqs!Front(s))
<1> DEFINE f == Seqs!Front(s)
<1>1. /\ Len(s) \in Nat \ {0} /\ DOMAIN s = 1..Len(s)
      /\ \A i \in 1..Len(s) : s[i] \in S
  BY EmptySeq, LenProperties, ElementOfSeq
<1>2. /\ f \in Seq(S) /\ DOMAIN f = 1..(Len(s) - 1)
      /\ \A i \in 1..(Len(s) - 1) : f[i] = s[i]
  BY <1>1, SubSeqProperties, LenProperties DEF Seqs!Front
<1> HIDE DEF f
<1>3. Seqs!ToSet(s) = Seqs!ToSet(f) \cup {s[Len(s)]}
  BY <1>1, <1>2 DEF Seqs!ToSet
<1>4. ASSUME IsInjective(s)
      PROVE  IsInjective(f) /\ s[Len(s)] \notin Seqs!ToSet(f)
  BY <1>1, <1>2, <1>4 DEF IsInjective, Seqs!ToSet
<1> QED
  BY <1>1, <1>2, <1>3, <1>4 DEF f, Seqs!Last

\* Where the members come from.
LEMMA MembersTyped ==
  ASSUME NEW S, NEW s \in Seq(S)
  PROVE  Seqs!ToSet(s) \subseteq S
<1>1. Seqs!ToSet(s) = Range(s)
  BY DEF Range, Seqs!ToSet
<1> QED
  BY <1>1, RangeOfSeq

\* The empty list.
LEMMA EmptyMembers ==
  ASSUME NEW S
  PROVE  /\ <<>> \in Seq(S)
         /\ Seqs!ToSet(<<>>) = {} /\ IsInjective(<<>>)
  BY EmptySeq DEF Seqs!ToSet, IsInjective

-----------------------------------------------------------------------------
(* m_TaskSize counts modulo the number of threads, too.                    *)

\* Two ways to divide by n leave the same remainder.
LEMMA RemainderUnique ==
  ASSUME NEW n \in Nat \ {0}, NEW p \in Int, NEW q \in Int,
         NEW a \in 0..(n - 1), NEW b \in 0..(n - 1), n * p + a = n * q + b
  PROVE  a = b
<1>1. ASSUME NEW i \in Int, NEW j \in Int, i < j
      PROVE  n * i + n <= n * j
  <2>1. n * j = n * i + n + n * (j - i - 1)
    BY <1>1
  <2>2. n * (j - i - 1) \in Nat
    BY <1>1
  <2> DEFINE x == n * i
             y == n * j
             z == n * (j - i - 1)
  <2>3. x \in Int /\ y \in Int
    OBVIOUS
  <2> HIDE DEF x, y, z
  <2>4. y = x + n + z /\ z \in Nat
    BY <2>1, <2>2 DEF x, y, z
  <2>5. x + n <= y
    BY <2>3, <2>4
  <2> QED
    BY <2>5 DEF x, y
<1> DEFINE x == n * p
           y == n * q
<1>2. x \in Int /\ y \in Int
  OBVIOUS
<1>3. p < q => x + n <= y
  BY <1>1
<1>4. q < p => y + n <= x
  BY <1>1
<1>5. p = q => x = y
  OBVIOUS
<1> HIDE DEF x, y
<1>6. x + a = y + b
  BY DEF x, y
<1> QED
  BY <1>2, <1>3, <1>4, <1>5, <1>6

\* What one more does to a remainder.
LEMMA RemainderNext ==
  ASSUME NEW m \in Nat, NEW n \in Nat \ {0}
  PROVE  /\ m % n \in 0..(n - 1)
         /\ (m + 1) % n = IF (m % n) + 1 < n THEN (m % n) + 1 ELSE 0
<1> DEFINE q == m \div n
           r == m % n
           p == (m + 1) \div n
           s == (m + 1) % n
<1>1. /\ m = n * q + r /\ r \in 0..(n - 1) /\ q \in Int
      /\ m + 1 = n * p + s /\ s \in 0..(n - 1) /\ p \in Int
  BY SMT
<1> HIDE DEF p, q, r, s
<1>2. CASE r + 1 < n
  <2>1. n * p + s = n * q + (r + 1) /\ r + 1 \in 0..(n - 1)
    BY <1>1, <1>2
  <2> QED
    BY <1>1, <1>2, <2>1, RemainderUnique DEF r, s
<1>3. CASE r + 1 = n
  <2>1. n * p + s = n * (q + 1) + 0 /\ 0 \in 0..(n - 1) /\ q + 1 \in Int
    BY <1>1, <1>3
  <2>2. s = 0
    BY <1>1, <2>1, RemainderUnique
  <2> QED
    BY <1>1, <1>3, <2>2 DEF r, s
<1> QED
  BY <1>1, <1>2, <1>3 DEF r

-----------------------------------------------------------------------------
(* The rounds of start()'s loop.                                           *)

\* A loop has m_workThreadNum rounds.
LEMMA ThreadNumbers ==
  /\ IsFiniteSet(1..m_workThreadNum)
  /\ Cardinality(1..m_workThreadNum) = m_workThreadNum
<1>1. m_workThreadNum \in Nat \ {0}
  BY WorkAssumption
<1>2. 1 \in Int /\ m_workThreadNum \in Int /\ ~(1 > m_workThreadNum)
  BY <1>1
<1>3. Cardinality(1..m_workThreadNum) = (m_workThreadNum - 1) + 1
  BY <1>2, FS_Interval
<1>4. IsFiniteSet(1..m_workThreadNum)
  BY <1>2, FS_Interval
<1> QED
  BY <1>1, <1>3, <1>4

\* What is counted is finite.
LEMMA Counting ==
  ASSUME TypeOK
  PROVE  /\ Cardinality(Callers) \in Nat
         /\ m_workThreadNum * Cardinality(Callers) \in Nat
         /\ IsFiniteSet(Rounds) /\ Cardinality(Rounds) \in Nat
         /\ IsFiniteSet(Born) /\ Cardinality(Born) \in Nat
         /\ Born \subseteq Workers
<1> USE WorkAssumption
<1>1. Cardinality(Callers) \in Nat /\ IsFiniteSet(1..m_workThreadNum)
  BY ThreadNumbers, FS_CardinalityType
<1>2. IsFiniteSet(Callers \X (1..m_workThreadNum))
  BY <1>1, FS_Product
<1>3. IsFiniteSet(Rounds)
  BY <1>2, FS_Subset DEF Rounds
<1>4. m_workThreadNum * Cardinality(Callers) \in Nat
  BY <1>1
<1>5. IsFiniteSet(Workers)
  BY <1>4, FS_Interval DEF Workers
<1>6. IsFiniteSet(Born) /\ Born \subseteq Workers
  BY <1>5, FS_Subset DEF Born
<1> QED
  BY <1>1, <1>3, <1>4, <1>6, FS_CardinalityType

\* As long as a caller is in the loop, there is a thread object left for it.
LEMMA ThreadLeft ==
  ASSUME TypeOK, ThreadPerRound, NEW c \in Callers, cpc[c] = "push"
  PROVE  /\ NewWorker \in Workers /\ NewWorker \notin Born
         /\ NewWorker = Cardinality(Born) + 1
         /\ made[c] + 1 \in 1..m_workThreadNum
         /\ <<c, made[c] + 1>> \notin Rounds
<1> USE WorkAssumption
<1> DEFINE All == Callers \X (1..m_workThreadNum)
<1>1. made[c] + 1 \in 1..m_workThreadNum /\ made[c] \in Nat
  BY DEF TypeOK, ThreadPerRound
<1>2. <<c, made[c] + 1>> \in All /\ <<c, made[c] + 1>> \notin Rounds
  BY <1>1 DEF Rounds
<1>3. /\ IsFiniteSet(All)
      /\ Cardinality(All) = Cardinality(Callers) * m_workThreadNum
  BY FS_Product, ThreadNumbers
<1>4. Rounds \subseteq All /\ Rounds # All
  BY <1>2 DEF Rounds
<1>5. Cardinality(Rounds) < Cardinality(All)
  <2>1. Cardinality(Rounds) <= Cardinality(All)
    BY <1>3, <1>4, FS_Subset
  <2>2. Cardinality(Rounds) # Cardinality(All)
    BY <1>3, <1>4, FS_Subset
  <2>3. Cardinality(All) \in Nat
    BY <1>3, FS_CardinalityType
  <2>4. Cardinality(Rounds) \in Nat
    BY Counting
  <2> HIDE DEF All
  <2> QED
    BY <2>1, <2>2, <2>3, <2>4
<1>6. NewWorker = Cardinality(Born) + 1
  BY Counting DEF NewWorker, Born
<1>7. m_workThreadNum * Cardinality(Callers)
        = Cardinality(Callers) * m_workThreadNum
  BY Counting
<1> HIDE DEF All
<1>8. NewWorker \in Workers
  BY <1>3, <1>5, <1>6, <1>7, Counting DEF Workers, ThreadPerRound
<1>9. NewWorker \notin Born
  BY <1>6, Counting DEF ThreadPerRound
<1> QED
  BY <1>1, <1>2, <1>6, <1>8, <1>9

LEMMA ThreadPerRoundPush ==
  ASSUME TypeOK, ThreadPerRound, NEW c \in Callers, PushThread(c)
  PROVE  ThreadPerRound'
<1> USE WorkAssumption DEF PushThread, Running, Goto
<1>1. cpc[c] = "push" /\ made' = [made EXCEPT ![c] = @ + 1]
  OBVIOUS
<1>2. Born' = Born \cup {NewWorker}
  BY <1>1, ThreadLeft DEF Born, TypeOK
<1>3. Rounds' = Rounds \cup {<<c, made[c] + 1>>}
  <2>1. \A d \in Callers : made[d] \in Nat
    BY DEF TypeOK
  <2>2. \A d \in Callers :
          made'[d] = IF d = c THEN made[c] + 1 ELSE made[d]
    BY <1>1 DEF TypeOK
  <2>3. \A d \in Callers, n \in 1..m_workThreadNum :
          n <= made'[d] <=> n <= made[d] \/ (d = c /\ n = made[c] + 1)
    BY <2>1, <2>2
  <2>4. made[c] + 1 \in 1..m_workThreadNum
    BY <1>1, ThreadLeft
  <2> QED
    BY <2>3, <2>4 DEF Rounds
<1>4. Cardinality(Born') = Cardinality(Born) + 1
  BY <1>1, <1>2, ThreadLeft, Counting, FS_AddElement
<1>5. Cardinality(Rounds') = Cardinality(Rounds) + 1
  BY <1>1, <1>3, ThreadLeft, Counting, FS_AddElement
<1>6. Born' = 1..Cardinality(Born')
  <2>1. 1..(Cardinality(Born) + 1)
          = (1..Cardinality(Born)) \cup {Cardinality(Born) + 1}
    BY Counting
  <2> QED
    BY <1>1, <1>2, <1>4, <2>1, ThreadLeft DEF ThreadPerRound
<1>7. \A d \in Callers : cpc'[d] = "mark" => made'[d] = 0
  BY <1>1 DEF ThreadPerRound, TypeOK
<1>8. \A d \in Callers : cpc'[d] = "push" => made'[d] < m_workThreadNum
  BY <1>1 DEF ThreadPerRound, TypeOK
<1>9. m_bIsStart'
  BY DEF ThreadPerRound, TypeOK
<1> QED
  BY <1>4, <1>5, <1>6, <1>7, <1>8, <1>9 DEF ThreadPerRound

-----------------------------------------------------------------------------
(* The types, and what the rounds and the turns are kept by.               *)

LEMMA WorkingInit == Init => Working
<1> SUFFICES ASSUME Init PROVE Working
  OBVIOUS
<1> USE WorkAssumption DEF Init
<1>1. TypeOK
  <2>1. bIsStart \in BOOLEAN /\ m_bIsStart \in BOOLEAN /\ undefined \in BOOLEAN
    OBVIOUS
  <2>2. closing \in BOOLEAN
    OBVIOUS
  <2>3. m_TaskSize \in 0..(2^UIntBits - 1) /\ m_ThreadList \in Seq(Workers)
    OBVIOUS
  <2>4. 0 \in Numbers /\ 0 \in 0..m_workThreadNum
    BY DEF Numbers
  <2> QED
    BY <2>1, <2>2, <2>3, <2>4 DEF TypeOK
<1>2. Rounds = {} /\ Born = {}
  BY DEF Rounds, Born
<1>3. ThreadPerRound
  <2>1. 1..0 = {} /\ Cardinality(Born) = 0 /\ Cardinality(Rounds) = 0
    BY <1>2, FS_EmptySet
  <2> QED
    BY <1>2, <2>1 DEF ThreadPerRound
<1>4. Turn
  <2>1. 0 % m_workThreadNum = 0
    OBVIOUS
  <2>2. \A j \in Numbers : j \notin 1..0
    OBVIOUS
  <2> QED
    BY <2>1, <2>2 DEF Turn, Numbers
<1>5. OnePlace
  BY EmptyMembers DEF OnePlace, InHand, Apart, Once, InThread
<1> QED
  BY <1>1, <1>3, <1>4, <1>5 DEF Working

\* addTask() either is undefined or adds the task to the queue of one thread.
LEMMA TaskIsPut ==
  ASSUME TypeOK, NEW c \in Callers, PutTask(c)
  PROVE  \/ UNCHANGED <<adding, queue, cpc>>
         \/ \E w \in Workers, k \in adding[c] :
              /\ queue' = [queue EXCEPT ![w] = Append(@, k)]
              /\ adding' = [adding EXCEPT ![c] = {}]
              /\ cpc' = [cpc EXCEPT ![c] = "idle"]
<1> DEFINE w == m_ThreadList[nIndex[c] + 1]
<1>1. CASE UNCHANGED <<adding, queue, cpc>>
  BY <1>1
<1>2. CASE /\ ~NoThread(c)
           /\ \E k \in adding[c] :
                queue' = [queue EXCEPT ![w] = Append(@, k)]
           /\ adding' = [adding EXCEPT ![c] = {}]
           /\ Goto(c, "idle")
  <2>1. w \in Workers
    BY <1>2, ElementOfSeq, LenProperties DEF NoThread, TypeOK
  <2> HIDE DEF w
  <2> QED
    BY <1>2, <2>1 DEF Goto
<1> QED
  BY <1>1, <1>2 DEF PutTask

\* The types, when a caller steps.
LEMMA TypesCaller ==
  ASSUME TypeOK, ThreadPerRound, NEW c \in Callers,
         AddStep(c) \/ \E k \in Task : GetInstance(c, k)
  PROVE  TypeOK'
<1> USE WorkAssumption
    DEF Running, Goto, startup, worker, caller, ending
<1>1. CASE \E k \in Task : GetInstance(c, k)
  BY <1>1 DEF GetInstance, TypeOK
<1>2. CASE Start(c)
  BY <1>2 DEF Start, TypeOK
<1>3. CASE MarkStart(c)
  BY <1>3 DEF MarkStart, TypeOK
<1>4. CASE PushThread(c)
  <2>1. NewWorker \in Workers /\ made[c] + 1 \in 0..m_workThreadNum
    <3>1. cpc[c] = "push"
      BY <1>4 DEF PushThread
    <3>2. NewWorker \in Workers /\ made[c] + 1 \in 1..m_workThreadNum
      BY <3>1, ThreadLeft
    <3> QED
      BY <3>2
  <2>2. undefined' \in BOOLEAN
    BY <1>4 DEF PushThread, Raced
  <2>3. m_ThreadList' \in Seq(Workers)
    BY <1>4, <2>1 DEF PushThread, TypeOK
  <2>4. /\ made' \in [Callers -> 0..m_workThreadNum]
        /\ wpc' \in [Workers -> {"unborn", "loop", "drain", "exec", "ended",
                                  "deleted"}]
        /\ cpc' \in [Callers -> {"idle", "start", "mark", "push", "started",
                                  "number", "put"}]
    BY <1>4, <2>1 DEF PushThread, TypeOK
  <2> QED
    BY <1>4, <2>2, <2>3, <2>4 DEF PushThread, TypeOK
<1>5. CASE Started(c)
  BY <1>5 DEF Started, TypeOK
<1>6. CASE NumberTask(c)
  <2>1. m_TaskSize' \in 0..(2^UIntBits - 1)
    <3> DEFINE m == m_TaskSize + 1
               n == 2^UIntBits
    <3>1. m \in Nat /\ n \in Nat \ {0}
      BY DEF TypeOK
    <3> HIDE DEF m, n
    <3>2. m % n \in 0..(n - 1)
      BY <3>1, RemainderNext
    <3> QED
      BY <1>6, <3>2 DEF NumberTask, m, n
  <2>2. nIndex'[c] \in Numbers /\ nIndex' \in [Callers -> Numbers]
    <3>1. m_TaskSize' \in Nat
      BY <2>1
    <3>2. m_TaskSize' % m_workThreadNum \in Numbers
      BY <3>1, RemainderNext DEF Numbers
    <3> QED
      BY <1>6, <3>2 DEF NumberTask, TypeOK
  <2>3. handed' \in [Numbers -> Nat]
    BY <1>6, <2>2 DEF NumberTask, TypeOK
  <2> QED
    BY <1>6, <2>1, <2>2, <2>3 DEF NumberTask, TypeOK
<1>7. CASE PutTask(c)
  <2>1. undefined' \in BOOLEAN
    BY <1>7 DEF PutTask, TypeOK
  <2>2. adding' \in [Callers -> SUBSET Task]
    BY <1>7 DEF PutTask, TypeOK
  <2>3. queue' \in [Workers -> Seq(Task)]
    <3>1. CASE UNCHANGED queue
      BY <3>1 DEF TypeOK
    <3>2. CASE ~UNCHANGED queue
      <4>1. PICK w \in Workers, k \in adding[c] :
              queue' = [queue EXCEPT ![w] = Append(@, k)]
        BY <1>7, <3>2, TaskIsPut
      <4>2. k \in Task /\ queue \in [Workers -> Seq(Task)]
        BY DEF TypeOK
      <4>3. Append(queue[w], k) \in Seq(Task)
        BY <4>2, AppendMembers
      <4> QED
        BY <4>1, <4>2, <4>3
    <3> QED
      BY <3>1, <3>2
  <2>4. cpc' \in [Callers -> {"idle", "start", "mark", "push", "started",
                               "number", "put"}]
    BY <1>7 DEF PutTask, TypeOK
  <2> QED
    BY <1>7, <2>1, <2>2, <2>3, <2>4 DEF PutTask, TypeOK
<1> QED
  BY <1>1, <1>2, <1>3, <1>4, <1>5, <1>6, <1>7 DEF AddStep

\* The types, when a work thread steps.
LEMMA TypesWorker ==
  ASSUME TypeOK, NEW w \in Workers, WorkStep(w)
  PROVE  TypeOK'
<1> USE DEF startup, caller, ending
<1>1. CASE CheckQueue(w)
  BY <1>1 DEF CheckQueue, TypeOK
<1>2. CASE TakeTask(w)
  <2>1. Seqs!Front(list[w]) \in Seq(Task) /\ Seqs!Last(list[w]) \in Task
    BY <1>2, LastLeaves DEF TakeTask, TypeOK
  <2> QED
    BY <1>2, <2>1 DEF TakeTask, TypeOK
<1>3. CASE Exec(w)
  BY <1>3 DEF Exec, TypeOK
<1>4. CASE LeaveDrain(w) \/ LeaveLoop(w)
  BY <1>4 DEF LeaveDrain, LeaveLoop, TypeOK
<1> QED
  BY <1>1, <1>2, <1>3, <1>4 DEF WorkStep

\* The types, when the program ends.
LEMMA TypesEnd ==
  ASSUME TypeOK, Close \/ CloseStep \/ UNCHANGED vars
  PROVE  TypeOK'
<1> USE DEF startup, caller, worker, ending
<1>1. CASE Close \/ UNCHANGED vars
  BY <1>1 DEF Close, TypeOK, vars
<1>2. CASE StopThread
  <2>1. Seqs!Last(m_ThreadList) \in Workers
    BY <1>2, LastLeaves DEF StopThread, TypeOK
  <2> QED
    BY <1>2, <2>1 DEF StopThread, TypeOK
<1>3. CASE DeleteThread
  <2> DEFINE w == Seqs!Last(m_ThreadList)
  <2>1. Seqs!Front(m_ThreadList) \in Seq(Workers) /\ w \in Workers
    BY <1>3, LastLeaves DEF DeleteThread, TypeOK
  <2>2. queue[w] \in Seq(Task) /\ list[w] \in Seq(Task)
    BY <2>1 DEF TypeOK
  <2>3. Seqs!ToSet(queue[w] \o list[w]) \subseteq Task
    <3>1. queue[w] \o list[w] \in Seq(Task)
      BY <2>2
    <3> QED
      BY <3>1, MembersTyped
  <2> HIDE DEF w
  <2>4. m_ThreadList' \in Seq(Workers) /\ done' \subseteq Task
    BY <1>3, <2>1, <2>3 DEF DeleteThread, TypeOK, w
  <2>5. /\ queue' = [queue EXCEPT ![w] = <<>>]
        /\ list' = [list EXCEPT ![w] = <<>>]
        /\ wpc' = [wpc EXCEPT ![w] = "deleted"]
    BY <1>3 DEF DeleteThread, w
  <2>6. <<>> \in Seq(Task)
    BY EmptyMembers
  <2>7. queue' \in [Workers -> Seq(Task)] /\ list' \in [Workers -> Seq(Task)]
    BY <2>5, <2>6 DEF TypeOK
  <2>8. wpc' \in [Workers -> {"unborn", "loop", "drain", "exec", "ended",
                               "deleted"}]
    BY <2>5 DEF TypeOK
  <2> QED
    BY <1>3, <2>4, <2>7, <2>8 DEF DeleteThread, TypeOK
<1> QED
  BY <1>1, <1>2, <1>3 DEF CloseStep

LEMMA TypesNext ==
  ASSUME TypeOK, ThreadPerRound, [Next]_vars
  PROVE  TypeOK'
  BY TypesCaller, TypesWorker, TypesEnd DEF Next, Stutter

\* No other step than a round of the loop makes a thread.
LEMMA ThreadPerRoundNext ==
  ASSUME TypeOK, ThreadPerRound, [Next]_vars
  PROVE  ThreadPerRound'
<1> USE DEF Running, Goto, startup, worker, caller, ending
<1>1. ASSUME UNCHANGED made, Born' = Born,
             m_bIsStart => m_bIsStart',
             \A c \in Callers : /\ cpc'[c] = "push" =>
                                     cpc[c] = "push" \/ cpc[c] = "mark"
                                /\ cpc'[c] = "push" => m_bIsStart'
                                /\ cpc'[c] = "mark" =>
                                     cpc[c] = "mark" \/ ~m_bIsStart
      PROVE  ThreadPerRound'
  <2>1. Rounds' = Rounds
    BY <1>1 DEF Rounds
  <2>2. m_workThreadNum > 0
    BY WorkAssumption
  <2>3. \A c \in Callers : cpc'[c] = "mark" => made'[c] = 0
    BY <1>1 DEF ThreadPerRound
  <2>4. \A c \in Callers : cpc'[c] = "push" => made'[c] < m_workThreadNum
    BY <1>1, <2>2 DEF ThreadPerRound
  <2>5. ~m_bIsStart' =>
          \A c \in Callers : made'[c] = 0 /\ cpc'[c] # "push"
    BY <1>1 DEF ThreadPerRound
  <2>6. /\ Born' = 1..Cardinality(Born')
        /\ Cardinality(Born') = Cardinality(Rounds')
    BY <1>1, <2>1 DEF ThreadPerRound
  <2> QED
    BY <2>3, <2>4, <2>5, <2>6 DEF ThreadPerRound
<1>2. ASSUME NEW c \in Callers,
             \/ \E k \in Task : GetInstance(c, k)
             \/ Start(c) \/ Started(c) \/ NumberTask(c) \/ PutTask(c)
      PROVE  ThreadPerRound'
  <2>1. UNCHANGED made /\ UNCHANGED wpc /\ UNCHANGED m_bIsStart
    BY <1>2 DEF GetInstance, Start, Started, NumberTask, PutTask
  <2>2. Born' = Born
    BY <2>1 DEF Born
  <2>3. \A d \in Callers : cpc'[d] = "push" => cpc[d] = "push"
    BY <1>2 DEF GetInstance, Start, Started, NumberTask, PutTask, TypeOK
  <2>4. \A d \in Callers : cpc'[d] = "mark" => cpc[d] = "mark" \/ ~m_bIsStart
    BY <1>2 DEF GetInstance, Start, Started, NumberTask, PutTask, TypeOK
  <2> QED
    BY <1>1, <2>1, <2>2, <2>3, <2>4 DEF ThreadPerRound
<1>3. ASSUME NEW c \in Callers, MarkStart(c)
      PROVE  ThreadPerRound'
  <2>1. UNCHANGED made /\ UNCHANGED wpc /\ m_bIsStart'
    BY <1>3 DEF MarkStart
  <2>2. Born' = Born
    BY <2>1 DEF Born
  <2>3. \A d \in Callers : /\ cpc'[d] = "push" =>
                                cpc[d] = "push" \/ cpc[d] = "mark"
                           /\ cpc'[d] = "mark" => cpc[d] = "mark"
    BY <1>3 DEF MarkStart, TypeOK
  <2> QED
    BY <1>1, <2>1, <2>2, <2>3
<1>4. ASSUME NEW w \in Workers, WorkStep(w)
      PROVE  ThreadPerRound'
  <2>1. UNCHANGED <<made, cpc, m_bIsStart>>
    BY <1>4 DEF WorkStep, CheckQueue, TakeTask, Exec, LeaveDrain, LeaveLoop
  <2>2. /\ wpc[w] # "unborn"
        /\ \E l \in {"loop", "drain", "exec", "ended"} :
             wpc' = [wpc EXCEPT ![w] = l]
    BY <1>4 DEF WorkStep, CheckQueue, TakeTask, Exec, LeaveDrain, LeaveLoop
  <2>3. Born' = Born
    BY <2>2 DEF Born, TypeOK
  <2> QED
    BY <1>1, <2>1, <2>3 DEF ThreadPerRound
<1>5. ASSUME Close \/ StopThread \/ UNCHANGED vars
      PROVE  ThreadPerRound'
  <2>1. UNCHANGED <<made, cpc, m_bIsStart, wpc>>
    BY <1>5 DEF Close, StopThread, vars
  <2>2. Born' = Born
    BY <2>1 DEF Born
  <2> QED
    BY <1>1, <2>1, <2>2 DEF ThreadPerRound
<1>6. ASSUME DeleteThread
      PROVE  ThreadPerRound'
  <2>1. UNCHANGED <<made, cpc, m_bIsStart>>
    BY <1>6 DEF DeleteThread
  <2>2. \E w : wpc[w] # "unborn" /\ wpc' = [wpc EXCEPT ![w] = "deleted"]
    BY <1>6 DEF DeleteThread
  <2>3. Born' = Born
    BY <2>2 DEF Born, TypeOK
  <2> QED
    BY <1>1, <2>1, <2>3 DEF ThreadPerRound
<1> QED
  BY <1>2, <1>3, <1>4, <1>5, <1>6, ThreadPerRoundPush
  DEF Next, AddStep, CloseStep, Stutter

-----------------------------------------------------------------------------
(* Each thread in turn.                                                    *)

\* The step that numbers a task gives it to the thread whose turn it is.
LEMMA TurnNext ==
  ASSUME TypeOK, Turn, [Next]_vars
  PROVE  Turn'
<1> USE WorkAssumption
<1> DEFINE n == m_workThreadNum
           r == m_TaskSize % n
<1>1. CASE UNCHANGED <<m_TaskSize, handed>>
  BY <1>1 DEF Turn
<1>2. ASSUME NEW c \in Callers, NumberTask(c)
      PROVE  Turn'
  <2> DEFINE i == m_TaskSize' % n
  <2>1. m_TaskSize \in Nat /\ r \in 0..(n - 1)
    <3>1. m_TaskSize \in Nat
      BY DEF TypeOK
    <3> QED
      BY <3>1, RemainderNext
  <2>2. i = (m_TaskSize + 1) % n
    <3>1. m_TaskSize' = (m_TaskSize + 1) % 2^UIntBits
      BY <1>2 DEF NumberTask
    <3> DEFINE b == 2^UIntBits
    <3>2. b \in Nat \ {0} /\ b % n = 0 /\ m_TaskSize \in 0..(b - 1)
      BY DEF TypeOK
    <3>3. m_TaskSize' = (m_TaskSize + 1) % b
      BY <3>1
    <3> HIDE DEF b
    <3>4. CASE m_TaskSize + 1 < b
      BY <3>2, <3>3, <3>4
    <3>5. CASE m_TaskSize + 1 = b
      <4>1. m_TaskSize' = 0
        BY <3>2, <3>3, <3>5
      <4>2. 0 % n = 0
        OBVIOUS
      <4> QED
        BY <3>2, <3>5, <4>1, <4>2
    <3> QED
      BY <3>2, <3>4, <3>5
  <2>3. i = IF r + 1 < n THEN r + 1 ELSE 0
    BY <2>1, <2>2, RemainderNext
  <2>4. handed' = [handed EXCEPT ![i] = @ + 1]
    BY <1>2 DEF NumberTask, TypeOK
  <2> HIDE DEF i, r
  <2>5. n \in Nat \ {0} /\ handed \in [0..(n - 1) -> Nat]
    BY DEF TypeOK, Numbers
  <2>6. \A j \in 0..(n - 1) :
          handed[j] = handed[0] + IF j \in 1..r THEN 1 ELSE 0
    BY DEF Turn, Numbers, r
  <2>7. \A j \in 0..(n - 1) :
          handed'[j] = handed'[0] + IF j \in 1..i THEN 1 ELSE 0
    <3> HIDE DEF n
    <3>1. \A j \in 0..(n - 1) :
            handed'[j] = IF j = i THEN handed[j] + 1 ELSE handed[j]
      BY <2>4, <2>5
    <3>2. CASE r + 1 < n
      BY <2>1, <2>3, <2>5, <2>6, <3>1, <3>2
    <3>3. CASE r + 1 = n
      BY <2>1, <2>3, <2>5, <2>6, <3>1, <3>3
    <3> QED
      BY <2>1, <2>5, <3>2, <3>3
  <2> QED
    BY <2>7 DEF Turn, Numbers, i
<1>3. ASSUME NEW c \in Callers,
             \/ \E k \in Task : GetInstance(c, k)
             \/ Start(c) \/ MarkStart(c) \/ PushThread(c) \/ Started(c)
             \/ PutTask(c)
      PROVE  UNCHANGED <<m_TaskSize, handed>>
  BY <1>3 DEF GetInstance, Start, MarkStart, PushThread, Started, PutTask
<1>4. ASSUME NEW w \in Workers, WorkStep(w)
      PROVE  UNCHANGED <<m_TaskSize, handed>>
  BY <1>4 DEF WorkStep, CheckQueue, TakeTask, Exec, LeaveDrain, LeaveLoop,
              caller
<1>5. ASSUME Close \/ CloseStep \/ UNCHANGED vars
      PROVE  UNCHANGED <<m_TaskSize, handed>>
  BY <1>5 DEF Close, CloseStep, StopThread, DeleteThread, vars, caller
<1> QED
  BY <1>1, <1>2, <1>3, <1>4, <1>5 DEF Next, AddStep, Stutter

\* Turn says that the numbers of tasks differ by one at most.
LEMMA TurnIsFair == TypeOK /\ Turn => EachInTurn
<1> SUFFICES ASSUME TypeOK, Turn PROVE EachInTurn
  OBVIOUS
<1>1. 0 \in Numbers /\ handed \in [Numbers -> Nat]
  BY WorkAssumption DEF TypeOK, Numbers
<1>2. \A j \in Numbers : handed[j] = handed[0] \/ handed[j] = handed[0] + 1
  BY <1>1 DEF Turn
<1> QED
  BY <1>1, <1>2 DEF EachInTurn

-----------------------------------------------------------------------------
(* A task is in one place at a time.                                       *)

places == <<adding, doing, queue, list, done>>

\* What is in hand depends on where callers and threads are.
LEMMA InHandNext ==
  ASSUME TypeOK, ThreadPerRound, InHand, [Next]_vars
  PROVE  InHand'
<1> USE DEF startup, worker, caller, ending
<1>1. ASSUME NEW c \in Callers, NEW k \in Task, GetInstance(c, k)
      PROVE  InHand'
  BY <1>1 DEF GetInstance, Goto, InHand, TypeOK
<1>2. ASSUME NEW c \in Callers,
             \/ Start(c) \/ MarkStart(c) \/ Started(c) \/ NumberTask(c)
      PROVE  InHand'
  <2>1. UNCHANGED <<adding, wpc, doing>>
    BY <1>2 DEF Start, MarkStart, Started, NumberTask
  <2>2. \A d \in Callers : cpc'[d] = "idle" <=> cpc[d] = "idle"
    BY <1>2 DEF Start, MarkStart, Started, NumberTask, Goto, Running, TypeOK
  <2> QED
    BY <2>1, <2>2 DEF InHand
<1>3. ASSUME NEW c \in Callers, PushThread(c)
      PROVE  InHand'
  <2>1. UNCHANGED <<adding, doing>> /\ cpc[c] = "push"
    BY <1>3 DEF PushThread, Running
  <2>2. \A d \in Callers : cpc'[d] = "idle" <=> cpc[d] = "idle"
    BY <1>3 DEF PushThread, Goto, Running, TypeOK
  <2>3. wpc' = [wpc EXCEPT ![NewWorker] = "loop"] /\ wpc[NewWorker] # "exec"
    BY <1>3, <2>1, ThreadLeft DEF PushThread, Born
  <2> QED
    BY <2>1, <2>2, <2>3 DEF InHand, TypeOK
<1>4. ASSUME NEW c \in Callers, PutTask(c)
      PROVE  InHand'
  <2>1. UNCHANGED <<wpc, doing>>
    BY <1>4 DEF PutTask
  <2>2. \/ UNCHANGED <<adding, cpc>>
        \/ /\ adding' = [adding EXCEPT ![c] = {}]
           /\ cpc' = [cpc EXCEPT ![c] = "idle"]
    BY <1>4, TaskIsPut
  <2> QED
    BY <2>1, <2>2 DEF InHand, TypeOK
<1>5. ASSUME NEW w \in Workers, WorkStep(w)
      PROVE  InHand'
  <2>1. UNCHANGED <<adding, cpc>>
    BY <1>5 DEF WorkStep, CheckQueue, TakeTask, Exec, LeaveDrain, LeaveLoop
  <2>2. \A v \in Workers : v # w => wpc'[v] = wpc[v] /\ doing'[v] = doing[v]
    BY <1>5 DEF WorkStep, CheckQueue, TakeTask, Exec, LeaveDrain, LeaveLoop,
                TypeOK
  <2>3. wpc'[w] # "exec" => doing'[w] = {}
    BY <1>5 DEF WorkStep, CheckQueue, TakeTask, Exec, LeaveDrain, LeaveLoop,
                TypeOK, InHand
  <2> QED
    BY <2>1, <2>2, <2>3 DEF InHand
<1>6. ASSUME Close \/ CloseStep \/ UNCHANGED vars
      PROVE  InHand'
  BY <1>6 DEF Close, CloseStep, StopThread, DeleteThread, vars, InHand, TypeOK
<1> QED
  BY <1>1, <1>2, <1>3, <1>4, <1>5, <1>6 DEF Next, AddStep, Stutter

\* Held, one task at a time.
LEMMA HeldMembers ==
  ASSUME NEW k
  PROVE  /\ k \in Held <=> \/ \E c \in Callers : k \in adding[c]
                           \/ \E w \in Workers : k \in InThread(w)
         /\ k \in Held' <=> \/ \E c \in Callers : k \in adding'[c]
                            \/ \E w \in Workers : k \in InThread(w)'
  BY DEF Held, InThread

\* Steps that leave every task where it is.
LEMMA OnePlaceFrame ==
  ASSUME OnePlace, UNCHANGED places
  PROVE  /\ Apart' /\ \A w \in Workers : Once(w)'
         /\ Held' = Held
  BY DEF OnePlace, Apart, Once, InThread, places, Held

\* A caller takes a task that nobody has.
LEMMA OnePlaceGiven ==
  ASSUME TypeOK, OnePlace, NEW c \in Callers, NEW k \in Task, GetInstance(c, k)
  PROVE  /\ Apart' /\ \A w \in Workers : Once(w)'
         /\ Held' = Held \cup {k} /\ done' = done /\ k \notin Held \cup done
<1>1. UNCHANGED <<doing, queue, list, done>> /\ k \notin Held \cup done
  BY DEF GetInstance, worker
<1>2. adding[c] = {} /\ adding' = [adding EXCEPT ![c] = {k}]
  BY DEF GetInstance, Running, OnePlace, InHand
<1>3. \A d \in Callers : adding'[d] = IF d = c THEN {k} ELSE adding[d]
  BY <1>2 DEF TypeOK
<1>4. \A w \in Workers : InThread(w)' = InThread(w) /\ k \notin InThread(w)
  BY <1>1, HeldMembers DEF InThread
<1>5. \A d \in Callers : k \notin adding[d]
  BY <1>1, HeldMembers
<1>6. Apart'
  BY <1>1, <1>3, <1>4, <1>5 DEF OnePlace, Apart
<1>7. \A w \in Workers : Once(w)'
  BY <1>1 DEF OnePlace, Once
<1>8. Held' = Held \cup {k}
  <2>1. ASSUME NEW x PROVE x \in Held' <=> x \in Held \/ x = k
    BY <1>2, <1>3, <1>4, HeldMembers
  <2> QED
    BY <2>1
<1> QED
  BY <1>1, <1>6, <1>7, <1>8

\* The task goes from its caller to the queue of one thread.
LEMMA OnePlacePut ==
  ASSUME TypeOK, OnePlace, NEW c \in Callers, PutTask(c)
  PROVE  /\ Apart' /\ \A w \in Workers : Once(w)'
         /\ Held' = Held /\ done' = done
<1>1. UNCHANGED <<doing, list, done>>
  BY DEF PutTask, worker
<1>2. CASE UNCHANGED <<adding, queue>>
  BY <1>1, <1>2, OnePlaceFrame DEF places
<1>3. ASSUME NEW w \in Workers, NEW k \in adding[c],
             queue' = [queue EXCEPT ![w] = Append(@, k)],
             adding' = [adding EXCEPT ![c] = {}],
             cpc' = [cpc EXCEPT ![c] = "idle"]
      PROVE  /\ Apart' /\ \A v \in Workers : Once(v)'
             /\ Held' = Held /\ done' = done
  <2>1. k \in Task /\ queue[w] \in Seq(Task)
    BY DEF TypeOK
  <2>2. adding[c] = {k}
    BY DEF OnePlace, InHand
  <2>3. \A d \in Callers : adding'[d] = IF d = c THEN {} ELSE adding[d]
    BY <1>3 DEF TypeOK
  <2>4. \A v \in Workers :
          queue'[v] = IF v = w THEN Append(queue[w], k) ELSE queue[v]
    BY <1>3 DEF TypeOK
  <2>5. Seqs!ToSet(queue'[w]) = Seqs!ToSet(queue[w]) \cup {k}
    BY <2>1, <2>4, AppendMembers
  <2>6. \A v \in Workers :
          InThread(v)' = IF v = w THEN InThread(w) \cup {k} ELSE InThread(v)
    BY <1>1, <2>4, <2>5 DEF InThread
  <2>7. Apart'
    <3> HIDE DEF InThread
    <3> QED
      BY <1>1, <2>2, <2>3, <2>6 DEF OnePlace, Apart
  <2>8. k \notin InThread(w)
    BY <2>2 DEF OnePlace, Apart
  <2>9. Once(w)'
    <3>1. IsInjective(queue'[w])
      BY <2>1, <2>4, <2>8, AppendMembers DEF OnePlace, Once, InThread
    <3> QED
      BY <1>1, <2>5, <2>8, <3>1 DEF OnePlace, Once, InThread
  <2>10. \A v \in Workers : Once(v)'
    BY <1>1, <2>4, <2>9 DEF OnePlace, Once
  <2>11. Held' = Held
    <3>1. ASSUME NEW x PROVE x \in Held' <=> x \in Held
      BY <2>2, <2>3, <2>6, HeldMembers
    <3> QED
      BY <3>1
  <2> QED
    BY <1>1, <2>7, <2>10, <2>11
<1> QED
  BY <1>2, <1>3, TaskIsPut

\* checkQueue() moves tasks within a thread.
LEMMA OnePlaceQueue ==
  ASSUME TypeOK, OnePlace, NEW w \in Workers, CheckQueue(w)
  PROVE  /\ Apart' /\ \A v \in Workers : Once(v)'
         /\ Held' = Held /\ done' = done
<1>1. UNCHANGED <<doing, adding, done>>
  BY DEF CheckQueue, caller
<1>2. queue[w] \in Seq(Task) /\ list[w] \in Seq(Task)
  BY DEF TypeOK
<1>3. \A v \in Workers :
        /\ queue'[v] = IF v = w THEN <<>> ELSE queue[v]
        /\ list'[v] = IF v = w THEN list[w] \o queue[w] ELSE list[v]
  BY DEF CheckQueue, TypeOK
<1>4. Once(w)
  BY DEF OnePlace
<1>5. Once(w)'
  <2>1. Seqs!ToSet(queue'[w]) = {} /\ IsInjective(queue'[w])
    BY <1>3, EmptyMembers
  <2>2. Seqs!ToSet(list'[w]) = Seqs!ToSet(list[w]) \cup Seqs!ToSet(queue[w])
    BY <1>2, <1>3, ConcatMembers
  <2>3. IsInjective(list'[w])
    BY <1>2, <1>3, <1>4, ConcatMembers DEF Once
  <2> QED
    BY <1>1, <1>4, <2>1, <2>2, <2>3 DEF Once
<1>6. \A v \in Workers : InThread(v)' = InThread(v)
  <2>1. Seqs!ToSet(queue'[w]) = {}
    BY <1>3, EmptyMembers
  <2>2. Seqs!ToSet(list'[w]) = Seqs!ToSet(list[w]) \cup Seqs!ToSet(queue[w])
    BY <1>2, <1>3, ConcatMembers
  <2> QED
    BY <1>1, <1>3, <2>1, <2>2 DEF InThread
<1>7. Apart'
  <2> HIDE DEF InThread
  <2> QED
    BY <1>1, <1>6 DEF OnePlace, Apart
<1>8. \A v \in Workers : Once(v)'
  BY <1>1, <1>3, <1>5 DEF OnePlace, Once
<1>9. Held' = Held
  <2>1. ASSUME NEW x PROVE x \in Held' <=> x \in Held
    BY <1>1, <1>6, HeldMembers
  <2> QED
    BY <2>1
<1> QED
  BY <1>1, <1>7, <1>8, <1>9

\* The last task of the list goes into the thread's hands, which were empty.
LEMMA OnePlaceTaken ==
  ASSUME TypeOK, OnePlace, NEW w \in Workers, TakeTask(w)
  PROVE  /\ Apart' /\ \A v \in Workers : Once(v)'
         /\ Held' = Held /\ done' = done
<1> DEFINE k == Seqs!Last(list[w])
           l == Seqs!Front(list[w])
<1>1. UNCHANGED <<queue, adding, done>> /\ doing[w] = {}
  BY DEF TakeTask, caller, OnePlace, InHand
<1>2. list[w] \in Seq(Task) /\ list[w] # <<>>
  BY DEF TypeOK, TakeTask
<1>3. \A v \in Workers :
        /\ doing'[v] = IF v = w THEN {k} ELSE doing[v]
        /\ list'[v] = IF v = w THEN l ELSE list[v]
  BY DEF TakeTask, TypeOK
<1>4. Once(w)
  BY DEF OnePlace
<1>5. Seqs!ToSet(list[w]) = Seqs!ToSet(l) \cup {k}
  BY <1>2, LastLeaves
<1>6. IsInjective(l) /\ k \notin Seqs!ToSet(l)
  BY <1>2, <1>4, LastLeaves DEF Once
<1> HIDE DEF k, l
<1>7. Once(w)'
  BY <1>1, <1>3, <1>4, <1>5, <1>6 DEF Once
<1>8. \A v \in Workers : InThread(v)' = InThread(v)
  BY <1>1, <1>3, <1>5 DEF InThread
<1>9. Apart'
  <2> HIDE DEF InThread
  <2> QED
    BY <1>1, <1>8 DEF OnePlace, Apart
<1>10. \A v \in Workers : Once(v)'
  BY <1>1, <1>3, <1>7 DEF OnePlace, Once
<1>11. Held' = Held
  <2>1. ASSUME NEW x PROVE x \in Held' <=> x \in Held
    BY <1>1, <1>8, HeldMembers
  <2> QED
    BY <2>1
<1> QED
  BY <1>1, <1>9, <1>10, <1>11

\* Tasks that a thread has are done with, and it has them no more.
LEMMA OnePlaceDone ==
  ASSUME OnePlace, NEW w \in Workers, NEW K, UNCHANGED adding,
         K \subseteq InThread(w), done' = done \cup K,
         InThread(w)' = InThread(w) \ K,
         \A v \in Workers : v # w => InThread(v)' = InThread(v)
  PROVE  /\ Apart'
         /\ K \subseteq Held /\ Held' = Held \ K
<1>1. Apart'
  <2> HIDE DEF InThread
  <2> QED
    BY DEF OnePlace, Apart
<1>2. \A k \in K : k \in Held /\ k \notin Held'
  <2> HIDE DEF InThread
  <2> QED
    BY HeldMembers DEF OnePlace, Apart
<1>3. ASSUME NEW x PROVE x \in Held' <=> x \in Held /\ x \notin K
  <2> HIDE DEF InThread
  <2> QED
    BY <1>2, HeldMembers
<1> QED
  BY <1>1, <1>2, <1>3

LEMMA OnePlaceExec ==
  ASSUME TypeOK, OnePlace, NEW w \in Workers, Exec(w)
  PROVE  /\ Apart' /\ \A v \in Workers : Once(v)'
         /\ doing[w] \subseteq Held
         /\ Held' = Held \ doing[w] /\ done' = done \cup doing[w]
<1>1. UNCHANGED <<queue, adding, list>> /\ done' = done \cup doing[w]
  BY DEF Exec, caller
<1>2. \A v \in Workers : doing'[v] = IF v = w THEN {} ELSE doing[v]
  BY DEF Exec, TypeOK
<1>3. InThread(w)' = InThread(w) \ doing[w] /\ doing[w] \subseteq InThread(w)
  BY <1>1, <1>2 DEF InThread, OnePlace, Once
<1>4. \A v \in Workers : v # w => InThread(v)' = InThread(v)
  BY <1>1, <1>2 DEF InThread
<1>5. \A v \in Workers : Once(v)'
  BY <1>1, <1>2 DEF OnePlace, Once
<1> QED
  BY <1>1, <1>3, <1>4, <1>5, OnePlaceDone

LEMMA OnePlaceDeleted ==
  ASSUME TypeOK, OnePlace, DeleteThread
  PROVE  /\ Apart' /\ \A v \in Workers : Once(v)'
         /\ \E K \in SUBSET Held :
              Held' = Held \ K /\ done' = done \cup K
<1>1. Seqs!Last(m_ThreadList) \in Workers
  BY LastLeaves DEF DeleteThread, TypeOK
<1>2. PICK w \in Workers : w = Seqs!Last(m_ThreadList)
  BY <1>1
<1>3. queue[w] \in Seq(Task) /\ list[w] \in Seq(Task)
  BY DEF TypeOK
<1>4. /\ UNCHANGED <<doing, adding>> /\ wpc[w] = "ended"
      /\ done' = done \cup Seqs!ToSet(queue[w] \o list[w])
  BY <1>2 DEF DeleteThread, caller
<1>5. /\ queue' = [queue EXCEPT ![w] = <<>>]
      /\ list' = [list EXCEPT ![w] = <<>>]
  BY <1>2 DEF DeleteThread
<1>6. \A v \in Workers : /\ queue'[v] = IF v = w THEN <<>> ELSE queue[v]
                         /\ list'[v] = IF v = w THEN <<>> ELSE list[v]
  BY <1>5 DEF TypeOK
<1>7. doing[w] = {}
  BY <1>4 DEF OnePlace, InHand
<1>8. done' = done \cup InThread(w)
  BY <1>3, <1>4, <1>7, ConcatMembers DEF InThread
<1>9. InThread(w)' = {}
  BY <1>4, <1>6, <1>7, EmptyMembers DEF InThread
<1>10. \A v \in Workers : v # w => InThread(v)' = InThread(v)
  BY <1>4, <1>6 DEF InThread
<1>11. \A v \in Workers : Once(v)'
  BY <1>4, <1>6, EmptyMembers DEF OnePlace, Once
<1>12. /\ Apart' /\ InThread(w) \subseteq Held
       /\ Held' = Held \ InThread(w)
  <2> HIDE DEF InThread
  <2> QED
    BY <1>4, <1>8, <1>9, <1>10, OnePlaceDone
<1> QED
  BY <1>8, <1>11, <1>12

-----------------------------------------------------------------------------
(* Every step keeps the invariant, and is a step of TaskPool or none.      *)

\* What a step may do with the tasks, whichever it is.
LEMMA TasksMove ==
  ASSUME TypeOK, OnePlace, [Next]_vars
  PROVE  /\ Apart' /\ \A w \in Workers : Once(w)'
         /\ \/ UNCHANGED <<Held, done>>
            \/ \E k \in Task : /\ k \notin Held \cup done
                               /\ Held' = Held \cup {k} /\ done' = done
            \/ \E K \in SUBSET Held :
                 Held' = Held \ K /\ done' = done \cup K
<1>1. CASE UNCHANGED places
  <2>1. done' = done
    BY <1>1 DEF places
  <2> QED
    BY <1>1, <2>1, OnePlaceFrame
<1>2. ASSUME NEW c \in Callers,
             \/ Start(c) \/ MarkStart(c) \/ PushThread(c) \/ Started(c)
             \/ NumberTask(c)
      PROVE  UNCHANGED places
  BY <1>2 DEF Start, MarkStart, PushThread, Started, NumberTask, places, worker
<1>3. ASSUME NEW w \in Workers, LeaveDrain(w) \/ LeaveLoop(w)
      PROVE  UNCHANGED places
  BY <1>3 DEF LeaveDrain, LeaveLoop, places, caller
<1>4. ASSUME Close \/ StopThread \/ UNCHANGED vars
      PROVE  UNCHANGED places
  BY <1>4 DEF Close, StopThread, vars, places, worker, caller
<1>5. CASE \E c \in Callers : PutTask(c)
  BY <1>5, OnePlacePut
<1>6. CASE \E c \in Callers, k \in Task : GetInstance(c, k)
  BY <1>6, OnePlaceGiven
<1>7. CASE \E w \in Workers : CheckQueue(w) \/ TakeTask(w)
  BY <1>7, OnePlaceQueue, OnePlaceTaken
<1>8. CASE \E w \in Workers : Exec(w)
  BY <1>8, OnePlaceExec
<1>9. CASE DeleteThread
  BY <1>9, OnePlaceDeleted
<1> QED
  BY <1>1, <1>2, <1>3, <1>4, <1>5, <1>6, <1>7, <1>8, <1>9
  DEF Next, AddStep, WorkStep, CloseStep, Stutter

LEMMA WorkingNext == Working /\ [Next]_vars => Working'
<1> SUFFICES ASSUME Working, [Next]_vars PROVE Working'
  OBVIOUS
<1>1. TypeOK' /\ ThreadPerRound' /\ Turn'
  BY TypesNext, ThreadPerRoundNext, TurnNext DEF Working
<1>2. InHand'
  BY InHandNext DEF Working, OnePlace
<1>3. Apart' /\ \A w \in Workers : Once(w)'
  BY TasksMove DEF Working
<1> QED
  BY <1>1, <1>2, <1>3 DEF Working, OnePlace

LEMMA WorkingHolds == Spec => []Working
  BY WorkingInit, WorkingNext, PTL DEF Spec

\* Every variable has its type, for any number of callers: however many of them
\* run start() at the same time, PushThread finds a new thread object, and an
\* index names a thread.
THEOREM TypeCorrect == Spec => []TypeOK
  BY WorkingHolds, PTL DEF Working

\* Acceptor.cpp:181: AddTask() gives each thread one task in turn, also when
\* callers overtake each other and when m_TaskSize wraps around.
THEOREM EachInTurnHolds == Spec => []EachInTurn
<1>1. Working => EachInTurn
  BY TurnIsFair DEF Working
<1> QED
  BY <1>1, WorkingHolds, PTL

\* IOWork implements TaskPool: no task is dropped, duplicated or executed again
\* on its way through AddTask(), checkQueue() and the work thread's list.
THEOREM ImplementsTaskPool == Spec => IsTaskPool
<1>1. Init => Pool!Init
  <2> SUFFICES ASSUME Init PROVE Held = {} /\ done = {}
    BY DEF Pool!Init
  <2> QED
    BY EmptyMembers DEF Init, Held
<1>2. Working /\ [Next]_vars => [Pool!Next]_(Pool!vars)
  <2> SUFFICES ASSUME Working, [Next]_vars PROVE [Pool!Next]_(Pool!vars)
    OBVIOUS
  <2>1. CASE UNCHANGED <<Held, done>>
    BY <2>1 DEF Pool!vars
  <2>2. CASE \E k \in Task : /\ k \notin Held \cup done
                             /\ Held' = Held \cup {k} /\ done' = done
    BY <2>2 DEF Pool!Next, Pool!Give
  <2>3. ASSUME NEW K \in SUBSET Held, Held' = Held \ K, done' = done \cup K
        PROVE  [Pool!Next]_(Pool!vars)
    <3>1. CASE K = {}
      BY <2>3, <3>1 DEF Pool!vars
    <3>2. CASE K # {}
      BY <2>3, <3>2 DEF Pool!Next, Pool!Finish
    <3> QED
      BY <3>1, <3>2
  <2> QED
    BY <2>1, <2>2, <2>3, TasksMove DEF Working
<1> QED
  BY <1>1, <1>2, WorkingHolds, PTL DEF Spec, IsTaskPool, Pool!Spec

=============================================================================
