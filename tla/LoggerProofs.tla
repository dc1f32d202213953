---------------------------- MODULE LoggerProofs ----------------------------
(***************************************************************************)
(* Theorems about Logger, for any number of threads, names and days.       *)
(***************************************************************************)
EXTENDS Logger, TLAPS

LEMMA DaysOfMonth == \A d \in 0..MaxDay : tm_mday(d) \in 1..MonthDays
  BY LoggerAssumption, SMTT(30) DEF tm_mday

\* The name and the day that the current file was opened for, as long as
\* addLocalFileLog() has not asked for another one.
FileIsCurrent ==
  /\ m_fp_file # None => m_file # None
  /\ m_fp_file # None /\ m_day # 0 =>
       m_fp_file.name = m_file /\ tm_mday(m_fp_file.day) = m_day

Logging ==
  TypeOK /\ FileIsCurrent /\ OneFileOpen /\ RightFile /\ LostIfNotOpened

LEMMA NoFile == None \notin Files /\ None \notin Names /\ None \notin Levels
  BY LoggerAssumption DEF Files

LEMMA LoggingInit == Init => Logging
<1> SUFFICES ASSUME Init PROVE Logging
  OBVIOUS
<1>1. TypeOK
  BY LoggerAssumption, NoFile DEF Init, TypeOK
<1>2. FileIsCurrent /\ OneFileOpen /\ RightFile /\ LostIfNotOpened
  BY NoFile DEF Init, FileIsCurrent, OneFileOpen, RightFile, LostIfNotOpened
<1> QED
  BY <1>1, <1>2 DEF Logging


\* Under the mutex, before the entry is written.
LEMMA Switched ==
  ASSUME Logging, NEW d \in 0..MaxDay, SwitchFile(d), UNCHANGED m_file,
         \E t \in Threads : pc[t] # "ended"
  PROVE  /\ m_day' \in 0..MonthDays /\ m_fp_file' \in Files \cup {None}
         /\ open' \in [Files -> 0..1] /\ failed' \subseteq Files
         /\ OneFileOpen' /\ FileIsCurrent'
         /\ m_fp_file' # None =>
              /\ m_fp_file'.name = m_file /\ m_file # None
              /\ tm_mday(m_fp_file'.day) = tm_mday(d)
         /\ m_fp_file' = None /\ m_file # None /\ m_day' # 0 =>
              \E f \in failed' : f.name = m_file /\ tm_mday(f.day) = m_day'
<1> USE NoFile, DaysOfMonth, LoggerAssumption
<1> DEFINE f == [name |-> m_file, day |-> d]
<1>1. tm_mday(d) \in 1..MonthDays
  OBVIOUS
<1>2. CASE m_file # None /\ m_day # tm_mday(d)
  <2>1. f \in Files
    BY <1>2 DEF Files, Logging, TypeOK
  <2>2. Open(f) /\ m_day' = tm_mday(d)
    BY <1>2 DEF SwitchFile
  <2>3. Closed \in [Files -> 0..1] /\ \A g \in Files : Closed[g] = 0
    BY DEF Closed, Logging, TypeOK, OneFileOpen
  <2>4. CASE m_fp_file' = f /\ open' = [Closed EXCEPT ![f] = @ + 1]
               /\ failed' = failed \ {f}
    <3>1. m_fp_file'.name = m_file /\ m_fp_file'.day = d
      BY <2>4
    <3>2. OneFileOpen' /\ open' \in [Files -> 0..1]
      BY <2>1, <2>3, <2>4 DEF OneFileOpen
    <3> QED
      BY <1>1, <1>2, <2>1, <2>2, <2>4, <3>1, <3>2
      DEF FileIsCurrent, Logging, TypeOK
  <2>5. CASE m_fp_file' = None /\ open' = Closed /\ failed' = failed \cup {f}
    <3>1. f.name = m_file /\ tm_mday(f.day) = m_day'
      BY <2>2
    <3>2. \E g \in failed' : g.name = m_file /\ tm_mday(g.day) = m_day'
      BY <2>5, <3>1
    <3>3. OneFileOpen'
      BY <2>3, <2>5 DEF OneFileOpen
    <3>4. failed' \subseteq Files /\ m_day' \in 0..MonthDays
      BY <1>1, <2>1, <2>2, <2>5 DEF Logging, TypeOK
    <3> QED
      BY <2>3, <2>5, <3>2, <3>3, <3>4 DEF FileIsCurrent
  <2> QED
    BY <2>2, <2>4, <2>5 DEF Open
<1>3. CASE ~(m_file # None /\ m_day # tm_mday(d))
  <2>1. UNCHANGED file
    BY <1>3 DEF SwitchFile
  <2>2. m_day = 0 => m_fp_file = None
    BY <1>1, <1>3 DEF Logging, FileIsCurrent
  <2> QED
    BY <1>1, <1>3, <2>1, <2>2
    DEF Logging, TypeOK, OneFileOpen, FileIsCurrent, LostIfNotOpened, file
<1> QED
  BY <1>2, <1>3


\* The entry goes to the end of the current file, whose day of the month is
\* that of the entry.
LEMMA EntryWritten ==
  ASSUME Logging, NEW t \in Threads, pc[t] # "ended", WriteEntry(t)
  PROVE  Logging'
<1> DEFINE new == [name |-> m_file, day |-> stamp[t]]
<1>1. stamp[t] \in 0..MaxDay /\ 0 \in 0..MaxDay
  BY LoggerAssumption DEF Logging, TypeOK
<1>2. SwitchFile(stamp[t]) /\ UNCHANGED m_file
  BY DEF WriteEntry, config
<1>3. /\ m_day' \in 0..MonthDays /\ m_fp_file' \in Files \cup {None}
      /\ open' \in [Files -> 0..1] /\ failed' \subseteq Files
      /\ OneFileOpen' /\ FileIsCurrent'
  BY <1>1, <1>2, Switched
<1>4. m_fp_file' # None =>
        /\ m_fp_file' \in Files /\ new \in Files /\ new.name = m_fp_file'.name
        /\ tm_mday(new.day) = tm_mday(m_fp_file'.day)
  BY <1>1, <1>2, <1>3, Switched DEF Files, Logging, TypeOK
<1>5. LostIfNotOpened'
  BY <1>1, <1>2, Switched DEF LostIfNotOpened
<1>6. disk' \in [Files -> Seq(Files)] /\ RightFile'
  <2>1. CASE m_fp_file' = None
    BY <2>1 DEF WriteEntry, Logging, TypeOK, RightFile
  <2>2. CASE m_fp_file' # None
    <3>1. disk' = [disk EXCEPT ![m_fp_file'] = Append(disk[m_fp_file'], new)]
      BY <2>2 DEF WriteEntry, Before
    <3>2. disk \in [Files -> Seq(Files)]
      BY DEF Logging, TypeOK
    <3>3. Append(disk[m_fp_file'], new) \in Seq(Files)
      BY <1>4, <2>2, <3>2
    <3>4. ASSUME NEW f \in Files, NEW k \in DOMAIN disk'[f]
          PROVE  /\ disk'[f][k].name = f.name
                 /\ tm_mday(disk'[f][k].day) = tm_mday(f.day)
      <4>1. CASE f # m_fp_file'
        BY <3>1, <3>2, <3>4, <4>1 DEF Logging, RightFile
      <4>2. CASE f = m_fp_file' /\ k = Len(disk[f]) + 1
        <5>1. disk'[f][k] = new
          BY <1>4, <2>2, <3>1, <3>2, <4>2
        <5> QED
          BY <1>4, <2>2, <4>2, <5>1
      <4>3. CASE f = m_fp_file' /\ k # Len(disk[f]) + 1
        <5>1. k \in DOMAIN disk[f] /\ disk'[f][k] = disk[f][k]
          BY <1>4, <2>2, <3>1, <3>2, <3>4, <4>3
        <5> QED
          BY <5>1 DEF Logging, RightFile
      <4> QED
        BY <4>1, <4>2, <4>3
    <3> QED
      BY <3>1, <3>2, <3>3, <3>4 DEF RightFile
  <2> QED
    BY <2>1, <2>2
<1>7. TypeOK'
  BY <1>1, <1>3, <1>6 DEF WriteEntry, Goto, Logging, TypeOK, config
<1> QED
  BY <1>3, <1>5, <1>6, <1>7 DEF Logging

\* Steps that change neither the file nor what is in it.
LEMMA FileUntouched ==
  ASSUME Logging, TypeOK', UNCHANGED <<m_file, file, disk>>,
         (\E t \in Threads : pc'[t] # "ended") =>
           \E t \in Threads : pc[t] # "ended"
  PROVE  Logging'
BY DEF Logging, FileIsCurrent, OneFileOpen, RightFile, LostIfNotOpened, file

LEMMA LoggingCalls ==
  ASSUME Logging, NEW t \in Threads, Call(t)
  PROVE  Logging'
<1> USE NoFile, LoggerAssumption
<1>1. CASE \E l \in Levels : Log(t, l) \/ Debug16(t, l)
  <2>1. PICK l \in Levels : Log(t, l) \/ Debug16(t, l)
    BY <1>1
  <2>2. Log(t, l) => TypeOK'
    BY DEF Log, Goto, Logging, TypeOK, config, file
  <2>3. Debug16(t, l) => TypeOK'
    BY DEF Debug16, Goto, Logging, TypeOK, config, file
  <2>4. UNCHANGED <<m_file, file, disk>> /\ pc[t] # "ended"
    BY <2>1 DEF Log, Debug16, config
  <2> QED
    BY <2>1, <2>2, <2>3, <2>4, FileUntouched
<1>2. CASE Logva(t)
  <2>1. TypeOK'
    BY <1>2 DEF Logva, Goto, Logging, TypeOK, config, file
  <2>2. UNCHANGED <<m_file, file, disk>> /\ pc[t] # "ended"
    BY <1>2 DEF Logva, config
  <2> QED
    BY <2>1, <2>2, FileUntouched
<1>3. CASE Write(t) \/ Dump(t)
  BY <1>3, EntryWritten DEF Write, Dump
<1> QED
  BY <1>1, <1>2, <1>3 DEF Call

LEMMA LoggingConfigures ==
  ASSUME Logging, Configure \/ Midnight
  PROVE  Logging'
<1> USE NoFile, LoggerAssumption
<1>1. CASE \E l \in Levels : setLevel(l)
  <2>1. TypeOK' /\ UNCHANGED <<m_file, file, disk, pc>>
    BY <1>1 DEF setLevel, Logging, TypeOK, file, calls
  <2> QED
    BY <2>1, FileUntouched
<1>2. CASE removeConsoleLog
  <2>1. m_fp_console' \in BOOLEAN
    BY <1>2 DEF removeConsoleLog
  <2>2. UNCHANGED <<m_emLevel, m_file, file, disk, today, calls>>
    BY <1>2 DEF removeConsoleLog
  <2>3. TypeOK' /\ UNCHANGED pc
    BY <2>1, <2>2 DEF Logging, TypeOK, file, calls
  <2> QED
    BY <2>2, <2>3, FileUntouched
<1>3. CASE Midnight
  <2>1. TypeOK' /\ UNCHANGED <<m_file, file, disk, pc>>
    BY <1>3 DEF Midnight, Logging, TypeOK, config, file, calls
  <2> QED
    BY <2>1, FileUntouched
<1>4. CASE \E n \in Names : addLocalFileLog(n)
  <2>1. PICK n \in Names : addLocalFileLog(n)
    BY <1>4
  <2>2. TypeOK'
    BY <2>1 DEF addLocalFileLog, Logging, TypeOK, calls
  <2>3. FileIsCurrent' /\ OneFileOpen' /\ RightFile' /\ LostIfNotOpened'
    BY <2>1 DEF addLocalFileLog, Logging, FileIsCurrent, OneFileOpen,
                RightFile, LostIfNotOpened
  <2> QED
    BY <2>2, <2>3 DEF Logging
<1> QED
  BY <1>1, <1>2, <1>3, <1>4 DEF Configure

LEMMA LoggingEnds == Logging /\ Destruct => Logging'
<1> SUFFICES ASSUME Logging, Destruct PROVE Logging'
  OBVIOUS
<1>1. Closed \in [Files -> 0..1] /\ \A g \in Files : Closed[g] = 0
  BY NoFile DEF Closed, Logging, TypeOK, OneFileOpen
<1>2. TypeOK'
  BY <1>1 DEF Destruct, Logging, TypeOK, config
<1>3. FileIsCurrent' /\ OneFileOpen' /\ RightFile' /\ LostIfNotOpened'
  BY <1>1, NoFile DEF Destruct, Logging, FileIsCurrent, OneFileOpen, RightFile,
                      LostIfNotOpened, config
<1> QED
  BY <1>2, <1>3 DEF Logging

\* Every step keeps the inductive invariant.
LEMMA LoggingNext == Logging /\ [Next]_vars => Logging'
<1> SUFFICES ASSUME Logging, [Next]_vars PROVE Logging'
  OBVIOUS
<1>1. CASE UNCHANGED vars
  <2>1. TypeOK' /\ UNCHANGED <<m_file, file, disk, pc>>
    BY <1>1 DEF vars, config, file, calls, Logging, TypeOK
  <2> QED
    BY <2>1, FileUntouched
<1>2. CASE Next
  BY <1>1, <1>2, LoggingCalls, LoggingConfigures, LoggingEnds DEF Next, Ended
<1> QED
  BY <1>1, <1>2

LEMMA LoggingHolds == Spec => []Logging
  BY LoggingInit, LoggingNext, PTL DEF Spec

\* Every variable has its type, for any number of threads, names and days.
THEOREM TypeCorrect == Spec => []TypeOK
  BY LoggingHolds, PTL DEF Logging

\* Logger.cpp:15-36 and :77-89: the FILE in use is open, and no other one is.
THEOREM OneFileOpenHolds == Spec => []OneFileOpen
  BY LoggingHolds, PTL DEF Logging

\* Logger.cpp:70-89: an entry is in a file of its name and day of the month,
\* in whatever order the threads come to the mutex.
THEOREM RightFileHolds == Spec => []RightFile
  BY LoggingHolds, PTL DEF Logging

\* Logger.cpp:85-95: entries miss their file only while fopen() has failed.
THEOREM LostIfNotOpenedHolds == Spec => []LostIfNotOpened
  BY LoggingHolds, PTL DEF Logging


LEMMA EntriesStay == Logging /\ [Next]_vars =>
  \A f \in Files :
    /\ Len(disk[f]) <= Len(disk'[f])
    /\ SubSeq(disk'[f], 1, Len(disk[f])) = disk[f]
<1> SUFFICES ASSUME Logging, [Next]_vars, NEW f \in Files
             PROVE  /\ Len(disk[f]) <= Len(disk'[f])
                    /\ SubSeq(disk'[f], 1, Len(disk[f])) = disk[f]
  OBVIOUS
<1>1. disk \in [Files -> Seq(Files)]
  BY DEF Logging, TypeOK
<1>2. CASE UNCHANGED disk
  BY <1>1, <1>2
<1>3. CASE \E t \in Threads : Write(t) \/ Dump(t)
  <2>1. PICK t \in Threads : WriteEntry(t)
    BY <1>3 DEF Write, Dump
  <2>2. \/ UNCHANGED disk
        \/ disk' = [disk EXCEPT ![m_fp_file'] = Append(disk[m_fp_file'],
                      [name |-> m_file, day |-> stamp[t]])]
    BY <2>1 DEF WriteEntry, Before
  <2>3. disk'[f] = disk[f]
          \/ disk'[f] = Append(disk[f], [name |-> m_file, day |-> stamp[t]])
    BY <1>1, <2>2
  <2> QED
    BY <1>1, <2>3
<1>4. CASE \E t \in Threads : Call(t) /\ ~Write(t) /\ ~Dump(t)
  <2>1. UNCHANGED disk
    BY <1>4 DEF Call, Log, Logva, Debug16
  <2> QED
    BY <1>2, <2>1
<1>5. CASE Configure \/ Midnight \/ Destruct \/ UNCHANGED vars
  <2>1. UNCHANGED disk
    BY <1>5 DEF Configure, setLevel, removeConsoleLog, addLocalFileLog,
                Midnight, Destruct, vars
  <2> QED
    BY <1>2, <2>1
<1>6. CASE \E t \in Threads : Call(t)
  BY <1>3, <1>4, <1>6
<1>7. CASE Ended
  BY <1>5, <1>7 DEF Ended
<1> QED
  BY <1>5, <1>6, <1>7 DEF Next

\* Logger.cpp:87: fopen() appends, so what is in a file stays there, also when
\* the logger comes back to it.
THEOREM OnlyAddedHolds == Spec => OnlyAdded
  BY LoggingHolds, EntriesStay, PTL DEF Spec, OnlyAdded

=============================================================================
