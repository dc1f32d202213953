------------------------------- MODULE Logger -------------------------------
(***************************************************************************)
(* Logger: one object for all threads.  A call tests the level, and takes  *)
(* the time, without the mutex; under it, it changes to the file of the    *)
(* day and writes one entry.                                               *)
(*                                                                         *)
(* A day is a number, and tm_mday is what is left of it within a month.  A *)
(* log file is named by the name given to addLocalFileLog() and a day.  An *)
(* entry is the name that was set when it was written and the day it is    *)
(* stamped with; what the console shows is not kept.                       *)
(***************************************************************************)
EXTENDS Integers, Sequences, FiniteSets

LOCAL FX == INSTANCE FiniteSetsExt

CONSTANTS
  Threads,     \* threads that log
  Levels,      \* the levels, as numbers
  Names,       \* names given to addLocalFileLog()
  MonthDays,   \* days of a month
  MaxDay,      \* bound: the last day
  None,        \* no name, no file, no level
  MaxEntries   \* bound: entries written to files

ASSUME LoggerAssumption ==
  /\ Levels \subseteq Int /\ MonthDays \in Nat \ {0}
  /\ MaxDay \in Nat /\ MaxEntries \in Nat
  /\ None \notin Levels \cup Names \cup [name : Names, day : 0..MaxDay]

Files == [name : Names, day : 0..MaxDay]

VARIABLES
  m_emLevel,     \* as in the source
  m_fp_console,  \* entries also go to the console
  m_file,        \* the name of the log, None for the empty string
  m_day,         \* day of the month of the current file, 0 for none
  m_fp_file,     \* the current file, None for NULL
  open,          \* how many FILEs are open, for each file
  disk,          \* the entries in each file
  failed,        \* files that fopen() could not open when last asked to
  today,         \* the day it is
  pc,            \* per thread: where it is in a call
  level,         \* per thread: the level of the entry it is to write
  stamp          \* per thread: the day it has read

config == <<m_emLevel, m_fp_console, m_file>>
file   == <<m_day, m_fp_file, open, failed>>
calls  == <<pc, level, stamp>>
vars   == <<config, file, disk, today, calls>>

tm_mday(d) == (d % MonthDays) + 1

Init ==
  /\ m_emLevel \in Levels /\ m_fp_console = TRUE /\ m_file = None
  /\ m_day = 0 /\ m_fp_file = None
  /\ open = [f \in Files |-> 0] /\ disk = [f \in Files |-> <<>>]
  /\ failed = {} /\ today = 0
  /\ pc = [t \in Threads |-> "idle"] /\ level = [t \in Threads |-> None]
  /\ stamp = [t \in Threads |-> 0]

-----------------------------------------------------------------------------
setLevel(l) ==
  m_emLevel' = l /\ UNCHANGED <<m_fp_console, m_file, file, disk, today, calls>>

removeConsoleLog ==
  /\ m_fp_console' = FALSE
  /\ UNCHANGED <<m_emLevel, m_file, file, disk, today, calls>>

\* Fault: the current file stays current until the next day.
addLocalFileLogKeepsDay(n) ==
  /\ m_file' = n
  /\ UNCHANGED <<m_emLevel, m_fp_console, file, disk, today, calls>>

\* Fault: the file is forgotten here, and so never closed.
addLocalFileLogForgets(n) ==
  /\ m_file' = n /\ m_day' = 0 /\ m_fp_file' = None
  /\ UNCHANGED <<m_emLevel, m_fp_console, open, failed, disk, today, calls>>

\* The file is left to the next entry to change.
addLocalFileLog(n) ==
  /\ m_file' = n /\ m_day' = 0
  /\ UNCHANGED <<m_emLevel, m_fp_console, m_fp_file, open, failed, disk, today,
                 calls>>

Midnight ==
  /\ today < MaxDay /\ today' = today + 1
  /\ UNCHANGED <<config, file, disk, calls>>

-----------------------------------------------------------------------------
(* A call.                                                                 *)

Passes(l) == m_emLevel <= l

Entries == FX!MapThenSumSet(LAMBDA f : Len(disk[f]), Files)
Calls   == {t \in Threads : pc[t] # "idle"}

Goto(t, place, l) ==
  /\ pc' = [pc EXCEPT ![t] = place] /\ level' = [level EXCEPT ![t] = l]

\* fatal(), error(), warn(), info(), debug(), log() and logtext() test the
\* level and call logva().
Log(t, l) ==
  /\ pc[t] = "idle" /\ Entries + Cardinality(Calls) < MaxEntries
  /\ Passes(l) /\ Goto(t, "logva", l)
  /\ UNCHANGED <<config, file, disk, today, stamp>>

\* logva() tests it again and reads the time.
Logva(t) ==
  /\ pc[t] = "logva"
  /\ \/ /\ Passes(level[t])
        /\ Goto(t, "write", level[t]) /\ stamp' = [stamp EXCEPT ![t] = today]
     \/ ~Passes(level[t]) /\ Goto(t, "idle", None) /\ UNCHANGED stamp
  /\ UNCHANGED <<config, file, disk, today>>

\* debug16() does both itself.
Debug16(t, l) ==
  /\ pc[t] = "idle" /\ Entries + Cardinality(Calls) < MaxEntries
  /\ Passes(l)
  /\ Goto(t, "dump", l) /\ stamp' = [stamp EXCEPT ![t] = today]
  /\ UNCHANGED <<config, file, disk, today>>

\* fclose(), when there is a file.
Closed == IF m_fp_file = None THEN open ELSE [open EXCEPT ![m_fp_file] = @ - 1]

\* fopen() may fail; the logger has no file then.
Open(f) ==
  \/ /\ m_fp_file' = f /\ open' = [Closed EXCEPT ![f] = @ + 1]
     /\ failed' = failed \ {f}
  \/ /\ m_fp_file' = None /\ open' = Closed
     /\ failed' = failed \cup {f}

\* Fault: a file is opened only in place of another one.
SwitchFileOnly(d) ==
  IF m_file # None /\ m_day # tm_mday(d)
  THEN /\ m_day' = tm_mday(d)
       /\ IF m_fp_file = None THEN UNCHANGED <<m_fp_file, open, failed>>
          ELSE Open([name |-> m_file, day |-> d])
  ELSE UNCHANGED file

\* The file changes when its day of the month is not that of the entry.
SwitchFile(d) ==
  IF m_file # None /\ m_day # tm_mday(d)
  THEN m_day' = tm_mday(d) /\ Open([name |-> m_file, day |-> d])
  ELSE UNCHANGED file

\* Fault: a file is opened for writing from its beginning.
BeforeOver(f) == IF f = m_fp_file THEN disk[f] ELSE <<>>

\* What the file holds that an entry is added to: fopen() was asked to append.
Before(f) == disk[f]

\* Under the mutex: the file is changed, and an entry added to it.
WriteEntry(t) ==
  /\ SwitchFile(stamp[t])
  /\ disk' = IF m_fp_file' = None THEN disk
             ELSE [disk EXCEPT ![m_fp_file'] =
                     Append(Before(m_fp_file'),
                            [name |-> m_file, day |-> stamp[t]])]
  /\ Goto(t, "idle", None) /\ stamp' = [stamp EXCEPT ![t] = 0]
  /\ UNCHANGED <<config, today>>

Write(t) == pc[t] = "write" /\ WriteEntry(t)
Dump(t)  == pc[t] = "dump" /\ WriteEntry(t)

\* ~Logger(), at the end of the program.
Destruct ==
  /\ \A t \in Threads : pc[t] = "idle"
  /\ m_fp_file' = None /\ open' = Closed
  /\ pc' = [t \in Threads |-> "ended"]
  /\ UNCHANGED <<config, m_day, failed, disk, today, level, stamp>>

Ended == (\A t \in Threads : pc[t] = "ended") /\ UNCHANGED vars

-----------------------------------------------------------------------------
Configure ==
  \/ \E l \in Levels : setLevel(l)
  \/ \E n \in Names : addLocalFileLog(n)
  \/ removeConsoleLog

Call(t) ==
  \/ \E l \in Levels : Log(t, l) \/ Debug16(t, l)
  \/ Logva(t) \/ Write(t) \/ Dump(t)

Next ==
  \/ \E t \in Threads : Call(t)
  \/ Configure \/ Midnight \/ Destruct \/ Ended

Spec == Init /\ [][Next]_vars

-----------------------------------------------------------------------------
(* Properties.                                                             *)

TypeOK ==
  /\ m_emLevel \in Levels /\ m_fp_console \in BOOLEAN
  /\ m_file \in Names \cup {None}
  /\ m_day \in 0..MonthDays /\ m_fp_file \in Files \cup {None}
  /\ open \in [Files -> 0..1] /\ disk \in [Files -> Seq(Files)]
  /\ failed \subseteq Files /\ today \in 0..MaxDay
  /\ pc \in [Threads -> {"idle", "logva", "write", "dump", "ended"}]
  /\ level \in [Threads -> Levels \cup {None}]
  /\ stamp \in [Threads -> 0..MaxDay]

\* The FILE the logger writes to is open, and no other one is: none is left
\* behind at a change of day or of name, and none at the end.
OneFileOpen == \A f \in Files : open[f] = IF f = m_fp_file THEN 1 ELSE 0

\* An entry is in a file of the name that was set, and of its own day or one
\* that is whole months away.  (Logger.h:8 says that files are kept by day; the
\* code compares days of the month.)  This holds although threads take the time
\* before the mutex, so that entries of two days alternate around midnight.
RightFile ==
  \A f \in Files : \A i \in DOMAIN disk[f] :
    /\ disk[f][i].name = f.name
    /\ tm_mday(disk[f][i].day) = tm_mday(f.day)

\* What is in a file stays there, also when a late entry goes back to it.
OnlyAdded ==
  [][\A f \in Files :
       /\ Len(disk[f]) <= Len(disk'[f])
       /\ SubSeq(disk'[f], 1, Len(disk[f])) = disk[f]]_vars

\* Entries miss their file only while the file of that day could not be opened.
\* It is not tried again before the day of the month changes.
LostIfNotOpened ==
  m_fp_file = None /\ m_file # None /\ m_day # 0
      /\ (\E t \in Threads : pc[t] # "ended") =>
    \E f \in failed : f.name = m_file /\ tm_mday(f.day) = m_day

=============================================================================
