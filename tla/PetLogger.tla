----------------------------- MODULE PetLogger ------------------------------
(***************************************************************************)
(* The log of a daemon: pet_logger.cpp.                                    *)
(*                                                                         *)
(* Several threads log through one object.  A message is appended to the   *)
(* open file; when the file has reached its size it is closed and a new    *)
(* one is opened.  A file is named after the second in which it is opened, *)
(* and opening truncates.  Around the logger the clock runs, files are     *)
(* removed, and disks fill up.                                             *)
(***************************************************************************)
EXTENDS Integers, Sequences, SequencesExt

CONSTANTS
  Threads,      \* threads that log
  Main,         \* the thread that initialises and destroys the logger
  Messages,     \* what they log, each message once
  Hello, Bye,   \* the logger's own first and last message
  MaxSize,      \* m_maxFileSize, counted in messages
  MaxClock,     \* bound: seconds the clock runs
  CanRemove,    \* may files be removed?
  CanFail       \* may opening and writing fail?

Lines   == Messages \cup {Hello, Bye}
Seconds == 0..MaxClock
Nobody  == "nobody"

ASSUME LoggerAssumption ==
  /\ Main \in Threads /\ Nobody \notin Threads
  /\ Hello # Bye /\ {Hello, Bye} \cap Messages = {}
  /\ MaxSize \in Nat /\ MaxClock \in Nat
  /\ CanRemove \in BOOLEAN /\ CanFail \in BOOLEAN

\* m_out is closed, or open on a file that has a name, or on one whose name
\* was removed.
Closed   == -1
Unlinked == -2

VARIABLES
  clock,
  disk,         \* what each name of a file holds; <<>> also if there is none
  out, size,    \* m_out and its tellp()
  limited,      \* has m_maxFileSize been set?
  mutex,        \* the thread that holds m_mtx
  pc, line,     \* where each thread is in FAST_LOG, and with which message
  stage,        \* the life of the object
  logged,       \* history: the messages handed to FAST_LOG, in order
  rate, burst,  \* history: messages in this second, most messages in one
  faults        \* history: what can cost messages

vars == <<clock, disk, out, size, limited, mutex, pc, line, stage, logged, rate,
          burst, faults>>
streamVars == <<disk, out, size>>
rateVars   == <<logged, rate, burst>>

TypeOK ==
  /\ clock \in Seconds
  /\ disk \in [Seconds -> Seq(Lines)]
  /\ out \in Seconds \cup {Closed, Unlinked}
  /\ size \in Nat
  /\ limited \in BOOLEAN
  /\ mutex \in Threads \cup {Nobody}
  /\ pc \in [Threads -> {"idle", "write", "rotate", "create"}]
  /\ \A t \in Threads : pc[t] # "idle" => mutex = t
  /\ line \in [Threads -> Lines]
  /\ stage \in {"new", "ready", "failed", "closing", "destroyed"}
  /\ logged \in Seq(Lines)
  /\ rate \in Nat /\ burst \in Nat
  /\ faults \subseteq {"sameName", "removed", "notOpened", "notWritten"}

Init ==
  /\ clock = 0
  /\ disk = [s \in Seconds |-> <<>>]
  /\ out = Closed /\ size = 0 /\ limited = FALSE
  /\ mutex = Nobody
  /\ pc = [t \in Threads |-> "idle"] /\ line = [t \in Threads |-> Hello]
  /\ stage = "new"
  /\ logged = <<>> /\ rate = 0 /\ burst = 0
  /\ faults = {}

-----------------------------------------------------------------------------
(* Files.                                                                  *)

\* createNewLogfile(): the name is the second, the file is truncated.
CreateNewLogfile ==
  \/ /\ out' = clock
     /\ disk' = [disk EXCEPT ![clock] = <<>>]
     /\ size' = 0
     /\ faults' = faults \cup (IF disk[clock] = <<>> THEN {} ELSE {"sameName"})
  \/ /\ CanFail
     /\ out' = Closed
     /\ faults' = faults \cup {"notOpened"}
     /\ UNCHANGED <<disk, size>>

\* Writing to a file that has no name any more succeeds.  When a write fails
\* tellp() is -1, which compares as a very large size.
AppendLine(m) ==
  \/ /\ disk' = IF out \in Seconds THEN [disk EXCEPT ![out] = Append(@, m)] ELSE disk
     /\ size' = size + 1
     /\ UNCHANGED faults
  \/ /\ CanFail
     /\ size' = MaxSize + 1
     /\ faults' = faults \cup {"notWritten"}
     /\ UNCHANGED disk

-----------------------------------------------------------------------------
(* FAST_LOG.                                                               *)

\* What a message does to the history.
Count(m) ==
  /\ logged' = Append(logged, m)
  /\ rate' = rate + 1
  /\ burst' = IF rate' > burst THEN rate' ELSE burst

Takes(t, m) ==
  /\ mutex' = t
  /\ pc' = [pc EXCEPT ![t] = "write"] /\ line' = [line EXCEPT ![t] = m]
  /\ Count(m)

Goes(t, to) == pc' = [pc EXCEPT ![t] = to] /\ UNCHANGED <<mutex, line>>
Leaves(t) == mutex' = Nobody /\ pc' = [pc EXCEPT ![t] = "idle"] /\ UNCHANGED line

\* Mutant: no lock_guard.
LockNot(t, m) ==
  /\ stage = "ready" /\ pc[t] = "idle" /\ m \notin ToSet(logged)
  /\ Takes(t, m)
  /\ UNCHANGED <<clock, streamVars, limited, stage, faults>>

\* The lock_guard.
Lock(t, m) ==
  /\ stage = "ready" /\ pc[t] = "idle" /\ m \notin ToSet(logged)
  /\ mutex = Nobody
  /\ Takes(t, m)
  /\ UNCHANGED <<clock, streamVars, limited, stage, faults>>

\* Mutant: the size is compared with > only.
WriteBeyond(t) ==
  /\ pc[t] = "write"
  /\ out # Closed /\ AppendLine(line[t])
  /\ \/ size' <= MaxSize /\ Leaves(t)
     \/ size' > MaxSize /\ Goes(t, "rotate")
  /\ UNCHANGED <<clock, out, limited, stage, rateVars>>

\* Mutant: every message is taken to reach the limit.
WriteAndRotate(t) ==
  /\ pc[t] = "write"
  /\ out # Closed /\ AppendLine(line[t])
  /\ Goes(t, "rotate")
  /\ UNCHANGED <<clock, out, limited, stage, rateVars>>

\* The stream is open: the message is written and flushed.  While the limit
\* was never set the comparison with it may come out either way.
Write(t) ==
  /\ pc[t] = "write"
  /\ out # Closed /\ AppendLine(line[t])
  /\ \/ (limited => size' < MaxSize) /\ Leaves(t)
     \/ (limited => size' >= MaxSize) /\ Goes(t, "rotate")
  /\ UNCHANGED <<clock, out, limited, stage, rateVars>>

\* The file is full: it is closed.
Rotate(t) ==
  /\ pc[t] = "rotate" /\ Goes(t, "create")
  /\ out' = Closed
  /\ UNCHANGED <<clock, disk, size, limited, stage, rateVars, faults>>

\* The stream is closed: a new file is opened, but not for this message.
FindClosed(t) ==
  /\ pc[t] = "write" /\ out = Closed
  /\ Goes(t, "create")
  /\ UNCHANGED <<clock, streamVars, limited, stage, rateVars, faults>>

Create(t) ==
  /\ pc[t] = "create" /\ Leaves(t)
  /\ CreateNewLogfile
  /\ UNCHANGED <<clock, limited, stage, rateVars>>

-----------------------------------------------------------------------------
(* The life of the object.                                                 *)

\* init(): the limit, the directory, the first file, the first message.
InitLogger ==
  /\ stage = "new"
  /\ \/ /\ limited' = TRUE
        /\ CreateNewLogfile
        /\ \/ out' # Closed /\ stage' = "ready" /\ Takes(Main, Hello)
           \/ out' = Closed /\ stage' = "failed" /\ UNCHANGED <<mutex, pc, line, rateVars>>
     \/ /\ CanFail /\ limited' \in BOOLEAN
        /\ stage' = "failed"
        /\ faults' = faults \cup {"notOpened"}
        /\ UNCHANGED <<streamVars, mutex, pc, line, rateVars>>
  /\ UNCHANGED clock

\* After a failed init() the daemon still logs its farewell.
LogFarewell(m) ==
  /\ stage = "failed" /\ logged = <<>>
  /\ Takes(Main, m)
  /\ UNCHANGED <<clock, streamVars, limited, stage, faults>>

\* ~petLogger: no other thread is left.
Destroy ==
  /\ stage \in {"ready", "failed"} /\ \A t \in Threads : pc[t] = "idle"
  /\ \/ out # Closed /\ stage' = "closing" /\ Takes(Main, Bye)
     \/ out = Closed /\ stage' = "destroyed" /\ UNCHANGED <<mutex, pc, line, rateVars>>
  /\ UNCHANGED <<clock, streamVars, limited, faults>>

CloseForGood ==
  /\ stage = "closing" /\ pc[Main] = "idle"
  /\ stage' = "destroyed" /\ out' = Closed
  /\ UNCHANGED <<clock, disk, size, limited, mutex, pc, line, rateVars, faults>>

-----------------------------------------------------------------------------
(* Around the logger.                                                      *)

Tick ==
  /\ clock < MaxClock
  /\ clock' = clock + 1
  /\ rate' = 0
  /\ UNCHANGED <<streamVars, limited, mutex, pc, line, stage, logged, burst, faults>>

\* rm: an open file loses its name and stays open.
RemoveFile(s) ==
  /\ CanRemove /\ (disk[s] # <<>> \/ out = s)
  /\ disk' = [disk EXCEPT ![s] = <<>>]
  /\ out' = IF out = s THEN Unlinked ELSE out
  /\ faults' = faults \cup {"removed"}
  /\ UNCHANGED <<clock, size, limited, mutex, pc, line, stage, rateVars>>

-----------------------------------------------------------------------------
FastLogStep(t) ==
  (\E m \in Messages : Lock(t, m)) \/ Write(t) \/ Rotate(t) \/ FindClosed(t) \/ Create(t)

Next ==
  \/ \E t \in Threads : FastLogStep(t)
  \/ InitLogger \/ (\E m \in Messages : LogFarewell(m)) \/ Destroy \/ CloseForGood
  \/ Tick \/ \E s \in Seconds : RemoveFile(s)

Spec == Init /\ [][Next]_vars

-----------------------------------------------------------------------------
(* Properties.                                                             *)

\* Places where the first n messages may be cut.
Cuts(n) == [0..(MaxClock + 1) -> 0..n]

\* The first n messages, cut there, are the files in the order of their names.
CutInto(start, n) ==
  /\ start[0] = 0 /\ start[MaxClock + 1] = n
  /\ \A s \in Seconds :
       /\ start[s + 1] = start[s] + Len(disk[s])
       /\ \A i \in 1..Len(disk[s]) : disk[s][i] = logged[start[s] + i]

\* Whatever thread logged it, every message is in the files, once and in the
\* order of the calls, unless a file was opened under a name that was in use,
\* a file was removed, or a file could not be opened or written.
Complete ==
  mutex = Nobody /\ faults = {} =>
    \E start \in Cuts(Len(logged)) : CutInto(start, Len(logged))

\* A file under a name in use is the work of a burst: while no second brings
\* as many messages as fit a file, no file is truncated.
TruncatesOnlyInBurst ==
  faults = {"sameName"} => burst >= MaxSize

\* No file grows beyond the limit by more than the message that reached it.
SizeBounded ==
  limited => \A s \in Seconds : Len(disk[s]) <= (IF MaxSize = 0 THEN 1 ELSE MaxSize)

=============================================================================
