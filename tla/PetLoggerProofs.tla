-------------------------- MODULE PetLoggerProofs ---------------------------
(***************************************************************************)
(* What PetLogger guarantees for any threads, messages, limits and faults. *)
(***************************************************************************)
EXTENDS PetLogger, TLAPS

AllIdle == \A t \in Threads : pc[t] = "idle"
Somebody(place) == \E t \in Threads : pc[t] = place

\* Nothing is logged before the first file is there, and after a failed
\* init() there is only the farewell.
LifeFits ==
  /\ stage = "new" => /\ out = Closed /\ size = 0 /\ ~limited
                      /\ AllIdle /\ logged = <<>> /\ faults = {}
                      /\ \A s \in Seconds : disk[s] = <<>>
  /\ stage = "failed" /\ logged = <<>> => AllIdle
  /\ stage = "closing" => \A t \in Threads \ {Main} : pc[t] = "idle"
  /\ rate <= burst

\* A file that is open and has not reached its limit has room for a message.
\* A write that failed makes it look larger than it is.
SizeFits ==
  limited =>
    /\ \A s \in Seconds : Len(disk[s]) <= (IF MaxSize = 0 THEN 1 ELSE MaxSize)
    /\ out \in Seconds => Len(disk[out]) <= size
    /\ out # Closed /\ ~Somebody("rotate") => size < MaxSize \/ size = 0

\* As long as nothing went wrong the file of this second holds messages of
\* this second only, and whoever is about to open a file has filled one.
BurstFits ==
  faults = {} /\ stage # "new" =>
    /\ stage # "failed" /\ limited /\ out # Unlinked
    /\ \A s \in Seconds : s > clock => disk[s] = <<>>
    /\ Len(disk[clock]) <= rate
    /\ out \in Seconds => /\ out <= clock /\ Len(disk[out]) = size
                          /\ out < clock => disk[clock] = <<>>
    /\ Somebody("write") => out # Closed /\ (out = clock => Len(disk[clock]) + 1 <= rate)
    /\ Somebody("rotate") => out # Closed /\ size >= MaxSize
    /\ Somebody("create") => disk[clock] = <<>> \/ Len(disk[clock]) >= MaxSize
    /\ out = Closed => stage = "destroyed" \/ Somebody("create")

IInv == TypeOK /\ LifeFits /\ SizeFits /\ BurstFits /\ TruncatesOnlyInBurst

-----------------------------------------------------------------------------
(* The mutex, files and the history.                                       *)

\* A thread inside FAST_LOG is the only one.
LEMMA Alone ==
  ASSUME TypeOK, NEW t \in Threads, pc[t] # "idle"
  PROVE  \A u \in Threads \ {t} : pc[u] = "idle"
  BY DEF TypeOK

LEMMA FreeIsIdle == ASSUME TypeOK, mutex = Nobody PROVE AllIdle
  BY LoggerAssumption DEF TypeOK, AllIdle

\* The thread t, alone inside FAST_LOG, goes on to another place in it.
LEMMA GoesOn ==
  ASSUME TypeOK, NEW t \in Threads, pc[t] # "idle", NEW to \in {"write", "rotate", "create"},
         Goes(t, to)
  PROVE  /\ pc' \in [Threads -> {"idle", "write", "rotate", "create"}]
         /\ mutex' \in Threads \cup {Nobody} /\ line' \in [Threads -> Lines]
         /\ \A u \in Threads : pc'[u] # "idle" => mutex' = u
         /\ \A u \in Threads : pc[u] = "idle" => pc'[u] = "idle"
         /\ \A p \in {"write", "rotate", "create"} : Somebody(p)' <=> p = to
  BY Alone DEF TypeOK, Goes, Somebody

\* It leaves.
LEMMA LeavesIt ==
  ASSUME TypeOK, NEW t \in Threads, pc[t] # "idle", Leaves(t)
  PROVE  /\ pc' \in [Threads -> {"idle", "write", "rotate", "create"}]
         /\ mutex' \in Threads \cup {Nobody} /\ line' \in [Threads -> Lines]
         /\ \A u \in Threads : pc'[u] = "idle"
  BY Alone DEF TypeOK, Leaves

\* It enters with a message when nobody is inside.
LEMMA Enters ==
  ASSUME TypeOK, AllIdle, NEW t \in Threads, NEW m \in Lines, Takes(t, m)
  PROVE  /\ pc' \in [Threads -> {"idle", "write", "rotate", "create"}]
         /\ mutex' \in Threads \cup {Nobody} /\ line' \in [Threads -> Lines]
         /\ \A u \in Threads : pc'[u] # "idle" => mutex' = u
         /\ \A u \in Threads \ {t} : pc'[u] = "idle"
         /\ \A p \in {"write", "rotate", "create"} : Somebody(p)' <=> p = "write"
         /\ logged' \in Seq(Lines) /\ logged' # <<>>
         /\ rate' = rate + 1 /\ rate' \in Nat /\ burst' \in Nat
         /\ rate' <= burst' /\ burst' >= burst
  <1>1. /\ pc' = [pc EXCEPT ![t] = "write"] /\ mutex' = t
        /\ line' = [line EXCEPT ![t] = m]
    BY DEF Takes
  <1>2. /\ logged' = Append(logged, m) /\ rate' = rate + 1
        /\ burst' = IF rate' > burst THEN rate' ELSE burst
    BY DEF Takes, Count
  <1>3. logged' \in Seq(Lines) /\ logged' # <<>>
    <2>1. logged \in Seq(Lines)
      BY DEF TypeOK
    <2> QED BY <1>2, <2>1
  <1>4. rate' \in Nat /\ burst' \in Nat /\ rate' <= burst' /\ burst' >= burst
    BY <1>2 DEF TypeOK
  <1> QED BY <1>1, <1>2, <1>3, <1>4 DEF TypeOK, AllIdle, Somebody

\* A file is created, or none is.
LEMMA CreateFacts ==
  ASSUME TypeOK, CreateNewLogfile
  PROVE  /\ disk' \in [Seconds -> Seq(Lines)] /\ size' \in Nat
         /\ faults' \subseteq {"sameName", "removed", "notOpened", "notWritten"}
         /\ \A s \in Seconds : disk'[s] \in {disk[s], <<>>}
         /\ \/ /\ out' = clock /\ disk'[clock] = <<>> /\ size' = 0
               /\ \A s \in Seconds \ {clock} : disk'[s] = disk[s]
               /\ faults' = faults \cup (IF disk[clock] = <<>> THEN {} ELSE {"sameName"})
            \/ /\ out' = Closed /\ disk' = disk /\ size' = size
               /\ faults' = faults \cup {"notOpened"}
  <1>1. disk \in [Seconds -> Seq(Lines)] /\ clock \in Seconds /\ size \in Nat
        /\ faults \subseteq {"sameName", "removed", "notOpened", "notWritten"}
    BY DEF TypeOK
  <1>2. CASE /\ out' = clock /\ disk' = [disk EXCEPT ![clock] = <<>>] /\ size' = 0
             /\ faults' = faults \cup (IF disk[clock] = <<>> THEN {} ELSE {"sameName"})
    <2>1. <<>> \in Seq(Lines)
      OBVIOUS
    <2>2. disk' \in [Seconds -> Seq(Lines)] /\ disk'[clock] = <<>>
          /\ \A s \in Seconds \ {clock} : disk'[s] = disk[s]
      BY <1>1, <1>2, <2>1
    <2> QED BY <1>1, <1>2, <2>2
  <1>3. CASE out' = Closed /\ faults' = faults \cup {"notOpened"} /\ UNCHANGED <<disk, size>>
    BY <1>1, <1>3
  <1> QED BY <1>2, <1>3 DEF CreateNewLogfile

\* A message is written, or it is not.
LEMMA AppendFacts ==
  ASSUME TypeOK, NEW m \in Lines, AppendLine(m)
  PROVE  /\ disk' \in [Seconds -> Seq(Lines)] /\ size' \in Nat
         /\ faults' \subseteq {"sameName", "removed", "notOpened", "notWritten"}
         /\ \A s \in Seconds \ {out} : disk'[s] = disk[s]
         /\ \/ /\ size' = size + 1 /\ faults' = faults
               /\ out \in Seconds => disk'[out] = Append(disk[out], m)
                                     /\ Len(disk'[out]) = Len(disk[out]) + 1
            \/ /\ size' = MaxSize + 1 /\ faults' = faults \cup {"notWritten"}
               /\ disk' = disk
  <1>1. disk \in [Seconds -> Seq(Lines)] /\ size \in Nat /\ MaxSize \in Nat
    BY LoggerAssumption DEF TypeOK
  <1>2. CASE /\ disk' = (IF out \in Seconds THEN [disk EXCEPT ![out] = Append(@, m)] ELSE disk)
             /\ size' = size + 1 /\ faults' = faults
    BY <1>1, <1>2 DEF TypeOK
  <1>3. CASE /\ size' = MaxSize + 1 /\ disk' = disk /\ faults' = faults \cup {"notWritten"}
    BY <1>1, <1>3 DEF TypeOK
  <1> QED BY <1>2, <1>3 DEF AppendLine

-----------------------------------------------------------------------------
LEMMA InitInv == Init => IInv
  <1> SUFFICES ASSUME Init PROVE IInv
    OBVIOUS
  <1> USE LoggerAssumption DEF Init
  <1>1. clock \in Seconds /\ <<>> \in Seq(Lines) /\ Hello \in Lines
    BY DEF Seconds, Lines
  <1>2. TypeOK
    BY <1>1 DEF TypeOK
  <1>3. LifeFits /\ SizeFits /\ BurstFits /\ TruncatesOnlyInBurst
    BY <1>1 DEF LifeFits, SizeFits, BurstFits, TruncatesOnlyInBurst, AllIdle
  <1> QED BY <1>2, <1>3 DEF IInv

-----------------------------------------------------------------------------
(* FAST_LOG.                                                               *)

LEMMA LockKeeps ==
  ASSUME IInv, NEW t \in Threads, NEW m \in Messages, Lock(t, m)
  PROVE  IInv'
  <1> USE DEF IInv, Lock, streamVars
  <1>1. AllIdle /\ m \in Lines
    BY FreeIsIdle DEF Lines
  <1>2. /\ pc' \in [Threads -> {"idle", "write", "rotate", "create"}]
        /\ mutex' \in Threads \cup {Nobody} /\ line' \in [Threads -> Lines]
        /\ \A u \in Threads : pc'[u] # "idle" => mutex' = u
        /\ \A p \in {"write", "rotate", "create"} : Somebody(p)' <=> p = "write"
        /\ logged' \in Seq(Lines) /\ logged' # <<>>
        /\ rate' = rate + 1 /\ rate' \in Nat /\ burst' \in Nat
        /\ rate' <= burst' /\ burst' >= burst
    BY <1>1, Enters
  <1>3. TypeOK'
    BY <1>2 DEF TypeOK
  <1>4. LifeFits'
    BY <1>2 DEF LifeFits
  <1>5. SizeFits'
    BY <1>1, <1>2 DEF SizeFits, Somebody, AllIdle
  <1>6. BurstFits'
    <2> SUFFICES ASSUME faults = {} PROVE BurstFits'
      BY DEF BurstFits
    <2>1. ~Somebody("create") /\ out # Closed
      BY <1>1 DEF BurstFits, AllIdle, Somebody
    <2>2. rate \in Nat /\ Len(disk[clock]) \in Nat
      BY DEF TypeOK
    <2> QED BY <1>2, <2>1, <2>2 DEF BurstFits
  <1>7. TruncatesOnlyInBurst'
    BY <1>2, LoggerAssumption DEF TruncatesOnlyInBurst, TypeOK
  <1> QED BY <1>3, <1>4, <1>5, <1>6, <1>7

LEMMA WriteKeeps == ASSUME IInv, NEW t \in Threads, Write(t) PROVE IInv'
  <1> USE LoggerAssumption DEF IInv, rateVars
  <1>0. /\ pc[t] = "write" /\ Somebody("write") /\ out # Closed /\ line[t] \in Lines
        /\ UNCHANGED <<clock, out, limited, stage, logged, rate, burst>>
        /\ AppendLine(line[t])
    BY DEF Write, Somebody, TypeOK
  <1>1. ~Somebody("rotate") /\ ~Somebody("create") /\ stage # "new"
        /\ ~(stage = "failed" /\ logged = <<>>)
    BY <1>0, Alone DEF Somebody, LifeFits, AllIdle
  <1>2. /\ disk' \in [Seconds -> Seq(Lines)] /\ size' \in Nat
        /\ faults' \subseteq {"sameName", "removed", "notOpened", "notWritten"}
        /\ \A s \in Seconds \ {out} : disk'[s] = disk[s]
        /\ \/ /\ size' = size + 1 /\ faults' = faults
              /\ out \in Seconds => disk'[out] = Append(disk[out], line[t])
                                    /\ Len(disk'[out]) = Len(disk[out]) + 1
           \/ /\ size' = MaxSize + 1 /\ faults' = faults \cup {"notWritten"}
              /\ disk' = disk
    BY <1>0, AppendFacts
  <1>3. /\ pc' \in [Threads -> {"idle", "write", "rotate", "create"}]
        /\ mutex' \in Threads \cup {Nobody} /\ line' \in [Threads -> Lines]
        /\ \A u \in Threads : pc'[u] # "idle" => mutex' = u
        /\ \A u \in Threads : pc[u] = "idle" => pc'[u] = "idle"
        /\ ~Somebody("write")' /\ ~Somebody("create")'
        /\ \/ (limited => size' < MaxSize) /\ ~Somebody("rotate")'
           \/ (limited => size' >= MaxSize) /\ Somebody("rotate")'
    <2>1. CASE (limited => size' < MaxSize) /\ Leaves(t)
      BY <1>0, <2>1, LeavesIt DEF Somebody
    <2>2. CASE (limited => size' >= MaxSize) /\ Goes(t, "rotate")
      BY <1>0, <2>2, GoesOn
    <2> QED BY <2>1, <2>2 DEF Write
  <1>4. TypeOK'
    BY <1>0, <1>2, <1>3 DEF TypeOK
  <1>5. LifeFits'
    BY <1>0, <1>1, <1>3 DEF LifeFits
  <1>6. /\ \A s \in Seconds : Len(disk[s]) \in Nat /\ Len(disk'[s]) \in Nat
        /\ size \in Nat /\ MaxSize \in Nat /\ rate \in Nat
    BY <1>2 DEF TypeOK
  <1>7. SizeFits'
    <2> SUFFICES ASSUME limited PROVE SizeFits'
      BY <1>0 DEF SizeFits
    <2>1. size < MaxSize \/ size = 0
      BY <1>0, <1>1 DEF SizeFits
    <2>2. \A s \in Seconds : Len(disk'[s]) <= (IF MaxSize = 0 THEN 1 ELSE MaxSize)
      BY <1>2, <1>6, <2>1 DEF SizeFits
    <2>3. out \in Seconds => Len(disk'[out]) <= size'
      BY <1>2, <1>6 DEF SizeFits
    <2> QED BY <1>0, <1>3, <2>2, <2>3 DEF SizeFits
  <1>8. BurstFits'
    <2> SUFFICES ASSUME faults' = {} PROVE BurstFits'
      BY DEF BurstFits
    <2>1. faults = {} /\ size' = size + 1
          /\ (out \in Seconds => Len(disk'[out]) = Len(disk[out]) + 1)
      BY <1>2
    <2>2. clock \in Seconds /\ out \in Seconds
      BY <1>0, <1>1, <2>1 DEF TypeOK, BurstFits
    <2>3. out \in Nat /\ clock \in Nat
      BY <2>2 DEF Seconds
    <2>4. (\A s \in Seconds : s > clock => disk'[s] = <<>>) /\ Len(disk'[clock]) <= rate
      <3>1. \A s \in Seconds : s > clock => disk'[s] = <<>>
        <4> SUFFICES ASSUME NEW s \in Seconds, s > clock PROVE disk'[s] = <<>>
          OBVIOUS
        <4>1. s # out
          BY <1>1, <2>1, <2>2, <2>3 DEF BurstFits, Seconds
        <4> QED BY <1>1, <1>2, <2>1, <4>1 DEF BurstFits
      <3>2. CASE out = clock
        BY <1>0, <1>1, <1>6, <2>1, <2>2, <3>1, <3>2 DEF BurstFits
      <3>3. CASE out # clock
        BY <1>1, <1>2, <2>1, <2>2, <3>1, <3>3 DEF BurstFits
      <3> QED BY <3>1, <3>2, <3>3
    <2>5. out <= clock /\ Len(disk'[out]) = size' /\ (out < clock => disk'[clock] = <<>>)
      BY <1>0, <1>1, <1>2, <1>6, <2>1, <2>2, <2>3 DEF BurstFits
    <2> QED BY <1>0, <1>1, <1>3, <2>1, <2>4, <2>5 DEF BurstFits
  <1>9. TruncatesOnlyInBurst'
    <2> SUFFICES ASSUME faults' = {"sameName"} PROVE burst' >= MaxSize
      BY DEF TruncatesOnlyInBurst
    <2>1. faults = {"sameName"}
      BY <1>2
    <2> QED BY <1>0, <2>1 DEF TruncatesOnlyInBurst
  <1> QED BY <1>4, <1>5, <1>7, <1>8, <1>9

LEMMA RotateKeeps == ASSUME IInv, NEW t \in Threads, Rotate(t) PROVE IInv'
  <1> USE LoggerAssumption DEF IInv, rateVars
  <1>0. /\ pc[t] = "rotate" /\ Somebody("rotate") /\ out' = Closed /\ Goes(t, "create")
        /\ UNCHANGED <<clock, disk, size, limited, stage, logged, rate, burst, faults>>
    BY DEF Rotate, Somebody
  <1>1. /\ pc' \in [Threads -> {"idle", "write", "rotate", "create"}]
        /\ mutex' \in Threads \cup {Nobody} /\ line' \in [Threads -> Lines]
        /\ \A u \in Threads : pc'[u] # "idle" => mutex' = u
        /\ \A u \in Threads : pc[u] = "idle" => pc'[u] = "idle"
        /\ ~Somebody("write")' /\ ~Somebody("rotate")' /\ Somebody("create")'
    BY <1>0, GoesOn
  <1>2. stage # "new" /\ ~(stage = "failed" /\ logged = <<>>)
    BY <1>0 DEF LifeFits, AllIdle
  <1>3. TypeOK'
    BY <1>0, <1>1 DEF TypeOK
  <1>4. LifeFits'
    BY <1>0, <1>1, <1>2 DEF LifeFits
  <1>5. SizeFits'
    BY <1>0 DEF SizeFits, Closed, Seconds
  <1>6. BurstFits'
    <2> SUFFICES ASSUME faults = {} PROVE BurstFits'
      BY <1>0 DEF BurstFits
    <2>1. out \in Seconds /\ clock \in Seconds
      BY <1>0, <1>2 DEF BurstFits, TypeOK
    <2>2. disk[clock] = <<>> \/ Len(disk[clock]) >= MaxSize
      <3>1. out \in Nat /\ clock \in Nat
        BY <2>1 DEF Seconds
      <3> QED BY <1>0, <1>2, <2>1, <3>1 DEF BurstFits
    <2>3. out' \notin Seconds /\ out' # Unlinked
      BY <1>0 DEF Closed, Unlinked, Seconds
    <2> QED BY <1>0, <1>1, <1>2, <2>2, <2>3 DEF BurstFits
  <1>7. TruncatesOnlyInBurst'
    BY <1>0 DEF TruncatesOnlyInBurst
  <1> QED BY <1>3, <1>4, <1>5, <1>6, <1>7

\* A stream that is closed is not found by a thread that writes, unless
\* something went wrong.
LEMMA FindClosedKeeps == ASSUME IInv, NEW t \in Threads, FindClosed(t) PROVE IInv'
  <1> USE DEF IInv, rateVars, streamVars
  <1>0. /\ pc[t] = "write" /\ Somebody("write") /\ out = Closed /\ Goes(t, "create")
        /\ UNCHANGED <<clock, disk, out, size, limited, stage, logged, rate, burst, faults>>
    BY DEF FindClosed, Somebody
  <1>1. /\ pc' \in [Threads -> {"idle", "write", "rotate", "create"}]
        /\ mutex' \in Threads \cup {Nobody} /\ line' \in [Threads -> Lines]
        /\ \A u \in Threads : pc'[u] # "idle" => mutex' = u
        /\ \A u \in Threads : pc[u] = "idle" => pc'[u] = "idle"
    BY <1>0, GoesOn
  <1>2. stage # "new" /\ ~(stage = "failed" /\ logged = <<>>)
    BY <1>0 DEF LifeFits, AllIdle
  <1>3. TypeOK'
    BY <1>0, <1>1 DEF TypeOK
  <1>4. (LifeFits /\ SizeFits /\ TruncatesOnlyInBurst)'
    BY <1>0, <1>1, <1>2 DEF LifeFits, SizeFits, TruncatesOnlyInBurst
  <1>5. BurstFits'
    BY <1>0, <1>2 DEF BurstFits
  <1> QED BY <1>3, <1>4, <1>5

LEMMA CreateKeeps == ASSUME IInv, NEW t \in Threads, Create(t) PROVE IInv'
  <1> USE LoggerAssumption DEF IInv, rateVars
  <1>0. /\ pc[t] = "create" /\ Somebody("create") /\ Leaves(t) /\ CreateNewLogfile
        /\ UNCHANGED <<clock, limited, stage, logged, rate, burst>>
    BY DEF Create, Somebody
  <1>1. /\ pc' \in [Threads -> {"idle", "write", "rotate", "create"}]
        /\ mutex' \in Threads \cup {Nobody} /\ line' \in [Threads -> Lines]
        /\ \A u \in Threads : pc'[u] = "idle"
    BY <1>0, LeavesIt
  <1>2. /\ disk' \in [Seconds -> Seq(Lines)] /\ size' \in Nat
        /\ faults' \subseteq {"sameName", "removed", "notOpened", "notWritten"}
        /\ \A s \in Seconds : disk'[s] \in {disk[s], <<>>}
        /\ \/ /\ out' = clock /\ disk'[clock] = <<>> /\ size' = 0
              /\ \A s \in Seconds \ {clock} : disk'[s] = disk[s]
              /\ faults' = faults \cup (IF disk[clock] = <<>> THEN {} ELSE {"sameName"})
           \/ /\ out' = Closed /\ disk' = disk /\ size' = size
              /\ faults' = faults \cup {"notOpened"}
    BY <1>0, CreateFacts
  <1>3. stage # "new" /\ ~(stage = "failed" /\ logged = <<>>)
    BY <1>0 DEF LifeFits, AllIdle
  <1>4. TypeOK'
    BY <1>0, <1>1, <1>2 DEF TypeOK
  <1>5. LifeFits'
    BY <1>0, <1>1, <1>3 DEF LifeFits
  <1>6. /\ Len(<<>>) = 0 /\ clock \in Seconds /\ clock \in Nat /\ Closed \notin Seconds
        /\ rate \in Nat /\ burst \in Nat
        /\ \A s \in Seconds : Len(disk[s]) \in Nat /\ Len(disk'[s]) \in Nat
    BY <1>2 DEF TypeOK, Seconds, Closed
  <1>7. SizeFits'
    BY <1>0, <1>2, <1>6 DEF SizeFits
  <1>8. BurstFits'
    <2> SUFFICES ASSUME faults' = {} PROVE BurstFits'
      BY DEF BurstFits
    <2>1. faults = {} /\ out' = clock /\ disk'[clock] = <<>> /\ size' = 0
      BY <1>2
    <2> QED BY <1>0, <1>1, <1>2, <1>3, <1>6, <2>1 DEF BurstFits, Somebody, Closed, Unlinked
  <1>9. TruncatesOnlyInBurst'
    <2> SUFFICES ASSUME faults' = {"sameName"} PROVE burst >= MaxSize
      BY <1>0 DEF TruncatesOnlyInBurst
    <2>1. CASE faults = {"sameName"}
      BY <2>1 DEF TruncatesOnlyInBurst
    <2>2. CASE faults # {"sameName"}
      <3>1. faults = {} /\ disk[clock] # <<>>
        BY <1>2, <2>2
      <3>2. Len(disk[clock]) >= MaxSize /\ Len(disk[clock]) <= rate /\ rate <= burst
        BY <1>0, <1>3, <3>1 DEF BurstFits, LifeFits
      <3> QED BY <1>6, <3>2
    <2> QED BY <2>1, <2>2
  <1> QED BY <1>4, <1>5, <1>7, <1>8, <1>9

-----------------------------------------------------------------------------
(* The life of the object, and what surrounds it.                          *)

LEMMA InitLoggerKeeps == ASSUME IInv, InitLogger PROVE IInv'
  <1> USE LoggerAssumption DEF IInv, InitLogger, streamVars, rateVars
  <1>0. /\ stage = "new" /\ out = Closed /\ size = 0 /\ ~limited /\ AllIdle /\ logged = <<>>
        /\ faults = {} /\ (\A s \in Seconds : disk[s] = <<>>) /\ clock' = clock
        /\ clock \in Seconds /\ Len(<<>>) = 0 /\ rate \in Nat /\ burst \in Nat
        /\ rate <= burst /\ Hello \in Lines /\ clock \in Nat /\ Closed \notin Seconds
        /\ Unlinked \notin Seconds /\ clock # Closed /\ clock # Unlinked
    BY DEF LifeFits, TypeOK, Lines, Seconds, Closed, Unlinked
  <1>1. CASE /\ limited' = TRUE /\ CreateNewLogfile
             /\ out' # Closed /\ stage' = "ready" /\ Takes(Main, Hello)
    <2>1. /\ pc' \in [Threads -> {"idle", "write", "rotate", "create"}]
          /\ mutex' \in Threads \cup {Nobody} /\ line' \in [Threads -> Lines]
          /\ \A u \in Threads : pc'[u] # "idle" => mutex' = u
          /\ \A p \in {"write", "rotate", "create"} : Somebody(p)' <=> p = "write"
          /\ logged' \in Seq(Lines) /\ logged' # <<>>
          /\ rate' = rate + 1 /\ rate' \in Nat /\ burst' \in Nat
          /\ rate' <= burst' /\ burst' >= burst
      BY <1>0, <1>1, Enters
    <2>2. /\ disk' \in [Seconds -> Seq(Lines)] /\ size' = 0 /\ out' = clock /\ faults' = {}
          /\ \A s \in Seconds : disk'[s] = <<>>
      BY <1>0, <1>1, CreateFacts
    <2>3. TypeOK'
      BY <1>0, <1>1, <2>1, <2>2 DEF TypeOK
    <2>4. LifeFits' /\ SizeFits'
      BY <1>0, <1>1, <2>1, <2>2 DEF LifeFits, SizeFits
    <2>5. BurstFits' /\ TruncatesOnlyInBurst'
      BY <1>0, <1>1, <2>1, <2>2 DEF BurstFits, TruncatesOnlyInBurst
    <2> QED BY <2>3, <2>4, <2>5
  <1>2. CASE /\ out' = Closed /\ stage' = "failed" /\ limited' \in BOOLEAN
             /\ UNCHANGED <<mutex, pc, line, logged, rate, burst>>
             /\ \/ CreateNewLogfile
                \/ faults' = faults \cup {"notOpened"} /\ UNCHANGED <<disk, out, size>>
    <2>1. disk' = disk /\ size' = size /\ faults' = {"notOpened"}
      BY <1>0, <1>2, CreateFacts
    <2>2. TypeOK'
      BY <1>0, <1>2, <2>1 DEF TypeOK
    <2>3. LifeFits' /\ SizeFits'
      BY <1>0, <1>2, <2>1 DEF LifeFits, SizeFits, AllIdle
    <2>4. BurstFits' /\ TruncatesOnlyInBurst'
      BY <2>1 DEF BurstFits, TruncatesOnlyInBurst
    <2> QED BY <2>2, <2>3, <2>4
  <1> QED BY <1>0, <1>1, <1>2

\* A thread enters FAST_LOG at the end of the object's life.
LEMMA LastWordsKeep ==
  ASSUME IInv, AllIdle, NEW m \in Lines, Takes(Main, m), stage \in {"ready", "failed"},
         stage' \in {stage, "closing"},
         UNCHANGED <<clock, disk, out, size, limited, faults>>
  PROVE  IInv'
  <1> USE LoggerAssumption DEF IInv
  <1>1. /\ pc' \in [Threads -> {"idle", "write", "rotate", "create"}]
        /\ mutex' \in Threads \cup {Nobody} /\ line' \in [Threads -> Lines]
        /\ \A u \in Threads : pc'[u] # "idle" => mutex' = u
        /\ \A u \in Threads \ {Main} : pc'[u] = "idle"
        /\ \A p \in {"write", "rotate", "create"} : Somebody(p)' <=> p = "write"
        /\ logged' \in Seq(Lines) /\ logged' # <<>>
        /\ rate' = rate + 1 /\ rate' \in Nat /\ burst' \in Nat
        /\ rate' <= burst' /\ burst' >= burst
    BY Enters
  <1>2. TypeOK'
    BY <1>1 DEF TypeOK
  <1>3. LifeFits' /\ SizeFits'
    BY <1>1 DEF LifeFits, SizeFits, AllIdle, Somebody
  <1>4. BurstFits'
    <2> SUFFICES ASSUME faults = {} PROVE BurstFits'
      BY DEF BurstFits
    <2>1. ~Somebody("create") /\ out # Closed
      BY DEF BurstFits, AllIdle, Somebody
    <2>2. rate \in Nat /\ Len(disk[clock]) \in Nat
      BY DEF TypeOK
    <2> QED BY <1>1, <2>1, <2>2 DEF BurstFits
  <1>5. TruncatesOnlyInBurst'
    BY <1>1 DEF TruncatesOnlyInBurst, TypeOK
  <1> QED BY <1>2, <1>3, <1>4, <1>5

LEMMA LifeKeeps ==
  ASSUME IInv, (\E m \in Messages : LogFarewell(m)) \/ Destroy \/ CloseForGood
  PROVE  IInv'
  <1> USE DEF IInv, streamVars, rateVars
  <1>1. ASSUME NEW m \in Messages, LogFarewell(m) PROVE IInv'
    BY <1>1, LastWordsKeep DEF LogFarewell, LifeFits, Lines
  <1>2. CASE Destroy
    <2>1. AllIdle /\ Bye \in Lines
      BY <1>2 DEF Destroy, AllIdle, Lines
    <2>2. CASE stage' = "closing" /\ Takes(Main, Bye)
      BY <1>2, <2>1, <2>2, LastWordsKeep DEF Destroy
    <2>3. CASE stage' = "destroyed" /\ UNCHANGED <<mutex, pc, line, logged, rate, burst>>
      BY <1>2, <2>1, <2>3
      DEF Destroy, TypeOK, LifeFits, SizeFits, BurstFits, TruncatesOnlyInBurst, AllIdle, Somebody
    <2> QED BY <1>2, <2>2, <2>3 DEF Destroy
  <1>3. CASE CloseForGood
    <2>1. /\ stage = "closing" /\ stage' = "destroyed" /\ out' = Closed
          /\ UNCHANGED <<clock, disk, size, limited, mutex, pc, line, logged, rate, burst, faults>>
      BY <1>3 DEF CloseForGood
    <2>a. AllIdle
      BY <1>3 DEF CloseForGood, LifeFits, AllIdle
    <2>2. TypeOK' /\ LifeFits' /\ TruncatesOnlyInBurst'
      BY <2>1 DEF TypeOK, LifeFits, TruncatesOnlyInBurst, AllIdle
    <2>3. SizeFits'
      BY <2>1 DEF SizeFits, Closed, Seconds
    <2>4. BurstFits'
      <3>1. Closed # Unlinked /\ Closed \notin Seconds
        BY DEF Closed, Unlinked, Seconds
      <3> QED BY <2>1, <2>a, <3>1 DEF BurstFits, AllIdle, Somebody
    <2> QED BY <2>2, <2>3, <2>4
  <1> QED BY <1>1, <1>2, <1>3

LEMMA TickKeeps == ASSUME IInv, Tick PROVE IInv'
  <1> USE LoggerAssumption DEF IInv, streamVars
  <1>0. /\ clock \in 0..MaxClock /\ clock' = clock + 1 /\ clock' \in 0..MaxClock /\ rate' = 0
        /\ clock' \in Seconds /\ clock \in Nat
        /\ UNCHANGED <<disk, out, size, limited, mutex, pc, line, stage, logged, burst, faults>>
    BY DEF Tick, TypeOK, Seconds
  <1>1. TypeOK'
    BY <1>0 DEF TypeOK
  <1>2. LifeFits' /\ SizeFits' /\ TruncatesOnlyInBurst'
    BY <1>0 DEF LifeFits, SizeFits, TruncatesOnlyInBurst, AllIdle, Somebody, TypeOK
  <1>3. BurstFits'
    <2> SUFFICES ASSUME faults = {}, stage # "new" PROVE BurstFits'
      BY <1>0 DEF BurstFits
    <2>1. disk[clock'] = <<>> /\ Len(<<>>) = 0
      BY <1>0 DEF BurstFits
    <2>2. \A s \in Seconds : s > clock' => disk[s] = <<>>
      BY <1>0 DEF BurstFits, Seconds
    <2>3. out \in Seconds => out < clock' /\ out <= clock' /\ out # clock'
      BY <1>0 DEF BurstFits, Seconds
    <2>4. out = clock' => out \in Seconds
      BY <1>0
    <2> QED BY <1>0, <2>1, <2>2, <2>3, <2>4 DEF BurstFits, Somebody
  <1> QED BY <1>1, <1>2, <1>3

LEMMA RemoveKeeps == ASSUME IInv, NEW s \in Seconds, RemoveFile(s) PROVE IInv'
  <1> USE LoggerAssumption DEF IInv, rateVars
  <1>0. /\ disk' = [disk EXCEPT ![s] = <<>>] /\ out' = IF out = s THEN Unlinked ELSE out
        /\ faults' = faults \cup {"removed"} /\ <<>> \in Seq(Lines) /\ Len(<<>>) = 0
        /\ UNCHANGED <<clock, size, limited, mutex, pc, line, stage, logged, rate, burst>>
        /\ Unlinked \notin Seconds /\ Unlinked # Closed /\ Closed \notin Seconds
    BY DEF RemoveFile, Unlinked, Closed, Seconds
  <1>1. TypeOK'
    BY <1>0 DEF TypeOK
  <1>2. \A u \in Seconds : disk'[u] = IF u = s THEN <<>> ELSE disk[u]
    BY <1>0 DEF TypeOK
  <1>3. LifeFits'
    <2>1. stage # "new"
      BY DEF RemoveFile, LifeFits, Seconds, Closed
    <2> QED BY <1>0, <2>1 DEF LifeFits, AllIdle
  <1>4. SizeFits'
    <2> SUFFICES ASSUME limited PROVE SizeFits'
      BY <1>0 DEF SizeFits
    <2>1. \A u \in Seconds : Len(disk'[u]) <= (IF MaxSize = 0 THEN 1 ELSE MaxSize)
      BY <1>0, <1>2 DEF SizeFits
    <2>2. out' \in Seconds => Len(disk'[out']) <= size'
      BY <1>0, <1>2 DEF SizeFits
    <2>3. out' # Closed /\ ~Somebody("rotate")' => size' < MaxSize \/ size' = 0
      BY <1>0 DEF SizeFits, Somebody
    <2> QED BY <2>1, <2>2, <2>3 DEF SizeFits
  <1>5. BurstFits' /\ TruncatesOnlyInBurst'
    BY <1>0 DEF BurstFits, TruncatesOnlyInBurst
  <1> QED BY <1>1, <1>3, <1>4, <1>5

LEMMA NextInv == IInv /\ [Next]_vars => IInv'
  <1> SUFFICES ASSUME IInv, [Next]_vars PROVE IInv'
    OBVIOUS
  <1>1. CASE UNCHANGED vars
    BY <1>1 DEF vars, IInv, TypeOK, LifeFits, SizeFits, BurstFits, TruncatesOnlyInBurst,
                AllIdle, Somebody
  <1> QED BY <1>1, LockKeeps, WriteKeeps, RotateKeeps, FindClosedKeeps, CreateKeeps,
             InitLoggerKeeps, LifeKeeps, TickKeeps, RemoveKeeps DEF Next, FastLogStep

-----------------------------------------------------------------------------
(* The files together: an induction of its own, on top of IInv.            *)

\* The messages that are no longer on their way to a file.
Settled == Len(logged) - (IF Somebody("write") THEN 1 ELSE 0)

\* The places s that are behind all that is in the files.
Ahead(s) == s > clock \/ (out \in Seconds /\ s > out)

\* As long as nothing went wrong the settled messages are cut into the files,
\* and all of them come before the files that are still to be opened and behind
\* the open one.  The message on its way is the last.
OrderFits ==
  faults = {} =>
    /\ Settled \in Nat
    /\ \A t \in Threads : pc[t] = "write" => line[t] = logged[Len(logged)]
    /\ \E start \in Cuts(Settled) :
         /\ CutInto(start, Settled)
         /\ \A s \in 1..(MaxClock + 1) : Ahead(s) => start[s] = Settled

\* A cut stays one while the files and the settled messages stay as they are.
LEMMA CutStands ==
  ASSUME IInv, OrderFits, faults = {},
         \A s \in Seconds : disk'[s] = disk[s],
         Settled' = Settled, \A i \in 1..Settled : logged'[i] = logged[i],
         \A t \in Threads : pc'[t] = "write" => line'[t] = logged'[Len(logged')],
         \A s \in 1..(MaxClock + 1) : Ahead(s)' => Ahead(s)
  PROVE  OrderFits'
  <1>1. PICK start \in Cuts(Settled) :
          /\ CutInto(start, Settled)
          /\ \A s \in 1..(MaxClock + 1) : Ahead(s) => start[s] = Settled
    BY DEF OrderFits
  <1>2. Settled \in Nat /\ MaxClock \in Nat
    BY LoggerAssumption DEF OrderFits
  <1>3. ASSUME NEW s \in Seconds, NEW i \in 1..Len(disk'[s])
        PROVE  disk'[s][i] = logged'[start[s] + i]
    <2>1. /\ s \in 0..(MaxClock + 1) /\ s + 1 \in 0..(MaxClock + 1)
          /\ Len(disk[s]) \in Nat /\ i \in 1..Len(disk[s])
      BY <1>2, <1>3 DEF Seconds, IInv, TypeOK
    <2>2. /\ start[s] \in 0..Settled /\ start[s + 1] \in 0..Settled
          /\ start[s + 1] = start[s] + Len(disk[s])
          /\ disk[s][i] = logged[start[s] + i]
      BY <1>1, <2>1 DEF Cuts, CutInto
    <2>3. start[s] + i \in 1..Settled
      BY <1>2, <2>1, <2>2
    <2> QED BY <2>2, <2>3
  <1>4. CutInto(start, Settled)'
    BY <1>1, <1>3 DEF CutInto
  <1>5. start \in Cuts(Settled)'
    BY <1>1 DEF Cuts
  <1>6. \A s \in 1..(MaxClock + 1) : Ahead(s)' => start[s] = Settled'
    BY <1>1
  <1> QED BY <1>2, <1>4, <1>5, <1>6 DEF OrderFits

\* A thread enters with a message: there is one more that is not settled.
LEMMA EntryKeepsOrder ==
  ASSUME IInv, OrderFits, faults' = {} => faults = {}, AllIdle,
         NEW t \in Threads, NEW m \in Lines, Takes(t, m),
         \A s \in Seconds : disk'[s] = disk[s],
         \A s \in 1..(MaxClock + 1) : Ahead(s)' => Ahead(s)
  PROVE  OrderFits'
  <1> SUFFICES ASSUME faults = {} PROVE OrderFits'
    BY DEF OrderFits
  <1>1. /\ pc' = [pc EXCEPT ![t] = "write"] /\ line' = [line EXCEPT ![t] = m]
        /\ logged' = Append(logged, m) /\ logged \in Seq(Lines)
        /\ pc \in [Threads -> {"idle", "write", "rotate", "create"}]
        /\ line \in [Threads -> Lines]
    BY DEF Takes, Count, IInv, TypeOK
  <1>2. Len(logged') = Len(logged) + 1 /\ logged'[Len(logged')] = m
        /\ \A i \in 1..Len(logged) : logged'[i] = logged[i]
    BY <1>1
  <1>3. Somebody("write")' /\ ~Somebody("write")
    BY <1>1 DEF Somebody, AllIdle
  <1>4. Settled = Len(logged) /\ Settled' = Len(logged)
    BY <1>1, <1>2, <1>3 DEF Settled
  <1>5. \A u \in Threads : pc'[u] = "write" => line'[u] = logged'[Len(logged')]
    BY <1>1, <1>2 DEF AllIdle
  <1> QED BY <1>2, <1>4, <1>5, CutStands

\* Whoever moves on inside FAST_LOG without a message on its way, or not at
\* all, leaves the messages as they are.
LEMMA MoveKeepsOrder ==
  ASSUME IInv, OrderFits, faults' = {} => faults = {}, UNCHANGED <<logged, line>>,
         \A t \in Threads : pc'[t] = "write" <=> pc[t] = "write",
         faults' = {} => \A s \in Seconds : disk'[s] = disk[s],
         faults' = {} => \A s \in 1..(MaxClock + 1) : Ahead(s)' => Ahead(s)
  PROVE  OrderFits'
  <1> SUFFICES ASSUME faults' = {} PROVE OrderFits'
    BY DEF OrderFits
  <1>1. Somebody("write")' <=> Somebody("write")
    BY DEF Somebody
  <1>2. Settled' = Settled
    BY <1>1 DEF Settled
  <1>3. \A u \in Threads : pc'[u] = "write" => line'[u] = logged'[Len(logged')]
    BY DEF OrderFits
  <1> QED BY <1>2, <1>3, CutStands

\* The message on its way is settled at the end of the open file, and the files
\* behind it begin after it.
LEMMA WriteKeepsOrder ==
  ASSUME IInv, OrderFits, NEW t \in Threads, Write(t) PROVE OrderFits'
  <1> SUFFICES ASSUME faults' = {} PROVE OrderFits'
    BY DEF OrderFits
  <1> USE DEF IInv
  <1>1. /\ pc[t] = "write" /\ Somebody("write") /\ out # Closed /\ line[t] \in Lines
        /\ UNCHANGED <<clock, out, logged>> /\ AppendLine(line[t])
    BY DEF Write, Somebody, TypeOK, rateVars
  <1>2. /\ faults = {} /\ stage # "new"
        /\ \A s \in Seconds \ {out} : disk'[s] = disk[s]
        /\ out \in Seconds => disk'[out] = Append(disk[out], line[t])
    <2>1. stage # "new"
      BY <1>1 DEF LifeFits, AllIdle
    <2> QED BY <1>1, <2>1, AppendFacts
  <1>3. out \in Seconds /\ out <= clock
    BY <1>1, <1>2 DEF BurstFits, TypeOK
  <1>4. \A u \in Threads : pc'[u] # "write"
    BY <1>1, Alone DEF Write, Leaves, Goes, TypeOK
  <1>5. ~Somebody("write")'
    BY <1>4 DEF Somebody
  <1> DEFINE n == Settled
  <1>6. /\ n \in Nat /\ Len(logged) = n + 1 /\ Settled' = n + 1
        /\ line[t] = logged[n + 1] /\ MaxClock \in Nat
    <2>1. Settled' = Len(logged) /\ Settled = Len(logged) - 1 /\ Len(logged) \in Nat
      BY <1>1, <1>5 DEF Settled, TypeOK
    <2> QED BY <1>1, <1>2, <2>1, LoggerAssumption DEF OrderFits
  <1>7. PICK start \in Cuts(n) :
          /\ CutInto(start, n)
          /\ \A s \in 1..(MaxClock + 1) : Ahead(s) => start[s] = n
    BY <1>2 DEF OrderFits
  <1> HIDE DEF n
  <1>a. PICK next : next = [s \in 0..(MaxClock + 1) |-> IF s > out THEN n + 1 ELSE start[s]]
    OBVIOUS
  <1>8. \A s \in 0..(MaxClock + 1) :
          /\ start[s] \in 0..n /\ next[s] \in 0..(n + 1)
          /\ s > out => start[s] = n /\ next[s] = n + 1
          /\ ~(s > out) => next[s] = start[s]
    <2> SUFFICES ASSUME NEW s \in 0..(MaxClock + 1)
                 PROVE  /\ start[s] \in 0..n /\ next[s] \in 0..(n + 1)
                        /\ s > out => start[s] = n /\ next[s] = n + 1
                        /\ ~(s > out) => next[s] = start[s]
      OBVIOUS
    <2>1. start[s] \in 0..n
      BY <1>7 DEF Cuts
    <2>2. s > out => start[s] = n
      BY <1>3, <1>6, <1>7 DEF Ahead, Seconds
    <2> QED BY <1>6, <1>a, <2>1, <2>2
  <1>9. next \in Cuts(n + 1)
    BY <1>8, <1>a DEF Cuts
  <1>10. next[0] = 0 /\ next[MaxClock + 1] = n + 1
    BY <1>3, <1>6, <1>7, <1>8 DEF Seconds, CutInto
  <1>11. ASSUME NEW s \in Seconds
         PROVE  /\ next[s + 1] = next[s] + Len(disk'[s])
                /\ \A i \in 1..Len(disk'[s]) : disk'[s][i] = logged[next[s] + i]
    <2>1. /\ s \in Nat /\ out \in Nat /\ s + 1 \in 0..(MaxClock + 1)
          /\ s \in 0..(MaxClock + 1) /\ disk[s] \in Seq(Lines) /\ Len(disk[s]) \in Nat
      BY <1>3, <1>6 DEF Seconds, TypeOK
    <2>2. /\ start[s + 1] = start[s] + Len(disk[s])
          /\ \A i \in 1..Len(disk[s]) : disk[s][i] = logged[start[s] + i]
      BY <1>7 DEF CutInto
    <2>3. CASE s = out
      <3>1. /\ Len(disk'[s]) = Len(disk[s]) + 1 /\ disk'[s][Len(disk[s]) + 1] = line[t]
            /\ \A i \in 1..Len(disk[s]) : disk'[s][i] = disk[s][i]
        BY <1>1, <1>2, <1>3, <2>1, <2>3
      <3>2. /\ next[s] = start[s] /\ next[s + 1] = n + 1 /\ start[s + 1] = n
        BY <1>8, <2>1, <2>3
      <3>3. next[s] + (Len(disk[s]) + 1) = n + 1 /\ start[s] \in Nat
        <4>1. start[s] \in Nat
          BY <1>6, <1>8, <2>1
        <4>2. start[s] + Len(disk[s]) = n
          BY <2>2, <3>2
        <4>3. \A a, b \in Nat : a + (b + 1) = (a + b) + 1
          OBVIOUS
        <4>4. start[s] + (Len(disk[s]) + 1) = (start[s] + Len(disk[s])) + 1
          BY <2>1, <4>1, <4>3
        <4> QED BY <3>2, <4>1, <4>2, <4>4
      <3>4. ASSUME NEW i \in 1..Len(disk'[s]) PROVE disk'[s][i] = logged[next[s] + i]
        <4>1. CASE i = Len(disk[s]) + 1
          BY <1>6, <3>1, <3>3, <4>1
        <4>2. CASE i \in 1..Len(disk[s])
          BY <2>2, <3>1, <3>2, <4>2
        <4> QED BY <2>1, <3>1, <3>4, <4>1, <4>2
      <3> QED BY <3>1, <3>2, <3>3, <3>4
    <2>4. CASE s < out
      <3>1. ~(s > out) /\ ~(s + 1 > out) /\ s # out
        BY <2>1, <2>4
      <3>2. disk'[s] = disk[s] /\ next[s] = start[s] /\ next[s + 1] = start[s + 1]
        BY <1>2, <1>8, <2>1, <3>1
      <3> QED BY <2>2, <3>2
    <2>5. CASE s > out
      <3>1. /\ start[s] = n /\ start[s + 1] = n /\ next[s] = n + 1 /\ next[s + 1] = n + 1
            /\ disk'[s] = disk[s]
        BY <1>2, <1>8, <2>1, <2>5
      <3>2. Len(disk[s]) = 0
        BY <1>6, <2>1, <2>2, <3>1
      <3> QED BY <1>6, <2>1, <3>1, <3>2
    <2> QED BY <2>1, <2>3, <2>4, <2>5
  <1>12. CutInto(next, Settled)' /\ next \in Cuts(Settled)'
    BY <1>1, <1>6, <1>9, <1>10, <1>11 DEF CutInto, Cuts
  <1>13. \A s \in 1..(MaxClock + 1) : Ahead(s)' => next[s] = Settled'
    BY <1>1, <1>3, <1>6, <1>8 DEF Ahead, Seconds, TypeOK
  <1> QED BY <1>4, <1>6, <1>12, <1>13 DEF OrderFits

\* A file that is opened while nothing went wrong was empty, and all that is
\* settled comes before it.
LEMMA OpeningKeepsOrder ==
  ASSUME IInv, CreateNewLogfile, clock' = clock
  PROVE  /\ faults' = {} => faults = {}
         /\ faults' = {} => \A s \in Seconds : disk'[s] = disk[s]
         /\ faults' = {} => \A s \in 1..(MaxClock + 1) : Ahead(s)' => Ahead(s)
  BY CreateFacts DEF IInv, Ahead

LEMMA InitOrder == Init => OrderFits
  <1> SUFFICES ASSUME Init PROVE OrderFits
    OBVIOUS
  <1> DEFINE start == [s \in 0..(MaxClock + 1) |-> 0]
  <1>1. ~Somebody("write") /\ Len(logged) = 0 /\ MaxClock \in Nat
    BY LoggerAssumption DEF Init, Somebody
  <1>2. Settled = 0
    <2>1. Settled = Len(logged) - 0
      BY <1>1 DEF Settled
    <2>2. Len(logged) - 0 = 0
      BY <1>1
    <2> QED BY <2>1, <2>2
  <1>3. start \in Cuts(0) /\ CutInto(start, 0)
    BY <1>1 DEF Init, Cuts, CutInto, Seconds
  <1> QED BY <1>1, <1>2, <1>3 DEF OrderFits, Init

LEMMA NextOrder == IInv /\ OrderFits /\ [Next]_vars => OrderFits'
  <1> SUFFICES ASSUME IInv, OrderFits, [Next]_vars PROVE OrderFits'
    OBVIOUS
  <1> USE DEF Ahead, rateVars, streamVars
  <1>1. ASSUME NEW t \in Threads, NEW m \in Messages, Lock(t, m) PROVE OrderFits'
    BY <1>1, FreeIsIdle, EntryKeepsOrder DEF Lock, IInv, Lines
  <1>2. ASSUME NEW t \in Threads, Write(t) PROVE OrderFits'
    BY <1>2, WriteKeepsOrder
  <1>3. ASSUME NEW t \in Threads, Rotate(t) PROVE OrderFits'
    <2>1. /\ Goes(t, "create") /\ out' = Closed /\ Closed \notin Seconds /\ pc[t] = "rotate"
          /\ UNCHANGED <<clock, disk, logged, line, faults>>
      BY <1>3 DEF Rotate, Goes, Closed, Seconds
    <2>2. \A u \in Threads : pc'[u] = "write" <=> pc[u] = "write"
      BY <2>1 DEF Goes, IInv, TypeOK
    <2> QED BY <2>1, <2>2, MoveKeepsOrder
  <1>4. ASSUME NEW t \in Threads, FindClosed(t) PROVE OrderFits'
    <2>1. Somebody("write") /\ out = Closed /\ stage # "new" /\ faults' = faults
      BY <1>4 DEF FindClosed, Somebody, IInv, LifeFits, AllIdle
    <2>2. faults' # {}
      BY <2>1 DEF IInv, BurstFits
    <2> QED BY <2>2 DEF OrderFits
  <1>5. ASSUME NEW t \in Threads, Create(t) PROVE OrderFits'
    <2>1. /\ Leaves(t) /\ pc[t] = "create" /\ Somebody("create") /\ CreateNewLogfile
          /\ UNCHANGED <<clock, logged, line>>
      BY <1>5 DEF Create, Leaves, Somebody
    <2>2. \A u \in Threads : pc'[u] = "write" <=> pc[u] = "write"
      BY <2>1 DEF Leaves, IInv, TypeOK
    <2> QED BY <2>1, <2>2, OpeningKeepsOrder, MoveKeepsOrder
  <1>6. CASE InitLogger
    <2>1. stage = "new" /\ clock' = clock /\ AllIdle /\ Main \in Threads /\ Hello \in Lines
      BY <1>6, LoggerAssumption DEF InitLogger, IInv, LifeFits, Lines
    <2>2. CASE CreateNewLogfile /\ out' # Closed /\ Takes(Main, Hello)
      <3>1. faults' = {} /\ faults = {}
        BY <2>1, <2>2, CreateFacts DEF IInv, LifeFits, TypeOK
      <3> QED BY <2>1, <2>2, <3>1, OpeningKeepsOrder, EntryKeepsOrder
    <2>3. CASE faults' # {}
      BY <2>3 DEF OrderFits
    <2>4. CASE CreateNewLogfile /\ out' = Closed
      <3>1. clock # Closed /\ TypeOK
        BY DEF IInv, TypeOK, Closed, Seconds
      <3>2. faults' # {}
        BY <2>4, <3>1, CreateFacts
      <3> QED BY <3>2 DEF OrderFits
    <2> QED BY <1>6, <2>2, <2>3, <2>4 DEF InitLogger
  <1>7. ASSUME NEW m \in Messages, LogFarewell(m) PROVE OrderFits'
    BY <1>7, EntryKeepsOrder, LoggerAssumption DEF LogFarewell, IInv, LifeFits, Lines
  <1>8. CASE Destroy
    <2>1. AllIdle /\ Bye \in Lines /\ Main \in Threads
          /\ UNCHANGED <<clock, disk, out, faults>>
      BY <1>8, LoggerAssumption DEF Destroy, AllIdle, Lines
    <2>2. CASE Takes(Main, Bye)
      BY <2>1, <2>2, EntryKeepsOrder
    <2>3. CASE UNCHANGED <<pc, line, logged>>
      BY <2>1, <2>3, MoveKeepsOrder
    <2> QED BY <1>8, <2>2, <2>3 DEF Destroy
  <1>9. CASE CloseForGood
    <2>1. out' = Closed /\ Closed \notin Seconds
          /\ UNCHANGED <<clock, disk, logged, pc, line, faults>>
      BY <1>9 DEF CloseForGood, Closed, Seconds
    <2> QED BY <2>1, MoveKeepsOrder
  <1>10. CASE Tick
    <2>1. clock \in Nat /\ clock' = clock + 1
          /\ UNCHANGED <<out, disk, logged, pc, line, faults>>
      BY <1>10 DEF Tick, IInv, TypeOK, Seconds
    <2> QED BY <2>1, MoveKeepsOrder
  <1>11. ASSUME NEW s \in Seconds, RemoveFile(s) PROVE OrderFits'
    BY <1>11 DEF RemoveFile, OrderFits
  <1>12. CASE UNCHANGED vars
    BY <1>12, MoveKeepsOrder DEF vars
  <1> QED BY <1>1, <1>2, <1>3, <1>4, <1>5, <1>6, <1>7, <1>8, <1>9, <1>10, <1>11, <1>12
          DEF Next, FastLogStep

-----------------------------------------------------------------------------
(* Theorems.                                                               *)

\* The inductive invariant.
THEOREM Invariance == Spec => []IInv
  <1> QED BY InitInv, NextInv, PTL DEF Spec

\* The variables keep their types, and the mutex admits one thread at a time.
THEOREM TypeCorrect == Spec => []TypeOK
  <1>1. IInv => TypeOK
    BY DEF IInv
  <1> QED BY <1>1, Invariance, PTL

\* Every message is in the files, once and in the order of the calls, whatever
\* thread logged it (the lock_guard of FAST_LOG), unless one of the four faults
\* happened.
THEOREM FilesComplete == Spec => []Complete
  <1>1. Spec => []OrderFits
    BY Invariance, InitOrder, NextOrder, PTL DEF Spec
  <1>2. ASSUME IInv, OrderFits PROVE Complete
    <2> SUFFICES ASSUME mutex = Nobody, faults = {}
                 PROVE  \E start \in Cuts(Len(logged)) : CutInto(start, Len(logged))
      BY DEF Complete
    <2>1. ~Somebody("write") /\ Len(logged) \in Nat
      BY <1>2, FreeIsIdle DEF IInv, TypeOK, AllIdle, Somebody
    <2>2. Settled = Len(logged)
      BY <2>1 DEF Settled
    <2> QED BY <1>2, <2>2 DEF OrderFits
  <1> QED BY <1>1, <1>2, Invariance, PTL

\* No file grows beyond the limit by more than the message that reached it,
\* whatever threads log, files are removed and writes fail (FAST_LOG).
THEOREM SizesBounded == Spec => []SizeBounded
  <1>1. IInv => SizeBounded
    BY DEF IInv, SizeFits, SizeBounded
  <1> QED BY <1>1, Invariance, PTL

\* A file is opened under a name in use only in a second that brings as many
\* messages as fit a file (createNewLogfile()).
THEOREM TruncationsBounded == Spec => []TruncatesOnlyInBurst
  <1>1. IInv => TruncatesOnlyInBurst
    BY DEF IInv
  <1> QED BY <1>1, Invariance, PTL

=============================================================================
