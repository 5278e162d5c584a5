------------------------- MODULE WatchDaemonProofs --------------------------
(***************************************************************************)
(* What WatchDaemon guarantees for any configuration, any number of edits, *)
(* signals and events.                                                     *)
(***************************************************************************)
EXTENDS WatchDaemon, TLAPS

\* What the inode of a descriptor holds is part of what ever arrived, and a
\* loop that handles events has one.
EventsFit ==
  \A s \in Sides : /\ events[s] <= arrived[s]
                   /\ loop[s] = "handle" => read[s] >= 1

\* The pool is handed one function after the other.
PendingFit ==
  /\ main \in InitStages \cup {"check", "pushDel"} => Len(pending) = 0
  /\ main = "pushAdd" => Len(pending) <= 1

\* What the initialisation has made by the time the main thread has passed it.
ToolsMade ==
  /\ main \in {"dbType", "dbWorker", "ready"} \cup RunStages => logger = "open"
  /\ main \in {"ready"} \cup RunStages => db \in Workers

\* A loop that works is in the pool, and as long as the pool has something
\* to do nothing has been destroyed.
PoolBusy == pending # <<>> \/ running # {}
LoopsInPool ==
  /\ \A s \in Sides : loop[s] \in {"test", "read", "blocked", "handle"} => s \in running
  /\ PoolBusy /\ Alive =>
       /\ main \in {"pushAdd", "spin", "closeAdd", "closeDel", "farewell", "joinPool"}
       /\ logger = "open" /\ db \in Workers

\* The flag of a daemon that runs was set by the handler.
FlagFits == main \in RunStages /\ canExit => handled

\* History of the configuration.
FileFits == complete => Complete(file)

IInv ==
  /\ TypeOK /\ EventsFit /\ PendingFit /\ ToolsMade /\ LoopsInPool /\ FlagFits /\ FileFits
  /\ NormalExitIsAsked /\ StartedCanWork

-----------------------------------------------------------------------------
LEMMA InitInv == Init => IInv
  <1> SUFFICES ASSUME Init PROVE IInv
    OBVIOUS
  <1> USE DaemonAssumption DEF Init
  <1>1. pending = <<>> /\ running = {} /\ finished = {}
    BY DEF Pool!Init
  <1>2. TypeOK
    <2>a. complete \in BOOLEAN
      BY DEF Complete
    <2>b. 0 \in 0..MaxTerms /\ 0 \in 0..MaxEdits
      OBVIOUS
    <2>1. ProcessOK
      BY <2>a, <2>b DEF ProcessOK, InitStages, Codes
    <2>2. InotyOK
      BY DEF InotyOK
    <2>3. LoopsOK
      BY <1>1 DEF LoopsOK
    <2> QED BY <2>1, <2>2, <2>3 DEF TypeOK
  <1>3. EventsFit /\ PendingFit
    BY <1>1 DEF EventsFit, PendingFit
  <1>4. ToolsMade /\ LoopsInPool /\ FlagFits /\ FileFits
    BY <1>1 DEF ToolsMade, LoopsInPool, PoolBusy, FlagFits, FileFits, RunStages
  <1>5. NormalExitIsAsked /\ StartedCanWork
    BY DEF NormalExitIsAsked, StartedCanWork, RunStages
  <1> QED BY <1>2, <1>3, <1>4, <1>5 DEF IInv

-----------------------------------------------------------------------------
(* Types.                                                                  *)

\* What each step leaves alone.
LEMMA Frames ==
  /\ MainStep => UNCHANGED <<events, arrived, loop, read, running, finished>>
  /\ (\E s \in Sides : OpenWatch(s) \/ DestroyWatch(s)) \/ UNCHANGED <<watch, fd, ignored>>
       \/ ~MainStep
  /\ (\E s \in Sides : PushLoop(s)) \/ UNCHANGED pending \/ ~MainStep
  BY DEF MainStep, ReadConfig, InstallHandlers, InitLogger, ReadTdbType, MakeWorker, BecomeReady,
         CheckWatches, LeaveSpin, Farewell, JoinPool, FreeDb, FreeLogger, OpenWatch, PushLoop,
         DestroyWatch, inotyVars, loopVars, poolVars, Pool!Submit

LEMMA MainTypes == TypeOK /\ PendingFit /\ MainStep => TypeOK'
  <1> SUFFICES ASSUME TypeOK, PendingFit, MainStep PROVE TypeOK'
    OBVIOUS
  <1>0. ProcessOK /\ InotyOK /\ LoopsOK
    BY DEF TypeOK
  <1>1. ProcessOK'
    <2> USE DEF ProcessOK, InitStages, RunStages, EndStages, Codes, fileVars, configVars, MainGoes,
                Abandon
    <2>1. CASE ReadConfig \/ InstallHandlers
      BY <1>0, <2>1 DEF ReadConfig, InstallHandlers
    <2>2. CASE InitLogger
      BY <1>0, <2>2 DEF InitLogger
    <2>3. CASE ReadTdbType
      BY <1>0, <2>3 DEF ReadTdbType
    <2>4. CASE MakeWorker
      <3>1. /\ main' \in {"ready", "closeAdd"} /\ code' \in {code, "cantInit"}
            /\ db' \in Workers \cup {"finished"} /\ tdbType' = tdbType
        BY <2>4 DEF MakeWorker, Connect, Trust, Workers
      <3> QED BY <1>0, <2>4, <3>1 DEF MakeWorker
    <2>5. CASE BecomeReady \/ LeaveSpin
      BY <1>0, <2>5 DEF BecomeReady, LeaveSpin
    <2>6. CASE CheckWatches
      BY <1>0, <2>6 DEF CheckWatches
    <2>7. CASE Farewell \/ JoinPool
      BY <1>0, <2>7 DEF Farewell, JoinPool
    <2>8. CASE FreeDb \/ FreeLogger
      BY <1>0, <2>8 DEF FreeDb, FreeLogger
    <2>9. ASSUME NEW s \in Sides, OpenWatch(s) PROVE ProcessOK'
      BY <1>0, <2>9 DEF OpenWatch
    <2>10. ASSUME NEW s \in Sides, PushLoop(s) PROVE ProcessOK'
      BY <1>0, <2>10 DEF PushLoop
    <2>11. ASSUME NEW s \in Sides, DestroyWatch(s) PROVE ProcessOK'
      BY <1>0, <2>11 DEF DestroyWatch
    <2> QED BY <2>1, <2>2, <2>3, <2>4, <2>5, <2>6, <2>7, <2>8, <2>9, <2>10, <2>11 DEF MainStep
  <1>2. InotyOK'
    <2>1. ASSUME NEW s \in Sides, OpenWatch(s) PROVE InotyOK'
      BY <1>0, <2>1 DEF OpenWatch, InotyOK
    <2>2. ASSUME NEW s \in Sides, DestroyWatch(s) PROVE InotyOK'
      BY <1>0, <2>2 DEF DestroyWatch, InotyOK
    <2>3. CASE UNCHANGED <<watch, fd, ignored>>
      BY <1>0, <2>3, Frames DEF InotyOK
    <2> QED BY <2>1, <2>2, <2>3, Frames
  <1>3. LoopsOK'
    <2>1. ASSUME NEW s \in Sides, PushLoop(s) PROVE LoopsOK'
      <3>1. Len(pending) <= 1 /\ pending \in Seq(Sides)
        BY <1>0, <2>1 DEF PushLoop, PendingFit, MainGoes, InitStages, LoopsOK
      <3>2. pending' = Append(pending, s)
        BY <2>1 DEF PushLoop, Pool!Submit
      <3>3. pending' \in Seq(Sides) /\ Len(pending') <= 2
        BY <3>1, <3>2
      <3> QED BY <1>0, <3>3, Frames DEF LoopsOK
    <2>2. CASE UNCHANGED pending
      BY <1>0, <2>2, Frames DEF LoopsOK
    <2> QED BY <2>1, <2>2, Frames
  <1> QED BY <1>1, <1>2, <1>3 DEF TypeOK

LEMMA OtherTypes ==
  ASSUME TypeOK, EventsFit,
         \/ StartLoop \/ (\E s \in Sides : LoopStep(s) \/ FileEvent(s))
         \/ Term \/ EditConfig \/ DirVanishes
  PROVE  TypeOK'
  <1>0. ProcessOK /\ InotyOK /\ LoopsOK
    BY DEF TypeOK
  <1> USE DaemonAssumption DEF fileVars, configVars, poolVars, loopVars, inotyVars
  <1>1. CASE StartLoop
    <2>1. Head(pending) \in Sides /\ pending' = Tail(pending) /\ pending # <<>>
      BY <1>0, <1>1 DEF StartLoop, Pool!Start, LoopsOK
    <2>2. pending' \in Seq(Sides) /\ Len(pending') <= 2
      BY <1>0, <2>1 DEF LoopsOK
    <2>3. LoopsOK'
      BY <1>0, <1>1, <2>1, <2>2 DEF StartLoop, Pool!Start, LoopsOK
    <2>4. ProcessOK' /\ InotyOK'
      BY <1>0, <1>1 DEF StartLoop, ProcessOK, InotyOK
    <2> QED BY <2>3, <2>4 DEF TypeOK
  <1>2. ASSUME NEW s \in Sides, LoopTest(s) PROVE TypeOK'
    <2>1. LoopsOK'
      BY <1>0, <1>2 DEF LoopTest, Pool!Finish, LoopsOK
    <2>2. ProcessOK' /\ InotyOK'
      BY <1>0, <1>2 DEF LoopTest, ProcessOK, InotyOK
    <2> QED BY <2>1, <2>2 DEF TypeOK
  <1>3. ASSUME NEW s \in Sides, LoopRead(s) \/ LoopWakes(s) PROVE TypeOK'
    <2>a. UNCHANGED <<watch, fd, arrived, pending, running, finished>>
      BY <1>3 DEF LoopRead, LoopWakes
    <2>1. LoopsOK' /\ InotyOK'
      <3>1. CASE TakeEvents(s)
        <4>1. events[s] \in 0..MaxEvents
          BY <1>0 DEF InotyOK
        <4>2. read' \in [Sides -> 0..MaxEvents] /\ events' \in [Sides -> 0..MaxEvents]
          BY <1>0, <3>1, <4>1 DEF TakeEvents, LoopsOK, InotyOK
        <4>3. /\ loop' \in [Sides -> {"none", "test", "read", "blocked", "handle", "end"}]
              /\ ignored' \in [Sides -> BOOLEAN]
          BY <1>0, <3>1 DEF TakeEvents, LoopsOK, InotyOK
        <4> QED BY <1>0, <2>a, <4>2, <4>3 DEF LoopsOK, InotyOK
      <3>2. CASE ~TakeEvents(s)
        <4>1. UNCHANGED <<read, events, ignored>>
          BY <1>3, <3>2 DEF LoopRead, LoopWakes
        <4>2. loop' \in [Sides -> {"none", "test", "read", "blocked", "handle", "end"}]
          BY <1>0, <1>3, <3>2 DEF LoopRead, LoopWakes, LoopsOK
        <4> QED BY <1>0, <2>a, <4>1, <4>2 DEF LoopsOK, InotyOK
      <3> QED BY <3>1, <3>2
    <2>3. ProcessOK'
      BY <1>0, <1>3 DEF LoopRead, LoopWakes, ProcessOK
    <2> QED BY <2>1, <2>3 DEF TypeOK
  <1>4. ASSUME NEW s \in Sides, LoopHandle(s) PROVE TypeOK'
    <2>1. read[s] - 1 \in 0..MaxEvents
      BY <1>0, <1>4 DEF LoopHandle, EventsFit, LoopsOK
    <2>2. LoopsOK'
      BY <1>0, <1>4, <2>1 DEF LoopHandle, LoopsOK
    <2>3. ProcessOK' /\ InotyOK'
      BY <1>0, <1>4 DEF LoopHandle, ProcessOK, InotyOK
    <2> QED BY <2>2, <2>3 DEF TypeOK
  <1>5. ASSUME NEW s \in Sides, FileEvent(s) PROVE TypeOK'
    <2>1. events[s] + 1 \in 0..MaxEvents /\ arrived[s] + 1 \in 0..MaxEvents
      BY <1>0, <1>5 DEF FileEvent, EventsFit, InotyOK
    <2>2. InotyOK'
      BY <1>0, <1>5, <2>1 DEF FileEvent, InotyOK
    <2>3. ProcessOK' /\ LoopsOK'
      BY <1>0, <1>5 DEF FileEvent, ProcessOK, LoopsOK
    <2> QED BY <2>2, <2>3 DEF TypeOK
  <1>6. CASE Term
    <2>1. main' \in {main, "ended"} /\ code' \in {code, "killed"} /\ terms' \in 0..MaxTerms
      BY <1>0, <1>6 DEF Term, ProcessOK
    <2>2. ProcessOK'
      BY <1>0, <1>6, <2>1 DEF Term, ProcessOK, EndStages, Codes
    <2>3. InotyOK' /\ LoopsOK'
      BY <1>0, <1>6 DEF Term, InotyOK, LoopsOK
    <2> QED BY <2>2, <2>3 DEF TypeOK
  <1>7. CASE EditConfig
    BY <1>0, <1>7 DEF EditConfig, TypeOK, ProcessOK, InotyOK, LoopsOK
  <1>8. CASE DirVanishes
    <2>1. InotyOK'
      BY <1>0, <1>8 DEF DirVanishes, InotyOK
    <2>2. ProcessOK' /\ LoopsOK'
      BY <1>0, <1>8 DEF DirVanishes, ProcessOK, LoopsOK
    <2> QED BY <2>1, <2>2 DEF TypeOK
  <1> QED BY <1>1, <1>2, <1>3, <1>4, <1>5, <1>6, <1>7, <1>8 DEF LoopStep

-----------------------------------------------------------------------------
(* The parts of the invariant that relate the main thread to the rest.     *)

LEMMA MainParts ==
  ASSUME IInv, MainStep
  PROVE  (ToolsMade /\ PendingFit /\ FlagFits /\ NormalExitIsAsked)'
  <1> USE DEF IInv, TypeOK, ProcessOK, InitStages, RunStages, MainGoes, Abandon, fileVars,
              configVars, poolVars, ToolsMade, FlagFits, NormalExitIsAsked
  <1> DEFINE Rest == (ToolsMade /\ FlagFits /\ NormalExitIsAsked)'
             Early == InitStages \cup {"check", "pushDel"}
  <1>1. CASE ReadConfig \/ InstallHandlers \/ InitLogger
    <2>1. Rest
      BY <1>1 DEF ReadConfig, InstallHandlers, InitLogger
    <2>2. PendingFit'
      BY <1>1 DEF ReadConfig, InstallHandlers, InitLogger, PendingFit
    <2> QED BY <2>1, <2>2
  <1>2. CASE ReadTdbType
    BY <1>2 DEF ReadTdbType, PendingFit
  <1>3. CASE MakeWorker
    <2>1. /\ UNCHANGED <<canExit, handled, logger, pending>> /\ main = "dbWorker"
          /\ \/ main' = "ready" /\ code' = code /\ db' \in Workers
             \/ main' = "closeAdd" /\ code' = "cantInit"
      BY <1>3 DEF MakeWorker, Connect, Trust, Workers
    <2> QED BY <2>1 DEF PendingFit
  <1>4. CASE BecomeReady \/ CheckWatches
    BY <1>4 DEF BecomeReady, CheckWatches, PendingFit
  <1>5. CASE LeaveSpin \/ Farewell \/ JoinPool \/ FreeDb \/ FreeLogger
    BY <1>5 DEF LeaveSpin, Farewell, JoinPool, FreeDb, FreeLogger, PendingFit
  <1>6. ASSUME NEW s \in Sides, OpenWatch(s) \/ DestroyWatch(s)
        PROVE  Rest /\ PendingFit'
    BY <1>6 DEF OpenWatch, DestroyWatch, PendingFit
  <1>7. ASSUME NEW s \in Sides, PushLoop(s) PROVE Rest /\ PendingFit'
    <2>1. Rest
      BY <1>7 DEF PushLoop
    <2>2. pending' = Append(pending, s) /\ pending \in Seq(Sides)
      BY <1>7 DEF PushLoop, Pool!Submit, LoopsOK
    <2>3. Len(pending') = Len(pending) + 1
      BY <2>2
    <2>4. PendingFit'
      BY <1>7, <2>3 DEF PushLoop, PendingFit
    <2> QED BY <2>1, <2>4
  <1> QED BY <1>1, <1>2, <1>3, <1>4, <1>5, <1>6, <1>7 DEF MainStep

\* Whoever destroys something waits for the pool first.
LEMMA MainInPool == ASSUME IInv, MainStep PROVE LoopsInPool'
  <1> USE DEF IInv, TypeOK, ProcessOK, MainGoes, Abandon, fileVars, configVars, poolVars,
              LoopsInPool
  <1>1. \A s \in Sides :
          loop'[s] \in {"test", "read", "blocked", "handle"} => s \in running'
    BY Frames
  <1> SUFFICES ASSUME PoolBusy', main' # "ended"
               PROVE  /\ main' \in {"pushAdd", "spin", "closeAdd", "closeDel", "farewell",
                                    "joinPool"}
                      /\ logger' = "open" /\ db' \in Workers
    BY <1>1 DEF Alive
  <1>2. CASE \E s \in Sides : PushLoop(s)
    BY <1>2 DEF PushLoop, ToolsMade, RunStages
  <1>3. CASE ~\E s \in Sides : PushLoop(s)
    <2>1. UNCHANGED <<pending, running>>
      BY <1>3, Frames
    <2>2. PoolBusy
      BY <2>1 DEF PoolBusy
    <2>3. main # "ended"
      BY DEF MainStep, ReadConfig, InstallHandlers, InitLogger, ReadTdbType, MakeWorker,
             BecomeReady, CheckWatches, LeaveSpin, Farewell, JoinPool, FreeDb, FreeLogger,
             OpenWatch, PushLoop, DestroyWatch
    <2>4. /\ main \in {"pushAdd", "spin", "closeAdd", "closeDel", "farewell", "joinPool"}
          /\ logger = "open" /\ db \in Workers
      BY <2>2, <2>3 DEF Alive
    <2>5. LeaveSpin \/ Farewell \/ JoinPool \/ \E s \in Sides : DestroyWatch(s)
      BY <1>3, <2>4
      DEF MainStep, ReadConfig, InstallHandlers, InitLogger, ReadTdbType, MakeWorker,
          BecomeReady, CheckWatches, FreeDb, FreeLogger, OpenWatch
    <2>6. ~JoinPool
      BY <2>2 DEF JoinPool, PoolBusy
    <2> QED BY <2>4, <2>5, <2>6 DEF LeaveSpin, Farewell, DestroyWatch
  <1> QED BY <1>2, <1>3

\* A configuration that lacks nothing has the parameters of the connection.
LEMMA MainFile == ASSUME IInv, MainStep PROVE (FileFits /\ StartedCanWork)'
  <1> USE DEF IInv, TypeOK, ProcessOK, MainGoes, Abandon, fileVars, configVars, RunStages,
              FileFits, StartedCanWork
  <1>1. UNCHANGED <<file, complete>>
    BY DEF MainStep, ReadConfig, InstallHandlers, InitLogger, ReadTdbType, MakeWorker,
           BecomeReady, CheckWatches, LeaveSpin, Farewell, JoinPool, FreeDb, FreeLogger,
           OpenWatch, PushLoop, DestroyWatch
  <1>2. FileFits'
    BY <1>1 DEF Complete, HasSection
  <1>3. StartedCanWork'
    <2> SUFFICES ASSUME main' = "ready"
                 PROVE  /\ tdbType' = "POSTGRESQL" => db' = "ok"
                        /\ tdbType' = "SQLITE" /\ complete' => db' \in {"ok", "unopenable"}
      OBVIOUS
    <2>1. CASE MakeWorker
      <3> DEFINE content == getSectionContent(file, "CONTENT_TDB")
      <3>1. ASSUME complete' PROVE "dbname" \in DOMAIN content.second
        <4>1. HasSection(file, "CONTENT_TDB")
          BY <1>1, <3>1 DEF Complete
        <4>2. "CONTENT_TDB" \in Sections /\ "dbname" \in Params["CONTENT_TDB"]
          BY DEF Sections, Params, Connection
        <4>3. content.second = [k \in Params["CONTENT_TDB"] |-> file[<<"CONTENT_TDB", k>>]]
          BY <4>1, <4>2 DEF getSectionContent, Content
        <4> QED BY <4>2, <4>3
      <3> HIDE DEF content
      <3>2. /\ tdbType' = tdbType
            /\ \/ tdbType = "POSTGRESQL" /\ Connect(content.second)
               \/ tdbType = "SQLITE" /\ Trust(content.second)
        BY <2>1 DEF MakeWorker, content
      <3> QED BY <3>1, <3>2 DEF Connect, Trust
    <2>2. CASE ~MakeWorker
      <3>1. main' # "ready"
        BY <2>2
        DEF MainStep, ReadConfig, InstallHandlers, InitLogger, ReadTdbType, BecomeReady,
            CheckWatches, LeaveSpin, Farewell, JoinPool, FreeDb, FreeLogger, OpenWatch,
            PushLoop, DestroyWatch
      <3> QED BY <3>1
    <2> QED BY <2>1, <2>2
  <1> QED BY <1>2, <1>3

LEMMA MainKeeps == ASSUME IInv, MainStep PROVE IInv'
  <1>1. TypeOK'
    BY MainTypes DEF IInv
  <1>2. EventsFit'
    BY Frames DEF IInv, EventsFit
  <1> QED BY <1>1, <1>2, MainParts, MainInPool, MainFile DEF IInv

-----------------------------------------------------------------------------
(* The pool, the loops and the outside.                                    *)

LEMMA StartKeeps == ASSUME IInv, Alive, StartLoop PROVE IInv'
  <1> USE DEF StartLoop, Pool!Start, IInv, configVars, fileVars, inotyVars
  <1>1. TypeOK'
    BY OtherTypes
  <1>2. /\ pending \in Seq(Sides) /\ pending # <<>>
        /\ loop \in [Sides -> {"none", "test", "read", "blocked", "handle", "end"}]
    BY DEF TypeOK, LoopsOK
  <1>3. Head(pending) \in Sides /\ Len(Tail(pending)) = Len(pending) - 1
        /\ Len(pending) \in Nat
    BY <1>2
  <1>4. PendingFit'
    BY <1>3 DEF PendingFit
  <1>5. EventsFit'
    BY <1>2, <1>3 DEF EventsFit
  <1>6. LoopsInPool'
    BY <1>2, <1>3 DEF LoopsInPool, PoolBusy, Alive
  <1>7. (ToolsMade /\ FlagFits /\ FileFits /\ NormalExitIsAsked /\ StartedCanWork)'
    BY DEF ToolsMade, FlagFits, FileFits, NormalExitIsAsked, StartedCanWork, Complete,
           HasSection
  <1> QED BY <1>1, <1>4, <1>5, <1>6, <1>7

LEMMA LoopKeeps == ASSUME IInv, Alive, NEW s \in Sides, LoopStep(s) PROVE IInv'
  <1> USE DEF IInv, configVars, fileVars
  <1>0. TypeOK'
    BY OtherTypes
  <1>1. UNCHANGED <<main, code, canExit, configVars, handled, logger, db, pending, arrived>>
    BY DEF LoopStep, LoopTest, LoopRead, LoopWakes, LoopHandle, poolVars, inotyVars, Pool!Finish
  <1>2. (PendingFit /\ ToolsMade /\ FlagFits /\ FileFits /\ NormalExitIsAsked
           /\ StartedCanWork)'
    BY <1>1 DEF PendingFit, ToolsMade, FlagFits, FileFits, NormalExitIsAsked,
                StartedCanWork, Complete, HasSection
  <1>3. /\ loop \in [Sides -> {"none", "test", "read", "blocked", "handle", "end"}]
        /\ read \in [Sides -> Int] /\ events \in [Sides -> Nat] /\ arrived \in [Sides -> Nat]
    BY DEF TypeOK, LoopsOK, InotyOK
  <1>4. loop[s] \in {"test", "read", "blocked", "handle"}
    BY DEF LoopStep, LoopTest, LoopRead, LoopWakes, LoopHandle
  <1>5. s \in running
    BY <1>4 DEF LoopsInPool
  <1>6. /\ \A t \in Sides \ {s} : loop'[t] = loop[t] /\ read'[t] = read[t]
                                  /\ events'[t] = events[t]
        /\ events'[s] \in {0, events[s]}
    BY <1>3 DEF LoopStep, LoopTest, LoopRead, LoopWakes, LoopHandle, TakeEvents, inotyVars
  <1>7. loop'[s] = "handle" => read'[s] >= 1
    <2>1. CASE LoopTest(s)
      BY <1>3, <2>1 DEF LoopTest
    <2>2. CASE LoopRead(s) \/ LoopWakes(s)
      BY <1>3, <2>2 DEF LoopRead, LoopWakes, TakeEvents
    <2>3. CASE LoopHandle(s)
      BY <1>3, <2>3 DEF LoopHandle
    <2> QED BY <2>1, <2>2, <2>3 DEF LoopStep
  <1>8. EventsFit'
    BY <1>1, <1>3, <1>6, <1>7 DEF EventsFit
  <1>9. \/ running' = running \ {s} /\ loop'[s] = "end"
        \/ running' = running
    BY <1>3 DEF LoopStep, LoopTest, LoopRead, LoopWakes, LoopHandle, poolVars, Pool!Finish
  <1>10. LoopsInPool'
    BY <1>1, <1>5, <1>6, <1>9 DEF LoopsInPool, PoolBusy, Alive
  <1> QED BY <1>0, <1>2, <1>8, <1>10

LEMMA OutsideKeeps ==
  ASSUME IInv, Term \/ EditConfig \/ DirVanishes \/ \E s \in Sides : FileEvent(s)
  PROVE  IInv'
  <1> USE DEF IInv, configVars, fileVars, inotyVars, loopVars, poolVars
  <1>0. TypeOK'
    BY OtherTypes
  <1>1. UNCHANGED <<loop, read, pending, running, logger, db>>
    BY DEF Term, EditConfig, DirVanishes, FileEvent
  <1>2. main' \in {main, "ended"} /\ (main' # main => main # "ended")
    BY DEF Term, EditConfig, DirVanishes, FileEvent
  <1>3. EventsFit'
    <2>1. CASE \E s \in Sides : FileEvent(s)
      <3>1. PICK s \in Sides : FileEvent(s)
        BY <2>1
      <3>2. events \in [Sides -> Nat] /\ arrived \in [Sides -> Nat]
        BY DEF TypeOK, InotyOK
      <3> QED BY <1>1, <3>1, <3>2 DEF FileEvent, EventsFit
    <2>2. CASE Term \/ EditConfig \/ DirVanishes
      BY <1>1, <2>2 DEF Term, EditConfig, DirVanishes, EventsFit
    <2> QED BY <2>1, <2>2
  <1>4. (PendingFit /\ ToolsMade /\ LoopsInPool)'
    BY <1>1, <1>2 DEF PendingFit, ToolsMade, LoopsInPool, PoolBusy, Alive, InitStages, RunStages
  <1>5. (FlagFits /\ NormalExitIsAsked)'
    BY DEF Term, EditConfig, DirVanishes, FileEvent, FlagFits, NormalExitIsAsked, RunStages
  <1>6. FileFits'
    BY DEF Term, EditConfig, DirVanishes, FileEvent, FileFits, Complete, HasSection
  <1>7. complete' => complete
    BY DEF Term, EditConfig, DirVanishes, FileEvent
  <1>8. StartedCanWork'
    <2>1. UNCHANGED tdbType
      BY DEF Term, EditConfig, DirVanishes, FileEvent
    <2> QED BY <1>1, <1>2, <1>7, <2>1 DEF StartedCanWork
  <1> QED BY <1>0, <1>3, <1>4, <1>5, <1>6, <1>8

LEMMA NextInv == IInv /\ [Next]_vars => IInv'
  <1> SUFFICES ASSUME IInv, [Next]_vars PROVE IInv'
    OBVIOUS
  <1>1. CASE UNCHANGED vars
    BY <1>1
    DEF vars, configVars, fileVars, poolVars, loopVars, inotyVars, IInv, TypeOK, ProcessOK,
        InotyOK, LoopsOK, EventsFit, PendingFit, ToolsMade, PoolBusy, LoopsInPool, FlagFits,
        FileFits, NormalExitIsAsked, StartedCanWork, Alive, Complete, HasSection
  <1> QED BY <1>1, MainKeeps, StartKeeps, LoopKeeps, OutsideKeeps DEF Next

-----------------------------------------------------------------------------
(* Nobody sleeps through the end, and the pool is used as it promises to    *)
(* be: inductions of their own, on top of IInv.                            *)

\* The end of the watch s is behind the main thread.
Beyond(s) ==
  \/ main \in {"farewell", "joinPool", "freeDb", "freeLogger"}
  \/ s = "add" /\ main = "closeDel"

\* A descriptor is there with its watch; what was closed has something to
\* read for whoever is blocked in it.
WatchFits ==
  \A s \in Sides :
    /\ watch[s] = "none" <=> fd[s] = "none"
    /\ watch[s] = "active" => fd[s] = "open" /\ ~Beyond(s)
    /\ fd[s] = "none" => loop[s] = "none"
    /\ fd[s] = "closed" /\ loop[s] = "blocked" => Readable(s)

\* Loops are only started on descriptors, and once there are loops the main
\* thread only ends with the flag set.
EndFits ==
  /\ main \in RunStages \ {"check"} => \A s \in Sides : fd[s] # "none"
  /\ PoolBusy /\ main \in EndStages \ {"ended"} => canExit
  /\ \A s \in Pool!Accepted : fd[s] # "none"

\* What the pool has been given by the time the main thread gives it more.
AcceptedFits ==
  /\ main \in InitStages \cup {"check", "pushDel"} => Pool!Accepted = {}
  /\ main = "pushAdd" => Pool!Accepted = {"del"}

SleepInv == WatchFits /\ EndFits /\ AcceptedFits

\* When the main thread waits for the loops, each will find the flag set when
\* it tests it, and one that is blocked in read() has something to read, unless
\* its directory was deleted.
NobodySleepsOn ==
  main = "joinPool" =>
    \A s \in Sides :
      /\ s \in {pending[i] : i \in DOMAIN pending} \cup running => canExit
      /\ loop[s] = "blocked" => Readable(s) \/ Orphaned(s)

\* The pool is not given a loop it has been given before.
GivenOnce ==
  /\ main = "pushDel" => "del" \notin Pool!Accepted
  /\ main = "pushAdd" => "add" \notin Pool!Accepted

LEMMA AppendElements ==
  ASSUME NEW S, NEW q \in Seq(S), NEW x \in S
  PROVE  {Append(q, x)[i] : i \in DOMAIN Append(q, x)} = {q[i] : i \in DOMAIN q} \cup {x}
  <1>1. /\ DOMAIN q = 1..Len(q) /\ Len(q) \in Nat
        /\ DOMAIN Append(q, x) = 1..(Len(q) + 1) /\ Append(q, x)[Len(q) + 1] = x
        /\ \A i \in 1..Len(q) : Append(q, x)[i] = q[i]
    OBVIOUS
  <1>2. 1..(Len(q) + 1) = 1..Len(q) \cup {Len(q) + 1}
    BY <1>1
  <1> QED BY <1>1, <1>2

LEMMA TailElements ==
  ASSUME NEW S, NEW q \in Seq(S), q # <<>>
  PROVE  {q[i] : i \in DOMAIN q} = {Tail(q)[i] : i \in DOMAIN Tail(q)} \cup {Head(q)}
  <1>1. /\ DOMAIN q = 1..Len(q) /\ Len(q) \in Nat /\ Len(q) >= 1 /\ Head(q) = q[1]
        /\ DOMAIN Tail(q) = 1..(Len(q) - 1)
        /\ \A i \in 1..(Len(q) - 1) : Tail(q)[i] = q[i + 1]
    OBVIOUS
  <1>2. ASSUME NEW i \in 1..Len(q), i # 1
        PROVE  i - 1 \in 1..(Len(q) - 1) /\ q[i] = Tail(q)[i - 1]
    BY <1>1, <1>2
  <1>3. ASSUME NEW i \in 1..(Len(q) - 1) PROVE i + 1 \in 1..Len(q)
    BY <1>1, <1>3
  <1>4. \A i \in DOMAIN q : q[i] = Head(q) \/ \E j \in DOMAIN Tail(q) : q[i] = Tail(q)[j]
    BY <1>1, <1>2
  <1>5. \A j \in DOMAIN Tail(q) : \E i \in DOMAIN q : Tail(q)[j] = q[i]
    BY <1>1, <1>3
  <1>6. \E i \in DOMAIN q : Head(q) = q[i]
    BY <1>1
  <1> QED BY <1>4, <1>5, <1>6

\* What is given to the pool stays with it.
LEMMA AcceptedStays ==
  ASSUME TypeOK
  PROVE  /\ \A s \in Sides : PushLoop(s) => Pool!Accepted' = Pool!Accepted \cup {s}
         /\ StartLoop => Pool!Accepted' = Pool!Accepted /\ Head(pending) \in Pool!Accepted
         /\ \A s \in Sides : LoopStep(s) => Pool!Accepted' = Pool!Accepted
  <1>1. pending \in Seq(Sides)
    BY DEF TypeOK, LoopsOK
  <1>2. ASSUME NEW s \in Sides, PushLoop(s) PROVE Pool!Accepted' = Pool!Accepted \cup {s}
    <2>1. pending' = Append(pending, s) /\ UNCHANGED <<running, finished>>
      BY <1>2 DEF PushLoop, Pool!Submit
    <2>2. {pending'[i] : i \in DOMAIN pending'} = {pending[i] : i \in DOMAIN pending} \cup {s}
      BY <1>1, <2>1, AppendElements
    <2> QED BY <2>1, <2>2 DEF Pool!Accepted
  <1>3. ASSUME StartLoop
        PROVE  Pool!Accepted' = Pool!Accepted /\ Head(pending) \in Pool!Accepted
    <2>1. /\ pending # <<>> /\ pending' = Tail(pending) /\ finished' = finished
          /\ running' = running \cup {Head(pending)}
      BY <1>3 DEF StartLoop, Pool!Start
    <2>2. {pending[i] : i \in DOMAIN pending}
            = {pending'[i] : i \in DOMAIN pending'} \cup {Head(pending)}
      BY <1>1, <2>1, TailElements
    <2> QED BY <2>1, <2>2 DEF Pool!Accepted
  <1>4. ASSUME NEW s \in Sides, LoopStep(s) PROVE Pool!Accepted' = Pool!Accepted
    BY <1>4 DEF LoopStep, LoopTest, LoopRead, LoopWakes, LoopHandle, poolVars, Pool!Finish,
                Pool!Accepted
  <1> QED BY <1>2, <1>3, <1>4

LEMMA AcceptedLoops ==
  ASSUME TypeOK
  PROVE  Pool!Accepted \subseteq Sides /\ (Pool!Accepted = {} => ~PoolBusy)
  <1>1. pending \in Seq(Sides) /\ running \subseteq Sides /\ finished \subseteq Sides
    BY DEF TypeOK, LoopsOK
  <1>2. \A i \in DOMAIN pending : pending[i] \in Sides
    BY <1>1
  <1>3. pending # <<>> => 1 \in DOMAIN pending
    BY <1>1
  <1> QED BY <1>1, <1>2, <1>3 DEF Pool!Accepted, PoolBusy

LEMMA InitSleep == Init => SleepInv
  BY DEF Init, Pool!Init, Pool!Accepted, SleepInv, WatchFits, EndFits, AcceptedFits, InitStages,
         RunStages, EndStages, PoolBusy, Beyond

LEMMA MainSleep == ASSUME IInv, SleepInv, MainStep PROVE SleepInv'
  <1> USE DEF SleepInv, MainGoes, Abandon, inotyVars, loopVars, poolVars
  <1>1. UNCHANGED <<events, loop, running, finished>>
    BY Frames
  <1>2. /\ watch \in [Sides -> {"none", "active", "gone"}]
        /\ fd \in [Sides -> {"none", "open", "closed"}] /\ ignored \in [Sides -> BOOLEAN]
    BY DEF IInv, TypeOK, InotyOK
  <1>3. ASSUME NEW s \in Sides, OpenWatch(s) PROVE SleepInv'
    <2>1. /\ main \in InitStages /\ main' \in InitStages \cup {"closeAdd"}
          /\ UNCHANGED <<canExit, pending, ignored>>
      BY <1>3 DEF OpenWatch, InitStages
    <2>2. Pool!Accepted' = {} /\ ~PoolBusy'
      <3>1. Pool!Accepted = {} /\ ~PoolBusy
        BY <2>1, AcceptedLoops DEF AcceptedFits, IInv
      <3> QED BY <1>1, <2>1, <3>1 DEF PoolBusy, Pool!Accepted
    <2>3. /\ \A r \in Sides \ {s} : watch'[r] = watch[r] /\ fd'[r] = fd[r]
          /\ \/ watch'[s] = "active" /\ fd'[s] = "open"
             \/ watch'[s] = watch[s] /\ fd'[s] = fd[s]
      BY <1>2, <1>3 DEF OpenWatch
    <2>4. WatchFits'
      BY <1>1, <2>1, <2>3 DEF WatchFits, Beyond, InitStages, Readable
    <2>5. EndFits' /\ AcceptedFits'
      BY <2>1, <2>2 DEF EndFits, AcceptedFits, InitStages, RunStages, EndStages
    <2> QED BY <2>4, <2>5
  <1>4. ASSUME NEW s \in Sides, DestroyWatch(s) PROVE SleepInv'
    <2>1. /\ s = "add" => main = "closeAdd" /\ main' = "closeDel"
          /\ s = "del" => main = "closeDel" /\ main' = "farewell"
          /\ UNCHANGED <<canExit, pending>>
      BY <1>4 DEF DestroyWatch
    <2>2. Pool!Accepted' = Pool!Accepted /\ PoolBusy' = PoolBusy
      BY <1>1, <2>1 DEF Pool!Accepted, PoolBusy
    <2>3. /\ \A r \in Sides \ {s} : watch'[r] = watch[r] /\ fd'[r] = fd[r] /\ ignored'[r] = ignored[r]
          /\ \/ /\ watch[s] = "active" /\ watch'[s] = "gone" /\ fd'[s] = "closed" /\ ignored'[s]
             \/ /\ watch[s] # "active" /\ watch'[s] = watch[s] /\ fd'[s] = fd[s]
                /\ ignored'[s] = ignored[s]
      BY <1>2, <1>4 DEF DestroyWatch
    <2>4. WatchFits'
      BY <1>1, <2>1, <2>3 DEF WatchFits, Beyond, Readable, Sides
    <2>5. EndFits'
      <3>1. \A r \in Sides : fd[r] # "none" => fd'[r] # "none"
        BY <2>3 DEF WatchFits
      <3>2. main \in EndStages \ {"ended"} /\ main' \notin RunStages
        BY <2>1 DEF EndStages, RunStages, Sides
      <3> QED BY <2>1, <2>2, <3>1, <3>2, AcceptedLoops DEF EndFits, IInv
    <2>6. AcceptedFits'
      BY <2>1 DEF AcceptedFits, InitStages, Sides
    <2> QED BY <2>4, <2>5, <2>6
  <1>5. ASSUME NEW s \in Sides, PushLoop(s) PROVE SleepInv'
    <2>1. /\ s = "del" => main = "pushDel" /\ main' = "pushAdd"
          /\ s = "add" => main = "pushAdd" /\ main' = "spin"
          /\ UNCHANGED <<canExit, watch, fd, ignored>>
      BY <1>5 DEF PushLoop
    <2>2. Pool!Accepted' = Pool!Accepted \cup {s}
      BY <1>5, AcceptedStays DEF IInv
    <2>3. WatchFits'
      BY <1>1, <2>1 DEF WatchFits, Beyond, Readable, Sides
    <2>4. EndFits'
      BY <2>1, <2>2 DEF EndFits, RunStages, EndStages, Sides
    <2>5. AcceptedFits'
      BY <2>1, <2>2 DEF AcceptedFits, InitStages, Sides
    <2> QED BY <2>3, <2>4, <2>5
  <1>6. CASE UNCHANGED <<watch, fd, ignored, pending>>
    <2>1. Pool!Accepted' = Pool!Accepted /\ PoolBusy' = PoolBusy
      BY <1>1, <1>6 DEF Pool!Accepted, PoolBusy
    <2>2. \A s \in Sides : Readable(s)' = Readable(s)
      BY <1>1, <1>6 DEF Readable
    <2>3. \/ ReadConfig \/ InstallHandlers \/ InitLogger \/ ReadTdbType \/ MakeWorker
             \/ BecomeReady \/ CheckWatches
          \/ LeaveSpin \/ Farewell \/ JoinPool \/ FreeDb \/ FreeLogger
          \/ \E s \in Sides : OpenWatch(s) \/ PushLoop(s) \/ DestroyWatch(s)
      BY DEF MainStep
    <2>4. CASE \/ ReadConfig \/ InstallHandlers \/ InitLogger \/ ReadTdbType \/ MakeWorker
               \/ BecomeReady
      <3>1. main \in InitStages /\ main' \in InitStages \cup {"check", "closeAdd", "ended"}
        BY <2>4 DEF ReadConfig, InstallHandlers, InitLogger, ReadTdbType, MakeWorker, Connect,
                    Trust, BecomeReady, InitStages
      <3>2. Pool!Accepted = {} /\ ~PoolBusy
        BY <3>1, AcceptedLoops DEF AcceptedFits, IInv
      <3>3. WatchFits'
        BY <1>1, <1>6, <2>2, <3>1 DEF WatchFits, Beyond, InitStages
      <3> QED BY <2>1, <3>1, <3>2, <3>3
              DEF EndFits, AcceptedFits, InitStages, RunStages, EndStages
    <2>5. CASE CheckWatches
      <3>1. /\ main = "check" /\ main' \in {"pushDel", "closeAdd"}
            /\ main' = "pushDel" => \A s \in Sides : fd[s] = "open"
        BY <2>5 DEF CheckWatches
      <3>2. Pool!Accepted = {} /\ ~PoolBusy
        BY <3>1, AcceptedLoops DEF AcceptedFits, IInv
      <3>3. WatchFits'
        BY <1>1, <1>6, <2>2, <3>1 DEF WatchFits, Beyond
      <3> QED BY <1>6, <2>1, <3>1, <3>2, <3>3
              DEF EndFits, AcceptedFits, InitStages, RunStages, EndStages
    <2>6. CASE LeaveSpin \/ Farewell \/ JoinPool \/ FreeDb \/ FreeLogger
      <3>1. /\ main \in {"spin"} \cup EndStages /\ main' \in EndStages /\ canExit' = canExit
            /\ main = "spin" => canExit
            /\ main # "ended" /\ (main = "spin" => main' = "closeAdd")
            /\ main # "closeDel" /\ main # "closeAdd" /\ main' # "closeDel"
            /\ Beyond("del")' => Beyond("del") /\ Beyond("add")
        BY <2>6 DEF LeaveSpin, Farewell, JoinPool, FreeDb, FreeLogger, EndStages, Beyond
      <3>2. WatchFits'
        BY <1>1, <1>6, <2>2, <3>1 DEF WatchFits, Beyond, Sides
      <3>3. EndFits'
        BY <1>6, <2>1, <3>1 DEF EndFits, RunStages, EndStages
      <3>4. AcceptedFits'
        BY <3>1 DEF AcceptedFits, InitStages, EndStages
      <3> QED BY <3>2, <3>3, <3>4
    <2> QED BY <1>3, <1>4, <1>5, <2>3, <2>4, <2>5, <2>6
  <1> QED BY <1>3, <1>4, <1>5, <1>6, Frames

LEMMA LoopsSleep ==
  ASSUME IInv, SleepInv, Alive, StartLoop \/ \E s \in Sides : LoopStep(s) PROVE SleepInv'
  <1> USE DEF SleepInv
  <1>1. UNCHANGED <<main, canExit, watch, fd>>
    BY DEF StartLoop, LoopStep, LoopTest, LoopRead, LoopWakes, LoopHandle, inotyVars
  <1>2. AcceptedFits' /\ EndFits'
    <2>1. Pool!Accepted' = Pool!Accepted
      BY AcceptedStays DEF IInv
    <2>2. PoolBusy' => PoolBusy
      BY DEF StartLoop, LoopStep, LoopTest, LoopRead, LoopWakes, LoopHandle, poolVars,
             Pool!Start, Pool!Finish, PoolBusy
    <2> QED BY <1>1, <2>1, <2>2 DEF AcceptedFits, EndFits
  <1>3. /\ loop \in [Sides -> {"none", "test", "read", "blocked", "handle", "end"}]
        /\ events \in [Sides -> 0..MaxEvents] /\ ignored \in [Sides -> BOOLEAN]
    BY DEF IInv, TypeOK, LoopsOK, InotyOK
  <1>4. CASE StartLoop
    <2>1. /\ loop' = [loop EXCEPT ![Head(pending)] = "test"] /\ fd[Head(pending)] # "none"
          /\ UNCHANGED <<events, ignored>>
      BY <1>4, AcceptedStays DEF IInv, EndFits, StartLoop, inotyVars
    <2> QED BY <1>1, <1>2, <1>3, <2>1 DEF WatchFits, Beyond, Readable
  <1>5. ASSUME NEW s \in Sides, LoopStep(s) PROVE WatchFits'
    <2>1. /\ loop[s] \in {"test", "read", "blocked", "handle"}
          /\ \A r \in Sides \ {s} : loop'[r] = loop[r] /\ events'[r] = events[r]
                                      /\ ignored'[r] = ignored[r]
          /\ loop'[s] = "blocked" => fd[s] = "open"
      BY <1>3, <1>5 DEF LoopStep, LoopTest, LoopRead, LoopWakes, LoopHandle, TakeEvents, inotyVars
    <2> QED BY <1>1, <1>3, <2>1 DEF WatchFits, Beyond, Readable
  <1> QED BY <1>2, <1>4, <1>5

LEMMA OutsideSleep ==
  ASSUME IInv, SleepInv, Term \/ EditConfig \/ DirVanishes \/ \E s \in Sides : FileEvent(s)
  PROVE  SleepInv'
  <1> USE DEF SleepInv, inotyVars, loopVars, poolVars
  <1>1. UNCHANGED <<fd, loop, pending, running, finished>> /\ (canExit => canExit')
    BY DEF Term, EditConfig, DirVanishes, FileEvent
  <1>2. Pool!Accepted' = Pool!Accepted /\ (PoolBusy' <=> PoolBusy)
    BY <1>1 DEF Pool!Accepted, PoolBusy
  <1>3. main' \in {main, "ended"}
    BY DEF Term, EditConfig, DirVanishes, FileEvent
  <1>4. AcceptedFits' /\ EndFits'
    BY <1>1, <1>2, <1>3 DEF AcceptedFits, EndFits, InitStages, RunStages
  <1>5. ASSUME NEW s \in Sides
        PROVE  /\ watch'[s] = watch[s] \/ (watch[s] = "active" /\ watch'[s] = "gone")
               /\ Readable(s) => Readable(s)'
    <2>1. /\ watch \in [Sides -> {"none", "active", "gone"}]
          /\ events \in [Sides -> 0..MaxEvents] /\ ignored \in [Sides -> BOOLEAN]
      BY DEF IInv, TypeOK, InotyOK
    <2>2. CASE Term \/ EditConfig
      BY <2>2 DEF Term, EditConfig, Readable
    <2>3. CASE DirVanishes
      BY <2>1, <2>3 DEF DirVanishes, Readable
    <2>4. ASSUME NEW r \in Sides, FileEvent(r)
          PROVE  watch'[s] = watch[s] /\ (Readable(s) => Readable(s)')
      BY <2>1, <2>4 DEF FileEvent, Readable
    <2> QED BY <2>2, <2>3, <2>4
  <1>6. WatchFits'
    BY <1>1, <1>3, <1>5 DEF WatchFits, Beyond
  <1> QED BY <1>4, <1>6

LEMMA NextSleep == IInv /\ SleepInv /\ [Next]_vars => SleepInv'
  <1> SUFFICES ASSUME IInv, SleepInv, [Next]_vars PROVE SleepInv'
    OBVIOUS
  <1>1. CASE UNCHANGED vars
    <2>1. UNCHANGED <<main, canExit, watch, fd, events, ignored, loop, pending, running, finished>>
      BY <1>1 DEF vars, poolVars, loopVars, inotyVars
    <2>2. Pool!Accepted' = Pool!Accepted /\ (PoolBusy' <=> PoolBusy)
      BY <2>1 DEF Pool!Accepted, PoolBusy
    <2>3. WatchFits'
      BY <2>1 DEF SleepInv, WatchFits, Beyond, Readable
    <2> QED BY <2>1, <2>2, <2>3 DEF SleepInv, EndFits, AcceptedFits
  <1> QED BY <1>1, MainSleep, LoopsSleep, OutsideSleep DEF Next

-----------------------------------------------------------------------------
(* Theorems.                                                               *)

\* The inductive invariant.
THEOREM Invariance == Spec => []IInv
  <1> QED BY InitInv, NextInv, PTL DEF Spec

\* The variables keep their types: the stages of main() and of the two loops,
\* the descriptors, the pool and the configuration.
THEOREM TypeCorrect == Spec => []TypeOK
  <1>1. IInv => TypeOK
    BY DEF IInv
  <1> QED BY <1>1, Invariance, PTL

\* A loop that logs or writes to the database finds both, however the
\* destructors interleave with the loops, any number of signals and a
\* directory that vanishes (~baseDaemon and its members).
THEOREM ToolsFound == Spec => []LoopsFindTheirTools
  <1>1. IInv => LoopsFindTheirTools
    BY DEF IInv, LoopsInPool, PoolBusy, LoopsFindTheirTools
  <1> QED BY <1>1, Invariance, PTL

\* The daemon returns NORMAL_EXIT only after a SIGTERM its handler has seen:
\* the flag that is TRUE from the start is reset before anybody reads it.
THEOREM ExitAsked == Spec => []NormalExitIsAsked
  <1>1. IInv => NormalExitIsAsked
    BY DEF IInv
  <1> QED BY <1>1, Invariance, PTL

\* Whatever is edited between the readings of a start, PostgreSQL is started
\* with a connection, and SQLite with the name of a database if no version of
\* the configuration lacked anything.
THEOREM StartChecked == Spec => []StartedCanWork
  <1>1. IInv => StartedCanWork
    BY DEF IInv
  <1> QED BY <1>1, Invariance, PTL

LEMMA SleepInvariance == Spec => []SleepInv
  <1> QED BY Invariance, InitSleep, NextSleep, PTL DEF Spec

\* The daemon can be joined: when ~CThreadPool waits for the loops, whoever is
\* in the pool will find the flag set, and a loop that is blocked in read()
\* has been given something to read by the end of its watch, unless its
\* directory was deleted and nobody closed the descriptor.
THEOREM LoopsAreWoken == Spec => []NobodySleepsOn
  <1>1. ASSUME IInv, SleepInv PROVE NobodySleepsOn
    <2> SUFFICES ASSUME main = "joinPool", NEW s \in Sides
                 PROVE  /\ s \in {pending[i] : i \in DOMAIN pending} \cup running => canExit
                        /\ loop[s] = "blocked" => Readable(s) \/ Orphaned(s)
      BY DEF NobodySleepsOn
    <2>1. s \in {pending[i] : i \in DOMAIN pending} \cup running => PoolBusy
      BY DEF PoolBusy
    <2>2. watch[s] # "active" /\ fd[s] \in {"none", "open", "closed"}
          /\ watch[s] \in {"none", "active", "gone"}
      BY <1>1 DEF SleepInv, WatchFits, Beyond, IInv, TypeOK, InotyOK
    <2> QED BY <1>1, <2>1, <2>2 DEF SleepInv, WatchFits, EndFits, EndStages, Orphaned
  <1> QED BY <1>1, Invariance, SleepInvariance, PTL

\* The promise never holds the daemon up: when the main thread gives the pool a
\* loop, the pool has not been given it before (runService()).
THEOREM LoopsGivenOnce == Spec => []GivenOnce
  <1>1. SleepInv => GivenOnce
    BY DEF SleepInv, AcceptedFits, GivenOnce
  <1> QED BY <1>1, SleepInvariance, PTL

\* What the daemon does with its pool is a behaviour of the promise that
\* CThreadPool is shown to keep: every loop is given once, started in order and
\* finished by itself, and none is thrown away.
THEOREM PoolUsed == Spec => Pool!Spec
  <1>1. Init => Pool!Init
    BY DEF Init, Pool!Init, DiscardStages
  <1>2. [Next]_vars => [Pool!Next]_Pool!vars
    <2> SUFFICES ASSUME [Next]_vars PROVE [Pool!Next]_Pool!vars
      OBVIOUS
    <2> USE DEF poolVars, Pool!vars, DiscardStages
    <2>1. ASSUME NEW s \in Sides, PushLoop(s) PROVE Pool!Next
      BY <2>1 DEF PushLoop, Pool!Next
    <2>2. CASE StartLoop
      BY <2>2 DEF StartLoop, Pool!Next
    <2>3. ASSUME NEW s \in Sides, LoopStep(s) PROVE [Pool!Next]_Pool!vars
      BY <2>3 DEF LoopStep, LoopTest, LoopRead, LoopWakes, LoopHandle, Pool!Next
    <2>4. CASE UNCHANGED <<pending, running, finished>>
      BY <2>4
    <2>5. ASSUME MainStep, \A s \in Sides : ~PushLoop(s) PROVE UNCHANGED <<pending, running, finished>>
      BY <2>5, Frames
    <2>6. ASSUME Term \/ EditConfig \/ DirVanishes \/ \E s \in Sides : FileEvent(s)
          PROVE  UNCHANGED <<pending, running, finished>>
      BY <2>6 DEF Term, EditConfig, DirVanishes, FileEvent
    <2>7. CASE UNCHANGED vars
      BY <2>4, <2>7 DEF vars
    <2> QED BY <2>1, <2>2, <2>3, <2>4, <2>5, <2>6, <2>7 DEF Next
  <1> QED BY <1>1, <1>2, PTL DEF Spec, Pool!Spec

=============================================================================
