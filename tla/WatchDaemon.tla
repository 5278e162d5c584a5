---------------------------- MODULE WatchDaemon -----------------------------
(***************************************************************************)
(* One life of the process watch_daemon, from main() to its exit code:     *)
(* construction, initialisation with its failures, the two reading loops,  *)
(* SIGTERM at any moment, the watched directory vanishing, and the         *)
(* destructors of fileWatch, baseDaemon and their members in the order C++ *)
(* runs them.                                                              *)
(*                                                                         *)
(* The loops are functions pushed to the pool; the pool itself is taken by *)
(* its promise, TaskPool, which CThreadPool is shown to keep.  What the    *)
(* loops do to the table is the subject of FileWatch.                      *)
(***************************************************************************)
EXTENDS Integers, Sequences, FiniteSets, IniFile

CONSTANTS
  Files,            \* what the configuration may hold, see IniFile
  MaxEdits,         \* bound: how often it is edited while the daemon reads it
  DirCanVanish,     \* may the watched directory be deleted?
  TermDuringInit,   \* may SIGTERM arrive before the daemon has started?
  MaxTerms,         \* bound: how often SIGTERM is sent
  MaxEvents         \* bound: events that ever arrive at each descriptor

ASSUME DaemonAssumption ==
  /\ DirCanVanish \in BOOLEAN /\ TermDuringInit \in BOOLEAN
  /\ MaxTerms \in Nat /\ MaxEvents \in Nat /\ MaxEdits \in Nat

Sides == {"add", "del"}

VARIABLES
  main,         \* where the main thread is
  code,         \* exit code, once it is decided
  canExit,      \* baseDaemon::m_canExit
  file, edits,  \* the configuration
  complete,     \* history: has it lacked nothing so far?
  tdbType,      \* TDBtype of initBaseDaemon(), the kind of worker it makes
  terms,        \* signals sent
  handled,      \* history: the handler has announced the end
  logger, db,   \* m_pl and m_tdbworker_content
  watch,        \* the kernel's watch behind each descriptor
  fd,           \* the descriptor itself
  events,       \* events of files queued at each descriptor
  ignored,      \* is IN_IGNORED queued behind them?
  arrived,      \* how many events of files ever arrived
  loop, read,   \* where each loop is, how many events it has in its buffer
  pending, running, finished      \* the pool, see TaskPool

fileVars   == <<file, edits, complete>>
configVars == <<fileVars, tdbType>>
poolVars  == <<pending, running, finished>>
loopVars  == <<loop, read>>
inotyVars == <<watch, fd, events, ignored, arrived>>
vars == <<main, code, canExit, configVars, terms, handled, logger, db,
          inotyVars, loopVars, poolVars>>

\* Nobody calls clear_queue(), pop() or stop(false), so there is no stage in
\* which the pool throws away what it was given.
DiscardStages == {}

Pool == INSTANCE TaskPool
          WITH Tasks <- Sides, discarded <- {}, withdrawn <- {},
               discarding <- main \in DiscardStages

InitStages == {"config", "signals", "watchDel", "watchAdd", "logger", "dbType", "dbWorker",
               "ready"}
RunStages  == {"check", "pushDel", "pushAdd", "spin"}
EndStages  == {"closeAdd", "closeDel", "farewell", "joinPool", "freeDb", "freeLogger",
               "ended"}

Codes == {"none", "normal", "noConfig", "cantInit", "exception", "crash", "killed"}

TDB_types == {"SQLITE", "POSTGRESQL"}

\* A worker that can be called: it can work, it has no name of a database, or
\* it has one that cannot be opened.
Workers == {"ok", "unnamed", "unopenable"}

ProcessOK ==
  /\ main \in InitStages \cup RunStages \cup EndStages
  /\ code \in Codes
  /\ canExit \in BOOLEAN /\ handled \in BOOLEAN
  /\ terms \in 0..MaxTerms
  /\ edits \in 0..MaxEdits /\ complete \in BOOLEAN /\ tdbType \in TDB_types \cup {"none"}
  /\ logger \in {"null", "closed", "open", "freed"}
  /\ db \in Workers \cup {"null", "finished", "freed"}

InotyOK ==
  /\ watch \in [Sides -> {"none", "active", "gone"}]
  /\ fd \in [Sides -> {"none", "open", "closed"}]
  /\ events \in [Sides -> 0..MaxEvents] /\ arrived \in [Sides -> 0..MaxEvents]
  /\ ignored \in [Sides -> BOOLEAN]

LoopsOK ==
  /\ loop \in [Sides -> {"none", "test", "read", "blocked", "handle", "end"}]
  /\ read \in [Sides -> 0..MaxEvents]
  /\ pending \in Seq(Sides) /\ Len(pending) <= 2
  /\ running \subseteq Sides /\ finished \subseteq Sides

\* Types.
TypeOK == ProcessOK /\ InotyOK /\ LoopsOK

Init ==
  /\ main = "config" /\ code = "none"
  /\ canExit = TRUE               \* static initialiser
  /\ file \in Files /\ edits = 0 /\ complete = Complete(file)
  /\ tdbType = "none"
  /\ terms = 0 /\ handled = FALSE
  /\ logger = "null" /\ db = "null"
  /\ watch = [s \in Sides |-> "none"] /\ fd = [s \in Sides |-> "none"]
  /\ events = [s \in Sides |-> 0] /\ arrived = [s \in Sides |-> 0]
  /\ ignored = [s \in Sides |-> FALSE]
  /\ loop = [s \in Sides |-> "none"] /\ read = [s \in Sides |-> 0]
  /\ Pool!Init

-----------------------------------------------------------------------------
(* Construction and initialisation.                                        *)

MainGoes(from, to) == main = from /\ main' = to

\* A failure: the exit code is chosen and the object is destroyed.
Abandon(c) == main' = "closeAdd" /\ code' = c

\* main(): the section [FILE_OBSERVER] of the configuration.
ReadConfig ==
  /\ main = "config"
  /\ \/ /\ getSectionContent(file, "FILE_OBSERVER").first
        /\ main' = "signals" /\ UNCHANGED code
     \/ /\ ~getSectionContent(file, "FILE_OBSERVER").first
        /\ main' = "ended" /\ code' = "noConfig"
  /\ UNCHANGED <<configVars, canExit, terms, handled, logger, db, inotyVars,
                 loopVars, poolVars>>

\* baseDaemon::baseDaemon
InstallHandlers ==
  /\ MainGoes("signals", "watchDel")
  /\ UNCHANGED <<configVars, code, canExit, terms, handled, logger, db, inotyVars,
                 loopVars, poolVars>>

\* inotifyRAIIwrapper::inotifyRAIIwrapper, twice; it swallows its failures,
\* but not what fs::exists() throws about the directory.
OpenWatch(s) ==
  /\ main = (IF s = "del" THEN "watchDel" ELSE "watchAdd")
  /\ \/ /\ main' = (IF s = "del" THEN "watchAdd" ELSE "logger") /\ UNCHANGED code
        /\ \/ /\ watch' = [watch EXCEPT ![s] = "active"]
              /\ fd' = [fd EXCEPT ![s] = "open"]
           \/ UNCHANGED <<watch, fd>>
     \/ Abandon("exception") /\ UNCHANGED <<watch, fd>>
  /\ UNCHANGED <<configVars, canExit, terms, handled, logger, db, events, ignored,
                 arrived, loopVars, poolVars>>

\* initBaseDaemon(), the logger.  A configuration without its section leaves
\* no logger at all; one that fails to open its file is there and closed.
InitLogger ==
  /\ main = "logger"
  /\ LET found == getSectionContent(file, "PET_LOGGER").first IN
     \/ found /\ main' = "dbType" /\ logger' = "open" /\ UNCHANGED code
     \/ found /\ Abandon("cantInit") /\ logger' = "closed"
     \/ ~found /\ Abandon("cantInit") /\ UNCHANGED logger
  /\ UNCHANGED <<configVars, canExit, terms, handled, db, inotyVars, loopVars,
                 poolVars>>

\* initBaseDaemon(), the kind of database.  The file is read again, and
\* whether it has the section is not tested: at("db_type") throws.
ReadTdbType ==
  /\ main = "dbType"
  /\ LET observer == getSectionContent(file, "FILE_OBSERVER") IN
     \/ /\ observer.first /\ observer.second["db_type"] \in TDB_types
        /\ main' = "dbWorker" /\ tdbType' = observer.second["db_type"]
        /\ UNCHANGED code
     \/ /\ observer.first /\ observer.second["db_type"] \notin TDB_types
        /\ Abandon("cantInit") /\ UNCHANGED tdbType
     \/ ~observer.first /\ Abandon("exception") /\ UNCHANGED tdbType
  /\ UNCHANGED <<fileVars, canExit, terms, handled, logger, db, inotyVars, loopVars,
                 poolVars>>

\* Mutant: whether PostgreSQL can be reached is not tested.
ConnectAnyhow(params) ==
  \/ "dbname" \in DOMAIN params /\ main' = "ready" /\ db' = "ok" /\ UNCHANGED code
  \/ "dbname" \in DOMAIN params /\ main' = "ready" /\ db' = "unopenable" /\ UNCHANGED code
  \/ "dbname" \notin DOMAIN params /\ Abandon("cantInit") /\ db' = "unnamed"

\* postgreWorker::initWorker().  Without its parameters at("host") throws and
\* no connection is made; one that cannot be made is finished, and the worker
\* keeps the pointer.
Connect(params) ==
  \/ "dbname" \in DOMAIN params /\ main' = "ready" /\ db' = "ok" /\ UNCHANGED code
  \/ "dbname" \in DOMAIN params /\ Abandon("cantInit") /\ db' = "finished"
  \/ "dbname" \notin DOMAIN params /\ Abandon("cantInit") /\ db' = "unnamed"

\* SQLiteWorker::initWorker() tests nothing.  A worker without a name to open,
\* or with one that sqlite3_open() refuses, fails in every call, in
\* openConnection().
Trust(params) ==
  /\ main' = "ready" /\ UNCHANGED code
  /\ \/ "dbname" \in DOMAIN params /\ db' \in {"ok", "unopenable"}
     \/ "dbname" \notin DOMAIN params /\ db' = "unnamed"

\* initBaseDaemon(), the worker: produceTDB() is given what [CONTENT_TDB]
\* holds now, or nothing, and initWorker() is called.
MakeWorker ==
  /\ main = "dbWorker"
  /\ LET params == getSectionContent(file, "CONTENT_TDB").second IN
     \/ tdbType = "POSTGRESQL" /\ Connect(params)
     \/ tdbType = "SQLITE" /\ Trust(params)
  /\ UNCHANGED <<configVars, canExit, terms, handled, logger, inotyVars, loopVars,
                 poolVars>>

\* Mutant: the flag is left as it is.
BecomeReadyUnset ==
  /\ MainGoes("ready", "check")
  /\ tdbType' = "none"
  /\ UNCHANGED <<fileVars, code, canExit, terms, handled, logger, db, inotyVars,
                 loopVars, poolVars>>

\* The last statement of initBaseDaemon(), whose variables end with it.
BecomeReady ==
  /\ MainGoes("ready", "check")
  /\ canExit' = FALSE /\ tdbType' = "none"
  /\ UNCHANGED <<fileVars, code, terms, handled, logger, db, inotyVars, loopVars,
                 poolVars>>

\* initFileWatch(): both descriptors must be there.
CheckWatches ==
  /\ main = "check"
  /\ \/ (\A s \in Sides : fd[s] = "open") /\ main' = "pushDel" /\ UNCHANGED code
     \/ (\E s \in Sides : fd[s] = "none") /\ Abandon("cantInit")
  /\ UNCHANGED <<configVars, canExit, terms, handled, logger, db, inotyVars,
                 loopVars, poolVars>>

-----------------------------------------------------------------------------
(* runService() and the loops.                                             *)

PushLoop(s) ==
  /\ IF s = "del" THEN MainGoes("pushDel", "pushAdd") ELSE MainGoes("pushAdd", "spin")
  /\ Pool!Submit(s)
  /\ UNCHANGED <<configVars, code, canExit, terms, handled, logger, db, inotyVars,
                 loopVars>>

\* while(!canExit());
LeaveSpin ==
  /\ canExit
  /\ MainGoes("spin", "closeAdd")
  /\ code' = "normal"
  /\ UNCHANGED <<configVars, canExit, terms, handled, logger, db, inotyVars,
                 loopVars, poolVars>>

\* One of the two workers of the pool starts the oldest function.
StartLoop ==
  /\ Cardinality(running) < 2
  /\ UNCHANGED <<configVars, main, code, canExit, terms, handled, logger, db,
                 inotyVars, read>>
  /\ Pool!Start
  /\ loop' = [loop EXCEPT ![Head(pending)] = "test"]

\* while(!canExit())
LoopTest(s) ==
  /\ loop[s] = "test"
  /\ UNCHANGED <<configVars, main, code, canExit, terms, handled, logger, db,
                 inotyVars, read>>
  /\ \/ /\ canExit
        /\ loop' = [loop EXCEPT ![s] = "end"]
        /\ Pool!Finish(s)
     \/ /\ ~canExit
        /\ loop' = [loop EXCEPT ![s] = "read"]
        /\ UNCHANGED poolVars

\* What read() returns: whatever is queued.  The event IN_IGNORED carries no
\* name and is skipped.
Readable(s) == events[s] > 0 \/ ignored[s]

TakeEvents(s) ==
  /\ read' = [read EXCEPT ![s] = events[s]]
  /\ loop' = [loop EXCEPT ![s] = IF events[s] > 0 THEN "handle" ELSE "test"]
  /\ events' = [events EXCEPT ![s] = 0]
  /\ ignored' = [ignored EXCEPT ![s] = FALSE]

\* readInotyEvents() calls read(): on a closed descriptor that is an error,
\* which is ignored; when nothing is queued the thread blocks.
LoopRead(s) ==
  /\ loop[s] = "read"
  /\ \/ fd[s] = "open" /\ Readable(s) /\ TakeEvents(s)
     \/ /\ fd[s] = "open" /\ ~Readable(s)
        /\ loop' = [loop EXCEPT ![s] = "blocked"]
        /\ UNCHANGED <<read, events, ignored>>
     \/ /\ fd[s] = "closed"
        /\ loop' = [loop EXCEPT ![s] = "test"]
        /\ UNCHANGED <<read, events, ignored>>
  /\ UNCHANGED <<configVars, main, code, canExit, terms, handled, logger, db, watch,
                 fd, arrived, poolVars>>

\* A blocked read() returns when an event is queued, not because somebody
\* closes the descriptor.
LoopWakes(s) ==
  /\ loop[s] = "blocked" /\ Readable(s)
  /\ TakeEvents(s)
  /\ UNCHANGED <<configVars, main, code, canExit, terms, handled, logger, db, watch,
                 fd, arrived, poolVars>>

\* Mutant: the buffer is read one event too far.
LoopHandleOneMore(s) ==
  /\ loop[s] = "handle"
  /\ read' = [read EXCEPT ![s] = @ - 1]
  /\ loop' = [loop EXCEPT ![s] = IF read[s] >= 0 THEN "handle" ELSE "test"]
  /\ UNCHANGED <<configVars, main, code, canExit, terms, handled, logger, db,
                 inotyVars, poolVars>>

\* The callback writes to the log and to the database.  It may run when its
\* wrapper is destroyed already: what it uses then, the buffer and the
\* function, is still in main()'s frame and works in this build.
LoopHandle(s) ==
  /\ loop[s] = "handle"
  /\ read' = [read EXCEPT ![s] = @ - 1]
  /\ loop' = [loop EXCEPT ![s] = IF read[s] > 1 THEN "handle" ELSE "test"]
  /\ UNCHANGED <<configVars, main, code, canExit, terms, handled, logger, db,
                 inotyVars, poolVars>>

-----------------------------------------------------------------------------
(* The destructors.                                                        *)

\* Mutant: the descriptor is only closed.
CloseOnly(s) ==
  /\ IF s = "add" THEN MainGoes("closeAdd", "closeDel")
                  ELSE MainGoes("closeDel", "farewell")
  /\ fd' = [fd EXCEPT ![s] = IF @ = "open" THEN "closed" ELSE @]
  /\ UNCHANGED <<watch, ignored>>
  /\ UNCHANGED <<configVars, code, canExit, terms, handled, logger, db, events,
                 arrived, loopVars, poolVars>>

\* ~inotifyRAIIwrapper: removing the watch queues IN_IGNORED, which wakes a
\* blocked read(); if the watch is gone already inotify_rm_watch() fails and
\* the exception skips close().  A read() that is blocked keeps its file.
DestroyWatch(s) ==
  /\ IF s = "add" THEN MainGoes("closeAdd", "closeDel")
                  ELSE MainGoes("closeDel", "farewell")
  /\ \/ /\ watch[s] = "active"
        /\ watch' = [watch EXCEPT ![s] = "gone"]
        /\ ignored' = [ignored EXCEPT ![s] = TRUE]
        /\ fd' = [fd EXCEPT ![s] = "closed"]
     \/ /\ watch[s] # "active"
        /\ UNCHANGED <<watch, ignored, fd>>
  /\ UNCHANGED <<configVars, code, canExit, terms, handled, logger, db, events,
                 arrived, loopVars, poolVars>>

\* ~baseDaemon logs through m_pl, whether it was made or not.
Farewell ==
  /\ main = "farewell"
  /\ \/ logger # "null" /\ main' = "joinPool" /\ UNCHANGED code
     \/ logger = "null" /\ main' = "ended" /\ code' = "crash"
  /\ UNCHANGED <<configVars, canExit, terms, handled, logger, db, inotyVars,
                 loopVars, poolVars>>

\* Mutant: the pool is not the last member, the others go first.
FreeBeforeJoin ==
  /\ MainGoes("joinPool", "freeDb")
  /\ UNCHANGED <<configVars, code, canExit, terms, handled, logger, db, inotyVars,
                 loopVars, poolVars>>

\* ~CThreadPool: whatever was pushed has run and ended.
JoinPool ==
  /\ MainGoes("joinPool", "freeDb")
  /\ pending = <<>> /\ running = {}
  /\ UNCHANGED <<configVars, code, canExit, terms, handled, logger, db, inotyVars,
                 loopVars, poolVars>>

\* The other members, in reverse order of declaration: m_tdbworker_content,
\* m_pl.  Finishing a PostgreSQL connection for the second time is undefined:
\* it may pass or end the process.
FreeDb ==
  /\ main = "freeDb"
  /\ \/ main' = "freeLogger" /\ db' = "freed" /\ UNCHANGED code
     \/ db = "finished" /\ main' = "ended" /\ code' = "crash" /\ UNCHANGED db
  /\ UNCHANGED <<configVars, canExit, terms, handled, logger, inotyVars, loopVars,
                 poolVars>>

FreeLogger ==
  /\ MainGoes("freeLogger", "ended")
  /\ logger' = "freed"
  /\ UNCHANGED <<configVars, code, canExit, terms, handled, db, inotyVars, loopVars,
                 poolVars>>

-----------------------------------------------------------------------------
(* The outside.                                                            *)

\* kill: before the handlers are installed it ends the process; afterwards
\* the handler sets the flag.
Term ==
  /\ main # "ended" /\ terms < MaxTerms
  /\ TermDuringInit \/ main \notin InitStages
  /\ terms' = terms + 1
  /\ \/ /\ main \in {"config", "signals"}
        /\ main' = "ended" /\ code' = "killed"
        /\ UNCHANGED <<canExit, handled>>
     \/ /\ main \notin {"config", "signals"}
        /\ canExit' = TRUE /\ handled' = TRUE
        /\ UNCHANGED <<main, code>>
  /\ UNCHANGED <<configVars, logger, db, inotyVars, loopVars, poolVars>>

\* The configuration is edited while the daemon may still read it.
EditConfig ==
  /\ main \in InitStages /\ edits < MaxEdits
  /\ edits' = edits + 1
  /\ file' \in Files /\ complete' = (complete /\ Complete(file'))
  /\ UNCHANGED <<main, code, canExit, tdbType, terms, handled, logger, db,
                 inotyVars, loopVars, poolVars>>

FileEvent(s) ==
  /\ watch[s] = "active" /\ arrived[s] < MaxEvents /\ main # "ended"
  /\ events' = [events EXCEPT ![s] = @ + 1]
  /\ arrived' = [arrived EXCEPT ![s] = @ + 1]
  /\ UNCHANGED <<configVars, main, code, canExit, terms, handled, logger, db, watch,
                 fd, ignored, loopVars, poolVars>>

\* rmdir: the kernel removes both watches and queues IN_IGNORED.
DirVanishes ==
  /\ DirCanVanish /\ main # "ended"
  /\ \E s \in Sides : watch[s] = "active"
  /\ ignored' = [s \in Sides |-> watch[s] = "active" \/ ignored[s]]
  /\ watch' = [s \in Sides |-> IF watch[s] = "active" THEN "gone" ELSE watch[s]]
  /\ UNCHANGED <<configVars, main, code, canExit, terms, handled, logger, db, fd,
                 events, arrived, loopVars, poolVars>>

-----------------------------------------------------------------------------
MainStep ==
  \/ ReadConfig \/ InstallHandlers \/ InitLogger \/ ReadTdbType
  \/ MakeWorker \/ BecomeReady
  \/ CheckWatches \/ LeaveSpin \/ Farewell \/ JoinPool \/ FreeDb
  \/ FreeLogger
  \/ \E s \in Sides : OpenWatch(s) \/ PushLoop(s) \/ DestroyWatch(s)

LoopStep(s) == LoopTest(s) \/ LoopRead(s) \/ LoopWakes(s) \/ LoopHandle(s)

\* Once main() has returned the threads are gone, whatever they were doing.
Alive == main # "ended"

Next ==
  \/ MainStep
  \/ Alive /\ (StartLoop \/ \E s \in Sides : LoopStep(s))
  \/ Term \/ EditConfig \/ DirVanishes
  \/ \E s \in Sides : FileEvent(s)

Spec == Init /\ [][Next]_vars

\* Every thread of the process gets its time.
Fairness ==
  /\ WF_vars(MainStep)
  /\ WF_vars(Alive /\ StartLoop)
  /\ \A s \in Sides : WF_vars(Alive /\ LoopStep(s))

FairSpec == Spec /\ Fairness

-----------------------------------------------------------------------------
(* Properties.                                                             *)

\* A loop that logs or writes to the database finds both: the pool, the last
\* member of baseDaemon, is destroyed before them and joins the loops.
LoopsFindTheirTools ==
  \A s \in Sides : Alive /\ loop[s] = "handle" => logger = "open" /\ db \in Workers

\* When initBaseDaemon() is about to return true the daemon is connected, if
\* it uses PostgreSQL.  With SQLite its worker may be one that can only fail,
\* but only because the database cannot be opened, which nobody tried, or
\* because the configuration lacked something at some time: no edit between
\* the repeated readings makes the daemon say "Демон успешно стартовал" and
\* lose every song if all versions of the file lack nothing and the databases
\* they name can be opened.
StartedCanWork ==
  main = "ready" =>
    /\ tdbType = "POSTGRESQL" => db = "ok"
    /\ tdbType = "SQLITE" /\ complete => db \in {"ok", "unopenable"}

\* The daemon does not stop by itself: it returns NORMAL_EXIT only after a
\* SIGTERM that its handler has seen.
NormalExitIsAsked == code = "normal" => handled

\* The kernel took the watch away and the descriptor stays open: whoever is
\* blocked in read() sleeps on.
Orphaned(s) == watch[s] = "gone" /\ fd[s] = "open"

\* A SIGTERM to a daemon that has started ends the process, although both
\* loops may be blocked in read() and the main thread only sets a flag: the
\* destructors of the watches wake them.  It takes a directory that exists.
TermEndsDaemon ==
  handled /\ canExit /\ main \notin InitStages
    ~> main = "ended" \/ \E s \in Sides : Orphaned(s)

\* "Завершаем работу по сигналу" (the handler): the process ends, also when
\* the signal arrives while the daemon is being initialised.
AnnouncedEndComes == handled ~> main = "ended"

\* watch_daemon.cpp reports a failed initialisation by its exit code.
FailureIsReported ==
  main = "ended" => code \in {"normal", "noConfig", "cantInit", "exception", "killed"}

=============================================================================
