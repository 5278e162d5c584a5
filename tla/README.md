# A TLA+ model of Pet_project_back

`Pet_project_back` is a small back end made of two daemons that share a table
of songs: `watch_daemon` keeps the table `song_list` in step with a directory,
`http_daemon` answers requests for the list and for single songs. The modules
here model the code under `src/`, TLC checks them on small instances, and TLAPS
proves the safety properties of every part for all values of the constants.

Run, in this directory, `tlc -config pool.cfg MCCThreadPool.tla` (and so on, the
table of runs below) and `tlapm CThreadPoolProofs.tla` (and the other modules named
`...Proofs`).

## 1. Inventory

### The parts, their state, their operations

| part (under `src/`) | state | operations |
| --- | --- | --- |
| **CThreadPool** `base_daemon/include/CThreadPool.h` | queue of functions with its own mutex, threads and their flags, `isDone`, `isStop`, `nWaiting`, mutex and condition variable | `push`, `pop`, `resize`, `clear_queue`, `stop(true/false)`, destructor, the function of a thread |
| **baseDaemon** `base_daemon/src/base_daemon.cpp` | `m_canExit` (static), logger, database worker, pool | constructor (installs handlers), `initBaseDaemon`, `signalHandler`, destructor |
| **fileWatch** `filewatch_daemon/src/filewatch_daemon.cpp` | two inotify wrappers, one for arrivals and one for departures | constructor, `initFileWatch`, `runService`, a loop and a callback for each wrapper |
| **inotifyRAIIwrapper** `file_watcher/src/inoty_wrapper.cpp` | descriptor, watch, buffer, callback | open, `readInotyEvents`, destroy |
| **petLogger** `pet_logger/src/pet_logger.cpp` | open stream, limit, mutex; files named after the second | `init`, `FAST_LOG` with rotation, destructor |
| **SQLiteWorker** `TDB_workers/src/TDB_SQLite_worker.cpp` | mutex, a connection and a statement during a call | `execQuery`, `getSongsListAsJson`, `getFilenameByUID` |
| **postgreWorker** `TDB_workers/src/TDB_postgre_worker.cpp` | one connection, last result | the same, and `initWorker` |
| **httpServer** `http_daemon/src/http_server.cpp` | event base, http server, log worker | `initServer`, `mainServerLoop`, `ProcessRequest` |
| **iniFileParser** `ini_file_parser/src` | none that lasts (the file is read for every call) | `getSectionContent` |
| **CUUIDGenerator** `filewatch_daemon/src/CUUIDGenerator.cpp` | random engines | `getNewUUID`, `getBoundedRandValue` |
| **TDB_fabrique** | none | `produceTDB` |
| mains, service files, SQL, installer | exit codes; `Restart=always` | |

### How they interact

* Both daemons inherit from `baseDaemon`. Members are destroyed in reverse order
  of declaration, so the wrappers of `fileWatch` go first, then the pool joins its
  workers, then database worker and logger go.
* `fileWatch::runService` pushes two functions into the pool. Each loops: test
  `canExit()`, `read()` its descriptor (blocking), and call back for every event.
  The callback runs one `INSERT` or `DELETE` and logs.
* The signal handler only sets `m_canExit`. The main thread spins on it. What
  wakes a loop that is blocked in `read()` is the *destructor* of its wrapper.
* The two daemons meet at the database and in the directory. With SQLite the
  database is a file, locked by SQLite; each call opens and closes a connection.
  With PostgreSQL a worker has one connection for its whole life.
* `http_daemon` finds the name of a UID in the table and opens the file of that
  name. Nothing ties the two steps together, or the row to the file.
* The configuration is a file that both daemons read again whenever they want a
  section of it: four times in a start of `watch_daemon`, and for every song.
* The server has one thread. libevent calls `ProcessRequest` and later, between
  requests, writes replies and closes the files they came from.

### What is hard here

* *Interleaving*: `push` outside the pool's mutex against sleepers; arrivals and
  departures through two descriptors; two processes at one file; the directory
  changing under a request.
* *Ordering and lifetime*: threads, descriptors and members that end in an order
  nobody wrote down; a descriptor with two owners.
* *Failure*: failing statements lose events; failed initialisation and its
  destructors; files that cannot be opened or written.
* *Loss*: events before the start, in a stop, in a full queue, or merged.
* *Liveness*: joining threads that sleep; a daemon that reacts to its own journal.

`PROJECT.json` lists every such place, with its line and the properties about it.

### What makes each part correct

| part | properties |
| --- | --- |
| pool | order and no loss (`ImplementsTaskPool`), no lost wakeup, `stop(true)` drains, `n_idle()` exact, the destructor joins, nothing stays queued, `stop` returns |
| watcher | the table is what the directory is, or one of seven things happened; it comes to rest |
| both daemons | a client gets for a UID the song it was made for, and is not told "not found" while it is there; each file gets a UID of its own |
| daemon | loops never use a dead logger or database; it ends when asked, and only then; failures are reported; whatever is edited during a start, it starts with a worker that is connected or has a database to open |
| logger | every message once and in order, or one of four things happened; sizes bounded |
| SQLite worker | each call is atomic and its answer true; locks of one process never collide; nothing is left open |
| PostgreSQL worker | the same where answers can be lost; one statement in doubt at most; results that stay behind are counted |
| server | replies are true at a moment of the request; each request answered; descriptors closed once and by their owner |
| identifiers | the rejection of random words is unbiased; the server finds an identifier exactly when the first `uid=` of a URI stands before it and nothing after it |

## 2. Modules

| module | models | checked by | proved in |
| --- | --- | --- | --- |
| `TaskPool` | abstract: what a pool promises | refined by `CThreadPool`, used in `WatchDaemon` | |
| `CThreadPool` | `CThreadPool.h`, `CQueuePool` | `MCCThreadPool` | `CThreadPoolProofs` |
| `FileWatch` | callbacks, loops, inotify queues, `song_list` | `MCSongService` | `SongServiceProofs` |
| `SongService` | `FileWatch` with contents, UIDs and the server | `MCSongService` | `SongServiceProofs` |
| `IniFile` | `getSectionContent` | `MCWatchDaemon` | |
| `WatchDaemon` | one life of the process, over `TaskPool` and `IniFile` | `MCWatchDaemon` | `WatchDaemonProofs` |
| `PetLogger` | `pet_logger.cpp` | `MCPetLogger` | `PetLoggerProofs` |
| `SqlTable` | abstract: atomic calls with true answers, answers that may be lost | refined by the next two | |
| `SQLiteWorker` | `TDB_SQLite_worker.cpp` and SQLite's locks | `MCSQLiteWorker` | `SQLiteWorkerProofs` |
| `PostgreWorker` | `TDB_postgre_worker.cpp`, its connection and server | `MCPostgreWorker` | `PostgreWorkerProofs` |
| `HttpServer` | `http_server.cpp`, `http_daemon.cpp`, libevent's descriptors | `MCHttpServer` | `HttpServerProofs` |
| `UuidGenerator` | `CUUIDGenerator.cpp`, `getSongUIDOutOfURI` | `MCUuidGenerator` | `UuidGeneratorProofs` |

`PROJECT.json` names for each definition the lines it models.

**CThreadPool.** A step is what a thread does between two points where another
can see a difference: a queue operation, an atomic flag, a critical section. The
wait predicate is two steps because it pops *first* and reads `isDone` and the
flag *afterwards*. `opc` is the place of the one thread that resizes, stops and
destroys (the comment on `resize()` demands that it be one); `pc[w]` the place of
a worker; `notifying[p]` a `push` between its two halves. Workers that
`resize` detached run on and stay in the model. `promised` is history.

**FileWatch.** `queue[s]` is the kernel's queue of a descriptor, `buf[s]` the
buffer, `rows[f]` how often `f` is in `song_list` (0, 1 or several).
Opening the two descriptors and starting the loops are three steps, as in the
code. An event carries the number of its change, which only the properties
read. `faults` is the first thing that can have made the table wrong: a change that
was not watched, an event merged or dropped, a file replaced, a failed statement,
events lost in a stop, or one loop overtaking the other. A statement that fails may
have made and removed its journal all the same.

**SongService** extends `FileWatch`, action by action: a change of the directory
also changes `content` (named by the number of the change) and `whole` (files that
are completely written), an `INSERT` gives the new row the UID of its event. The
server first asks the table: `LookUp` gets a name, `NotListed` finds no row, and
`LookUpFails` cannot tell the client that the database was locked or broken; it
answers as if there were no row. After `LookUp` come `ServeSong`, `ServeNotFound` or
`OpenFails` (a file that is there and cannot be opened or sent), and anything may happen
in between; `HttpServer` has its details. `request.doubt` is history: the watcher had
events of that name to handle, was at fault before, or the file changed under the
request. `AnswersFit` speaks of both answers, and of "not found" only where no call of
the request has failed.

**IniFile** is an operator on what boost makes of a file: all keys of a section, or
nothing.

**WatchDaemon.** The main thread goes from `main()` through constructor,
`initBaseDaemon`, `initFileWatch`, `runService` to the destructors; every failure
on the way is a choice. `file` is the configuration; `ReadConfig`, `InitLogger`,
`ReadTdbType` and `MakeWorker` each read it again, and `EditConfig` may come between
them. `complete` is history: no version so far lacked anything. An SQLite worker is
`ok`, `unnamed` (no `dbname`) or `unopenable`: nobody tries before the first call, so
which of them it is does not show in the start. The pool is
`TaskPool`, instantiated. Events are counted, not named.

**PetLogger.** The file of second *s* is `disk[s]`; the stream is closed, open on a
file or open on a file whose name is gone. Sizes count messages. A limit that was
never set (`init()` threw) makes the comparison a choice.

**SqlTable** is the promise of both workers: a call takes effect at one moment, and
"true" means applied. Where answers can be lost (`CanLoseAnswers`), "false" and an
empty answer may be wrong, and a refused statement may be `inDoubt`: applied later.

**SQLiteWorker.** A call goes from mutex to mutex: open, climb SQLite's locks or
prepare and step, close. Whoever meets a lock fails at once, because no busy
timeout is set; with `CanFailInSQL` calls also fail where no lock is in the way (a quote
in a name, no `json_group_array`, a full disk). A row that was found keeps the shared lock
until the statement is finalized; a lookup that finds none is done and releases it. It implements `SqlTable` without lost answers. The undefined answer
of a failed `prepare` counts there as no rows and has a property of its own.

**PostgreWorker.** A call goes from mutex to mutex, too, but through `m_conn`, which
is made once: `Send`, the server's `ServeStatement`, `ServeQuery` or `ServeError`, then
`Receive` or, when the connection breaks, `Miss`. A broken connection is known to be
bad after the call that met it, and stays so. The server may finish a statement whose
client is gone (`ApplyLate`). `results[w]` counts PGresults that were not cleared.

**HttpServer.** `fds` is the kernel's table of numbers, `sock`, `owns` and `logFd`
what libevent and the logger believe they own. `ProcessRequest` is a step for
every call it makes, so that rows, files and configuration can change in between;
`named` and `held` record what they were. Changes happen only while a request is
served: at other times nothing reads what changes. Every message the server logs may
rotate the log, which closes one file and opens, or fails to open, another (`FAST_LOG`).

**UuidGenerator.** A word has `Words` values, 2^32 in the code. `Draw`, `Test` and
`Loop` are `getBoundedRandValue`, with its product, its wrapped threshold and the
division it avoids. Of an identifier and of a URI only the lengths and the places
they are cut at are kept; `uri.tag` is where `find("uid=")` stops, before the identifier,
earlier in the URI, or nowhere (`npos`).

## 3. Runs

| run | module, configuration | shows |
| --- | --- | --- |
| `pool` | `MCCThreadPool`: 2 functions, 2 producers, up to 2 workers, resize to 0, 1 and 2, both stops | safety and refinement of the pool; nothing stays queued; `stop` and the destructor return |
| `service` | `MCSongService`: 2 songs, 3 changes, 1 stop, queues and buffers of 2, database in the directory | the table follows the directory; clients get the right songs |
| `daemon` | `MCWatchDaemon`: 2 signals, 2 events a descriptor, 7 configurations, 1 edit, all failures | life and end of `watch_daemon` |
| `logger` | `MCPetLogger`: 2 threads, 4 messages, files of 2, 3 seconds | the log is complete |
| `sqlite` | `MCSQLiteWorker`: the two loops and the server, 2 calls each | the calls are atomic |
| `postgres` | `MCPostgreWorker`: 2 threads, 3 calls each, one worker | the calls are atomic up to lost answers, and return |
| `http` | `MCHttpServer`: 2 clients, 2 requests, 1 change, 3 descriptors | requests, descriptors, end of `http_daemon` |
| `uuid` | `MCUuidGenerator`: words of 7 bits, every range | unbiased characters; identifiers in URIs |
| `bad_DestructorWaits` | `MCCThreadPool`: 2 workers, resize to 0 and 1 | finding 1 |
| `bad_AnnouncedEndComes` | `MCWatchDaemon`: a signal during initialisation | finding 2 |
| `bad_FailureIsReported` | `MCWatchDaemon`: every failure | finding 3 |
| `bad_ListAnswersAnyway` | `MCSQLiteWorker`: as `sqlite` | finding 4 |

**Why the bounds are enough.** Pool: two functions and two producers let one
announcement overtake another, two workers let one sleep, or be flagged, while the
other executes; the proofs remove these bounds. Service: three changes of two
songs give delete and re-create, rename, merging next to a full queue of two, and
a stop between them. With any single fault removed from `faults`, TLC finds a
counterexample to `SettledExact` within these bounds, so each of the seven is
needed and reached. Daemon: one edit puts any two of seven configurations into one
start (both databases, an unknown one, sections and a key missing, no file); the
second signal finds the first one's end under way. Logger: four messages and two
greetings fill three files of two within one second. SQLite: two calls let the
server log a request and then read while both loops write. PostgreSQL: three calls
put a call before, into and after the break of the connection while another thread
waits for the mutex. Server: three descriptors (log, two connections) are just
enough to run out of them for a song, and to have a number given away while
libevent still means to close it; two requests let one song be on its way while
another is asked for. UUID: seven bits hold every relation of a range to the word:
above half of it, just below, a power of two, 2 and 1.

**Checks that may stop.** `CHECK_DEADLOCK FALSE` stands in runs of models where the
system really can come to a halt: a process that has ended, or a bound on changes
or calls that is used up. The pool and the SQLite model say when they are done and
are checked for deadlock.

**Fairness.** Every liveness run assumes that threads that can run do run (weak
fairness of each worker, loop, call and of the main thread), which is what the
operating system gives. `FileWatch` also assumes that a daemon that is down
comes up again: `Restart=always` in its service file. `PostgreWorker` assumes strong
fairness of taking the mutex (a thread that finds it free again and again gets it in
the end) and that a server that has a request answers it or the connection breaks,
which TCP reports sooner or later. `HttpServer` assumes strong fairness of taking a
request that has arrived, since libevent handles all active events in every round.
No user, client, signal or file ever has to do anything. `FlagEndsServer` relies on
a bounded number of requests: the flag is tested once in every round of the loop.

## 4. Findings

1. *The pool's destructor does not wait for detached workers.* `CThreadPool.h:74`
   says it waits for all functions. `resize()` to fewer threads detaches.
2. *A SIGTERM during the start is announced and forgotten.* `initBaseDaemon` ends
   with `m_canExit = false`.
3. *A failed start crashes instead of returning `CANT_INIT`.* `~baseDaemon` logs
   through a logger that may not exist; a PostgreSQL connection that failed is
   finished twice.
4. *`getSongsListAsJson` (SQLite) may return nothing at all* when its statement
   cannot be prepared, which happens while the watcher commits.

Some properties state exactly when the code does harm without a word of the
repository to the contrary. `TermEndsDaemon`: without its directory the watcher cannot
be ended, because `inotify_rm_watch` fails, its exception skips `close` and nothing
wakes the loops that the pool joins. `StartedCanWork`: with SQLite and no
`[CONTENT_TDB]`, or with a database that cannot be opened, the watcher reports that it
has started, with a worker that can only fail. `AnswersFit`: a locked or broken database
is reported to the client as a song that is not there. `LostOnlyInOverlap`: the server's two closes of a song's descriptor
(`http_server.cpp:188`, `:208`). `FoundIfFirstAndLast`: the server cuts an
identifier out with what follows it, and at the first `uid=`, which may end another
parameter's name (`/?guid=1&uid=...`). `OneInDoubt` and `ResultsAccumulate`:
what a broken PostgreSQL connection and uncleared results cost.

## 5. Proofs

Each proof module proves its properties for all values of the constants (of the
bounds, too), under nothing but the `ASSUME` of the module it is about, which says that
constants have their types and that names are different, and that the pool's
producers and the SQLite workers are finitely many. `SQLiteWorker` also assumes `SharingAssumption`: two threads of one
process that use the database file do so through one worker, as the loops do.

The properties are not inductive. `IInv` of each module adds what a step relies on, and
the proofs go by `Init => IInv`, one lemma for each part of `IInv` with one step for each
action, and `IInv => Property`. Every `IInv` was checked by TLC before it was proved.

* **Pool** (`WakeupSafe`, `StopDrains`, `IdleCounted`, `DestructorJoins`,
  `PoolImplements`, `FatesFinal`, `JoinedAreAwake`). `ShapeInv`: who executes holds a function; flags are being set only
  in a loop that sets them. `LockInv`: the mutex is held exactly in the wait predicate.
  `WakeupInv`: `NoLostWakeup` already for a worker that has *decided* to sleep. It found
  the queue empty while it held the mutex, so what was enqueued since is not announced,
  and each such function has its producer to count. `FateInv`: each function is at one
  place only, which the refinement needs for "started at most once" and `PromiseInv` for
  what a worker may have missed. `OwnerInv`: only flagged workers leave early, a worker
  not detached can be joined. `PromiseInv`: a worker that leaves unflagged saw the queue
  without the promised functions. `n_idle()` has an induction of its own, and so has
  `JoinedAreAwake`: whoever `stop` joins was told to leave before `notify_all()` took the
  mutex, and a worker inside the predicate at that time held it. `FatesFinal` reads the
  refinement step by step: what TaskPool's actions do to a function is final.
* **Service** (`SettlesExactly`, `RightAnswers`, `WatcherInside`, `LoopsWearDown`). The invariant is
  `Leads`: while nothing was at fault, the events of a file that wait in both queues and
  buffers, in the order of their changes, alternate between arrival and departure; the
  oldest fits the rows, the newest the file. Without events rows and file agree, which is
  `SettledExact`. `Overtakes` is exactly the step that would take an event out of this
  order. `OrderFits` orders the events within each descriptor, `UidsFit` keeps a new UID
  new, `FilesDiffer` that no two files hold one content, `RequestFits` carries the content
  from the lookup to the answer. `LoopsWearDown`
  ranks what waits: first the events of songs, then all events, then those not read yet.
  A statement may queue two journal events, but it has taken a song's event away.
* **Daemon** (`ToolsFound`, `ExitAsked`, `StartChecked`, `LoopsAreWoken`, `LoopsGivenOnce`,
  `PoolUsed`). `LoopsInPool`: a loop that works
  is running in the pool, and while the pool has something to do the main thread has not
  passed `joinPool`, so logger and database are there. `ToolsMade` and `PendingFit` say
  what the initialisation has made by then, `FlagFits` that the flag of a running daemon
  was set by the handler, `FileFits` what `complete` says of the file. `LoopsAreWoken` adds what a wrapper's
  destructor leaves behind (`WatchFits`) and that the main thread ends with the flag set
  (`EndFits`). `AcceptedFits` shows that no loop is given to the pool twice, so the
  guard that `TaskPool` puts on `push` holds back nothing the daemon does.
* **Logger** (`FilesComplete`, `SizesBounded`, `TruncationsBounded`). `SizeFits`: an open file that has not
  reached its limit has room for one message; a failed write only makes it look larger.
  `BurstFits`: as long as nothing else went wrong the file of this second holds messages
  of this second only, so that opening it again takes as many as fit a file.
  `Complete` asks for a way to cut the log into the files; the proof says how the cuts of
  the next state come from those of this one when a message is written or a file opened.
* **SQLite** (`LocksApart`, `QuietIsQuiet`, `WorkerImplements`, `AnswersAreHonest`,
  `TableOnlyGrows`, `ReadsAreCurrent`). `HeldInside`, `DbFits`,
  `PlaceFits`: a lock belongs to a call that holds its worker's mutex; `HandlesCounted`
  counts connections by the workers that have one, with the cardinality theorems.
  What callers may conclude is an induction over the actions of `SqlTable`, which the
  refinement carries to the worker (`CallsTold`). `LocksFit` says that nobody can commit
  while another holds a row, hence `ReadsAreCurrent`, which excepts the lookup without a
  row: what it reports may be out of date before its connection is closed.
* **PostgreSQL** (`ResultsCounting`, `DoubtsAreFew`, `WorkerImplements`, `AnswersAreHonest`,
  `TableOnlyGrows`). `CalledReady`: a
  worker that is called has a connection; `RepliesFit`: what a server may answer to what; `ResultsCounted`: one
  PGresult more than were kept exactly while somebody is about to look at it. `DoubtsAreFew` has an induction of its own:
  `CallsNumbered` knows a statement by the number of its call, `LostOnce` says that a worker
  whose connection is not known to be bad has lost no statement, and another one just one.
  The answers are told as for SQLite, but a "false" says nothing here.
* **Server** (`RepliesTrue`, `LostInOverlap`, `NoneLeftOpen`, `NoneIsForgotten`,
  `RequestsMoveOn`). `SongFits`: the one song
  that is open is that of the request; `NumbersFit`: while no number was given away that
  libevent still meant to close, every number belongs to the one who uses it; `WindowFits`
  and `AnswerFits`: what was read, and what was decided, is in the window of the request. `StepsLeft` ranks the places of
  `ProcessRequest`, for `RequestsMoveOn`.
* **Identifiers** (`ChoosesEvenly`, `FindsFirstAndLast`, and the bounds in `TypeOK`: the threshold is a word, the
  character is one of the template and never its last). `LengthFits` follows the length
  of an identifier through the request; `HighBounded` is the arithmetic. For `ChoosesEvenly`,
  `ThresholdIsRemainder` says what the wrapped threshold is, and `Reaches` and `Division`
  that the words of one index are an interval, which `EqualShares` counts: its length does
  not depend on the index.

Every module also has `TypeCorrect`.

Every invariant and every action property of a passing run is a theorem. Four theorems
are the part of a liveness property that is safety, the other part being fairness:
`JoinedAreAwake` (`OwnerReturns`), `LoopsWearDown` (`ComesToRest`), `LoopsAreWoken`
(`TermEndsDaemon`) and `RequestsMoveOn` (`RequestsAreAnswered`).

Only model-checked is liveness itself (`EveryTaskLeavesTheQueue`, `OwnerReturns`,
`UidsCatchUp`, `ComesToRest`, `TermEndsDaemon`, `CallsReturn`, `RequestsAreAnswered`,
`FlagEndsServer`), since fairness and `ENABLED` are beyond the prover.

## 6. Not modelled

* The text of log lines and replies, headers, hosts and ports.
* How boost parses the configuration, what MD5, libuuid and the random engine return,
  the installer, the demos, and vendored SQLite code, which is most of the lines under
  `src/`. SQLite's locks, inotify, libevent, libpq and the PostgreSQL server are modelled
  from how the code uses them and marked external.
* Bytes: that `uuid_unparse` writes one more than its array holds, and how events are
  packed into the buffer.
* What libevent does with a connection whose descriptor was closed behind its back,
  except that it closes the number again.
* A blocked `read()` on a descriptor number that was closed and given away.
* Recovery of a hot SQLite journal after a crash in a commit.
* SQLite and PostgreSQL workers behind `SongService`: there a statement or a lookup fails
  or not.
* What a detached worker does with a pool that has been destroyed.

## 7. Plan

Done first: pool and promise, watcher, daemon, logger, SQLite, server, with the proofs of
the pool. Done then: the PostgreSQL worker under the same promise, the two daemons
together in `SongService`, the configuration, the identifiers, and the proofs of all
models. What is left would be:

1. Lift the safety of the composition further: `HttpServer` implements the two server
   steps of `SongService`; `SqlTable` as the failing statements of `FileWatch`.
2. A table of descriptor numbers for `watch_daemon`, as `HttpServer` has one, for the
   `read()` on a number that was given away.
3. Rankings, as `LoopsWearDown` is one, for the calls of the PostgreSQL worker and for the
   functions that wait in the pool.
