---------------------------- MODULE CThreadPool -----------------------------
(***************************************************************************)
(* base_daemon/include/CThreadPool.h: the thread pool both daemons inherit *)
(* from baseDaemon.                                                        *)
(*                                                                         *)
(* Three kinds of threads interleave: the owner, which constructs,         *)
(* resizes, clears, stops and destroys the pool (one operation at a time,  *)
(* as the comment on resize() demands), producers that call push() and     *)
(* pop(), and the workers of the pool.  A step is what a thread does       *)
(* between two points at which another thread can see the difference: an   *)
(* operation of the queue (CQueuePool locks its own mutex around each),    *)
(* an access of an atomic flag, a critical section of the pool's mutex.    *)
(*                                                                         *)
(* Workers are numbered in the order in which they are created; a thread   *)
(* that ends is never reused.  std::vector threads holds them in creation  *)
(* order, so it is modelled as a set of numbers.                           *)
(***************************************************************************)
EXTENDS Integers, Sequences, FiniteSets, Functions

CONSTANTS
  Tasks,        \* the functions ever pushed, each of them once
  NoTask,       \* no function at hand
  Producers,    \* the threads that call push() and pop()
  MaxThreads,   \* bound: how many workers are ever created
  InitThreads,  \* argument of the constructor
  ResizeTo,     \* the arguments with which resize() is called
  WaitModes     \* the arguments with which stop() is called

ASSUME PoolAssumption ==
  /\ NoTask \notin Tasks
  /\ IsFiniteSet(Producers)
  /\ MaxThreads \in Nat
  /\ InitThreads \in 0..MaxThreads
  /\ ResizeTo \subseteq Nat
  /\ WaitModes \subseteq BOOLEAN

Workers == 1..MaxThreads
Free == 0                     \* nobody holds the pool's mutex

VARIABLES
  q,            \* the queue of functions
  isDone, isStop,
  nWaiting,
  mutex,        \* the worker inside the pool's critical section, or Free
  threads,      \* workers in the vector, joinable
  detached,     \* workers resize() has detached
  born,         \* how many workers were created
  flag,         \* the shared flag of each worker
  toFlag,       \* workers the owner is about to flag
  pc, task,     \* where each worker is, the function it holds
  notifying,    \* for each producer, the function it has enqueued and not
                \* yet announced on the condition variable
  opc,          \* where the owner is
  destructing,  \* the owner is in the destructor
  done, dropped, taken,   \* functions executed, deleted, handed to a client
  promised      \* history: what was in the queue when isDone was set, without
                \* the functions whose push() had not returned

ownerVars == <<opc, toFlag, destructing, threads, detached, born, promised>>
fateVars  == <<done, dropped, taken>>
vars == <<q, isDone, isStop, nWaiting, mutex, threads, detached, born, flag,
          toFlag, pc, task, notifying, opc, destructing, done, dropped, taken, promised>>

Queued  == Range(q)
Running == {task[w] : w \in {v \in Workers : pc[v] = "run"}}
Fresh   == Tasks \ (Queued \cup Running \cup done \cup dropped \cup taken)
At(label) == {w \in Workers : pc[w] \in label}

TypeOK ==
  /\ q \in Seq(Tasks)
  /\ isDone \in BOOLEAN /\ isStop \in BOOLEAN /\ destructing \in BOOLEAN
  /\ nWaiting \in Int
  /\ mutex \in Workers \cup {Free}
  /\ born \in 0..MaxThreads
  /\ threads \subseteq 1..born /\ detached \subseteq 1..born
  /\ flag \in [Workers -> BOOLEAN] /\ toFlag \subseteq threads
  /\ pc \in [Workers -> {"none", "pop", "run", "check", "lock", "pred",
                         "predExit", "asleep", "woken", "exit"}]
  /\ task \in [Workers -> Tasks \cup {NoTask}]
  /\ notifying \in [Producers -> Tasks \cup {NoTask}]
  /\ opc \in {"idle", "shrink", "clear", "flag", "drop", "notify", "join",
              "sweep", "destroyed"}
  /\ done \subseteq Tasks /\ dropped \subseteq Tasks
  /\ taken \subseteq Tasks
  /\ promised \subseteq Tasks

Init ==
  /\ q = <<>>
  /\ isDone = FALSE /\ isStop = FALSE /\ destructing = FALSE
  /\ nWaiting = 0
  /\ mutex = Free
  /\ born = InitThreads
  /\ threads = 1..InitThreads /\ detached = {}
  /\ flag = [w \in Workers |-> FALSE] /\ toFlag = {}
  /\ pc = [w \in Workers |-> IF w <= InitThreads THEN "pop" ELSE "none"]
  /\ task = [w \in Workers |-> NoTask]
  /\ notifying = [p \in Producers |-> NoTask]
  /\ opc = "idle"
  /\ done = {} /\ dropped = {} /\ taken = {}
  /\ promised = {}

-----------------------------------------------------------------------------
(* Producers.  Calling a method of an object whose destructor has begun is *)
(* an error of the caller, so they stop there.                             *)

\* push(): the function enters the queue before the pool's mutex is taken.
PushEnqueue(p, t) ==
  /\ ~destructing
  /\ notifying[p] = NoTask
  /\ t \in Fresh
  /\ q' = Append(q, t)
  /\ notifying' = [notifying EXCEPT ![p] = t]
  /\ UNCHANGED <<isDone, isStop, nWaiting, mutex, flag, pc, task>>
  /\ UNCHANGED <<ownerVars, fateVars>>

\* Mutant: push() forgets cv.notify_one().
PushNotifyNobody(p) ==
  /\ notifying[p] # NoTask
  /\ mutex = Free
  /\ notifying' = [notifying EXCEPT ![p] = NoTask]
  /\ UNCHANGED <<q, isDone, isStop, nWaiting, mutex, flag, pc, task>>
  /\ UNCHANGED <<ownerVars, fateVars>>

\* push(), rest: lock, notify_one (which of the sleepers is not specified).
PushNotify(p) ==
  /\ notifying[p] # NoTask
  /\ mutex = Free
  /\ \/ At({"asleep"}) = {} /\ UNCHANGED pc
     \/ \E w \in At({"asleep"}) : pc' = [pc EXCEPT ![w] = "woken"]
  /\ notifying' = [notifying EXCEPT ![p] = NoTask]
  /\ UNCHANGED <<q, isDone, isStop, nWaiting, mutex, flag, task>>
  /\ UNCHANGED <<ownerVars, fateVars>>

\* pop(): a client takes the oldest function out of the queue for itself.
ClientPop ==
  /\ ~destructing
  /\ q # <<>>
  /\ q' = Tail(q)
  /\ taken' = taken \cup {Head(q)}
  /\ UNCHANGED <<isDone, isStop, nWaiting, mutex, flag, pc, task, notifying>>
  /\ UNCHANGED <<ownerVars, done, dropped>>

-----------------------------------------------------------------------------
(* Workers: the function set_thread() gives to each thread.  After the     *)
(* pool is destroyed whatever touches its queue, mutex or condition        *)
(* variable is undefined and is not continued; reading the flag is fine,   *)
(* the thread shares its ownership.                                        *)

PoolAlive == opc # "destroyed"

Goto(w, from, to) == pc[w] = from /\ pc' = [pc EXCEPT ![w] = to]

\* Mutant: the newest function is taken.
TakeLast(w) ==
  /\ q' = SubSeq(q, 1, Len(q) - 1)
  /\ task' = [task EXCEPT ![w] = q[Len(q)]]

TakeHead(w) ==
  /\ q' = Tail(q)
  /\ task' = [task EXCEPT ![w] = Head(q)]

\* q.pop() before the waiting loop and after each function.
WorkerPop(w) ==
  /\ PoolAlive
  /\ \/ q # <<>> /\ TakeHead(w) /\ Goto(w, "pop", "run")
     \/ q = <<>> /\ Goto(w, "pop", "lock") /\ UNCHANGED <<q, task>>
  /\ UNCHANGED <<isDone, isStop, nWaiting, mutex, flag, notifying>>
  /\ UNCHANGED <<ownerVars, fateVars>>

\* (*_f)(i) returns; an exception of the function ends up in its future.
WorkerRun(w) ==
  /\ Goto(w, "run", "check")
  /\ done' = done \cup {task[w]}
  /\ task' = [task EXCEPT ![w] = NoTask]
  /\ UNCHANGED <<q, isDone, isStop, nWaiting, mutex, flag, notifying>>
  /\ UNCHANGED <<ownerVars, dropped, taken>>

\* A flagged worker leaves even if the queue is not empty.
WorkerCheckFlag(w) ==
  /\ \/ flag[w] /\ Goto(w, "check", "exit")
     \/ ~flag[w] /\ Goto(w, "check", "pop")
  /\ UNCHANGED <<q, isDone, isStop, nWaiting, mutex, flag, task, notifying>>
  /\ UNCHANGED <<ownerVars, fateVars>>

\* Mutant: cv.wait() without a predicate goes to sleep unconditionally.
WorkerSleepUnchecked(w) ==
  /\ PoolAlive
  /\ mutex = Free
  /\ Goto(w, "lock", "asleep")
  /\ nWaiting' = nWaiting + 1
  /\ UNCHANGED <<q, isDone, isStop, mutex, flag, task, notifying>>
  /\ UNCHANGED <<ownerVars, fateVars>>

\* lock, ++nWaiting, and into cv.wait().
WorkerEnterWait(w) ==
  /\ PoolAlive
  /\ mutex = Free
  /\ Goto(w, "lock", "pred")
  /\ mutex' = w
  /\ nWaiting' = nWaiting + 1
  /\ UNCHANGED <<q, isDone, isStop, flag, task, notifying>>
  /\ UNCHANGED <<ownerVars, fateVars>>

\* A sleeper that was notified gets the mutex back.
WorkerReacquire(w) ==
  /\ PoolAlive
  /\ mutex = Free
  /\ Goto(w, "woken", "pred")
  /\ mutex' = w
  /\ UNCHANGED <<q, isDone, isStop, nWaiting, flag, task, notifying>>
  /\ UNCHANGED <<ownerVars, fateVars>>

\* Mutant: the predicate looks at isDone before it looks at the queue.
WorkerPredDoneFirst(w) ==
  /\ PoolAlive
  /\ \/ /\ q # <<>> /\ ~isDone
        /\ TakeHead(w)
        /\ Goto(w, "pred", "run")
        /\ mutex' = Free
        /\ nWaiting' = nWaiting - 1
     \/ /\ q = <<>> \/ isDone
        /\ Goto(w, "pred", "predExit")
        /\ UNCHANGED <<q, task, mutex, nWaiting>>
  /\ UNCHANGED <<isDone, isStop, flag, notifying>>
  /\ UNCHANGED <<ownerVars, fateVars>>

\* The wait predicate first tries q.pop(): with a function in hand the wait
\* is over, otherwise the flags decide.
WorkerPredPop(w) ==
  /\ PoolAlive
  /\ \/ /\ q # <<>>
        /\ TakeHead(w)
        /\ Goto(w, "pred", "run")
        /\ mutex' = Free
        /\ nWaiting' = nWaiting - 1
     \/ /\ q = <<>>
        /\ Goto(w, "pred", "predExit")
        /\ UNCHANGED <<q, task, mutex, nWaiting>>
  /\ UNCHANGED <<isDone, isStop, flag, notifying>>
  /\ UNCHANGED <<ownerVars, fateVars>>

\* Mutant: the early return skips --nWaiting.
WorkerPredExitUncounted(w) ==
  /\ PoolAlive
  /\ \/ (isDone \/ flag[w]) /\ Goto(w, "predExit", "exit")
     \/ ~isDone /\ ~flag[w] /\ Goto(w, "predExit", "asleep")
  /\ mutex' = Free
  /\ UNCHANGED <<q, isDone, isStop, nWaiting, flag, task, notifying>>
  /\ UNCHANGED <<ownerVars, fateVars>>

\* return isPop || isDone || _flag with isPop false: leave or sleep.  The
\* queue is not looked at again.
WorkerPredExit(w) ==
  /\ PoolAlive
  /\ \/ /\ isDone \/ flag[w]
        /\ Goto(w, "predExit", "exit")
        /\ nWaiting' = nWaiting - 1
     \/ /\ ~isDone /\ ~flag[w]
        /\ Goto(w, "predExit", "asleep")
        /\ UNCHANGED nWaiting
  /\ mutex' = Free
  /\ UNCHANGED <<q, isDone, isStop, flag, task, notifying>>
  /\ UNCHANGED <<ownerVars, fateVars>>

\* std::condition_variable may wake a sleeper that nobody notified.
SpuriousWakeup(w) ==
  /\ PoolAlive
  /\ Goto(w, "asleep", "woken")
  /\ UNCHANGED <<q, isDone, isStop, nWaiting, mutex, flag, task, notifying>>
  /\ UNCHANGED <<ownerVars, fateVars>>

-----------------------------------------------------------------------------
(* The owner.                                                              *)

OwnerGoes(from, to) ==
  /\ opc = from /\ opc' = to
  /\ UNCHANGED <<q, isDone, isStop, nWaiting, mutex, flag, pc, task, notifying>>
  /\ UNCHANGED <<toFlag, destructing, threads, detached, born, promised, fateVars>>

NotifyAll ==
  /\ mutex = Free
  /\ pc' = [w \in Workers |-> IF pc[w] = "asleep" THEN "woken" ELSE pc[w]]

\* resize(n), more threads.  A new thread shares nothing with the creation
\* of the next one, so the loop is one step.
ResizeGrow(n) ==
  /\ opc = "idle" /\ ~isStop /\ ~isDone
  /\ Cardinality(threads) <= n
  /\ LET more  == n - Cardinality(threads)
         fresh == (born + 1)..(born + more)
     IN  /\ born + more <= MaxThreads
         /\ born' = born + more
         /\ threads' = threads \cup fresh
         /\ flag' = [w \in Workers |-> IF w \in fresh THEN FALSE ELSE flag[w]]
         /\ pc' = [w \in Workers |-> IF w \in fresh THEN "pop" ELSE pc[w]]
  /\ UNCHANGED <<q, isDone, isStop, nWaiting, mutex, task, notifying>>
  /\ UNCHANGED <<opc, toFlag, destructing, detached, promised, fateVars>>

\* resize(n), fewer threads: all but the n oldest have to go.
ResizeShrink(n) ==
  /\ opc = "idle" /\ ~isStop /\ ~isDone
  /\ n < Cardinality(threads)
  /\ toFlag' = {w \in threads : Cardinality({v \in threads : v < w}) >= n}
  /\ opc' = "shrink"
  /\ UNCHANGED <<q, isDone, isStop, nWaiting, mutex, flag, pc, task, notifying>>
  /\ UNCHANGED <<destructing, threads, detached, born, promised, fateVars>>

\* One turn of its loop: the youngest is flagged and detached.
DetachOne(w) ==
  /\ opc = "shrink"
  /\ w \in toFlag /\ \A v \in toFlag : v <= w
  /\ flag' = [flag EXCEPT ![w] = TRUE]
  /\ toFlag' = toFlag \ {w}
  /\ detached' = detached \cup {w}
  /\ UNCHANGED <<q, isDone, isStop, nWaiting, mutex, pc, task, notifying>>
  /\ UNCHANGED <<opc, destructing, threads, born, promised, fateVars>>

\* resize(n), rest: wake the sleepers, shorten the vectors.
ResizeNotify ==
  /\ opc = "shrink" /\ toFlag = {}
  /\ NotifyAll
  /\ threads' = threads \ detached
  /\ opc' = "idle"
  /\ UNCHANGED <<q, isDone, isStop, nWaiting, mutex, flag, task, notifying>>
  /\ UNCHANGED <<toFlag, destructing, detached, born, promised, fateVars>>

\* clear_queue() pops and deletes until a pop finds the queue empty.
ClearOne ==
  /\ opc \in {"clear", "drop", "sweep"}
  /\ q # <<>>
  /\ q' = Tail(q)
  /\ dropped' = dropped \cup {Head(q)}
  /\ UNCHANGED <<isDone, isStop, nWaiting, mutex, flag, pc, task, notifying>>
  /\ UNCHANGED <<ownerVars, done, taken>>

ClearQueue == OwnerGoes("idle", "clear")

ClearDone == q = <<>> /\ OwnerGoes("clear", "idle")

\* Mutant: stop() also reaches for the workers resize() has detached.
StopNowAllBorn ==
  /\ opc = "idle" /\ FALSE \in WaitModes
  /\ ~isStop
  /\ isStop' = TRUE
  /\ toFlag' = threads \cup detached
  /\ opc' = "flag"
  /\ UNCHANGED <<q, isDone, nWaiting, mutex, flag, pc, task, notifying>>
  /\ UNCHANGED <<destructing, threads, detached, born, promised, fateVars>>

\* stop(false); a second call returns at once.
StopNow ==
  /\ opc = "idle" /\ FALSE \in WaitModes
  /\ ~isStop
  /\ isStop' = TRUE
  /\ toFlag' = threads
  /\ opc' = "flag"
  /\ UNCHANGED <<q, isDone, nWaiting, mutex, flag, pc, task, notifying>>
  /\ UNCHANGED <<destructing, threads, detached, born, promised, fateVars>>

\* One turn of its loop, oldest worker first; then clear_queue() begins.
FlagOne(w) ==
  /\ opc = "flag"
  /\ w \in toFlag /\ \A v \in toFlag : w <= v
  /\ flag' = [flag EXCEPT ![w] = TRUE]
  /\ toFlag' = toFlag \ {w}
  /\ UNCHANGED <<q, isDone, isStop, nWaiting, mutex, pc, task, notifying>>
  /\ UNCHANGED <<opc, destructing, threads, detached, born, promised, fateVars>>

FlagDone == toFlag = {} /\ OwnerGoes("flag", "drop")

DropDone == q = <<>> /\ OwnerGoes("drop", "notify")

\* isDone = true: workers may leave once the queue is empty.
SetDone ==
  /\ isDone' = TRUE
  /\ promised' = Queued \ Range(notifying)
  /\ opc' = "notify"

\* stop(true); it returns at once if the pool was already stopped.
StopWait ==
  /\ opc = "idle" /\ TRUE \in WaitModes
  /\ ~isDone /\ ~isStop
  /\ SetDone
  /\ UNCHANGED <<q, isStop, nWaiting, mutex, flag, pc, task, notifying>>
  /\ UNCHANGED <<toFlag, destructing, threads, detached, born, fateVars>>

\* ~CThreadPool() is stop(true).  No push() may be in progress.
Destruct ==
  /\ opc = "idle"
  /\ Range(notifying) \subseteq {NoTask}
  /\ destructing' = TRUE
  /\ \/ ~isDone /\ ~isStop /\ SetDone
     \/ (isDone \/ isStop) /\ opc' = "destroyed" /\ UNCHANGED <<isDone, promised>>
  /\ UNCHANGED <<q, isStop, nWaiting, mutex, flag, pc, task, notifying>>
  /\ UNCHANGED <<toFlag, threads, detached, born, fateVars>>

\* Mutant: stop() joins without waking the sleepers.
StopNotifyNobody ==
  /\ opc = "notify"
  /\ mutex = Free
  /\ opc' = "join"
  /\ UNCHANGED <<q, isDone, isStop, nWaiting, mutex, flag, pc, task, notifying>>
  /\ UNCHANGED <<toFlag, destructing, threads, detached, born, promised, fateVars>>

StopNotify ==
  /\ opc = "notify"
  /\ NotifyAll
  /\ opc' = "join"
  /\ UNCHANGED <<q, isDone, isStop, nWaiting, mutex, flag, task, notifying>>
  /\ UNCHANGED <<toFlag, destructing, threads, detached, born, promised, fateVars>>

\* Mutant: stop() does not join its workers.
StopSkipJoin == OwnerGoes("join", "sweep")

StopJoin == threads \subseteq At({"exit"}) /\ OwnerGoes("join", "sweep")

\* The second clear_queue() has found the queue empty; the vectors go.
StopFinish ==
  /\ opc = "sweep" /\ q = <<>>
  /\ threads' = {}
  /\ opc' = IF destructing THEN "destroyed" ELSE "idle"
  /\ UNCHANGED <<q, isDone, isStop, nWaiting, mutex, flag, pc, task, notifying>>
  /\ UNCHANGED <<toFlag, destructing, detached, born, promised, fateVars>>

\* The pool is gone and so are its workers: nothing is left to happen.
Terminated == opc = "destroyed" /\ UNCHANGED vars

-----------------------------------------------------------------------------
ProducerStep ==
  \/ \E p \in Producers : \/ \E t \in Tasks : PushEnqueue(p, t)
                          \/ PushNotify(p)
  \/ ClientPop

WorkerStep(w) ==
  \/ WorkerPop(w) \/ WorkerRun(w) \/ WorkerCheckFlag(w)
  \/ WorkerEnterWait(w) \/ WorkerReacquire(w)
  \/ WorkerPredPop(w) \/ WorkerPredExit(w)

OwnerStep ==
  \/ \E n \in ResizeTo : ResizeGrow(n) \/ ResizeShrink(n)
  \/ \E w \in Workers : DetachOne(w) \/ FlagOne(w)
  \/ ResizeNotify \/ FlagDone
  \/ ClearQueue \/ ClearOne \/ ClearDone
  \/ StopNow \/ DropDone \/ StopWait \/ Destruct
  \/ StopNotify \/ StopJoin \/ StopFinish

Next ==
  \/ ProducerStep
  \/ \E w \in Workers : WorkerStep(w) \/ SpuriousWakeup(w)
  \/ OwnerStep
  \/ Terminated

Spec == Init /\ [][Next]_vars

\* A thread that can run does run: the operating system schedules every
\* thread, functions handed to the pool return, and an operation the owner
\* or a producer has begun is carried on.  Nothing obliges anyone to begin
\* an operation, and spurious wakeups never have to happen.
Fairness ==
  /\ \A w \in Workers : WF_vars(WorkerStep(w))
  /\ \A p \in Producers : WF_vars(PushNotify(p))
  /\ WF_vars((\E w \in Workers : DetachOne(w) \/ FlagOne(w))
               \/ ResizeNotify \/ FlagDone \/ ClearOne \/ ClearDone \/ DropDone
               \/ StopNotify \/ StopJoin \/ StopFinish)

FairSpec == Spec /\ Fairness

-----------------------------------------------------------------------------
(* Properties.                                                             *)

\* push() enqueues outside the pool's mutex, the waiting worker looks at the
\* queue inside it.  While a worker sleeps, every function in the queue has
\* someone on its way to it: a worker that is about to pop, or a producer
\* that is about to wake one.  Otherwise a function could sit in the queue
\* with all workers asleep.
Popping == At({"pop", "lock", "woken", "pred"})
Announcing == {p \in Producers : notifying[p] # NoTask}

NoLostWakeup ==
  At({"asleep"}) # {} => Len(q) <= Cardinality(Popping) + Cardinality(Announcing)

\* stop(true) of a pool that still has workers, and that no stop(false) has
\* cut short, leaves no function unexecuted whose push() had returned before
\* the call: when the workers are joined none of them is in the queue, which
\* is then cleared.
DrainedBeforeSweep ==
  opc = "sweep" /\ threads # {} /\ ~isStop => promised \cap Queued = {}

\* n_idle() counts exactly the workers inside cv.wait().
NIdleExact ==
  nWaiting = Cardinality(At({"pred", "predExit", "asleep", "woken"}))

\* Of the workers only those that resize() has detached are left when the
\* pool is destroyed: the destructor has joined all the others.  What becomes
\* of a detached worker that comes back to a queue and a mutex that are no more
\* is outside this module, which lets it go on with them.
OnlyDetachedOutlive ==
  opc = "destroyed" =>
    \A w \in Workers \ detached : pc[w] \in {"none", "exit"}

\* "The destructor waits until all functions of the pool have been executed"
\* (CThreadPool.h, comment on ~CThreadPool).
DestructorWaits == opc = "destroyed" => At({"run"}) = {}

\* A function that is in the queue of a pool nobody has stopped yet does not
\* stay there: it is started, taken back, or discarded by a later stop.  That
\* holds only as long as resize() does not detach a worker: the announcement
\* of a push() may wake the one that was just told to leave.
EveryTaskLeavesTheQueue ==
  \A t \in Tasks :
    t \in Queued /\ ~isDone /\ ~isStop ~> t \notin Queued \/ toFlag \cup detached # {}

\* stop(), clear_queue() and the destructor come to an end; in particular they
\* find every worker they join leaving.  (A resize() that detaches may have to
\* wait for the mutex for as long as workers wake up spuriously.)
OwnerReturns == opc \notin {"idle", "shrink"} ~> opc \in {"idle", "destroyed"}

\* The pool keeps the promise of TaskPool.
TP == INSTANCE TaskPool
        WITH pending <- q, running <- Running, finished <- done,
             discarded <- dropped, withdrawn <- taken,
             discarding <- opc \in {"clear", "drop", "sweep"}
ImplementsTaskPool == TP!Spec

-----------------------------------------------------------------------------
(* Why the properties hold: what every step preserves.  The theorems are   *)
(* in CThreadPoolProofs.                                                   *)

\* A worker executes a function, and loops over flags have come to an end
\* when the owner moves on.  Numbers of workers are given out in order.
ShapeInv ==
  /\ \A w \in Workers : /\ pc[w] = "run" => task[w] \in Tasks
                        /\ w > born => pc[w] = "none"
  /\ toFlag # {} => opc \in {"shrink", "flag"}

\* The mutex is held exactly while the wait predicate is evaluated.
LockInv == \A w \in Workers : pc[w] \in {"pred", "predExit"} <=> mutex = w

\* NoLostWakeup holds already when a worker decides to sleep: it found the
\* queue empty, and as it holds the mutex, whatever was enqueued since then
\* is not yet announced.
WakeupInv ==
  At({"predExit", "asleep"}) # {} =>
    Len(q) <= Cardinality(Popping) + Cardinality(Announcing)

\* Where a function is: at one place only.
FateInv ==
  /\ \A i, j \in DOMAIN q : q[i] = q[j] => i = j
  /\ \A v, w \in At({"run"}) : task[v] = task[w] => v = w
  /\ Queued \cap Running = {}
  /\ (Queued \cup Running) \cap (done \cup dropped \cup taken) = {}

\* Only flagged workers leave early, a worker that was not detached can be
\* joined, and once the pool is stopped stop() has joined the workers or is
\* still at it.
OwnerInv ==
  /\ \A w \in threads :
       flag[w] => isStop \/ (opc = "shrink" /\ w \in detached)
  /\ \A w \in Workers : pc[w] \notin {"none", "exit"} => w \in threads \cup detached
  /\ opc \in {"flag", "drop"} => isStop
  /\ opc = "shrink" => ~isDone /\ ~isStop
  /\ opc \in {"sweep", "destroyed"} => threads \subseteq At({"exit"})
  /\ isDone \/ isStop =>
       threads = {} \/ opc \in {"flag", "drop", "notify", "join", "sweep"}

\* A worker that leaves without having been flagged saw the queue without
\* the functions promised to stop(true).
PromiseInv ==
  /\ promised \cap Fresh = {}
  /\ At({"predExit"}) # {} => Queued \subseteq Range(notifying)
  /\ isDone /\ At({"predExit"}) # {} => promised \cap Queued = {}
  /\ \A w \in Workers :
       pc[w] = "exit" /\ ~flag[w] => isDone /\ promised \cap Queued = {}

=============================================================================
