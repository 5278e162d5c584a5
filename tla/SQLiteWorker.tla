---------------------------- MODULE SQLiteWorker ----------------------------
(***************************************************************************)
(* The workers of an SQLite database, TDB_SQLite_worker.cpp, in the two    *)
(* daemons that share one database file.                                   *)
(*                                                                         *)
(* A worker opens a connection for every call and closes it before it      *)
(* releases its mutex.  The two loops of watch_daemon share a worker;      *)
(* http_daemon has two, for the contents and for its log of requests, and  *)
(* one thread.  Nothing but the locks of SQLite keeps the processes apart, *)
(* and the workers set no busy timeout: who meets a lock fails at once.    *)
(***************************************************************************)
EXTENDS Integers, FiniteSets

CONSTANTS
  Clients,      \* the threads
  Workers,      \* objects of class SQLiteWorker
  CallsOf,      \* for each client, the operations it calls, on which workers
  Process,      \* for each client, its process
  MaxCalls,     \* bound: calls of each client
  CanFailToOpen,
  CanFailInSQL  \* do calls of SQLite fail also where no lock is in the way?

\* execQuery, getSongsListAsJson, getFilenameByUID
Ops == {"exec", "list", "lookup"}

Ids  == Clients \X (1..MaxCalls)
Free == "free"

ASSUME SQLiteAssumption ==
  /\ CallsOf \in [Clients -> SUBSET (Ops \X Workers) \ {{}}]
  /\ DOMAIN Process = Clients
  /\ MaxCalls \in Nat /\ CanFailToOpen \in BOOLEAN /\ CanFailInSQL \in BOOLEAN
  /\ IsFiniteSet(Workers) /\ Free \notin Clients

\* Threads of one process share one worker, the loops m_tdbworker_content.
ASSUME SharingAssumption ==
  \A c, d \in Clients :
    c # d /\ Process[c] = Process[d] =>
      \E w \in Workers : CallsOf[c] \cup CallsOf[d] \subseteq Ops \X {w}

VARIABLES
  table,        \* statements committed to the file
  made,         \* calls each client has made
  pc, op, at,   \* where a client is, its operation, the worker it calls
  result,       \* what the call is going to return
  mtx,          \* SQLiteWorker::m_mtx
  db,           \* m_db: a client's connection, or none
  lock,         \* SQLite's lock of each client's connection on the file
  handles,      \* connections allocated and not closed
  failedOpens   \* history: connections that failed to open and were allocated

vars == <<table, made, pc, op, at, result, mtx, db, lock, handles, failedOpens>>
callVars == <<made, op, at>>

Answer(kind, rows) == [kind |-> kind, rows |-> rows]
NoAnswer  == Answer("none", {})
False     == Answer("false", {})
Nothing   == Answer("nothing", {})      \* errorTDBResponce, an empty name
Undefined == Answer("undefined", {})

Init ==
  /\ table = {}
  /\ made = [c \in Clients |-> 0]
  /\ pc = [c \in Clients |-> "idle"]
  /\ op = [c \in Clients |-> "none"] /\ at = [c \in Clients |-> "none"]
  /\ result = [c \in Clients |-> NoAnswer]
  /\ mtx = [w \in Workers |-> Free]
  /\ db = [w \in Workers |-> Free]
  /\ lock = [c \in Clients |-> "none"]
  /\ handles = 0 /\ failedOpens = 0

-----------------------------------------------------------------------------
(* A call, from the mutex to the mutex.                                    *)

Goes(c, from, to) == pc[c] = from /\ pc' = [pc EXCEPT ![c] = to]

Call(c, o, w) ==
  /\ made[c] < MaxCalls /\ <<o, w>> \in CallsOf[c]
  /\ Goes(c, "idle", "lock")
  /\ made' = [made EXCEPT ![c] = @ + 1]
  /\ op' = [op EXCEPT ![c] = o] /\ at' = [at EXCEPT ![c] = w]
  /\ UNCHANGED <<table, result, mtx, db, lock, handles, failedOpens>>

\* Mutant: the workers have no mutex.
LockNot(c) ==
  /\ Goes(c, "lock", "open")
  /\ mtx' = [mtx EXCEPT ![at[c]] = c]
  /\ UNCHANGED <<table, callVars, result, db, lock, handles, failedOpens>>

\* std::lock_guard
Lock(c) ==
  /\ Goes(c, "lock", "open")
  /\ mtx[at[c]] = Free
  /\ mtx' = [mtx EXCEPT ![at[c]] = c]
  /\ UNCHANGED <<table, callVars, result, db, lock, handles, failedOpens>>

\* openConnection() succeeds.
Open(c) ==
  /\ Goes(c, "open", IF op[c] = "exec" THEN "begin" ELSE "prepare")
  /\ db' = [db EXCEPT ![at[c]] = c]
  /\ handles' = handles + 1
  /\ UNCHANGED <<table, callVars, result, mtx, lock, failedOpens>>

\* It throws, after sqlite3_open() or, without a "dbname", before it.  What
\* sqlite3_open() allocated all the same is not closed, because the wrapper
\* was never constructed.
FailToOpen(c) ==
  /\ CanFailToOpen
  /\ Goes(c, "open", "unlock")
  /\ \E allocated \in {0, 1} :
       handles' = handles + allocated /\ failedOpens' = failedOpens + allocated
  /\ result' = [result EXCEPT ![c] = IF op[c] = "exec" THEN False ELSE Nothing]
  /\ UNCHANGED <<table, callVars, mtx, db, lock>>

\* The connections whose lock stands in the way of c.
Holders(c, kinds) == {d \in Clients \ {c} : lock[d] \in kinds}

-----------------------------------------------------------------------------
(* sqlite3_exec(), one statement in a transaction of its own.              *)

\* SQLite takes one lock after the other and fails, with nothing changed,
\* when a connection of somebody else holds one that excludes it.
Climb(c, from, to, kind, obstacles) ==
  \/ /\ Holders(c, obstacles) = {}
     /\ Goes(c, from, to)
     /\ lock' = [lock EXCEPT ![c] = kind]
     /\ UNCHANGED result
  \/ /\ Holders(c, obstacles) # {}
     /\ Goes(c, from, "close")
     /\ lock' = [lock EXCEPT ![c] = "none"]
     /\ result' = [result EXCEPT ![c] = False]

ExecStep(c) ==
  /\ \/ Climb(c, "begin", "reserve", "shared", {"exclusive"})
     \/ Climb(c, "reserve", "exclude", "reserved", {"reserved", "exclusive"})
     \/ Climb(c, "exclude", "commit", "exclusive", {"shared", "reserved", "exclusive"})
  /\ UNCHANGED <<table, callVars, mtx, db, handles, failedOpens>>

\* An error of SQL, as a quote in a song's name makes one, or a full disk:
\* whatever was begun is undone.
ExecFails(c) ==
  /\ CanFailInSQL
  /\ \E from \in {"begin", "reserve", "exclude"} : Goes(c, from, "close")
  /\ lock' = [lock EXCEPT ![c] = "none"]
  /\ result' = [result EXCEPT ![c] = False]
  /\ UNCHANGED <<table, callVars, mtx, db, handles, failedOpens>>

\* Mutant: the outcome of sqlite3_exec() is taken to be bad.
CommitUntold(c) ==
  /\ Goes(c, "commit", "close")
  /\ table' = table \cup {<<c, made[c]>>}
  /\ lock' = [lock EXCEPT ![c] = "none"]
  /\ result' = [result EXCEPT ![c] = False]
  /\ UNCHANGED <<callVars, mtx, db, handles, failedOpens>>

Commit(c) ==
  /\ Goes(c, "commit", "close")
  /\ table' = table \cup {<<c, made[c]>>}
  /\ lock' = [lock EXCEPT ![c] = "none"]
  /\ result' = [result EXCEPT ![c] = Answer("true", {})]
  /\ UNCHANGED <<callVars, mtx, db, handles, failedOpens>>

-----------------------------------------------------------------------------
(* sqlite3_prepare_v2() and sqlite3_step().                                *)

\* A new connection reads the schema when it prepares its first statement,
\* so this fails while somebody commits; it fails without json_group_array or
\* with a quote in the UID, too.  getFilenameByUID then reads a column of no
\* statement, which ends in an empty name.  getSongsListAsJson falls off its
\* end: what the caller gets is undefined.
Prepare(c) ==
  /\ \/ /\ Holders(c, {"exclusive"}) = {}
        /\ Goes(c, "prepare", "step")
        /\ UNCHANGED result
     \/ /\ CanFailInSQL \/ Holders(c, {"exclusive"}) # {}
        /\ Goes(c, "prepare", "close")
        /\ result' = [result EXCEPT
                        ![c] = IF op[c] = "list" THEN Undefined ELSE Nothing]
  /\ UNCHANGED <<table, callVars, mtx, db, lock, handles, failedOpens>>

\* A row is read under a shared lock that lasts until the statement is
\* finalized.  The array of the list always is a row; a lookup may find none,
\* then the statement is done and the lock is released at once.  Without a row
\* or a statement std::string throws, and the catch answers.
Step(c) ==
  /\ Goes(c, "step", "close")
  /\ \/ /\ Holders(c, {"exclusive"}) = {}
        /\ \/ lock' = [lock EXCEPT ![c] = "shared"]
           \/ op[c] = "lookup" /\ UNCHANGED lock
        /\ result' = [result EXCEPT ![c] = Answer("rows", table)]
     \/ /\ CanFailInSQL \/ Holders(c, {"exclusive"}) # {}
        /\ result' = [result EXCEPT ![c] = Nothing]
        /\ UNCHANGED lock
  /\ UNCHANGED <<table, callVars, mtx, db, handles, failedOpens>>

-----------------------------------------------------------------------------
\* Mutant: only a connection that prepared a statement is closed.
ClosePrepared(c) ==
  /\ Goes(c, "close", "unlock")
  /\ lock' = [lock EXCEPT ![c] = "none"]
  /\ db' = [db EXCEPT ![at[c]] = Free]
  /\ handles' = IF op[c] = "exec" THEN handles ELSE handles - 1
  /\ UNCHANGED <<table, callVars, result, mtx, failedOpens>>

\* ~SQLiteConnectionWrapper: the statement is finalized, then the connection
\* is closed.
Close(c) ==
  /\ Goes(c, "close", "unlock")
  /\ lock' = [lock EXCEPT ![c] = "none"]
  /\ db' = [db EXCEPT ![at[c]] = Free]
  /\ handles' = IF db[at[c]] = Free THEN handles ELSE handles - 1
  /\ UNCHANGED <<table, callVars, result, mtx, failedOpens>>

Unlock(c) ==
  /\ Goes(c, "unlock", "idle")
  /\ mtx' = [mtx EXCEPT ![at[c]] = Free]
  /\ result' = [result EXCEPT ![c] = NoAnswer]
  /\ UNCHANGED <<table, callVars, db, lock, handles, failedOpens>>

-----------------------------------------------------------------------------
CallStep(c) ==
  \/ \E o \in Ops, w \in Workers : Call(c, o, w)
  \/ Lock(c) \/ Open(c) \/ FailToOpen(c)
  \/ ExecStep(c) \/ ExecFails(c) \/ Commit(c) \/ Prepare(c) \/ Step(c)
  \/ Close(c) \/ Unlock(c)

\* Every client has made its calls.
AllDone ==
  /\ \A c \in Clients : pc[c] = "idle" /\ made[c] = MaxCalls
  /\ UNCHANGED vars

Next == (\E c \in Clients : CallStep(c)) \/ AllDone

Spec == Init /\ [][Next]_vars

-----------------------------------------------------------------------------
(* Properties.                                                             *)

Places == {"idle", "lock", "open", "begin", "reserve", "exclude", "commit",
           "prepare", "step", "close", "unlock"}

Inside(c) == pc[c] \notin {"idle", "lock"}

AnswerType ==
  [kind : {"none", "true", "false", "rows", "nothing", "undefined"}, rows : SUBSET Ids]

DataOK ==
  /\ table \subseteq Ids /\ made \in [Clients -> 0..MaxCalls]
  /\ pc \in [Clients -> Places]
  /\ op \in [Clients -> Ops \cup {"none"}] /\ at \in [Clients -> Workers \cup {"none"}]
  /\ result \in [Clients -> AnswerType]
  /\ mtx \in [Workers -> Clients \cup {Free}]
  /\ db \in [Workers -> Clients \cup {Free}]
  /\ lock \in [Clients -> {"none", "shared", "reserved", "exclusive"}]
  /\ handles \in Nat /\ failedOpens \in Nat

\* A call is one the client makes; it is the only one inside.
CallFits(c) ==
  /\ pc[c] # "idle" => <<op[c], at[c]>> \in CallsOf[c] /\ made[c] # 0
  /\ Inside(c) => mtx[at[c]] = c

\* Types; a client inside a call holds the worker's mutex, and a worker's
\* connection belongs to the client inside.
TypeOK ==
  /\ DataOK
  /\ \A c \in Clients : CallFits(c)
  /\ \A w \in Workers : db[w] # Free => mtx[w] = db[w]

\* The threads of one process never hold locks on the file at once, so the
\* lock a statement fails at is one of the other daemon, and closing a
\* connection, which drops every POSIX lock the process has on the file, drops
\* no other connection's: the loops share a worker, whose mutex covers the whole
\* life of a connection, and the server closes one worker's connection before
\* it calls the next.
LocksOfOneAtATime ==
  \A c, d \in Clients :
    Process[c] = Process[d] /\ lock[c] # "none" /\ lock[d] # "none" => c = d

\* When no call is in progress the workers hold no lock and no connection
\* but those that sqlite3_open() allocated and failed to open.
QuietHoldsNothing ==
  (\A c \in Clients : ~Inside(c)) =>
    /\ handles = failedOpens
    /\ \A c \in Clients : lock[c] = "none"
    /\ \A w \in Workers : db[w] = Free

\* A read that fails is answered with errorTDBResponce (TDB_iworkers.h).
ListAnswersAnyway == \A c \in Clients : result[c] # Undefined

\* The callers may rely on SqlTable, where the undefined answer of a failed
\* read, which ListAnswersAnyway is about, counts as no rows.
phase ==
  [c \in Clients |->
     CASE pc[c] = "idle" -> "idle"
       [] pc[c] \in {"close", "unlock"} -> "answered"
       [] OTHER -> IF op[c] = "exec" THEN "statement" ELSE "query"]
answer == [c \in Clients |-> IF result[c] = Undefined THEN Nothing ELSE result[c]]

ST == INSTANCE SqlTable WITH CanLoseAnswers <- FALSE, inDoubt <- {}
ImplementsSqlTable == ST!Spec

=============================================================================
