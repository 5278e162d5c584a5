--------------------------- MODULE PostgreWorker ----------------------------
(***************************************************************************)
(* The workers of a PostgreSQL database, TDB_postgre_worker.cpp.           *)
(*                                                                         *)
(* A worker makes one connection when it is initialised and keeps it.      *)
(* Each call sends a text to the server and waits for the result, under    *)
(* the worker's mutex; the result goes through the member m_res.  The      *)
(* connection may break at any moment, also between what the server does   *)
(* and what the caller hears of it, and is never made again.               *)
(***************************************************************************)
EXTENDS Integers

CONSTANTS
  Clients,      \* the threads
  Workers,      \* objects of class postgreWorker
  CallsOf,      \* for each client, the operations it calls, on which workers
  MaxCalls      \* bound: calls of each client

Ops == {"exec", "list", "lookup"}

Ids  == Clients \X (1..MaxCalls)
Free == "free"

ASSUME PostgreAssumption ==
  /\ CallsOf \in [Clients -> SUBSET (Ops \X Workers)]
  /\ MaxCalls \in Nat
  /\ Free \notin Clients

VARIABLES
  table,        \* statements the server has committed
  inDoubt,      \* statements of broken connections the server still works on
  made,         \* calls each client has made
  pc, op, at,   \* where a client is, its operation, the worker it calls
  reply,        \* what the server has answered to a client's request
  result,       \* what the call is going to return
  mtx,          \* postgreWorker::m_mtx
  life,         \* of each worker
  conn,         \* m_conn and its connection
  res,          \* m_res
  results,      \* PGresults of each worker that were not cleared
  kept,         \* history: calls that left their PGresult behind
  denied        \* history: statements answered "false"

vars == <<table, inDoubt, made, pc, op, at, reply, result, mtx, life, conn, res,
          results, kept, denied>>
serverVars == <<table, inDoubt>>
callVars   == <<made, op, at>>
workerVars == <<mtx, life, conn>>
resultVars == <<res, results, kept>>

Answer(kind, rows) == [kind |-> kind, rows |-> rows]
NoAnswer == Answer("none", {})
True     == Answer("true", {})
False    == Answer("false", {})
Rows     == Answer("rows", table)
Nothing  == Answer("nothing", {})       \* errorTDBResponce, an empty name
Bad      == Answer("bad", {})           \* PGRES_FATAL_ERROR
NoResult == Answer("null", {})          \* PQexec() returned no PGresult

Init ==
  /\ table = {} /\ inDoubt = {}
  /\ made = [c \in Clients |-> 0]
  /\ pc = [c \in Clients |-> "idle"]
  /\ op = [c \in Clients |-> "none"] /\ at = [c \in Clients |-> "none"]
  /\ reply = [c \in Clients |-> NoAnswer] /\ result = [c \in Clients |-> NoAnswer]
  /\ mtx = [w \in Workers |-> Free]
  /\ life = [w \in Workers |-> "new"] /\ conn = [w \in Workers |-> "null"]
  /\ res = [w \in Workers |-> NoResult]
  /\ results = [w \in Workers |-> 0] /\ kept = [w \in Workers |-> 0]
  /\ denied = {}

-----------------------------------------------------------------------------
(* The life of a worker.                                                   *)

\* initWorker(): connected; not connected, which finishes the connection and
\* keeps the pointer; or parameters that are missing.
InitWorker(w) ==
  /\ life[w] = "new"
  /\ \/ life' = [life EXCEPT ![w] = "ready"] /\ conn' = [conn EXCEPT ![w] = "up"]
     \/ life' = [life EXCEPT ![w] = "failed"] /\ conn' = [conn EXCEPT ![w] = "finished"]
     \/ life' = [life EXCEPT ![w] = "failed"] /\ UNCHANGED conn
  /\ UNCHANGED <<serverVars, callVars, pc, reply, result, mtx, resultVars, denied>>

\* ~postgreWorker, exitNicely(): whatever m_conn points to is finished.  The
\* daemons destroy a worker when nobody calls it any more.
Destroy(w) ==
  /\ life[w] \in {"ready", "failed"}
  /\ \A c \in Clients : pc[c] # "idle" => at[c] # w
  /\ life' = [life EXCEPT ![w] = "destroyed"]
  /\ conn' = [conn EXCEPT ![w] = CASE @ = "null" -> "null"
                                   [] @ = "finished" -> "finishedTwice"
                                   [] OTHER -> "finished"]
  /\ UNCHANGED <<serverVars, callVars, pc, reply, result, mtx, resultVars, denied>>

-----------------------------------------------------------------------------
(* A call, from the mutex to the mutex.                                    *)

Goes(c, from, to) == pc[c] = from /\ pc' = [pc EXCEPT ![c] = to]

\* The daemons call a worker whose initWorker() returned true.
Call(c, o, w) ==
  /\ made[c] < MaxCalls /\ <<o, w>> \in CallsOf[c] /\ life[w] = "ready"
  /\ Goes(c, "idle", "lock")
  /\ made' = [made EXCEPT ![c] = @ + 1]
  /\ op' = [op EXCEPT ![c] = o] /\ at' = [at EXCEPT ![c] = w]
  /\ UNCHANGED <<serverVars, reply, result, workerVars, resultVars, denied>>

\* Mutant: the workers have no mutex.
LockNot(c) ==
  /\ Goes(c, "lock", "send")
  /\ mtx' = [mtx EXCEPT ![at[c]] = c]
  /\ UNCHANGED <<serverVars, callVars, reply, result, life, conn, resultVars, denied>>

\* std::lock_guard
Lock(c) ==
  /\ Goes(c, "lock", "send")
  /\ mtx[at[c]] = Free
  /\ mtx' = [mtx EXCEPT ![at[c]] = c]
  /\ UNCHANGED <<serverVars, callVars, reply, result, life, conn, resultVars, denied>>

\* PQexec() sends the text, into the void if the connection has broken since
\* it was used last; on a connection known to be bad it returns no PGresult.
Send(c) ==
  /\ \/ Goes(c, "send", "sent") /\ conn[at[c]] = "up" /\ UNCHANGED res
     \/ Goes(c, "send", "unsent") /\ conn[at[c]] = "broken" /\ UNCHANGED res
     \/ /\ Goes(c, "send", "check") /\ conn[at[c]] \notin {"up", "broken"}
        /\ res' = [res EXCEPT ![at[c]] = NoResult]
  /\ UNCHANGED <<serverVars, callVars, reply, result, workerVars, results, kept, denied>>

\* PQexec() returns what the server has answered ...
Receive(c) ==
  /\ Goes(c, "served", "check")
  /\ conn[at[c]] # "bad"
  /\ reply' = [reply EXCEPT ![c] = NoAnswer]
  /\ res' = [res EXCEPT ![at[c]] = reply[c]]
  /\ results' = [results EXCEPT ![at[c]] = @ + 1]
  /\ UNCHANGED <<serverVars, callVars, result, workerVars, kept, denied>>

\* Mutant: a lost answer is taken for a good one.
MissNothing(c) ==
  /\ pc[c] \in {"sent", "unsent", "served"} /\ conn[at[c]] \in {"broken", "bad"}
  /\ pc' = [pc EXCEPT ![c] = "check"]
  /\ \/ UNCHANGED inDoubt
     \/ pc[c] = "sent" /\ op[c] = "exec" /\ inDoubt' = inDoubt \cup {<<c, made[c]>>}
  /\ conn' = [conn EXCEPT ![at[c]] = "bad"]
  /\ reply' = [reply EXCEPT ![c] = NoAnswer]
  /\ res' = [res EXCEPT ![at[c]] = IF op[c] = "exec" THEN True ELSE Bad]
  /\ results' = [results EXCEPT ![at[c]] = @ + 1]
  /\ UNCHANGED <<table, callVars, result, mtx, life, kept, denied>>

\* ... or an error, when the connection breaks before the answer is here.  A
\* server that has not answered yet may have the statement or not.
Miss(c) ==
  /\ pc[c] \in {"sent", "unsent", "served"} /\ conn[at[c]] \in {"broken", "bad"}
  /\ pc' = [pc EXCEPT ![c] = "check"]
  /\ \/ UNCHANGED inDoubt
     \/ pc[c] = "sent" /\ op[c] = "exec" /\ inDoubt' = inDoubt \cup {<<c, made[c]>>}
  /\ conn' = [conn EXCEPT ![at[c]] = "bad"]
  /\ reply' = [reply EXCEPT ![c] = NoAnswer]
  /\ res' = [res EXCEPT ![at[c]] = Bad]
  /\ results' = [results EXCEPT ![at[c]] = @ + 1]
  /\ UNCHANGED <<table, callVars, result, mtx, life, kept, denied>>

\* What a call makes of m_res.  A name that is not there is a null pointer,
\* which std::string refuses: the catch block returns an empty name.
Evaluated(o, r) ==
  CASE o = "exec" -> IF r = True THEN True ELSE False
    [] o # "exec" -> IF r.kind = "rows" THEN r ELSE Nothing

\* Mutant: a statement that failed is cleared, a read that failed is not.
CheckSwapped(c) ==
  /\ Goes(c, "check", "unlock")
  /\ LET w    == at[c]
         lost == op[c] # "exec" /\ res[w].kind # "rows"
     IN  /\ result' = [result EXCEPT ![c] = Evaluated(op[c], res[w])]
         /\ results' = [results EXCEPT ![w] = IF res[w] = Bad /\ ~lost THEN @ - 1 ELSE @]
         /\ kept' = [kept EXCEPT ![w] = IF res[w] = NoResult \/ lost THEN @ ELSE @ + 1]
         /\ denied' = IF op[c] = "exec" /\ res[w] # True
                      THEN denied \cup {<<c, made[c]>>} ELSE denied
  /\ UNCHANGED <<serverVars, callVars, reply, workerVars, res>>

\* PQresultStatus() and what follows.  Only a read that failed clears its
\* PGresult; PQclear() of none does nothing.
Check(c) ==
  /\ Goes(c, "check", "unlock")
  /\ LET w    == at[c]
         lost == op[c] # "exec" /\ res[w].kind # "rows"
     IN  /\ result' = [result EXCEPT ![c] = Evaluated(op[c], res[w])]
         /\ results' = [results EXCEPT ![w] = IF res[w] # NoResult /\ lost THEN @ - 1 ELSE @]
         /\ kept' = [kept EXCEPT ![w] = IF res[w] = NoResult \/ lost THEN @ ELSE @ + 1]
         /\ denied' = IF op[c] = "exec" /\ res[w] # True
                      THEN denied \cup {<<c, made[c]>>} ELSE denied
  /\ UNCHANGED <<serverVars, callVars, reply, workerVars, res>>

\* Mutant: an empty name leaves the mutex locked.
UnlockFound(c) ==
  /\ Goes(c, "unlock", "idle")
  /\ mtx' = [mtx EXCEPT ![at[c]] = IF result[c] = Nothing THEN @ ELSE Free]
  /\ result' = [result EXCEPT ![c] = NoAnswer]
  /\ UNCHANGED <<serverVars, callVars, reply, life, conn, resultVars, denied>>

Unlock(c) ==
  /\ Goes(c, "unlock", "idle")
  /\ mtx' = [mtx EXCEPT ![at[c]] = Free]
  /\ result' = [result EXCEPT ![c] = NoAnswer]
  /\ UNCHANGED <<serverVars, callVars, reply, life, conn, resultVars, denied>>

-----------------------------------------------------------------------------
(* The server and the connection.                                          *)

Serves(c, a) ==
  /\ Goes(c, "sent", "served")
  /\ reply' = [reply EXCEPT ![c] = a]
  /\ UNCHANGED <<inDoubt, callVars, result, workerVars, resultVars, denied>>

\* A statement is a transaction of its own.
ServeStatement(c) ==
  /\ op[c] = "exec"
  /\ table' = table \cup {<<c, made[c]>>}
  /\ Serves(c, True)

ServeQuery(c) ==
  /\ op[c] # "exec"
  /\ Serves(c, Rows)
  /\ UNCHANGED table

\* The text is no SQL, as when a name holds a quote, or the server is at its
\* limits.
ServeError(c) == Serves(c, Bad) /\ UNCHANGED table

Break(w) ==
  /\ conn[w] = "up"
  /\ conn' = [conn EXCEPT ![w] = "broken"]
  /\ UNCHANGED <<serverVars, callVars, pc, reply, result, mtx, life, resultVars, denied>>

\* The server finishes a statement nobody waits for.
ApplyLate(i) ==
  /\ i \in inDoubt
  /\ table' = table \cup {i} /\ inDoubt' = inDoubt \ {i}
  /\ UNCHANGED <<callVars, pc, reply, result, workerVars, resultVars, denied>>

-----------------------------------------------------------------------------
ServerStep(c) == ServeStatement(c) \/ ServeQuery(c) \/ ServeError(c)

CallStep(c) ==
  \/ Lock(c) \/ Send(c) \/ ServerStep(c) \/ Receive(c) \/ Miss(c)
  \/ Check(c) \/ Unlock(c)

Next ==
  \/ \E w \in Workers : InitWorker(w) \/ Destroy(w) \/ Break(w)
  \/ \E c \in Clients : CallStep(c) \/ \E o \in Ops, w \in Workers : Call(c, o, w)
  \/ \E i \in Ids : ApplyLate(i)

Spec == Init /\ [][Next]_vars

\* A thread runs, a mutex that is free again and again is obtained, and a
\* server that has a request answers it or the connection breaks.
Fairness ==
  \A c \in Clients : SF_vars(Lock(c)) /\ WF_vars(CallStep(c))
FairSpec == Spec /\ Fairness

-----------------------------------------------------------------------------
(* Properties.                                                             *)

Inside(c) == pc[c] \notin {"idle", "lock"}

AnswerType ==
  [kind : {"none", "true", "false", "rows", "nothing", "bad", "null"}, rows : SUBSET Ids]

DataOK ==
  /\ table \subseteq Ids /\ inDoubt \subseteq Ids /\ denied \subseteq Ids
  /\ made \in [Clients -> 0..MaxCalls]
  /\ pc \in [Clients -> {"idle", "lock", "send", "sent", "unsent", "served", "check",
                        "unlock"}]
  /\ op \in [Clients -> Ops \cup {"none"}]
  /\ at \in [Clients -> Workers \cup {"none"}]
  /\ reply \in [Clients -> AnswerType] /\ result \in [Clients -> AnswerType]
  /\ mtx \in [Workers -> Clients \cup {Free}]
  /\ life \in [Workers -> {"new", "ready", "failed", "destroyed"}]
  /\ conn \in [Workers -> {"null", "up", "broken", "bad", "finished", "finishedTwice"}]
  /\ res \in [Workers -> AnswerType]
  /\ results \in [Workers -> Nat] /\ kept \in [Workers -> Nat]

\* A call is one the client makes, on a worker whose connection was made and
\* is not finished; it is the only one inside.
CallFits(c) ==
  /\ pc[c] # "idle" => /\ <<op[c], at[c]>> \in CallsOf[c]
                       /\ made[c] # 0
                       /\ conn[at[c]] \in {"up", "broken", "bad"}
  /\ Inside(c) => mtx[at[c]] = c

\* Types, and what every step of a call may rely on.
TypeOK == DataOK /\ \A c \in Clients : CallFits(c)

\* Every statement that was answered, and every read that succeeded, costs
\* the daemon a PGresult for the rest of its life; nothing else does, and
\* nothing is cleared twice.
ResultsAccumulate ==
  \A w \in Workers :
    (\A c \in Clients : Inside(c) => at[c] # w) => results[w] = kept[w]

\* In the whole life of a worker there is at most one statement that was
\* answered "false" and is in the table all the same, or may still get there:
\* the mutex lets one statement out at a time, and nothing is sent through a
\* connection that is known to be bad.
OneInDoubt ==
  \A i, j \in (table \cup inDoubt) \cap denied :
    (\E w \in Workers : CallsOf[i[1]] \cup CallsOf[j[1]] \subseteq Ops \X {w}) => i = j

\* A call returns, whatever the connection and the server do.
CallsReturn == \A c \in Clients : Inside(c) \/ pc[c] = "lock" ~> pc[c] = "idle"

\* The callers may rely on SqlTable, where a "false" may be a lost answer.
phase ==
  [c \in Clients |->
     CASE pc[c] = "idle" -> "idle"
       [] pc[c] \in {"served", "check", "unlock"} -> "answered"
       [] OTHER -> IF op[c] = "exec" THEN "statement" ELSE "query"]
answer ==
  [c \in Clients |->
     CASE pc[c] = "served" -> Evaluated(op[c], reply[c])
       [] pc[c] = "check"  -> Evaluated(op[c], res[at[c]])
       [] OTHER -> result[c]]

ST == INSTANCE SqlTable WITH CanLoseAnswers <- TRUE
ImplementsSqlTable == ST!Spec

=============================================================================
