------------------------ MODULE PostgreWorkerProofs -------------------------
(***************************************************************************)
(* What PostgreWorker guarantees for every set of threads, of workers and  *)
(* of calls, and any number of connections that break.                     *)
(***************************************************************************)
EXTENDS PostgreWorker, TLAPS

\* Who holds a mutex is inside a call of that worker.
HeldInside ==
  \A w \in Workers : mtx[w] # Free => Inside(mtx[w]) /\ at[mtx[w]] = w

\* A worker that is called was initialised, and has a connection.
CalledReady ==
  /\ \A w \in Workers : life[w] = "ready" => conn[w] \in {"up", "broken", "bad"}
  /\ \A c \in Clients : pc[c] # "idle" => life[at[c]] = "ready"

\* What the server may answer, and when a call has something to return.
RepliesFit ==
  \A c \in Clients :
    /\ pc[c] = "served" => \/ reply[c] = Bad
                           \/ op[c] = "exec" /\ reply[c] = True
                           \/ op[c] # "exec" /\ reply[c].kind = "rows"
    /\ pc[c] # "unlock" => result[c] = NoAnswer

\* A PGresult somebody is about to look at.
Fresh(w) == \E c \in Clients : pc[c] = "check" /\ at[c] = w /\ res[w] # NoResult

ResultsCounted ==
  \A w \in Workers :
    /\ Fresh(w) => results[w] = kept[w] + 1
    /\ ~Fresh(w) => results[w] = kept[w]

IInv == TypeOK /\ HeldInside /\ CalledReady /\ RepliesFit /\ ResultsCounted

-----------------------------------------------------------------------------
(* Data.                                                                   *)

\* Every answer the module writes down has the type of answers.
LEMMA AnswerTypes ==
  /\ \A S \in SUBSET Ids : [kind |-> "rows", rows |-> S] \in AnswerType
  /\ {NoAnswer, True, False, Nothing, Bad, NoResult} \subseteq AnswerType
  BY DEF Answer, AnswerType, NoAnswer, True, False, Nothing, Bad, NoResult

LEMMA InitInv == Init => IInv
  <1> SUFFICES ASSUME Init PROVE IInv
    OBVIOUS
  <1> USE DEF Init
  <1>1. TypeOK
    BY PostgreAssumption, AnswerTypes DEF TypeOK, DataOK, CallFits, Inside
  <1>2. HeldInside /\ CalledReady /\ RepliesFit
    BY DEF HeldInside, CalledReady, RepliesFit
  <1>3. ResultsCounted
    BY DEF ResultsCounted, Fresh
  <1> QED BY <1>1, <1>2, <1>3 DEF IInv

\* The mutex: two clients inside calls of one worker are one client.
LEMMA Exclusive ==
  ASSUME TypeOK, NEW c \in Clients, NEW d \in Clients,
         Inside(c), Inside(d), at[c] = at[d]
  PROVE  c = d
  BY DEF TypeOK, CallFits

\* A client inside a call calls a worker.
LEMMA Called ==
  ASSUME TypeOK, NEW c \in Clients, pc[c] # "idle"
  PROVE  at[c] \in Workers /\ op[c] \in Ops /\ <<c, made[c]>> \in Ids
  <1>1. <<op[c], at[c]>> \in CallsOf[c] /\ made[c] # 0 /\ made[c] \in 0..MaxCalls
    BY DEF TypeOK, CallFits, DataOK
  <1>2. CallsOf[c] \subseteq Ops \X Workers /\ MaxCalls \in Nat
    BY PostgreAssumption
  <1>3. at[c] \in Workers /\ op[c] \in Ops
    BY <1>1, <1>2
  <1>4. made[c] \in 1..MaxCalls
    BY <1>1, <1>2
  <1> QED BY <1>3, <1>4 DEF Ids

LEMMA DataNext == TypeOK /\ ResultsCounted /\ [Next]_vars => DataOK'
  <1> SUFFICES ASSUME TypeOK, ResultsCounted, [Next]_vars PROVE DataOK'
    OBVIOUS
  <1> USE PostgreAssumption DEF DataOK
  <1>0. DataOK
    BY DEF TypeOK
  <1>1. ASSUME NEW w \in Workers, InitWorker(w) PROVE DataOK'
    BY <1>0, <1>1 DEF InitWorker, serverVars, callVars, resultVars
  <1>2. ASSUME NEW w \in Workers, Destroy(w) PROVE DataOK'
    BY <1>0, <1>2 DEF Destroy, serverVars, callVars, resultVars
  <1>3. ASSUME NEW w \in Workers, Break(w) PROVE DataOK'
    BY <1>0, <1>3 DEF Break, serverVars, callVars, resultVars
  <1>4. ASSUME NEW c \in Clients, NEW o \in Ops, NEW w \in Workers, Call(c, o, w)
        PROVE  DataOK'
    BY <1>0, <1>4 DEF Call, Goes, serverVars, workerVars, resultVars
  <1>5. ASSUME NEW c \in Clients, Lock(c) PROVE DataOK'
    BY <1>0, <1>5 DEF Lock, Goes, serverVars, callVars, resultVars
  <1>6. ASSUME NEW c \in Clients, Send(c) PROVE DataOK'
    <2> NoResult \in AnswerType
      BY AnswerTypes
    <2> QED BY <1>0, <1>6 DEF Send, Goes, serverVars, callVars, workerVars
  <1>7. ASSUME NEW c \in Clients, ServeStatement(c) PROVE DataOK'
    <2> True \in AnswerType /\ <<c, made[c]>> \in Ids
      BY AnswerTypes, Called, <1>7 DEF ServeStatement, Serves, Goes
    <2> QED BY <1>0, <1>7 DEF ServeStatement, Serves, Goes, callVars, workerVars, resultVars
  <1>8. ASSUME NEW c \in Clients, ServeQuery(c) PROVE DataOK'
    <2> Rows \in AnswerType
      BY AnswerTypes, <1>0 DEF Rows, Answer
    <2> QED BY <1>0, <1>8 DEF ServeQuery, Serves, Goes, callVars, workerVars, resultVars
  <1>9. ASSUME NEW c \in Clients, ServeError(c) PROVE DataOK'
    <2> Bad \in AnswerType
      BY AnswerTypes
    <2> QED BY <1>0, <1>9 DEF ServeError, Serves, Goes, callVars, workerVars, resultVars
  <1>10. ASSUME NEW c \in Clients, Receive(c) PROVE DataOK'
    <2> NoAnswer \in AnswerType /\ at[c] \in Workers
      BY AnswerTypes, Called, <1>10 DEF Receive, Goes
    <2>1. results' \in [Workers -> Nat] /\ res' \in [Workers -> AnswerType]
      BY <1>0, <1>10 DEF Receive
    <2> QED BY <2>1, <1>0, <1>10 DEF Receive, Goes, serverVars, callVars, workerVars
  <1>11. ASSUME NEW c \in Clients, Miss(c) PROVE DataOK'
    <2> NoAnswer \in AnswerType /\ Bad \in AnswerType /\ <<c, made[c]>> \in Ids
            /\ at[c] \in Workers
      BY AnswerTypes, Called, <1>11 DEF Miss
    <2>1. results' \in [Workers -> Nat] /\ res' \in [Workers -> AnswerType]
      BY <1>0, <1>11 DEF Miss
    <2>2. /\ pc' \in [Clients -> {"idle", "lock", "send", "sent", "unsent", "served",
                                 "check", "unlock"}]
          /\ reply' \in [Clients -> AnswerType] /\ inDoubt' \subseteq Ids
          /\ conn' \in [Workers -> {"null", "up", "broken", "bad", "finished",
                                   "finishedTwice"}]
      BY <1>0, <1>11 DEF Miss
    <2> QED BY <2>1, <2>2, <1>0, <1>11 DEF Miss, callVars
  <1>12. ASSUME NEW c \in Clients, Check(c) PROVE DataOK'
    <2> DEFINE w == at[c]
    <2>1. w \in Workers /\ <<c, made[c]>> \in Ids
      BY Called, <1>12 DEF Check, Goes
    <2>2. Evaluated(op[c], res[w]) \in AnswerType
      BY <1>0, <2>1, AnswerTypes DEF Evaluated
    <2>3. results' \in [Workers -> Nat] /\ kept' \in [Workers -> Nat]
      <3>1. res[w] # NoResult => results[w] = kept[w] + 1
        BY <1>12, <2>1 DEF Check, Goes, ResultsCounted, Fresh
      <3>2. kept[w] \in Nat
        BY <1>0, <2>1
      <3> QED BY <1>0, <1>12, <2>1, <3>1, <3>2 DEF Check
    <2> QED BY <1>0, <1>12, <2>1, <2>2, <2>3
            DEF Check, Goes, serverVars, callVars, workerVars
  <1>13. ASSUME NEW c \in Clients, Unlock(c) PROVE DataOK'
    <2> NoAnswer \in AnswerType
      BY AnswerTypes
    <2> QED BY <1>0, <1>13 DEF Unlock, Goes, serverVars, callVars, resultVars
  <1>14. ASSUME NEW i \in Ids, ApplyLate(i) PROVE DataOK'
    BY <1>0, <1>14 DEF ApplyLate, callVars, workerVars, resultVars
  <1>15. CASE UNCHANGED vars
    BY <1>0, <1>15 DEF vars
  <1> QED
    BY <1>1, <1>2, <1>3, <1>4, <1>5, <1>6, <1>7, <1>8, <1>9, <1>10, <1>11, <1>12,
       <1>13, <1>14, <1>15 DEF Next, CallStep, ServerStep

-----------------------------------------------------------------------------
(* Who is where.                                                           *)

\* What the steps of a call between lock and unlock have in common.
GoesOn(c) ==
  /\ UNCHANGED <<mtx, op, at, made, life>>
  /\ conn' = conn \/ conn' = [conn EXCEPT ![at[c]] = "bad"]
  /\ \E p \in {"sent", "unsent", "served", "check", "unlock"} : pc' = [pc EXCEPT ![c] = p]

LEMMA StaysInside ==
  ASSUME TypeOK, HeldInside, NEW c \in Clients, Inside(c), GoesOn(c)
  PROVE  HeldInside' /\ (\A d \in Clients : CallFits(d))'
  <1>0. DataOK /\ \A d \in Clients : CallFits(d)
    BY DEF TypeOK
  <1>1. \A d \in Clients : /\ Inside(d) <=> Inside(d)'
                           /\ pc[d] = "idle" <=> pc'[d] = "idle"
    BY <1>0 DEF DataOK, GoesOn, Inside
  <1>2. HeldInside'
    BY <1>0, <1>1, PostgreAssumption DEF DataOK, GoesOn, HeldInside, Inside
  <1>3. \A w \in Workers : conn[w] \in {"up", "broken", "bad"} => conn'[w] \in {"up", "broken", "bad"}
    BY <1>0 DEF DataOK, GoesOn
  <1>4. \A d \in Clients : pc[d] # "idle" => at[d] \in Workers
    BY Called
  <1>5. ASSUME NEW d \in Clients PROVE CallFits(d)'
    <2>1. pc'[d] # "idle" => conn'[at[d]] \in {"up", "broken", "bad"}
      BY <1>0, <1>1, <1>3, <1>4 DEF CallFits
    <2>a. CallFits(d) /\ (pc'[d] # "idle" => pc[d] # "idle")
      BY <1>0, <1>1
    <2>2. pc'[d] # "idle" => <<op[d], at[d]>> \in CallsOf[d] /\ made[d] # 0
      BY <2>a DEF CallFits
    <2>3. Inside(d)' => mtx[at[d]] = d
      BY <1>0, <1>1 DEF CallFits, Inside
    <2> QED BY <2>1, <2>2, <2>3 DEF GoesOn, CallFits
  <1> QED BY <1>2, <1>5

\* The mutex and the places of the clients.
LEMMA HeldNext == IInv /\ [Next]_vars => HeldInside' /\ (\A c \in Clients : CallFits(c))'
  <1> SUFFICES ASSUME IInv, [Next]_vars
               PROVE  HeldInside' /\ (\A c \in Clients : CallFits(c))'
    OBVIOUS
  <1> DEFINE Goal == HeldInside' /\ (\A c \in Clients : CallFits(c))'
  <1>0. TypeOK /\ DataOK /\ HeldInside /\ CalledReady
    BY DEF IInv, TypeOK
  <1>a. \A c \in Clients : CallFits(c)
    BY <1>0 DEF TypeOK
  <1> USE PostgreAssumption DEF DataOK, HeldInside, CallFits, Inside
  <1>1. ASSUME NEW w \in Workers, InitWorker(w) PROVE Goal
    BY <1>0, <1>a, <1>1 DEF InitWorker, callVars, CalledReady
  <1>2. ASSUME NEW w \in Workers, Destroy(w) PROVE Goal
    <2>1. /\ UNCHANGED <<mtx, op, at, made, pc>>
          /\ \A v \in Workers \ {w} : conn'[v] = conn[v]
          /\ \A c \in Clients : pc[c] # "idle" => at[c] # w
      BY <1>0, <1>2 DEF Destroy, callVars
    <2>2. \A c \in Clients : pc[c] # "idle" => at[c] \in Workers
      BY <1>0, Called
    <2> QED BY <1>0, <1>a, <2>1, <2>2
  <1>3. ASSUME NEW w \in Workers, Break(w) PROVE Goal
    BY <1>0, <1>a, <1>3 DEF Break, callVars
  <1>4. ASSUME NEW c \in Clients, NEW o \in Ops, NEW w \in Workers, Call(c, o, w)
        PROVE  Goal
    <2>1. HeldInside'
      BY <1>0, <1>a, <1>4 DEF Call, Goes, workerVars
    <2>2. (\A d \in Clients : CallFits(d))'
      BY <1>0, <1>a, <1>4 DEF Call, Goes, workerVars, CalledReady
    <2> QED BY <2>1, <2>2
  <1>5. ASSUME NEW c \in Clients, Lock(c) PROVE Goal
    <2> at[c] \in Workers
      BY <1>0, <1>5, Called DEF Lock, Goes
    <2>1. HeldInside'
      BY <1>0, <1>a, <1>5 DEF Lock, Goes, callVars
    <2>2. (\A d \in Clients : CallFits(d))'
      BY <1>0, <1>a, <1>5 DEF Lock, Goes, callVars
    <2> QED BY <2>1, <2>2
  <1>6. ASSUME NEW c \in Clients, Send(c) \/ ServerStep(c) \/ Receive(c) \/ Miss(c) \/ Check(c)
        PROVE  Goal
    <2>1. Inside(c) /\ GoesOn(c)
      BY <1>0, <1>6 DEF GoesOn, Send, ServerStep, ServeStatement, ServeQuery, ServeError, Serves,
                  Receive, Miss, Check, Goes, callVars, workerVars
    <2> QED BY <1>0, <2>1, StaysInside
  <1>7. ASSUME NEW c \in Clients, Unlock(c) PROVE Goal
    <2> at[c] \in Workers
      BY <1>0, <1>7, Called DEF Unlock, Goes
    <2>1. HeldInside'
      BY <1>0, <1>a, <1>7 DEF Unlock, Goes, callVars
    <2>2. ASSUME NEW d \in Clients PROVE CallFits(d)'
      <3>1. pc'[d] # "idle" => pc[d] # "idle" /\ d # c
        BY <1>0, <1>7 DEF Unlock, Goes
      <3>2. Inside(d)' => Inside(d) /\ d # c /\ at[d] \in Workers
        BY <1>0, <1>7, Called DEF Unlock, Goes
      <3>3. Inside(d)' => mtx'[at[d]] = mtx[at[d]]
        <4>1. Inside(d)' => at[d] # at[c]
          <5>1. mtx[at[c]] = c
            BY <1>a, <1>7 DEF Unlock, Goes
          <5>2. Inside(d)' => mtx[at[d]] = d /\ d # c
            BY <1>a, <3>2
          <5> QED BY <5>1, <5>2
        <4> QED BY <1>0, <1>7, <3>2, <4>1 DEF Unlock
      <3> QED BY <1>0, <1>a, <1>7, <3>1, <3>2, <3>3 DEF Unlock, callVars
    <2> QED BY <2>1, <2>2
  <1>8. ASSUME NEW i \in Ids, ApplyLate(i) PROVE Goal
    BY <1>0, <1>a, <1>8 DEF ApplyLate, callVars, workerVars
  <1>9. CASE UNCHANGED vars
    BY <1>0, <1>a, <1>9 DEF vars
  <1> QED
    BY <1>1, <1>2, <1>3, <1>4, <1>5, <1>6, <1>7, <1>8, <1>9
    DEF Next, CallStep

\* Nobody calls a worker that is not ready.
LEMMA ReadyNext == IInv /\ [Next]_vars => CalledReady'
  <1> SUFFICES ASSUME IInv, [Next]_vars PROVE CalledReady'
    OBVIOUS
  <1>0. TypeOK /\ DataOK /\ CalledReady
    BY DEF IInv, TypeOK
  <1> USE DEF DataOK, CalledReady
  <1>1. ASSUME NEW w \in Workers, InitWorker(w) PROVE CalledReady'
    <2>1. /\ UNCHANGED <<at, pc>> /\ life[w] = "new"
          /\ \A v \in Workers \ {w} : life'[v] = life[v] /\ conn'[v] = conn[v]
          /\ life'[w] = "ready" => conn'[w] = "up"
      BY <1>0, <1>1 DEF InitWorker, callVars
    <2>2. \A c \in Clients : pc[c] # "idle" => at[c] \in Workers \ {w}
      BY <1>0, <2>1, Called
    <2>3. \A v \in Workers : life'[v] = "ready" => conn'[v] \in {"up", "broken", "bad"}
      BY <1>0, <2>1
    <2> QED BY <1>0, <2>1, <2>2, <2>3
  <1>2. ASSUME NEW w \in Workers, Destroy(w) PROVE CalledReady'
    BY <1>0, <1>2 DEF Destroy, callVars
  <1>3. ASSUME NEW w \in Workers, Break(w) PROVE CalledReady'
    BY <1>0, <1>3 DEF Break, callVars
  <1>4. ASSUME NEW c \in Clients, NEW o \in Ops, NEW w \in Workers, Call(c, o, w)
        PROVE  CalledReady'
    BY <1>0, <1>4 DEF Call, Goes, workerVars
  <1>5. ASSUME NEW c \in Clients, CallStep(c) PROVE CalledReady'
    <2>1. /\ UNCHANGED <<life, at>>
          /\ conn' = conn \/ conn' = [conn EXCEPT ![at[c]] = "bad"]
          /\ pc[c] # "idle"
          /\ \A d \in Clients \ {c} : pc'[d] = pc[d]
      BY <1>0, <1>5 DEF CallStep, Lock, Send, ServerStep, ServeStatement, ServeQuery, ServeError,
                  Serves, Receive, Miss, Check, Unlock, Goes, callVars, workerVars
    <2>2. \A w \in Workers : life'[w] = "ready" => conn'[w] \in {"up", "broken", "bad"}
      BY <1>0, <2>1
    <2>3. \A d \in Clients : pc'[d] # "idle" => life'[at'[d]] = "ready"
      BY <1>0, <2>1
    <2> QED BY <2>2, <2>3
  <1>6. ASSUME NEW i \in Ids, ApplyLate(i) PROVE CalledReady'
    BY <1>0, <1>6 DEF ApplyLate, callVars, workerVars
  <1>7. CASE UNCHANGED vars
    BY <1>0, <1>7 DEF vars
  <1> QED BY <1>1, <1>2, <1>3, <1>4, <1>5, <1>6, <1>7 DEF Next

-----------------------------------------------------------------------------
(* Answers and results.                                                    *)

LEMMA RepliesNext == IInv /\ [Next]_vars => RepliesFit'
  <1> SUFFICES ASSUME IInv, [Next]_vars, NEW d \in Clients
               PROVE  /\ pc'[d] = "served" => \/ reply'[d] = Bad
                                              \/ op'[d] = "exec" /\ reply'[d] = True
                                              \/ op'[d] # "exec" /\ reply'[d].kind = "rows"
                      /\ pc'[d] # "unlock" => result'[d] = NoAnswer
    BY DEF RepliesFit, Bad, True, NoAnswer, Answer
  <1> DEFINE Goal == /\ pc'[d] = "served" => \/ reply'[d] = Bad
                                             \/ op'[d] = "exec" /\ reply'[d] = True
                                             \/ op'[d] # "exec" /\ reply'[d].kind = "rows"
                     /\ pc'[d] # "unlock" => result'[d] = NoAnswer
  <1>0. DataOK /\ RepliesFit
    BY DEF IInv, TypeOK
  <1>1. CASE UNCHANGED <<pc, reply, result, op>>
    BY <1>0, <1>1 DEF RepliesFit
  <1>2. ASSUME NEW c \in Clients, NEW o \in Ops, NEW w \in Workers, Call(c, o, w)
        PROVE  Goal
    BY <1>0, <1>2 DEF Call, Goes, RepliesFit, DataOK
  <1>3. ASSUME NEW c \in Clients, Lock(c) \/ Send(c) PROVE Goal
    BY <1>0, <1>3 DEF Lock, Send, Goes, callVars, RepliesFit, DataOK
  <1>4. ASSUME NEW c \in Clients, ServerStep(c) PROVE Goal
    BY <1>0, <1>4 DEF ServerStep, ServeStatement, ServeQuery, ServeError, Serves, Goes, callVars,
                RepliesFit, DataOK, Rows, Answer
  <1>5. ASSUME NEW c \in Clients, Receive(c) \/ Miss(c) PROVE Goal
    BY <1>0, <1>5 DEF Receive, Miss, Goes, callVars, RepliesFit, DataOK
  <1>6. ASSUME NEW c \in Clients, Check(c) PROVE Goal
    BY <1>0, <1>6 DEF Check, Goes, callVars, RepliesFit, DataOK
  <1>7. ASSUME NEW c \in Clients, Unlock(c) PROVE Goal
    BY <1>0, <1>7 DEF Unlock, Goes, callVars, RepliesFit, DataOK
  <1>8. ASSUME NEW w \in Workers, InitWorker(w) \/ Destroy(w) \/ Break(w)
        PROVE  UNCHANGED <<pc, reply, result, op>>
    BY <1>8 DEF InitWorker, Destroy, Break, callVars
  <1>9. ASSUME NEW i \in Ids, ApplyLate(i) PROVE UNCHANGED <<pc, reply, result, op>>
    BY <1>9 DEF ApplyLate, callVars
  <1>10. CASE UNCHANGED vars
    BY <1>10, <1>1 DEF vars
  <1> QED
    BY <1>1, <1>2, <1>3, <1>4, <1>5, <1>6, <1>7, <1>8, <1>9, <1>10 DEF Next, CallStep

\* While a client is inside, nobody else looks at a result of its worker.
LEMMA FreshInside ==
  ASSUME TypeOK, NEW c \in Clients, Inside(c)
  PROVE  Fresh(at[c]) <=> pc[c] = "check" /\ res[at[c]] # NoResult
  BY Exclusive DEF Fresh, Inside

\* One worker's results are counted rightly.
Counted(w) == /\ Fresh(w) => results[w] = kept[w] + 1
              /\ ~Fresh(w) => results[w] = kept[w]

LEMMA ResultsNext == IInv /\ TypeOK' /\ [Next]_vars => ResultsCounted'
  <1> SUFFICES ASSUME IInv, TypeOK', [Next]_vars, NEW w \in Workers PROVE Counted(w)'
    BY DEF ResultsCounted, Counted, Fresh
  <1>0. TypeOK /\ DataOK /\ RepliesFit /\ Counted(w)
    BY DEF IInv, TypeOK, ResultsCounted, Counted
  <1>a. results[w] \in Nat /\ kept[w] \in Nat
    BY <1>0 DEF DataOK
  <1>1. CASE /\ UNCHANGED <<res, results, kept, at>>
             /\ \A c \in Clients : pc[c] = "check" <=> pc'[c] = "check"
    BY <1>0, <1>1 DEF Counted, Fresh
  <1>2. ASSUME NEW c \in Clients, NEW o \in Ops, NEW v \in Workers, Call(c, o, v)
        PROVE  Counted(w)'
    <2>1. UNCHANGED <<res, results, kept>>
      BY <1>2 DEF Call, resultVars
    <2>2. \A d \in Clients : (pc'[d] = "check" /\ at'[d] = w) <=> (pc[d] = "check" /\ at[d] = w)
      BY <1>0, <1>2 DEF Call, Goes, DataOK
    <2> QED BY <1>0, <2>1, <2>2 DEF Counted, Fresh
  <1>3. ASSUME NEW c \in Clients, Lock(c) \/ Unlock(c) \/ ServerStep(c) PROVE Counted(w)'
    BY <1>0, <1>1, <1>3 DEF Lock, Unlock, ServerStep, ServeStatement, ServeQuery, ServeError, Serves, Goes,
                callVars, resultVars, DataOK
  <1>4. ASSUME NEW c \in Clients, Send(c) \/ Receive(c) \/ Miss(c) \/ Check(c)
        PROVE  Counted(w)'
    <2>1. Inside(c) /\ Inside(c)' /\ at' = at /\ at[c] \in Workers
      BY <1>0, <1>4, Called DEF Send, Receive, Miss, Check, Goes, callVars, Inside, DataOK
    <2>2. Fresh(at[c]) <=> pc[c] = "check" /\ res[at[c]] # NoResult
      BY <1>0, <2>1, FreshInside
    <2>3. (Fresh(at[c]))' <=> pc'[c] = "check" /\ res'[at[c]] # NoResult
      <3>1. \A d \in Clients : Inside(d)' /\ at'[d] = at'[c] => d = c
        BY <2>1 DEF TypeOK, CallFits
      <3> QED BY <2>1, <3>1 DEF Fresh, Inside
    <2>4. CASE w # at[c]
      <3>1. UNCHANGED <<res[w], results[w], kept[w]>>
        BY <1>0, <1>4, <2>1, <2>4 DEF Send, Receive, Miss, Check, DataOK
      <3>2. \A d \in Clients : at[d] = w => pc'[d] = pc[d]
        BY <1>0, <1>4, <2>4 DEF Send, Receive, Miss, Check, Goes, DataOK
      <3>3. Fresh(w)' <=> Fresh(w)
        BY <2>1, <3>1, <3>2 DEF Fresh
      <3> QED BY <1>0, <3>1, <3>3 DEF Counted
    <2>5. CASE w = at[c]
      <3>1. CASE Send(c)
        <4>1. ~Fresh(w) /\ ~Fresh(w)'
          BY <1>0, <2>2, <2>3, <2>1, <2>5, <3>1 DEF Send, Goes, DataOK
        <4> QED BY <1>0, <3>1, <4>1 DEF Send, Counted
      <3>2. CASE Receive(c)
        <4>1. reply[c] # NoResult
          BY <1>0, <3>2 DEF Receive, Goes, RepliesFit, Bad, True, NoResult, Answer
        <4>2. ~Fresh(w) /\ Fresh(w)'
          BY <1>0, <2>2, <2>3, <2>1, <2>5, <3>2, <4>1 DEF Receive, Goes, DataOK
        <4> QED BY <1>0, <2>5, <3>2, <4>2 DEF Receive, Counted, DataOK
      <3>3. CASE Miss(c)
        <4>1. Bad # NoResult
          BY DEF Bad, NoResult, Answer
        <4>2. ~Fresh(w) /\ Fresh(w)'
          BY <1>0, <2>2, <2>3, <2>1, <2>5, <3>3, <4>1 DEF Miss, DataOK
        <4> QED BY <1>0, <2>5, <3>3, <4>2 DEF Miss, Counted, DataOK
      <3>4. CASE Check(c)
        <4>1. ~Fresh(w)' /\ (Fresh(w) <=> res[w] # NoResult)
          BY <1>0, <2>2, <2>3, <2>1, <2>5, <3>4 DEF Check, Goes, DataOK
        <4>2. \/ res[w] = NoResult /\ results'[w] = results[w] /\ kept'[w] = kept[w]
              \/ res[w] # NoResult /\ results'[w] = results[w] - 1 /\ kept'[w] = kept[w]
              \/ res[w] # NoResult /\ results'[w] = results[w] /\ kept'[w] = kept[w] + 1
          BY <1>0, <2>5, <3>4 DEF Check, DataOK
        <4> QED BY <1>0, <1>a, <4>1, <4>2 DEF Counted
      <3> QED BY <1>4, <3>1, <3>2, <3>3, <3>4
    <2> QED BY <2>4, <2>5
  <1>5. ASSUME NEW v \in Workers, InitWorker(v) \/ Destroy(v) \/ Break(v) PROVE Counted(w)'
    BY <1>1, <1>5 DEF InitWorker, Destroy, Break, callVars, resultVars
  <1>6. ASSUME NEW i \in Ids, ApplyLate(i) PROVE Counted(w)'
    BY <1>1, <1>6 DEF ApplyLate, callVars, resultVars
  <1>7. CASE UNCHANGED vars
    BY <1>1, <1>7 DEF vars
  <1> QED BY <1>2, <1>3, <1>4, <1>5, <1>6, <1>7 DEF Next, CallStep

-----------------------------------------------------------------------------
(* Theorems.                                                               *)

LEMMA InvNext == IInv /\ [Next]_vars => IInv'
  <1> SUFFICES ASSUME IInv, [Next]_vars PROVE IInv'
    OBVIOUS
  <1>1. TypeOK'
    BY DataNext, HeldNext DEF IInv, TypeOK
  <1> QED BY <1>1, HeldNext, ReadyNext, RepliesNext, ResultsNext DEF IInv

\* The inductive invariant of a PostgreSQL worker.
THEOREM Invariance == Spec => []IInv
  BY InitInv, InvNext, PTL DEF Spec

\* The variables keep their types, a call has its mutex and a connection that
\* was made and is not finished.
THEOREM TypeCorrect == Spec => []TypeOK
  <1>1. IInv => TypeOK
    BY DEF IInv
  <1> QED BY <1>1, Invariance, PTL

\* When nobody is inside a worker, the PGresults that stay are those of the
\* statements that were answered and the reads that succeeded.
THEOREM ResultsCounting == Spec => []ResultsAccumulate
  <1>1. IInv => ResultsAccumulate
    BY DEF IInv, ResultsCounted, ResultsAccumulate, Fresh, Inside
  <1> QED BY <1>1, Invariance, PTL

-----------------------------------------------------------------------------
(* Statements in doubt.                                                    *)

Known == table \cup inDoubt
CallId(c) == <<c, made[c]>>

\* The call is about to answer "false".
Denies(c) == pc[c] = "check" /\ op[c] = "exec" /\ res[at[c]] # True

\* Statements are known by the number of their call, from the moment the
\* server has them; a call that waits for the server has a connection that is
\* not yet known to be bad.
CallsNumbered ==
  /\ \A i \in Known \cup denied :
       /\ i[2] <= made[i[1]]
       /\ pc[i[1]] \in {"lock", "send", "sent", "unsent"} => i[2] # made[i[1]]
  /\ \A c \in Clients :
       /\ pc[c] \in {"served", "check"} => CallId(c) \notin denied
       /\ pc[c] = "served" /\ op[c] = "exec" /\ reply[c] # True => CallId(c) \notin Known
       /\ pc[c] \in {"sent", "unsent", "served"} => conn[at[c]] \in {"up", "broken"}

\* Clients that call this worker only, and their statements that are answered
\* "false", or are about to be, and may be in the table all the same.
OnlyOn(w) == {c \in Clients : CallsOf[c] \subseteq Ops \X {w}}
Lost(w) ==
  {i \in Known : i[1] \in OnlyOn(w) /\ (i \in denied \/ (Denies(i[1]) /\ i = CallId(i[1])))}

\* A worker loses one statement at most, and with it its connection.
LostOnce ==
  \A w \in Workers : /\ life[w] = "new" => conn[w] = "null"
                     /\ conn[w] \in {"null", "up", "broken"} => Lost(w) = {}
                     /\ \A i, j \in Lost(w) : i = j

\* What a step of a client leaves alone.
Apart(c) ==
  /\ \A d \in Clients : d # c => UNCHANGED <<pc[d], op[d], at[d], made[d], reply[d]>>
  /\ \A w \in Workers : w # at'[c] => UNCHANGED <<conn[w], res[w]>>

LEMMA StepApart ==
  ASSUME TypeOK, NEW c \in Clients,
         CallStep(c) \/ \E o \in Ops, w \in Workers : Call(c, o, w)
  PROVE  Apart(c)
  <1> USE DEF TypeOK, DataOK, Apart, Goes
  <1>1. CASE \E o \in Ops, w \in Workers : Call(c, o, w)
    BY <1>1 DEF Call, workerVars, resultVars
  <1>2. CASE Lock(c) \/ Unlock(c)
    BY <1>2 DEF Lock, Unlock, callVars, resultVars
  <1>3. CASE Send(c)
    BY <1>3 DEF Send, callVars, workerVars
  <1>4. CASE ServerStep(c)
    BY <1>4 DEF ServerStep, ServeStatement, ServeQuery, ServeError, Serves, callVars, workerVars,
                resultVars
  <1>5. CASE Receive(c)
    BY <1>5 DEF Receive, callVars, workerVars
  <1>6. CASE Miss(c)
    BY <1>6 DEF Miss, callVars
  <1>7. CASE Check(c)
    BY <1>7 DEF Check, callVars, workerVars
  <1> QED BY <1>1, <1>2, <1>3, <1>4, <1>5, <1>6, <1>7 DEF CallStep

\* A number that is known belongs to a call of a client.
LEMMA KnownAreCalls ==
  ASSUME TypeOK, NEW i \in Known \cup denied
  PROVE  i[1] \in Clients /\ i[2] \in Nat /\ i = <<i[1], i[2]>> /\ made[i[1]] \in Nat
  <1>1. i \in Clients \X (1..MaxCalls) /\ MaxCalls \in Nat
    BY PostgreAssumption DEF Known, TypeOK, DataOK, Ids
  <1>2. i[1] \in Clients /\ i[2] \in 1..MaxCalls /\ i = <<i[1], i[2]>>
    BY <1>1
  <1> QED BY <1>1, <1>2 DEF TypeOK, DataOK

\* A step of a client numbers its own call.
LEMMA NumberStep ==
  ASSUME IInv, CallsNumbered, NEW c \in Clients, Apart(c), made' = made, op' = op, at' = at,
         pc[c] # "idle",
         Known' \subseteq Known \cup {CallId(c)}, denied' \subseteq denied \cup {CallId(c)},
         pc'[c] \in {"lock", "send", "sent", "unsent"} =>
           /\ pc[c] \in {"lock", "send", "sent", "unsent"}
           /\ CallId(c) \notin Known' /\ CallId(c) \notin denied',
         pc'[c] \in {"served", "check"} => CallId(c) \notin denied',
         pc'[c] = "served" /\ op[c] = "exec" /\ reply'[c] # True => CallId(c) \notin Known',
         pc'[c] \in {"sent", "unsent", "served"} => conn'[at[c]] \in {"up", "broken"},
         conn'[at[c]] # conn[at[c]] => Inside(c)
  PROVE  CallsNumbered'
  <1> USE DEF IInv
  <1>1. ASSUME NEW i \in (Known \cup denied)'
        PROVE  /\ i[2] <= made'[i[1]]
               /\ pc'[i[1]] \in {"lock", "send", "sent", "unsent"} => i[2] # made'[i[1]]
    <2>1. CASE i = CallId(c)
      <3>1. i[1] = c /\ i[2] = made[c] /\ made[c] \in Nat
        BY <2>1, PostgreAssumption DEF CallId, TypeOK, DataOK
      <3>2. pc'[c] \notin {"lock", "send", "sent", "unsent"}
        BY <1>1, <2>1 DEF Known
      <3> QED BY <3>1, <3>2
    <2>2. CASE i # CallId(c)
      <3>1. i \in Known \cup denied
        BY <1>1, <2>2
      <3>2. i[1] \in Clients /\ i = <<i[1], i[2]>>
        BY <3>1, KnownAreCalls
      <3>3. i[1] = c => i[2] # made[c]
        BY <2>2, <3>2 DEF CallId
      <3>4. i[1] # c => pc'[i[1]] = pc[i[1]]
        BY <3>2 DEF Apart
      <3> QED BY <3>1, <3>3, <3>4 DEF CallsNumbered
    <2> QED BY <2>1, <2>2
  <1>2. ASSUME NEW d \in Clients
        PROVE  /\ pc'[d] \in {"served", "check"} => CallId(d)' \notin denied'
               /\ pc'[d] = "served" /\ op'[d] = "exec" /\ reply'[d] # True => CallId(d)' \notin Known'
               /\ pc'[d] \in {"sent", "unsent", "served"} => conn'[at'[d]] \in {"up", "broken"}
    <2>1. CASE d = c
      BY <2>1 DEF CallId
    <2>2. CASE d # c
      <3>1. pc'[d] = pc[d] /\ op'[d] = op[d] /\ reply'[d] = reply[d] /\ CallId(d)' = CallId(d)
            /\ CallId(d) # CallId(c) /\ at'[d] = at[d]
        BY <2>2 DEF Apart, CallId
      <3>2. CallId(d) \notin denied => CallId(d) \notin denied'
        BY <3>1
      <3>3. CallId(d) \notin Known => CallId(d) \notin Known'
        BY <3>1
      <3>4. ASSUME pc[d] \in {"sent", "unsent", "served"} PROVE conn'[at[d]] = conn[at[d]]
        <4>1. at[d] \in Workers /\ Inside(d)
          BY <3>4, Called DEF Inside
        <4>2. CASE at[d] # at[c]
          BY <4>1, <4>2 DEF Apart
        <4>3. CASE at[d] = at[c]
          BY <2>2, <4>1, <4>3, Exclusive
        <4> QED BY <4>2, <4>3
      <3> QED BY <3>1, <3>2, <3>3, <3>4 DEF CallsNumbered
    <2> QED BY <2>1, <2>2
  <1> QED BY <1>1, <1>2 DEF CallsNumbered

LEMMA DoubtInit == Init => CallsNumbered /\ LostOnce
  BY PostgreAssumption DEF Init, CallsNumbered, LostOnce, Lost, Known

LEMMA NumbersNext == IInv /\ CallsNumbered /\ [Next]_vars => CallsNumbered'
  <1> SUFFICES ASSUME IInv, CallsNumbered, [Next]_vars PROVE CallsNumbered'
    OBVIOUS
  <1> USE DEF IInv
  \* The numbers stay as they are, and who waits for a server keeps it.
  <1>0. ASSUME UNCHANGED <<made, pc, op, at, reply, denied>>, Known' = Known,
               \A c \in Clients : pc[c] # "idle" =>
                 conn'[at[c]] = conn[at[c]] \/ conn'[at[c]] = "broken"
        PROVE  CallsNumbered'
    BY <1>0 DEF CallsNumbered, CallId
  <1>1. ASSUME NEW w \in Workers, InitWorker(w) PROVE CallsNumbered'
    <2>1. \A c \in Clients : pc[c] # "idle" => at[c] # w
      BY <1>1 DEF InitWorker, CalledReady
    <2> QED BY <1>0, <1>1, <2>1, Called
            DEF InitWorker, serverVars, callVars, resultVars, Known, TypeOK, DataOK
  <1>2. ASSUME NEW w \in Workers, Destroy(w) PROVE CallsNumbered'
    BY <1>0, <1>2, Called DEF Destroy, serverVars, callVars, resultVars, Known, TypeOK, DataOK
  <1>3. ASSUME NEW w \in Workers, Break(w) PROVE CallsNumbered'
    BY <1>0, <1>3, Called DEF Break, serverVars, callVars, resultVars, Known, TypeOK, DataOK
  <1>4. ASSUME NEW c \in Clients, NEW o \in Ops, NEW w \in Workers, Call(c, o, w)
        PROVE  CallsNumbered'
    <2>1. /\ pc[c] = "idle" /\ pc' = [pc EXCEPT ![c] = "lock"]
          /\ made' = [made EXCEPT ![c] = @ + 1]
          /\ at' = [at EXCEPT ![c] = w] /\ op' = [op EXCEPT ![c] = o]
          /\ UNCHANGED <<conn, reply, denied>> /\ Known' = Known
      BY <1>4 DEF Call, Goes, serverVars, workerVars, resultVars, Known
    <2>2. ASSUME NEW i \in (Known \cup denied)'
          PROVE  /\ i[2] <= made'[i[1]]
                 /\ pc'[i[1]] \in {"lock", "send", "sent", "unsent"} => i[2] # made'[i[1]]
      <3>1. i \in Known \cup denied
        BY <2>1
      <3>2. i[1] \in Clients /\ i[2] \in Nat /\ made[i[1]] \in Nat /\ i[2] <= made[i[1]]
        BY <3>1, KnownAreCalls DEF CallsNumbered
      <3>3. CASE i[1] = c
        <4>1. made'[c] = made[c] + 1
          BY <2>1 DEF TypeOK, DataOK
        <4> QED BY <3>2, <3>3, <4>1
      <3>4. CASE i[1] # c
        BY <2>1, <3>1, <3>2, <3>4 DEF TypeOK, DataOK, CallsNumbered
      <3> QED BY <3>3, <3>4
    <2>3. ASSUME NEW d \in Clients, pc'[d] # "lock"
          PROVE  /\ d # c /\ pc'[d] = pc[d] /\ op'[d] = op[d] /\ at'[d] = at[d]
                 /\ CallId(d)' = CallId(d)
      BY <2>1, <2>3 DEF TypeOK, DataOK, CallId
    <2> QED BY <2>1, <2>2, <2>3 DEF CallsNumbered
  <1>5. ASSUME NEW c \in Clients, CallStep(c) PROVE CallsNumbered'
    <2>0. Apart(c) /\ DOMAIN pc = Clients /\ DOMAIN conn = Workers
      BY <1>5, StepApart DEF TypeOK, DataOK
    <2>1. pc[c] \in {"lock", "send", "sent", "unsent"} => CallId(c) \notin Known \cup denied
      BY DEF CallsNumbered, CallId
    <2>2. CASE Lock(c)
      BY <2>0, <2>1, <2>2, NumberStep
         DEF Lock, Goes, serverVars, callVars, resultVars, Known
    <2>3. CASE Send(c)
      BY <2>0, <2>1, <2>3, NumberStep
         DEF Send, Goes, serverVars, callVars, workerVars, Known
    <2>4. CASE ServerStep(c)
      <3>1. /\ pc[c] = "sent" /\ pc' = [pc EXCEPT ![c] = "served"]
            /\ UNCHANGED <<conn, made, op, at, denied>>
            /\ reply'[c] = True \/ op[c] # "exec" \/ Known' = Known
            /\ Known' \subseteq Known \cup {CallId(c)}
        BY <2>4 DEF ServerStep, ServeStatement, ServeQuery, ServeError, Serves, Goes, callVars,
                    workerVars, resultVars, Known, CallId, TypeOK, DataOK
      <3>2. conn[at[c]] \in {"up", "broken"}
        BY <3>1 DEF CallsNumbered
      <3> QED BY <2>0, <2>1, <3>1, <3>2, NumberStep
    <2>5. CASE Receive(c)
      <3>1. CallId(c) \notin denied
        BY <2>5 DEF Receive, Goes, CallsNumbered
      <3> QED BY <2>0, <2>5, <3>1, NumberStep
              DEF Receive, Goes, serverVars, callVars, workerVars, Known
    <2>6. CASE Miss(c)
      <3>1. CallId(c) \notin denied
        BY <2>6, <2>1 DEF Miss, CallsNumbered
      <3>2. /\ pc' = [pc EXCEPT ![c] = "check"] /\ pc[c] \in {"sent", "unsent", "served"}
            /\ UNCHANGED <<made, op, at, denied>>
            /\ Known' \subseteq Known \cup {CallId(c)}
        BY <2>6 DEF Miss, callVars, Known, CallId
      <3> QED BY <2>0, <3>1, <3>2, NumberStep DEF Inside
    <2>7. CASE Check(c)
      <3>1. /\ pc[c] = "check" /\ pc' = [pc EXCEPT ![c] = "unlock"]
            /\ UNCHANGED <<made, op, at, conn>> /\ Known' = Known
            /\ denied' \subseteq denied \cup {CallId(c)}
        BY <2>7 DEF Check, Goes, serverVars, callVars, workerVars, Known, CallId
      <3> QED BY <2>0, <3>1, NumberStep
    <2>8. CASE Unlock(c)
      BY <2>0, <2>8, NumberStep
         DEF Unlock, Goes, serverVars, callVars, resultVars, Known
    <2> QED BY <1>5, <2>2, <2>3, <2>4, <2>5, <2>6, <2>7, <2>8 DEF CallStep
  <1>6. ASSUME NEW i \in Ids, ApplyLate(i) PROVE CallsNumbered'
    BY <1>0, <1>6 DEF ApplyLate, callVars, workerVars, resultVars, Known
  <1>7. CASE UNCHANGED vars
    BY <1>0, <1>7 DEF vars, Known
  <1> QED BY <1>1, <1>2, <1>3, <1>4, <1>5, <1>6, <1>7 DEF Next

\* A step of a client loses no statement but its own.
LEMMA LostByStep ==
  ASSUME IInv, NEW c \in Clients, NEW w \in Workers,
         \A d \in Clients \ {c} :
           /\ UNCHANGED <<pc[d], op[d], at[d], made[d]>>
           /\ pc[d] = "check" => res'[at[d]] = res[at[d]],
         Known' \subseteq Known \cup {CallId(c)'}, denied' \subseteq denied \cup {CallId(c)'},
         NEW i \in Lost(w)', i # CallId(c)'
  PROVE  i \in Lost(w)
  <1>1. i \in Known /\ i[1] \in Clients /\ i[1] \in OnlyOn(w)
    BY DEF Lost, OnlyOn
  <1>2. CASE i \in denied'
    BY <1>1, <1>2 DEF Lost
  <1>3. CASE i \notin denied'
    <2>1. Denies(i[1])' /\ i = CallId(i[1])'
      BY <1>3 DEF Lost
    <2>2. i[1] # c
      BY <2>1
    <2>3. Denies(i[1]) /\ CallId(i[1])' = CallId(i[1])
      BY <1>1, <2>1, <2>2 DEF Denies, CallId
    <2> QED BY <1>1, <2>1, <2>3 DEF Lost
  <1> QED BY <1>2, <1>3

LEMMA LostNext == IInv /\ CallsNumbered /\ LostOnce /\ [Next]_vars => LostOnce'
  <1> SUFFICES ASSUME IInv, CallsNumbered, LostOnce, [Next]_vars PROVE LostOnce'
    OBVIOUS
  <1> USE DEF IInv
  <1> DEFINE Sound == {"null", "up", "broken"}
  <1>0. ASSUME \A w \in Workers : /\ Lost(w)' \subseteq Lost(w)
                                  /\ conn'[w] \in Sound => conn[w] \in Sound
                                  /\ life'[w] = "new" => life[w] = "new" /\ conn'[w] = conn[w]
        PROVE  LostOnce'
    BY <1>0 DEF LostOnce
  \* The statements stay as they are.
  <1>1. ASSUME UNCHANGED <<made, pc, op, at, res, denied>>, Known' = Known, NEW w
        PROVE  Lost(w)' = Lost(w)
    BY <1>1 DEF Lost, Denies, CallId
  <1>2. ASSUME NEW w \in Workers, InitWorker(w) PROVE LostOnce'
    <2>1. conn[w] = "null"
      BY <1>2 DEF InitWorker, LostOnce
    <2> QED BY <1>0, <1>1, <1>2, <2>1
            DEF InitWorker, serverVars, callVars, resultVars, Known, TypeOK, DataOK
  <1>3. ASSUME NEW w \in Workers, Destroy(w) PROVE LostOnce'
    BY <1>0, <1>1, <1>3
       DEF Destroy, serverVars, callVars, resultVars, Known, TypeOK, DataOK
  <1>4. ASSUME NEW w \in Workers, Break(w) PROVE LostOnce'
    <2>1. life[w] # "new"
      BY <1>4 DEF Break, LostOnce
    <2> QED BY <1>0, <1>1, <1>4, <2>1
            DEF Break, serverVars, callVars, resultVars, Known, TypeOK, DataOK
  <1>5. ASSUME NEW c \in Clients, NEW o \in Ops, NEW v \in Workers, Call(c, o, v)
        PROVE  LostOnce'
    <2>1. /\ made' = [made EXCEPT ![c] = @ + 1]
          /\ UNCHANGED <<conn, life, res, denied>> /\ Known' = Known
          /\ Apart(c)
      BY <1>5, StepApart DEF Call, serverVars, workerVars, resultVars, Known
    <2>2. CallId(c)' \notin Known
      <3> SUFFICES ASSUME CallId(c)' \in Known PROVE FALSE
        OBVIOUS
      <3>1. CallId(c)'[1] = c /\ CallId(c)'[2] = made[c] + 1 /\ made[c] \in Nat
        BY <2>1, PostgreAssumption DEF CallId, TypeOK, DataOK
      <3> QED BY <3>1 DEF CallsNumbered
    <2>3. ASSUME NEW w \in Workers PROVE Lost(w)' \subseteq Lost(w)
      <3>1. CallId(c)' \notin Lost(w)'
        BY <2>1, <2>2 DEF Lost
      <3> QED BY <2>1, <3>1, LostByStep DEF Apart
    <2> QED BY <1>0, <2>1, <2>3
  <1>6. ASSUME NEW c \in Clients, CallStep(c) PROVE LostOnce'
    <2>0. /\ Apart(c) /\ at' = at /\ CallId(c)' = CallId(c) /\ life' = life
          /\ DOMAIN pc = Clients /\ DOMAIN res = Workers
      BY <1>6, StepApart
         DEF CallStep, Lock, Send, ServerStep, ServeStatement, ServeQuery, ServeError, Serves,
             Receive, Miss, Check, Unlock, callVars, workerVars, CallId, TypeOK, DataOK
    <2>1. ASSUME Known' \subseteq Known \cup {CallId(c)}, denied' \subseteq denied \cup {CallId(c)},
                 res' = res \/ Inside(c), NEW w \in Workers, NEW i \in Lost(w)', i # CallId(c)
          PROVE  i \in Lost(w)
      <3>1. ASSUME NEW d \in Clients, d # c, pc[d] = "check" PROVE res'[at[d]] = res[at[d]]
        <4>1. CASE res' = res
          BY <4>1
        <4>2. CASE Inside(c)
          <5>1. at[d] \in Workers /\ at[d] # at[c]
            BY <3>1, <4>2, Exclusive, Called DEF Inside
          <5> QED BY <2>0, <5>1 DEF Apart
        <4> QED BY <2>1, <4>1, <4>2
      <3> QED BY <2>0, <2>1, <3>1, LostByStep DEF Apart
    \* What the step does to the caller's own statement decides.
    <2>2. ASSUME Known' \subseteq Known \cup {CallId(c)}, denied' \subseteq denied \cup {CallId(c)},
                 res' = res \/ Inside(c), conn' = conn,
                 \A w \in Workers : CallId(c) \in Lost(w)' => CallId(c) \in Lost(w)
          PROVE  LostOnce'
      BY <1>0, <2>0, <2>1, <2>2
    <2>3. CASE Lock(c)
      <3>1. /\ UNCHANGED <<conn, res, denied>> /\ Known' = Known
            /\ pc[c] = "lock" /\ pc'[c] = "send"
        BY <2>0, <2>3 DEF Lock, Goes, serverVars, resultVars, Known
      <3>2. CallId(c) \notin Known
        BY <3>1 DEF CallsNumbered, CallId
      <3> QED BY <2>2, <3>1, <3>2 DEF Lost
    <2>4. CASE Send(c)
      <3>1. UNCHANGED <<conn, denied>> /\ Known' = Known /\ pc[c] = "send"
        BY <2>4 DEF Send, Goes, serverVars, workerVars, Known
      <3>2. CallId(c) \notin Known
        BY <3>1 DEF CallsNumbered, CallId
      <3> QED BY <2>2, <3>1, <3>2 DEF Lost, Inside
    <2>5. CASE ServerStep(c)
      <3>1. /\ UNCHANGED <<conn, res, denied>> /\ Known' \subseteq Known \cup {CallId(c)}
            /\ pc[c] = "sent" /\ pc'[c] = "served"
        BY <2>0, <2>5 DEF ServerStep, ServeStatement, ServeQuery, ServeError, Serves, Goes,
                     workerVars, resultVars, Known, CallId
      <3>2. CallId(c) \notin denied /\ CallId(c)[1] = c
        BY <3>1 DEF CallsNumbered, CallId
      <3>3. \A w \in Workers : CallId(c) \notin Lost(w)'
        BY <3>1, <3>2 DEF Lost, Denies
      <3> QED BY <2>2, <3>1, <3>3
    <2>6. CASE Receive(c)
      <3>1. /\ UNCHANGED <<conn, op, denied>> /\ Known' = Known
            /\ pc[c] = "served" /\ res'[at[c]] = reply[c]
        BY <2>0, <2>6, Called
           DEF Receive, Goes, serverVars, callVars, workerVars, Known, TypeOK, DataOK
      <3>2. CallId(c) \notin denied /\ CallId(c)[1] = c
        BY <3>1 DEF CallsNumbered, CallId
      <3>3. ASSUME NEW w \in Workers, CallId(c) \in Lost(w)' PROVE FALSE
        <4>1. CallId(c) \in Known /\ op[c] = "exec" /\ reply[c] # True
          BY <2>0, <3>1, <3>2, <3>3 DEF Lost, Denies
        <4> QED BY <3>1, <4>1 DEF CallsNumbered
      <3> QED BY <2>2, <3>1, <3>3 DEF Inside
    <2>7. CASE Miss(c)
      <3>1. /\ pc[c] \in {"sent", "unsent", "served"}
            /\ conn' = [conn EXCEPT ![at[c]] = "bad"] /\ UNCHANGED denied
            /\ Known' \subseteq Known \cup {CallId(c)}
        BY <2>7 DEF Miss, Known, CallId
      <3>2. at[c] \in Workers /\ DOMAIN conn = Workers /\ life[at[c]] = "ready"
        BY <3>1, Called DEF TypeOK, DataOK, CalledReady
      <3>3. Lost(at[c]) = {}
        BY <3>1, <3>2 DEF CallsNumbered, LostOnce
      <3>4. ASSUME NEW w \in Workers, w # at[c] PROVE CallId(c) \notin Lost(w)'
        <4>1. <<op[c], at[c]>> \in CallsOf[c]
          BY <3>1 DEF TypeOK, CallFits
        <4>2. CallId(c)[1] = c /\ c \notin OnlyOn(w)
          BY <3>4, <4>1 DEF OnlyOn, CallId
        <4> QED BY <4>2 DEF Lost, OnlyOn
      <3>5. \A w \in Workers : \A i \in Lost(w)' : i # CallId(c) => i \in Lost(w)
        BY <2>1, <3>1 DEF Inside
      <3>6. \A w \in Workers : w = at[c] => \A i \in Lost(w)' : i = CallId(c)
        BY <3>2, <3>3, <3>5
      <3>7. \A w \in Workers : w # at[c] => Lost(w)' \subseteq Lost(w) /\ conn'[w] = conn[w]
        BY <3>1, <3>2, <3>4, <3>5
      <3>8. conn'[at[c]] = "bad"
        BY <3>1, <3>2
      <3> QED BY <2>0, <3>2, <3>6, <3>7, <3>8 DEF LostOnce
    <2>8. CASE Check(c)
      <3>1. /\ UNCHANGED <<conn, res>> /\ Known' = Known
            /\ pc[c] = "check" /\ pc'[c] = "unlock"
            /\ denied' = IF Denies(c) THEN denied \cup {CallId(c)} ELSE denied
        BY <2>0, <2>8 DEF Check, Goes, serverVars, workerVars, Known, Denies, CallId
      <3>2. CallId(c)[1] = c
        BY DEF CallId
      <3>3. \A w \in Workers : CallId(c) \in Lost(w)' => CallId(c) \in Lost(w)
        BY <3>1, <3>2 DEF Lost, Denies
      <3> QED BY <2>2, <3>1, <3>3
    <2>9. CASE Unlock(c)
      <3>1. /\ UNCHANGED <<conn, res, denied>> /\ Known' = Known /\ pc'[c] = "idle"
        BY <2>0, <2>9 DEF Unlock, Goes, serverVars, resultVars, Known
      <3>2. CallId(c)[1] = c
        BY DEF CallId
      <3>3. \A w \in Workers : CallId(c) \in Lost(w)' => CallId(c) \in Lost(w)
        BY <3>1, <3>2 DEF Lost, Denies
      <3> QED BY <2>2, <3>1, <3>3
    <2> QED BY <1>6, <2>3, <2>4, <2>5, <2>6, <2>7, <2>8, <2>9 DEF CallStep
  <1>7. ASSUME NEW i \in Ids, ApplyLate(i) PROVE LostOnce'
    BY <1>0, <1>1, <1>7 DEF ApplyLate, callVars, workerVars, resultVars, Known
  <1>8. CASE UNCHANGED vars
    BY <1>0, <1>1, <1>8 DEF vars, Known
  <1> QED BY <1>2, <1>3, <1>4, <1>5, <1>6, <1>7, <1>8 DEF Next

\* At most one statement of the clients of one worker was answered "false"
\* and is in the table all the same, or may still get there: the answer of
\* PQexec() is lost once in the life of a connection.
THEOREM DoubtsAreFew == Spec => []OneInDoubt
  <1>1. IInv /\ LostOnce => OneInDoubt
    <2> SUFFICES ASSUME IInv, LostOnce, NEW i \in Known \cap denied, NEW j \in Known \cap denied,
                        NEW w \in Workers, CallsOf[i[1]] \cup CallsOf[j[1]] \subseteq Ops \X {w}
                 PROVE  i = j
      BY DEF OneInDoubt, Known
    <2>1. i[1] \in Clients /\ j[1] \in Clients
      BY KnownAreCalls DEF IInv
    <2>2. i \in Lost(w) /\ j \in Lost(w)
      BY <2>1 DEF Lost, OnlyOn
    <2> QED BY <2>2 DEF LostOnce
  <1>2. Spec => [](CallsNumbered /\ LostOnce)
    BY DoubtInit, NumbersNext, LostNext, Invariance, PTL DEF Spec
  <1> QED BY <1>1, <1>2, Invariance, PTL

-----------------------------------------------------------------------------
(* The refinement.                                                         *)

Stays(d) == /\ UNCHANGED <<pc[d], op[d], at[d], reply[d], result[d]>>
            /\ pc[d] = "check" => res'[at[d]] = res[at[d]]

LEMMA AreFunctions ==
  /\ phase  = [d \in Clients |-> phase[d]]  /\ phase'  = [d \in Clients |-> phase'[d]]
  /\ answer = [d \in Clients |-> answer[d]] /\ answer' = [d \in Clients |-> answer'[d]]
  BY DEF phase, answer

\* A step of one client is seen at this client only.
LEMMA OneMoves ==
  ASSUME NEW c \in Clients, \A d \in Clients \ {c} : Stays(d)
  PROVE  /\ phase'  = [phase  EXCEPT ![c] = phase'[c]]
         /\ answer' = [answer EXCEPT ![c] = answer'[c]]
  <1>1. \A d \in Clients \ {c} : phase'[d] = phase[d] /\ answer'[d] = answer[d]
    BY DEF Stays, phase, answer
  <1> QED BY <1>1, AreFunctions

\* The other clients do not see what a client does.
LEMMA OthersStay ==
  ASSUME IInv, NEW c \in Clients, NEW d \in Clients \ {c},
         CallStep(c) \/ \E o \in Ops, w \in Workers : Call(c, o, w)
  PROVE  Stays(d)
  <1>0. DataOK /\ TypeOK
    BY DEF IInv, TypeOK
  <1>1. UNCHANGED <<pc[d], op[d], at[d], reply[d], result[d]>>
    BY <1>0 DEF DataOK, CallStep, Call, Lock, Send, ServerStep, ServeStatement, ServeQuery,
                ServeError, Serves, Receive, Miss, Check, Unlock, Goes, callVars
  <1>2. CASE Inside(c)
    <2>1. pc[d] = "check" => at[d] # at[c]
      BY <1>0, <1>2, Exclusive DEF Inside
    <2>2. pc[d] = "check" => at[d] \in Workers
      BY <1>0, Called
    <2>3. res' = res \/ \E r : res' = [res EXCEPT ![at[c]] = r]
      BY DEF CallStep, Call, Lock, Send, ServerStep, ServeStatement, ServeQuery,
             ServeError, Serves, Receive, Miss, Check, Unlock, resultVars
    <2> QED BY <1>0, <1>1, <2>1, <2>2, <2>3 DEF Stays, DataOK
  <1>3. CASE ~Inside(c)
    <2>1. res' = res
      BY <1>3 DEF Inside, CallStep, Call, Lock, Send, ServerStep, ServeStatement, ServeQuery,
             ServeError, Serves, Receive, Miss, Check, Unlock, Goes, resultVars
    <2> QED BY <1>1, <2>1 DEF Stays
  <1> QED BY <1>2, <1>3

\* What a call makes of each answer.
LEMMA Evaluations ==
  /\ \A S : Evaluated("exec", Answer("rows", S)) = False
  /\ Evaluated("exec", True) = True
  /\ Evaluated("exec", Bad) = False /\ Evaluated("exec", NoResult) = False
  /\ \A o \in Ops \ {"exec"} : /\ Evaluated(o, Bad) = Nothing
                              /\ Evaluated(o, NoResult) = Nothing
                              /\ \A r : r.kind = "rows" => Evaluated(o, r) = r
  BY DEF Evaluated, Answer, True, False, Bad, NoResult, Nothing, Ops

\* Steps between the server's answer and the caller.
StepsUnseen(c) == Lock(c) \/ Receive(c) \/ Check(c)

LEMMA StutterStep ==
  ASSUME IInv, NEW c \in Clients, StepsUnseen(c)
  PROVE  UNCHANGED ST!vars
  <1>0. DataOK /\ TypeOK
    BY DEF IInv, TypeOK
  <1>1. \A d \in Clients \ {c} : Stays(d)
    BY OthersStay DEF StepsUnseen, CallStep
  <1>2. UNCHANGED <<table, made, inDoubt>>
    BY DEF StepsUnseen, Lock, Receive, Check, serverVars, callVars
  <1>3. at[c] \in Workers
    BY <1>0, Called DEF StepsUnseen, Lock, Receive, Check, Goes
  <1>4. phase'[c] = phase[c] /\ answer'[c] = answer[c]
    <2>1. CASE Lock(c)
      BY <1>0, <2>1 DEF Lock, Goes, callVars, DataOK, phase, answer
    <2>2. CASE Receive(c)
      BY <1>0, <1>3, <2>2 DEF Receive, Goes, callVars, DataOK, phase, answer
    <2>3. CASE Check(c)
      BY <1>0, <1>3, <2>3 DEF Check, Goes, callVars, DataOK, phase, answer
    <2> QED BY <2>1, <2>2, <2>3 DEF StepsUnseen
  <1>5. phase' = phase /\ answer' = answer
    <2>1. phase' = [phase EXCEPT ![c] = phase'[c]] /\ answer' = [answer EXCEPT ![c] = answer'[c]]
      BY <1>1, OneMoves
    <2> QED BY <1>4, <2>1, AreFunctions
  <1> QED BY <1>2, <1>5 DEF ST!vars

LEMMA UnlockStep == ASSUME IInv, NEW c \in Clients, Unlock(c) PROVE ST!Return(c)
  <1>0. DataOK /\ TypeOK
    BY DEF IInv, TypeOK
  <1>1. \A d \in Clients \ {c} : Stays(d)
    BY OthersStay DEF CallStep
  <1>2. UNCHANGED <<table, made, inDoubt>>
    BY DEF Unlock, serverVars, callVars
  <1>3. phase[c] = "answered" /\ phase'[c] = "idle" /\ answer'[c] = ST!NoAnswer
    BY <1>0 DEF Unlock, Goes, DataOK, phase, answer, NoAnswer, Answer, ST!NoAnswer, ST!Answer
  <1> QED BY <1>1, <1>2, <1>3, OneMoves DEF ST!Return

LEMMA CallBegins ==
  ASSUME IInv, NEW c \in Clients, NEW o \in Ops, NEW w \in Workers, Call(c, o, w)
  PROVE  \E kind \in {"statement", "query"} : ST!Call(c, kind)
  <1>0. DataOK /\ TypeOK
    BY DEF IInv, TypeOK
  <1>1. \A d \in Clients \ {c} : Stays(d)
    BY OthersStay
  <1>2. made[c] < MaxCalls /\ made' = [made EXCEPT ![c] = @ + 1] /\ UNCHANGED <<table, inDoubt>>
    BY DEF Call, serverVars
  <1>3. /\ phase[c] = "idle" /\ phase'[c] = IF o = "exec" THEN "statement" ELSE "query"
        /\ answer'[c] = answer[c]
    BY <1>0 DEF Call, Goes, DataOK, phase, answer
  <1>4. answer' = answer
    BY <1>1, <1>3, OneMoves, AreFunctions
  <1> DEFINE kind == IF o = "exec" THEN "statement" ELSE "query"
  <1>5. ST!Call(c, kind)
    BY <1>1, <1>2, <1>3, <1>4, OneMoves DEF ST!Call
  <1> QED BY <1>5

\* The server has the statement or the query before it: the call takes effect.
LEMMA ServerSteps ==
  ASSUME IInv, NEW c \in Clients, ServerStep(c)
  PROVE  ST!Apply(c) \/ ST!Refuse(c) \/ ST!Look(c)
  <1>0. DataOK /\ TypeOK
    BY DEF IInv, TypeOK
  <1>1. \A d \in Clients \ {c} : Stays(d)
    BY OthersStay DEF CallStep
  <1>2. /\ pc[c] = "sent" /\ pc' = [pc EXCEPT ![c] = "served"]
        /\ op[c] \in Ops /\ UNCHANGED <<op, made, inDoubt>>
        /\ \E a : reply' = [reply EXCEPT ![c] = a]
    BY <1>0, Called DEF ServerStep, ServeStatement, ServeQuery, ServeError, Serves, Goes, callVars
  <1>3. /\ phase[c] = IF op[c] = "exec" THEN "statement" ELSE "query"
        /\ phase'[c] = "answered" /\ answer'[c] = Evaluated(op[c], reply'[c])
    BY <1>0, <1>2 DEF DataOK, phase, answer
  <1>4. phase' = [phase EXCEPT ![c] = "answered"] /\ answer' = [answer EXCEPT ![c] = answer'[c]]
    BY <1>1, <1>3, OneMoves
  <1>5. CASE ServeStatement(c)
    <2>1. reply'[c] = True /\ op[c] = "exec" /\ table' = table \cup {<<c, made[c]>>}
      BY <1>0, <1>5 DEF ServeStatement, Serves, DataOK
    <2>2. answer'[c] = ST!Answer("true", {})
      BY <1>3, <2>1, Evaluations DEF True, Answer, ST!Answer
    <2> QED BY <1>2, <1>3, <1>4, <2>1, <2>2 DEF ST!Apply, ST!Answers
  <1>6. CASE ServeQuery(c)
    <2>1. reply'[c] = Rows /\ op[c] # "exec" /\ UNCHANGED table
      BY <1>0, <1>6 DEF ServeQuery, Serves, DataOK
    <2>2. answer'[c] = ST!Answer("rows", table)
      BY <1>2, <1>3, <2>1, Evaluations DEF Rows, Answer, ST!Answer
    <2> QED BY <1>2, <1>3, <1>4, <2>1, <2>2 DEF ST!Look, ST!Answers
  <1>7. CASE ServeError(c)
    <2>1. reply'[c] = Bad /\ UNCHANGED table
      BY <1>0, <1>7 DEF ServeError, Serves, DataOK
    <2>2. answer'[c] = IF op[c] = "exec" THEN ST!Answer("false", {}) ELSE ST!Answer("nothing", {})
      BY <1>2, <1>3, <2>1, Evaluations DEF False, Nothing, Answer, ST!Answer
    <2> QED BY <1>2, <1>3, <1>4, <2>1, <2>2 DEF ST!Look, ST!Refuse, ST!Answers
  <1> QED BY <1>5, <1>6, <1>7 DEF ServerStep

\* A connection known to be bad.
LEMMA SendStep ==
  ASSUME IInv, NEW c \in Clients, Send(c)
  PROVE  ST!Refuse(c) \/ ST!Look(c) \/ UNCHANGED ST!vars
  <1>0. DataOK /\ TypeOK
    BY DEF IInv, TypeOK
  <1>1. \A d \in Clients \ {c} : Stays(d)
    BY OthersStay DEF CallStep
  <1>2. /\ pc[c] = "send" /\ op[c] \in Ops /\ at[c] \in Workers
        /\ UNCHANGED <<table, op, at, made, inDoubt, result>>
    BY <1>0, Called DEF Send, Goes, serverVars, callVars
  <1>3. phase[c] = IF op[c] = "exec" THEN "statement" ELSE "query"
    BY <1>2 DEF phase
  <1>4. CASE pc'[c] \in {"sent", "unsent"}
    <2>1. phase'[c] = phase[c] /\ answer'[c] = answer[c]
      BY <1>2, <1>3, <1>4 DEF phase, answer
    <2>2. phase' = phase /\ answer' = answer
      BY <1>1, <2>1, OneMoves, AreFunctions
    <2> QED BY <1>2, <2>2 DEF ST!vars
  <1>5. CASE pc'[c] = "check" /\ res'[at[c]] = NoResult
    <2>1. phase'[c] = "answered" /\ answer'[c] = Evaluated(op[c], NoResult)
      BY <1>2, <1>5 DEF phase, answer
    <2>2. answer'[c] = IF op[c] = "exec" THEN ST!Answer("false", {}) ELSE ST!Answer("nothing", {})
      BY <1>2, <2>1, Evaluations DEF False, Nothing, Answer, ST!Answer
    <2>3. phase' = [phase EXCEPT ![c] = "answered"] /\ answer' = [answer EXCEPT ![c] = answer'[c]]
      BY <1>1, <2>1, OneMoves
    <2> QED BY <1>2, <1>3, <2>2, <2>3 DEF ST!Look, ST!Refuse, ST!Answers
  <1> QED BY <1>0, <1>2, <1>4, <1>5 DEF Send, Goes, DataOK

\* The connection breaks under a call.
LEMMA MissStep ==
  ASSUME IInv, NEW c \in Clients, Miss(c)
  PROVE  ST!Refuse(c) \/ ST!Look(c) \/ ST!Lose(c) \/ UNCHANGED ST!vars
  <1>0. DataOK /\ TypeOK /\ RepliesFit
    BY DEF IInv, TypeOK
  <1>1. \A d \in Clients \ {c} : Stays(d)
    BY OthersStay DEF CallStep
  <1>2. /\ op[c] \in Ops /\ at[c] \in Workers /\ UNCHANGED <<table, op, at, made>>
        /\ pc[c] \in {"sent", "unsent", "served"} /\ pc'[c] = "check" /\ res'[at[c]] = Bad
    BY <1>0, Called DEF Miss, DataOK, callVars
  <1>3. phase'[c] = "answered" /\ answer'[c] = Evaluated(op[c], Bad)
    BY <1>2 DEF phase, answer
  <1>4. answer'[c] = IF op[c] = "exec" THEN ST!Answer("false", {}) ELSE ST!Answer("nothing", {})
    BY <1>2, <1>3, Evaluations DEF False, Nothing, Answer, ST!Answer
  <1>5. phase' = [phase EXCEPT ![c] = "answered"] /\ answer' = [answer EXCEPT ![c] = answer'[c]]
    BY <1>1, <1>3, OneMoves
  <1>6. CASE pc[c] \in {"sent", "unsent"}
    <2>1. phase[c] = IF op[c] = "exec" THEN "statement" ELSE "query"
      BY <1>6 DEF phase
    <2>2. \/ UNCHANGED inDoubt
          \/ op[c] = "exec" /\ inDoubt' = inDoubt \cup {<<c, made[c]>>}
      BY DEF Miss
    <2> QED BY <1>2, <1>4, <1>5, <2>1, <2>2 DEF ST!Look, ST!Refuse, ST!Answers
  <1>7. CASE pc[c] = "served"
    <2>1. phase[c] = "answered" /\ answer[c] = Evaluated(op[c], reply[c]) /\ UNCHANGED inDoubt
      BY <1>7 DEF Miss, phase, answer
    <2>2. CASE reply[c] = Bad
      <3>1. phase' = phase /\ answer' = answer
        BY <1>3, <1>5, <2>1, <2>2, AreFunctions
      <3> QED BY <1>2, <2>1, <3>1 DEF ST!vars
    <2>3. CASE op[c] = "exec" /\ reply[c] = True
      <3>1. answer[c].kind = "true"
        BY <2>1, <2>3, Evaluations DEF True, Answer
      <3> QED BY <1>2, <1>4, <1>5, <2>1, <2>3, <3>1 DEF ST!Lose, ST!Answers
    <2>4. CASE op[c] # "exec" /\ reply[c].kind = "rows"
      <3>1. answer[c].kind = "rows"
        BY <1>2, <2>1, <2>4, Evaluations
      <3> QED BY <1>2, <1>4, <1>5, <2>1, <2>4, <3>1 DEF ST!Lose, ST!Answers
    <2> QED BY <1>0, <1>7, <2>2, <2>3, <2>4 DEF RepliesFit
  <1> QED BY <1>2, <1>6, <1>7

\* What happens to a worker or in the server without a call.
LEMMA OutsideStep ==
  ASSUME UNCHANGED <<pc, op, at, reply, result, res>>
  PROVE  phase' = phase /\ answer' = answer
  BY DEF phase, answer

LEMMA StepRefines == IInv /\ [Next]_vars => [ST!Next]_(ST!vars)
  <1> SUFFICES ASSUME IInv, [Next]_vars PROVE [ST!Next]_(ST!vars)
    OBVIOUS
  <1>1. ASSUME NEW w \in Workers, InitWorker(w) \/ Destroy(w) \/ Break(w)
        PROVE  UNCHANGED ST!vars
    BY <1>1, OutsideStep DEF InitWorker, Destroy, Break, serverVars, callVars, resultVars, ST!vars
  <1>2. ASSUME NEW c \in Clients, NEW o \in Ops, NEW w \in Workers, Call(c, o, w)
        PROVE  ST!Next
    BY <1>2, CallBegins DEF ST!Next
  <1>3. ASSUME NEW c \in Clients, CallStep(c) PROVE [ST!Next]_(ST!vars)
    BY <1>3, StutterStep, UnlockStep, ServerSteps, SendStep, MissStep
    DEF CallStep, StepsUnseen, ST!Next
  <1>4. ASSUME NEW i \in Ids, ApplyLate(i) PROVE ST!Next
    <2>1. ST!ApplyLate(i)
      BY <1>4, OutsideStep DEF ApplyLate, callVars, resultVars, ST!ApplyLate
    <2> QED BY <2>1 DEF ST!Next, ST!Ids, Ids
  <1>5. CASE UNCHANGED vars
    BY <1>5, OutsideStep DEF vars, ST!vars
  <1> QED BY <1>1, <1>2, <1>3, <1>4, <1>5 DEF Next

LEMMA InitRefines == Init => ST!Init
  BY DEF Init, phase, answer, ST!Init, NoAnswer, Answer, ST!NoAnswer, ST!Answer

\* A call of a PostgreSQL worker takes effect at one moment; a statement that
\* was answered "true" was applied.
THEOREM WorkerImplements == Spec => ImplementsSqlTable
  BY InitRefines, StepRefines, Invariance, PTL DEF Spec, ImplementsSqlTable, ST!Spec

-----------------------------------------------------------------------------
(* What a caller may conclude from an answer.                              *)

\* A statement that is answered "true" is in the table, for good, and a read
\* is answered with nothing the table has not got.  A statement that may
\* still be applied has not been.
AnswersTell ==
  /\ \A c \in Clients :
       /\ answer[c].kind = "true" => <<c, made[c]>> \in table
       /\ answer[c].kind = "rows" => answer[c].rows \subseteq table
  /\ table \cap inDoubt = {}

\* The server has statements of calls that were made, and not the one a client
\* is still waiting for; who waits for no answer has none.
CallsTold ==
  /\ AnswersTell
  /\ \A i \in Known : i[2] <= made[i[1]]
  /\ \A c \in Clients : phase[c] = "statement" => <<c, made[c]>> \notin Known
  /\ \A c \in Clients : phase[c] # "answered" => answer[c] = ST!NoAnswer

\* The table changes by one statement at a time: one that a client is waiting
\* for, or one that was left in doubt when its connection broke.
TableGrows ==
  \/ table' = table
  \/ \E c \in Clients : pc[c] = "sent" /\ op[c] = "exec" /\ table' = table \cup {CallId(c)}
  \/ \E i \in inDoubt : i \notin inDoubt' /\ table' = table \cup {i}

LEMMA ToldInit == Init => CallsTold
  <1>1. Init => \A c \in Clients : answer[c] = ST!NoAnswer /\ phase[c] = "idle"
    <2>1. ASSUME Init, NEW c \in Clients PROVE pc[c] = "idle" /\ result[c] = NoAnswer
      BY <2>1 DEF Init
    <2>2. NoAnswer = ST!NoAnswer
      BY DEF NoAnswer, Answer, ST!NoAnswer, ST!Answer
    <2> QED BY <2>1, <2>2 DEF phase, answer
  <1>2. ST!NoAnswer.kind = "none"
    BY DEF ST!NoAnswer, ST!Answer
  <1> QED BY <1>1, <1>2 DEF Init, CallsTold, AnswersTell, Known

\* A step that answers client c, or takes its answer away; a statement it was
\* waiting for may come to the table or into doubt.
LEMMA ToldAnswer ==
  ASSUME TypeOK, CallsTold, NEW c \in Clients, NEW a, ST!Answers(c, a),
         \/ UNCHANGED <<table, inDoubt>> /\ a.kind # "true"
         \/ /\ phase[c] = "statement" /\ table' = table \cup {<<c, made[c]>>}
            /\ inDoubt' = inDoubt
         \/ /\ phase[c] = "statement" /\ inDoubt' = inDoubt \cup {<<c, made[c]>>}
            /\ table' = table /\ a.kind # "true",
         a.kind = "rows" => a.rows \subseteq table
  PROVE  CallsTold'
  <1>0. made \in [Clients -> 0..MaxCalls] /\ MaxCalls \in Nat
    BY PostgreAssumption DEF TypeOK, DataOK
  <1>1. /\ made' = made
        /\ \A d \in Clients : /\ phase'[d] = IF d = c THEN "answered" ELSE phase[d]
                              /\ answer'[d] = IF d = c THEN a ELSE answer[d]
    BY AreFunctions DEF ST!Answers
  <1>2. table \subseteq table' /\ Known' \subseteq Known \cup {<<c, made[c]>>}
    BY DEF Known
  <1>3. AnswersTell'
    BY <1>1, <1>2 DEF CallsTold, AnswersTell, Known
  <1>4. (\A i \in Known : i[2] <= made[i[1]])'
    BY <1>0, <1>1, <1>2 DEF CallsTold
  <1> QED BY <1>1, <1>2, <1>3, <1>4 DEF CallsTold

LEMMA ToldNext == IInv /\ CallsTold /\ [ST!Next]_(ST!vars) => CallsTold'
  <1> SUFFICES ASSUME IInv, CallsTold, [ST!Next]_(ST!vars) PROVE CallsTold'
    OBVIOUS
  <1>0. TypeOK /\ made \in [Clients -> 0..MaxCalls] /\ MaxCalls \in Nat
    BY PostgreAssumption DEF IInv, TypeOK, DataOK
  <1>1. ASSUME NEW c \in Clients, NEW kind \in {"statement", "query"}, ST!Call(c, kind)
        PROVE  CallsTold'
    <2>1. /\ table' = table /\ inDoubt' = inDoubt /\ answer' = answer
          /\ \A d \in Clients : /\ made'[d] = IF d = c THEN made[d] + 1 ELSE made[d]
                                /\ phase'[d] = IF d = c THEN kind ELSE phase[d]
      BY <1>0, <1>1, AreFunctions DEF ST!Call
    <2>2. answer[c] = ST!NoAnswer /\ answer[c].kind = "none"
      BY <1>1 DEF ST!Call, CallsTold, ST!NoAnswer, ST!Answer
    <2>3. \A i \in Known : i[1] \in Clients /\ i[2] \in Nat
      BY <1>0, KnownAreCalls
    <2>4. <<c, made[c] + 1>> \notin Known
      BY <1>0 DEF CallsTold
    <2>5. AnswersTell'
      BY <2>1, <2>2 DEF CallsTold, AnswersTell
    <2>6. Known' = Known
      BY <2>1 DEF Known
    <2>7. (\A i \in Known : i[2] <= made[i[1]])'
      BY <1>0, <2>1, <2>3, <2>6 DEF CallsTold
    <2>8. \A d \in Clients : /\ phase'[d] = "statement" => <<d, made'[d]>> \notin Known'
                             /\ phase'[d] # "answered" => answer'[d] = ST!NoAnswer
      BY <2>1, <2>2, <2>4, <2>6 DEF CallsTold
    <2> QED BY <2>5, <2>7, <2>8 DEF CallsTold
  <1>2. ASSUME NEW c \in Clients, ST!Apply(c) PROVE CallsTold'
    BY <1>0, <1>2, ToldAnswer DEF ST!Apply, ST!Answer
  <1>3. ASSUME NEW c \in Clients, ST!Refuse(c) PROVE CallsTold'
    BY <1>0, <1>3, ToldAnswer DEF ST!Refuse, ST!Answer
  <1>4. ASSUME NEW c \in Clients, ST!Look(c) PROVE CallsTold'
    BY <1>0, <1>4, ToldAnswer DEF ST!Look, ST!Answer
  <1>5. ASSUME NEW c \in Clients, ST!Lose(c) PROVE CallsTold'
    BY <1>0, <1>5, ToldAnswer DEF ST!Lose, ST!Answer
  <1>6. ASSUME NEW c \in Clients, ST!Return(c) PROVE CallsTold'
    <2>1. /\ table' = table /\ inDoubt' = inDoubt /\ made' = made
          /\ \A d \in Clients : /\ answer'[d] = IF d = c THEN ST!NoAnswer ELSE answer[d]
                                /\ phase'[d] = IF d = c THEN "idle" ELSE phase[d]
      BY <1>6, AreFunctions DEF ST!Return
    <2>2. ST!NoAnswer.kind = "none"
      BY DEF ST!NoAnswer, ST!Answer
    <2> QED BY <2>1, <2>2 DEF CallsTold, AnswersTell, Known
  <1>7. ASSUME NEW i \in ST!Ids, ST!ApplyLate(i) PROVE CallsTold'
    <2>1. /\ i \in inDoubt /\ table' = table \cup {i} /\ inDoubt' = inDoubt \ {i}
          /\ UNCHANGED <<made, phase, answer>>
      BY <1>7 DEF ST!ApplyLate
    <2>2. Known' = Known
      BY <2>1 DEF Known
    <2> QED BY <2>1, <2>2 DEF CallsTold, AnswersTell
  <1>8. CASE UNCHANGED ST!vars
    BY <1>8 DEF ST!vars, CallsTold, AnswersTell, Known
  <1> QED BY <1>1, <1>2, <1>3, <1>4, <1>5, <1>6, <1>7, <1>8 DEF ST!Next

\* A "true" of a PostgreSQL worker may be taken at its word, and so may rows,
\* however often the connection breaks.
THEOREM AnswersAreHonest == Spec => []AnswersTell
  <1>1. CallsTold => AnswersTell
    BY DEF CallsTold
  <1> QED BY <1>1, ToldInit, ToldNext, StepRefines, Invariance, PTL DEF Spec

\* No statement leaves the table, and each one that enters it was waited for
\* or in doubt.
THEOREM TableOnlyGrows == Spec => [][TableGrows]_vars
  <1>1. ASSUME Next PROVE TableGrows
    <2>1. ASSUME NEW c \in Clients, ServeStatement(c) PROVE TableGrows
      BY <2>1 DEF ServeStatement, Serves, Goes, CallId, TableGrows
    <2>2. ASSUME NEW i \in Ids, ApplyLate(i) PROVE TableGrows
      BY <2>2 DEF ApplyLate, TableGrows
    <2>3. ASSUME NEW c \in Clients,
                 \/ \E o \in Ops, w \in Workers : Call(c, o, w)
                 \/ Lock(c) \/ Send(c) \/ ServeQuery(c) \/ ServeError(c) \/ Receive(c)
                 \/ Miss(c) \/ Check(c) \/ Unlock(c)
          PROVE  table' = table
      BY <2>3 DEF Call, Lock, Send, ServeQuery, ServeError, Receive, Miss, Check, Unlock,
                  serverVars
    <2>4. ASSUME NEW w \in Workers, InitWorker(w) \/ Destroy(w) \/ Break(w)
          PROVE  table' = table
      BY <2>4 DEF InitWorker, Destroy, Break, serverVars
    <2> QED BY <1>1, <2>1, <2>2, <2>3, <2>4 DEF Next, CallStep, ServerStep, TableGrows
  <1> QED BY <1>1, PTL DEF Spec

=============================================================================
