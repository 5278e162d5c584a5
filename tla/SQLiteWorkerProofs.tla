------------------------- MODULE SQLiteWorkerProofs -------------------------
(***************************************************************************)
(* What SQLiteWorker guarantees for every set of threads, processes and    *)
(* workers that share a file.                                              *)
(***************************************************************************)
EXTENDS SQLiteWorker, FiniteSetTheorems, TLAPS

Connected == {"begin", "reserve", "exclude", "commit", "prepare", "step", "close"}

\* Who holds a mutex is inside a call of that worker.
HeldInside ==
  \A w \in Workers : mtx[w] # Free => Inside(mtx[w]) /\ at[mtx[w]] = w

\* A worker has a connection while a client is between Open and Close.
DbFits ==
  /\ \A w \in Workers : db[w] # Free => pc[db[w]] \in Connected /\ at[db[w]] = w
  /\ \A c \in Clients : pc[c] \in Connected => db[at[c]] = c

\* The operation and the lock fit the place.
PlaceFits(c) ==
  /\ pc[c] \in {"begin", "reserve", "exclude", "commit"} => op[c] = "exec"
  /\ pc[c] \in {"prepare", "step"} => op[c] # "exec"
  /\ lock[c] # "none" => pc[c] \in {"reserve", "exclude", "commit", "close"}

\* A connection is counted while it is open, and for ever when it was lost.
HandlesCounted == handles = failedOpens + Cardinality({w \in Workers : db[w] # Free})

IInv ==
  /\ TypeOK /\ HeldInside /\ DbFits
  /\ \A c \in Clients : PlaceFits(c)
  /\ HandlesCounted

-----------------------------------------------------------------------------
LEMMA AnswerTypes ==
  /\ \A S \in SUBSET Ids : Answer("rows", S) \in AnswerType
  /\ {NoAnswer, False, Nothing, Undefined, Answer("true", {})} \subseteq AnswerType
  BY DEF Answer, AnswerType, NoAnswer, False, Nothing, Undefined

LEMMA InitInv == Init => IInv
  <1> SUFFICES ASSUME Init PROVE IInv
    OBVIOUS
  <1> USE DEF Init
  <1>1. TypeOK
    BY SQLiteAssumption, AnswerTypes DEF TypeOK, DataOK, CallFits, Inside, Places
  <1>2. HeldInside /\ DbFits /\ \A c \in Clients : PlaceFits(c)
    BY DEF HeldInside, DbFits, PlaceFits, Connected
  <1>3. HandlesCounted
    <2>1. {w \in Workers : db[w] # Free} = {}
      OBVIOUS
    <2> QED BY <2>1, FS_EmptySet DEF HandlesCounted
  <1> QED BY <1>1, <1>2, <1>3 DEF IInv

\* A client in a call calls a worker.
LEMMA Called ==
  ASSUME TypeOK, NEW c \in Clients, pc[c] # "idle"
  PROVE  at[c] \in Workers /\ op[c] \in Ops /\ <<c, made[c]>> \in Ids
  <1>1. <<op[c], at[c]>> \in CallsOf[c] /\ made[c] # 0 /\ made[c] \in 0..MaxCalls
    BY DEF TypeOK, CallFits, DataOK
  <1>2. CallsOf[c] \subseteq Ops \X Workers /\ MaxCalls \in Nat
    BY SQLiteAssumption
  <1>3. at[c] \in Workers /\ op[c] \in Ops
    BY <1>1, <1>2
  <1>4. made[c] \in 1..MaxCalls
    BY <1>1, <1>2
  <1> QED BY <1>3, <1>4 DEF Ids

LEMMA Exclusive ==
  ASSUME TypeOK, NEW c \in Clients, NEW d \in Clients,
         Inside(c), Inside(d), at[c] = at[d]
  PROVE  c = d
  BY DEF TypeOK, CallFits

\* The steps of a call after it has begun.
InCall(c) ==
  Lock(c) \/ Open(c) \/ FailToOpen(c) \/ ExecStep(c) \/ ExecFails(c) \/ Commit(c)
    \/ Prepare(c) \/ Step(c) \/ Close(c) \/ Unlock(c)

LEMMA DataNext == TypeOK /\ HandlesCounted /\ [Next]_vars => DataOK'
  <1> SUFFICES ASSUME TypeOK, HandlesCounted, [Next]_vars PROVE DataOK'
    OBVIOUS
  <1> USE SQLiteAssumption DEF DataOK, Places
  <1>0. DataOK
    BY DEF TypeOK
  <1>1. ASSUME NEW c \in Clients, NEW o \in Ops, NEW w \in Workers, Call(c, o, w)
        PROVE  DataOK'
    BY <1>0, <1>1 DEF Call, Goes
  <1>2. ASSUME NEW c \in Clients, Lock(c) PROVE DataOK'
    BY <1>0, <1>2 DEF Lock, Goes, callVars
  <1>3. ASSUME NEW c \in Clients, Open(c) PROVE DataOK'
    <2>1. pc' \in [Clients -> Places]
      BY <1>0, <1>3 DEF Open, Goes
    <2>2. UNCHANGED <<table, made, op, at, result, mtx, lock, failedOpens>>
      BY <1>3 DEF Open, callVars
    <2>3. db' \in [Workers -> Clients \cup {Free}] /\ handles' \in Nat
      <3>1. db' = [db EXCEPT ![at[c]] = c] /\ handles' = handles + 1
        BY <1>3 DEF Open
      <3>2. db \in [Workers -> Clients \cup {Free}] /\ handles \in Nat
        BY <1>0
      <3> HIDE DEF DataOK
      <3>3. db' \in [Workers -> Clients \cup {Free}]
        BY <3>1, <3>2
      <3>4. handles' \in Nat
        BY <3>1, <3>2
      <3> QED BY <3>3, <3>4
    <2> QED BY <1>0, <2>1, <2>2, <2>3
  <1>4. ASSUME NEW c \in Clients, FailToOpen(c) PROVE DataOK'
    BY <1>0, <1>4, AnswerTypes DEF FailToOpen, Goes, callVars
  <1>5. ASSUME NEW c \in Clients, ExecStep(c) PROVE DataOK'
    BY <1>0, <1>5, AnswerTypes DEF ExecStep, Climb, Goes, callVars
  <1>5a. ASSUME NEW c \in Clients, ExecFails(c) PROVE DataOK'
    BY <1>0, <1>5a, AnswerTypes DEF ExecFails, Goes, callVars
  <1>6. ASSUME NEW c \in Clients, Commit(c) PROVE DataOK'
    BY <1>0, <1>6, AnswerTypes, Called DEF Commit, Goes, callVars
  <1>7. ASSUME NEW c \in Clients, Prepare(c) PROVE DataOK'
    BY <1>0, <1>7, AnswerTypes DEF Prepare, Goes, callVars
  <1>8. ASSUME NEW c \in Clients, Step(c) PROVE DataOK'
    BY <1>0, <1>8, AnswerTypes DEF Step, Goes, callVars
  <1>9. ASSUME NEW c \in Clients, Close(c) PROVE DataOK'
    <2>1. at[c] \in Workers
      BY <1>9, Called DEF Close, Goes
    <2>2. ASSUME db[at[c]] # Free PROVE handles - 1 \in Nat
      <3> DEFINE InUse == {w \in Workers : db[w] # Free}
      <3>1. IsFiniteSet(InUse) /\ InUse # {}
        BY <2>1, <2>2, FS_Subset
      <3>2. Cardinality(InUse) \in Nat /\ Cardinality(InUse) # 0
        BY <3>1, FS_CardinalityType, FS_EmptySet
      <3> QED BY <1>0, <3>2 DEF HandlesCounted
    <2> QED BY <1>0, <1>9, <2>2 DEF Close, Goes, callVars
  <1>10. ASSUME NEW c \in Clients, Unlock(c) PROVE DataOK'
    BY <1>0, <1>10, AnswerTypes DEF Unlock, Goes, callVars
  <1>11. CASE UNCHANGED vars
    BY <1>0, <1>11 DEF vars
  <1> QED
    BY <1>1, <1>2, <1>3, <1>4, <1>5, <1>5a, <1>6, <1>7, <1>8, <1>9, <1>10, <1>11
    DEF Next, CallStep, AllDone

-----------------------------------------------------------------------------
(* Who is where.                                                           *)

\* The steps between lock and unlock change nothing about who calls whom.
GoesOn(c) ==
  /\ UNCHANGED <<mtx, op, at, made>>
  /\ \E p \in Places \ {"idle", "lock"} : pc' = [pc EXCEPT ![c] = p]

LEMMA InsideSteps ==
  ASSUME NEW c \in Clients,
         Open(c) \/ FailToOpen(c) \/ ExecStep(c) \/ ExecFails(c) \/ Commit(c) \/ Prepare(c)
           \/ Step(c) \/ Close(c)
  PROVE  Inside(c) /\ GoesOn(c)
  BY DEF Inside, GoesOn, Open, FailToOpen, ExecStep, ExecFails, Climb, Commit, Prepare, Step, Close, Goes,
         callVars, Places

LEMMA HeldNext == IInv /\ [Next]_vars => HeldInside' /\ (\A c \in Clients : CallFits(c))'
  <1> SUFFICES ASSUME IInv, [Next]_vars
               PROVE  HeldInside' /\ (\A c \in Clients : CallFits(c))'
    OBVIOUS
  <1> DEFINE Goal == HeldInside' /\ (\A c \in Clients : CallFits(c))'
  <1>0. TypeOK /\ DataOK /\ HeldInside /\ \A c \in Clients : CallFits(c)
    BY DEF IInv, TypeOK
  <1> USE SQLiteAssumption DEF DataOK, HeldInside, CallFits, Inside
  <1>1. ASSUME NEW c \in Clients, NEW o \in Ops, NEW w \in Workers, Call(c, o, w)
        PROVE  Goal
    <2>1. HeldInside'
      BY <1>0, <1>1 DEF Call, Goes
    <2>2. (\A d \in Clients : CallFits(d))'
      BY <1>0, <1>1 DEF Call, Goes
    <2> QED BY <2>1, <2>2
  <1>2. ASSUME NEW c \in Clients, Lock(c) PROVE Goal
    <2> at[c] \in Workers
      BY <1>0, <1>2, Called DEF Lock, Goes
    <2>1. HeldInside'
      BY <1>0, <1>2 DEF Lock, Goes, callVars
    <2>2. ASSUME NEW d \in Clients PROVE CallFits(d)'
      <3>1. mtx[at[c]] = Free /\ Free \notin Clients /\ mtx' = [mtx EXCEPT ![at[c]] = c]
            /\ UNCHANGED <<op, at, made>>
        BY <1>2 DEF Lock, callVars
      <3>2. CASE d = c
        BY <1>0, <1>2, <3>1, <3>2 DEF Lock, Goes
      <3>3. CASE d # c
        <4>1. pc'[d] = pc[d]
          BY <1>0, <1>2, <3>3 DEF Lock, Goes
        <4>2. Inside(d)' => mtx[at[d]] = d /\ d # Free
          BY <1>0, <3>1, <4>1
        <4>2a. Inside(d)' => at[d] # at[c]
          BY <3>1, <4>2
        <4>3. Inside(d)' => mtx'[at[d]] = d
          BY <1>0, <3>1, <4>1, <4>2, <4>2a
        <4> QED BY <1>0, <3>1, <4>1, <4>3
      <3> QED BY <3>2, <3>3
    <2> QED BY <2>1, <2>2
  <1>3. ASSUME NEW c \in Clients, Inside(c), GoesOn(c) PROVE Goal
    <2>1. \A d \in Clients : /\ Inside(d) <=> Inside(d)'
                             /\ pc[d] = "idle" <=> pc'[d] = "idle"
      BY <1>0, <1>3 DEF GoesOn
    <2>2. HeldInside'
      BY <1>0, <2>1, <1>3 DEF GoesOn
    <2>3. ASSUME NEW d \in Clients PROVE CallFits(d)'
      BY <1>0, <2>1, <1>3 DEF GoesOn
    <2> QED BY <2>2, <2>3
  <1>4. ASSUME NEW c \in Clients, Unlock(c) PROVE Goal
    <2> at[c] \in Workers
      BY <1>0, <1>4, Called DEF Unlock, Goes
    <2>1. HeldInside'
      BY <1>0, <1>4 DEF Unlock, Goes, callVars
    <2>2. ASSUME NEW d \in Clients PROVE CallFits(d)'
      <3>1. pc'[d] # "idle" => pc[d] # "idle" /\ d # c
        BY <1>0, <1>4 DEF Unlock, Goes
      <3>2. Inside(d)' => Inside(d) /\ d # c /\ at[d] \in Workers
        BY <1>0, <1>4, Called DEF Unlock, Goes
      <3>3. mtx[at[c]] = c
        BY <1>0, <1>4 DEF Unlock, Goes
      <3>4. Inside(d)' => mtx[at[d]] = d /\ at[d] # at[c]
        BY <1>0, <3>2, <3>3
      <3>5. Inside(d)' => mtx'[at[d]] = mtx[at[d]]
        BY <1>0, <1>4, <3>2, <3>4 DEF Unlock
      <3> QED BY <1>0, <1>4, <3>1, <3>2, <3>5 DEF Unlock, callVars
    <2> QED BY <2>1, <2>2
  <1>5. CASE UNCHANGED vars
    BY <1>0, <1>5 DEF vars
  <1> QED BY <1>1, <1>2, <1>3, <1>4, <1>5, InsideSteps DEF Next, CallStep, AllDone

\* Each client's lock and operation fit its new place.
LEMMA PlacesNext == IInv /\ [Next]_vars => (\A c \in Clients : PlaceFits(c))'
  <1> SUFFICES ASSUME IInv, [Next]_vars, NEW d \in Clients PROVE PlaceFits(d)'
    OBVIOUS
  <1>0. DataOK /\ \A c \in Clients : PlaceFits(c)
    BY DEF IInv, TypeOK
  <1> USE DEF DataOK, PlaceFits
  <1>1. ASSUME NEW c \in Clients, NEW o \in Ops, NEW w \in Workers, Call(c, o, w)
        PROVE  PlaceFits(d)'
    BY <1>0, <1>1 DEF Call, Goes
  <1>2. ASSUME NEW c \in Clients, Lock(c) \/ Unlock(c) PROVE PlaceFits(d)'
    BY <1>0, <1>2 DEF Lock, Unlock, Goes, callVars
  <1>3. ASSUME NEW c \in Clients, Open(c) \/ FailToOpen(c) PROVE PlaceFits(d)'
    BY <1>0, <1>3 DEF Open, FailToOpen, Goes, callVars
  <1>4. ASSUME NEW c \in Clients, ExecStep(c) \/ ExecFails(c) PROVE PlaceFits(d)'
    BY <1>0, <1>4 DEF ExecStep, ExecFails, Climb, Goes, callVars
  <1>5. ASSUME NEW c \in Clients, Commit(c) \/ Close(c) PROVE PlaceFits(d)'
    BY <1>0, <1>5 DEF Commit, Close, Goes, callVars
  <1>6. ASSUME NEW c \in Clients, Prepare(c) \/ Step(c) PROVE PlaceFits(d)'
    BY <1>0, <1>6 DEF Prepare, Step, Goes, callVars
  <1>7. CASE UNCHANGED vars
    BY <1>0, <1>7 DEF vars
  <1> QED BY <1>1, <1>2, <1>3, <1>4, <1>5, <1>6, <1>7 DEF Next, CallStep, AllDone

-----------------------------------------------------------------------------
(* Connections.                                                            *)

\* A client that opens finds no connection at its worker, one that closes its
\* own.
LEMMA ConnectionsFit ==
  ASSUME IInv, NEW c \in Clients
  PROVE  /\ pc[c] = "open" => db[at[c]] = Free
         /\ pc[c] = "close" => db[at[c]] = c /\ c # Free
  <1>0. TypeOK /\ DataOK /\ DbFits
    BY DEF IInv, TypeOK
  <1>1. ASSUME pc[c] = "open", db[at[c]] # Free PROVE FALSE
    <2>1. at[c] \in Workers
      BY <1>0, <1>1, Called
    <2>2. db[at[c]] \in Clients /\ pc[db[at[c]]] \in Connected /\ at[db[at[c]]] = at[c]
      BY <1>0, <1>1, <2>1 DEF DataOK, DbFits
    <2>3. Inside(db[at[c]]) /\ Inside(c)
      BY <1>1, <2>2 DEF Inside, Connected
    <2>4. db[at[c]] = c
      BY <1>0, <2>2, <2>3, Exclusive
    <2> QED BY <1>1, <2>2, <2>4 DEF Connected
  <1>2. ASSUME pc[c] = "close" PROVE db[at[c]] = c /\ c # Free
    BY <1>0, <1>2, SQLiteAssumption DEF DbFits, Connected
  <1> QED BY <1>1, <1>2

LEMMA DbNext == IInv /\ [Next]_vars => DbFits'
  <1> SUFFICES ASSUME IInv, [Next]_vars PROVE DbFits'
    OBVIOUS
  <1>0. TypeOK /\ DataOK /\ DbFits
    BY DEF IInv, TypeOK
  <1>a. \A c \in Clients : pc[c] \in Connected => at[c] \in Workers
    BY <1>0, Called DEF Connected
  <1>b. Free \notin Clients
    BY SQLiteAssumption
  <1>1. ASSUME NEW c \in Clients, NEW o \in Ops, NEW w \in Workers, Call(c, o, w)
        PROVE  DbFits'
    BY <1>0, <1>1 DEF Call, Goes, DataOK, DbFits, Connected
  <1>2. ASSUME db' = db, at' = at, NEW c \in Clients, NEW p, pc' = [pc EXCEPT ![c] = p],
               pc[c] \in Connected <=> p \in Connected
        PROVE  DbFits'
    BY <1>0, <1>2 DEF DataOK, DbFits
  <1>3. ASSUME NEW c \in Clients, Lock(c) \/ Unlock(c) \/ FailToOpen(c) PROVE DbFits'
    BY <1>2, <1>3 DEF Lock, Unlock, FailToOpen, Goes, callVars, Connected
  <1>4. ASSUME NEW c \in Clients,
               ExecStep(c) \/ ExecFails(c) \/ Commit(c) \/ Prepare(c) \/ Step(c)
        PROVE  DbFits'
    BY <1>2, <1>4 DEF ExecStep, ExecFails, Climb, Commit, Prepare, Step, Goes, callVars, Connected
  <1>5. ASSUME NEW c \in Clients, Open(c) PROVE DbFits'
    <2>1. /\ at[c] \in Workers /\ db[at[c]] = Free /\ at' = at
          /\ db' = [db EXCEPT ![at[c]] = c]
          /\ pc'[c] \in Connected /\ \A d \in Clients \ {c} : pc'[d] = pc[d]
      BY <1>0, <1>5, ConnectionsFit, Called DEF Open, Goes, callVars, DataOK, Connected
    <2>2. \A d \in Clients \ {c} : pc[d] \in Connected => at[d] # at[c]
      BY <1>0, <1>b, <2>1 DEF DbFits
    <2>3. \A w \in Workers : db'[w] # Free => pc'[db'[w]] \in Connected /\ at[db'[w]] = w
      <3>1. ASSUME NEW w \in Workers \ {at[c]}, db[w] # Free
            PROVE  pc'[db[w]] \in Connected /\ at[db[w]] = w
        <4>1. db[w] \in Clients /\ pc[db[w]] \in Connected /\ at[db[w]] = w
          BY <1>0, <3>1 DEF DataOK, DbFits
        <4> QED BY <2>1, <3>1, <4>1
      <3> QED BY <1>0, <2>1, <3>1 DEF DataOK
    <2>4. \A d \in Clients : pc'[d] \in Connected => db'[at[d]] = d
      BY <1>0, <1>a, <2>1, <2>2 DEF DataOK, DbFits
    <2> QED BY <2>1, <2>3, <2>4 DEF DbFits
  <1>6. ASSUME NEW c \in Clients, Close(c) PROVE DbFits'
    <2>1. /\ at[c] \in Workers /\ db[at[c]] = c /\ at' = at
          /\ db' = [db EXCEPT ![at[c]] = Free]
          /\ pc'[c] \notin Connected /\ \A d \in Clients \ {c} : pc'[d] = pc[d]
      BY <1>0, <1>6, ConnectionsFit, Called DEF Close, Goes, callVars, DataOK, Connected
    <2>2. \A w \in Workers : db'[w] # Free => pc'[db'[w]] \in Connected /\ at[db'[w]] = w
      <3>1. ASSUME NEW w \in Workers \ {at[c]}, db[w] # Free
            PROVE  pc'[db[w]] \in Connected /\ at[db[w]] = w
        <4>1. db[w] \in Clients \ {c} /\ pc[db[w]] \in Connected /\ at[db[w]] = w
          BY <1>0, <3>1 DEF DataOK, DbFits
        <4> QED BY <2>1, <4>1
      <3> QED BY <1>0, <2>1, <3>1 DEF DataOK
    <2>3. \A d \in Clients : pc'[d] \in Connected => db'[at[d]] = d
      <3>1. ASSUME NEW d \in Clients, pc'[d] \in Connected PROVE d # c /\ db[at[d]] = d
        BY <1>0, <2>1, <3>1 DEF DbFits
      <3> QED BY <1>0, <1>a, <2>1, <3>1 DEF DataOK
    <2> QED BY <2>1, <2>2, <2>3 DEF DbFits
  <1>7. CASE UNCHANGED vars
    BY <1>0, <1>7 DEF vars, DbFits
  <1> QED BY <1>1, <1>3, <1>4, <1>5, <1>6, <1>7 DEF Next, CallStep, AllDone

LEMMA HandlesNext == IInv /\ [Next]_vars => HandlesCounted'
  <1> SUFFICES ASSUME IInv, [Next]_vars PROVE HandlesCounted'
    OBVIOUS
  <1> DEFINE Opened == {w \in Workers : db[w] # Free}
  <1>0. TypeOK /\ DataOK /\ handles = failedOpens + Cardinality(Opened)
    BY DEF IInv, TypeOK, HandlesCounted
  <1>a. IsFiniteSet(Opened) /\ Cardinality(Opened) \in Nat
    BY SQLiteAssumption, FS_Subset, FS_CardinalityType
  <1>1. CASE UNCHANGED <<db, handles, failedOpens>>
    BY <1>0, <1>1 DEF HandlesCounted
  <1>2. ASSUME NEW c \in Clients, Open(c) PROVE HandlesCounted'
    <2>1. at[c] \in Workers /\ at[c] \notin Opened
      BY <1>0, <1>2, ConnectionsFit, Called DEF Open, Goes
    <2>2. Opened' = Opened \cup {at[c]}
      BY <1>0, <1>2, <2>1, SQLiteAssumption DEF Open, DataOK
    <2>3. Cardinality(Opened') = Cardinality(Opened) + 1
      BY <1>a, <2>1, <2>2, FS_AddElement
    <2> QED BY <1>0, <1>2, <1>a, <2>3 DEF Open, HandlesCounted, DataOK
  <1>3. ASSUME NEW c \in Clients, Close(c) PROVE HandlesCounted'
    <2>1. at[c] \in Workers /\ at[c] \in Opened
      BY <1>0, <1>3, ConnectionsFit, Called DEF Close, Goes
    <2>2. Opened' = Opened \ {at[c]}
      BY <1>0, <1>3, <2>1 DEF Close, DataOK
    <2>3. Cardinality(Opened') = Cardinality(Opened) - 1
      BY <1>a, <2>1, <2>2, FS_RemoveElement
    <2> QED BY <1>0, <1>3, <1>a, <2>1, <2>3 DEF Close, HandlesCounted, DataOK
  <1>4. ASSUME NEW c \in Clients, FailToOpen(c) PROVE HandlesCounted'
    BY <1>0, <1>4, <1>a DEF FailToOpen, HandlesCounted, DataOK
  <1>5. ASSUME NEW c \in Clients,
               \/ \E o \in Ops, w \in Workers : Call(c, o, w)
               \/ Lock(c) \/ ExecStep(c) \/ ExecFails(c) \/ Commit(c) \/ Prepare(c)
               \/ Step(c) \/ Unlock(c)
        PROVE  UNCHANGED <<db, handles, failedOpens>>
    BY <1>5 DEF Call, Lock, ExecStep, ExecFails, Commit, Prepare, Step, Unlock
  <1>6. CASE UNCHANGED vars
    BY <1>1, <1>6 DEF vars
  <1> QED BY <1>1, <1>2, <1>3, <1>4, <1>5, <1>6 DEF Next, CallStep, AllDone

-----------------------------------------------------------------------------
(* Theorems.                                                               *)

LEMMA InvNext == IInv /\ [Next]_vars => IInv'
  <1> SUFFICES ASSUME IInv, [Next]_vars PROVE IInv'
    OBVIOUS
  <1>1. DataOK' /\ HeldInside' /\ (\A c \in Clients : CallFits(c))' /\ DbFits'
    BY DataNext, HeldNext, DbNext DEF IInv
  <1>2. (\A w \in Workers : db[w] # Free => mtx[w] = db[w])'
    <2> SUFFICES ASSUME NEW w \in Workers, db'[w] # Free PROVE mtx'[w] = db'[w]
      OBVIOUS
    <2>1. db'[w] \in Clients /\ pc'[db'[w]] \in Connected /\ at'[db'[w]] = w
      BY <1>1 DEF DataOK, DbFits
    <2> QED BY <1>1, <2>1 DEF CallFits, Inside, Connected
  <1>3. TypeOK'
    BY <1>1, <1>2 DEF TypeOK
  <1> QED BY <1>1, <1>3, PlacesNext, HandlesNext DEF IInv

\* The inductive invariant of the SQLite workers.
THEOREM Invariance == Spec => []IInv
  BY InitInv, InvNext, PTL DEF Spec

\* The variables keep their types, and a connection belongs to the client that
\* holds the mutex of its worker.
THEOREM TypeCorrect == Spec => []TypeOK
  <1>1. IInv => TypeOK
    BY DEF IInv
  <1> QED BY <1>1, Invariance, PTL

\* The threads of one process do not stand in each other's way at the file.
THEOREM LocksApart == Spec => []LocksOfOneAtATime
  <1>1. IInv => LocksOfOneAtATime
    <2> SUFFICES ASSUME IInv, NEW c \in Clients, NEW d \in Clients, c # d,
                        Process[c] = Process[d], lock[c] # "none", lock[d] # "none"
                 PROVE  FALSE
      BY DEF LocksOfOneAtATime
    <2>1. TypeOK /\ Inside(c) /\ Inside(d)
      BY DEF IInv, PlaceFits, Inside
    <2>2. <<op[c], at[c]>> \in CallsOf[c] /\ <<op[d], at[d]>> \in CallsOf[d]
      BY <2>1 DEF TypeOK, CallFits, Inside
    <2>3. at[c] = at[d]
      BY <2>2, SharingAssumption
    <2> QED BY <2>1, <2>3, Exclusive
  <1> QED BY <1>1, Invariance, PTL

\* Between the calls nothing is held but what failed to open.
THEOREM QuietIsQuiet == Spec => []QuietHoldsNothing
  <1>1. IInv => QuietHoldsNothing
    <2> SUFFICES ASSUME IInv, \A c \in Clients : ~Inside(c)
                 PROVE  /\ handles = failedOpens
                        /\ \A c \in Clients : lock[c] = "none"
                        /\ \A w \in Workers : db[w] = Free
      BY DEF QuietHoldsNothing
    <2>1. \A c \in Clients : lock[c] = "none"
      BY DEF IInv, PlaceFits, Inside
    <2>2. \A w \in Workers : db[w] = Free
      BY DEF IInv, TypeOK, DataOK, DbFits, Connected, Inside
    <2>3. {w \in Workers : db[w] # Free} = {}
      BY <2>2
    <2>4. handles = failedOpens
      <3>1. handles = failedOpens + Cardinality({}) /\ failedOpens \in Nat
        BY <2>3 DEF IInv, HandlesCounted, TypeOK, DataOK
      <3> QED BY <3>1, FS_EmptySet
    <2> QED BY <2>1, <2>2, <2>4
  <1> QED BY <1>1, Invariance, PTL

-----------------------------------------------------------------------------
(* The refinement.                                                         *)

Stays(d) == UNCHANGED <<pc[d], op[d], result[d]>>

LEMMA AreFunctions ==
  /\ phase  = [d \in Clients |-> phase[d]]  /\ phase'  = [d \in Clients |-> phase'[d]]
  /\ answer = [d \in Clients |-> answer[d]] /\ answer' = [d \in Clients |-> answer'[d]]
  BY DEF phase, answer

\* A step of one client is seen at this client only.
LEMMA OneMoves ==
  ASSUME NEW c \in Clients, \A d \in Clients \ {c} : Stays(d)
  PROVE  /\ phase'  = [phase  EXCEPT ![c] = phase'[c]]
         /\ answer' = [answer EXCEPT ![c] = answer'[c]]
  <1>1. \A d \in Clients \ {c} : phase'[d] = phase[d] /\ answer'[d] = answer[d]
    BY DEF Stays, phase, answer
  <1> QED BY <1>1, AreFunctions

LEMMA OthersStay ==
  ASSUME IInv, NEW c \in Clients, NEW d \in Clients \ {c}, CallStep(c)
  PROVE  Stays(d)
  BY DEF IInv, TypeOK, DataOK, CallStep, Call, Lock, Open, FailToOpen, ExecStep, ExecFails, Climb,
         Commit, Prepare, Step, Close, Unlock, Goes, callVars, Stays

\* What the answers of a call are to its caller.
LEMMA Answers ==
  /\ False = ST!Answer("false", {}) /\ Nothing = ST!Answer("nothing", {})
  /\ NoAnswer = ST!NoAnswer /\ Answer("true", {}) = ST!Answer("true", {})
  /\ Answer("rows", table) = ST!Answer("rows", table)
  /\ Undefined \notin {False, Nothing, NoAnswer, Answer("true", {}), Answer("rows", table)}
  BY DEF False, Nothing, NoAnswer, Undefined, Answer, ST!Answer, ST!NoAnswer

\* Steps that only the client itself knows of.
LEMMA StutterStep ==
  ASSUME IInv, NEW c \in Clients, CallStep(c), UNCHANGED <<table, made>>,
         phase'[c] = phase[c], answer'[c] = answer[c]
  PROVE  UNCHANGED ST!vars
  <1>1. \A d \in Clients \ {c} : Stays(d)
    BY OthersStay
  <1>2. phase' = phase /\ answer' = answer
    <2>1. phase' = [phase EXCEPT ![c] = phase'[c]] /\ answer' = [answer EXCEPT ![c] = answer'[c]]
      BY <1>1, OneMoves
    <2> QED BY <2>1, AreFunctions
  <1> QED BY <1>2 DEF ST!vars

\* A step that answers a call without changing the table.
LEMMA AnswerStep ==
  ASSUME IInv, NEW c \in Clients, CallStep(c), UNCHANGED <<table, made, op>>,
         pc[c] \notin {"idle", "close", "unlock"}, pc'[c] \in {"close", "unlock"},
         \/ op[c] = "exec" /\ result'[c] = False
         \/ op[c] # "exec" /\ result'[c] \in {Nothing, Undefined, Answer("rows", table)}
  PROVE  ST!Refuse(c) \/ ST!Look(c)
  <1>1. \A d \in Clients \ {c} : Stays(d)
    BY OthersStay
  <1>2. phase[c] = (IF op[c] = "exec" THEN "statement" ELSE "query") /\ phase'[c] = "answered"
    BY DEF phase
  <1>3. phase' = [phase EXCEPT ![c] = "answered"] /\ answer' = [answer EXCEPT ![c] = answer'[c]]
    BY <1>1, <1>2, OneMoves
  <1>4. CASE op[c] = "exec"
    <2>1. answer'[c] = ST!Answer("false", {})
      BY <1>4, Answers DEF answer
    <2> QED BY <1>2, <1>3, <1>4, <2>1 DEF ST!Refuse, ST!Answers
  <1>5. CASE op[c] # "exec"
    <2>1. answer'[c] = ST!Answer("nothing", {}) \/ answer'[c] = ST!Answer("rows", table)
      BY <1>5, Answers DEF answer
    <2> QED BY <1>2, <1>3, <1>5, <2>1 DEF ST!Look, ST!Answers
  <1> QED BY <1>4, <1>5

LEMMA CallBegins ==
  ASSUME IInv, NEW c \in Clients, NEW o \in Ops, NEW w \in Workers, Call(c, o, w)
  PROVE  \E kind \in {"statement", "query"} : ST!Call(c, kind)
  <1>0. DataOK
    BY DEF IInv, TypeOK
  <1>1. \A d \in Clients \ {c} : Stays(d)
    BY OthersStay DEF CallStep
  <1>2. made[c] < MaxCalls /\ made' = [made EXCEPT ![c] = @ + 1] /\ UNCHANGED table
    BY DEF Call
  <1>3. /\ phase[c] = "idle" /\ phase'[c] = IF o = "exec" THEN "statement" ELSE "query"
        /\ answer'[c] = answer[c]
    BY <1>0 DEF Call, Goes, DataOK, phase, answer
  <1>4. answer' = answer
    BY <1>1, <1>3, OneMoves, AreFunctions
  <1> DEFINE kind == IF o = "exec" THEN "statement" ELSE "query"
  <1>5. ST!Call(c, kind)
    BY <1>1, <1>2, <1>3, <1>4, OneMoves DEF ST!Call
  <1> QED BY <1>5

\* Every step of a call after its beginning.
LEMMA InCallRefines ==
  ASSUME IInv, NEW c \in Clients, InCall(c)
  PROVE  \/ ST!Apply(c) \/ ST!Refuse(c) \/ ST!Look(c) \/ ST!Return(c)
         \/ UNCHANGED ST!vars
  <1>0. DataOK /\ CallStep(c) /\ PlaceFits(c)
    BY DEF IInv, TypeOK, InCall, CallStep
  <1>1. \A d \in Clients \ {c} : Stays(d)
    BY <1>0, OthersStay
  <1>2. CASE Lock(c) \/ Open(c) \/ Close(c)
    <2>1. UNCHANGED <<table, made>> /\ phase'[c] = phase[c] /\ answer'[c] = answer[c]
      BY <1>0, <1>2 DEF Lock, Open, Close, Goes, callVars, DataOK, phase, answer
    <2> QED BY <1>0, <2>1, StutterStep
  <1>3. CASE FailToOpen(c)
    <2>1. /\ UNCHANGED <<table, made, op>> /\ pc[c] = "open" /\ pc'[c] = "unlock"
          /\ result'[c] = IF op[c] = "exec" THEN False ELSE Nothing
      BY <1>0, <1>3 DEF FailToOpen, Goes, callVars, DataOK
    <2> QED BY <1>0, <2>1, AnswerStep
  <1>4. CASE ExecStep(c)
    <2>1. /\ UNCHANGED <<table, made, op>> /\ op[c] = "exec"
          /\ pc[c] \in {"begin", "reserve", "exclude"}
      BY <1>0, <1>4 DEF ExecStep, Climb, Goes, callVars, PlaceFits
    <2>2. CASE pc'[c] = "close" /\ result'[c] = False
      BY <1>0, <2>1, <2>2, AnswerStep
    <2>3. CASE pc'[c] \in {"reserve", "exclude", "commit"} /\ UNCHANGED result
      <3>1. phase'[c] = phase[c] /\ answer'[c] = answer[c]
        BY <2>1, <2>3 DEF phase, answer
      <3> QED BY <1>0, <2>1, <3>1, StutterStep
    <2> QED BY <1>0, <1>4, <2>2, <2>3 DEF ExecStep, Climb, Goes, DataOK
  <1>4a. CASE ExecFails(c)
    <2>1. /\ UNCHANGED <<table, made, op>> /\ op[c] = "exec"
          /\ pc[c] \in {"begin", "reserve", "exclude"} /\ pc'[c] = "close"
          /\ result'[c] = False
      BY <1>0, <1>4a DEF ExecFails, Goes, callVars, PlaceFits, DataOK
    <2> QED BY <1>0, <2>1, AnswerStep
  <1>5. CASE Commit(c)
    <2>1. /\ UNCHANGED <<made, op>> /\ op[c] = "exec" /\ table' = table \cup {<<c, made[c]>>}
          /\ pc[c] = "commit" /\ pc'[c] = "close" /\ result'[c] = Answer("true", {})
      BY <1>0, <1>5 DEF Commit, Goes, callVars, PlaceFits, DataOK
    <2>2. /\ phase[c] = "statement" /\ phase'[c] = "answered"
          /\ answer'[c] = ST!Answer("true", {})
      BY <2>1, Answers DEF phase, answer
    <2> QED BY <1>1, <2>1, <2>2, OneMoves DEF ST!Apply, ST!Answers
  <1>6. CASE Prepare(c)
    <2>1. UNCHANGED <<table, made, op>> /\ op[c] # "exec" /\ pc[c] = "prepare"
      BY <1>0, <1>6 DEF Prepare, Goes, callVars, PlaceFits
    <2>2. CASE pc'[c] = "close" /\ result'[c] \in {Nothing, Undefined}
      BY <1>0, <2>1, <2>2, AnswerStep
    <2>3. CASE pc'[c] = "step" /\ UNCHANGED result
      <3>1. phase'[c] = phase[c] /\ answer'[c] = answer[c]
        BY <2>1, <2>3 DEF phase, answer
      <3> QED BY <1>0, <2>1, <3>1, StutterStep
    <2> QED BY <1>0, <1>6, <2>2, <2>3 DEF Prepare, Goes, DataOK
  <1>7. CASE Step(c)
    <2>1. /\ UNCHANGED <<table, made, op>> /\ op[c] # "exec" /\ pc[c] = "step" /\ pc'[c] = "close"
          /\ result'[c] \in {Nothing, Answer("rows", table)}
      BY <1>0, <1>7 DEF Step, Goes, callVars, PlaceFits, DataOK
    <2> QED BY <1>0, <2>1, AnswerStep
  <1>8. CASE Unlock(c)
    <2>1. /\ UNCHANGED <<table, made>> /\ pc[c] = "unlock" /\ pc'[c] = "idle"
          /\ result'[c] = NoAnswer
      BY <1>0, <1>8 DEF Unlock, Goes, callVars, DataOK
    <2>2. phase[c] = "answered" /\ phase'[c] = "idle" /\ answer'[c] = ST!NoAnswer
      BY <2>1, Answers DEF phase, answer
    <2> QED BY <1>1, <2>1, <2>2, OneMoves DEF ST!Return
  <1> QED BY <1>2, <1>3, <1>4, <1>4a, <1>5, <1>6, <1>7, <1>8 DEF InCall

LEMMA StepRefines == IInv /\ [Next]_vars => [ST!Next]_(ST!vars)
  <1> SUFFICES ASSUME IInv, [Next]_vars PROVE [ST!Next]_(ST!vars)
    OBVIOUS
  <1>1. ASSUME NEW c \in Clients, NEW o \in Ops, NEW w \in Workers, Call(c, o, w)
        PROVE  ST!Next
    BY <1>1, CallBegins DEF ST!Next
  <1>2. ASSUME NEW c \in Clients, InCall(c) PROVE [ST!Next]_(ST!vars)
    BY <1>2, InCallRefines DEF ST!Next
  <1>3. CASE UNCHANGED vars
    BY <1>3 DEF vars, ST!vars, phase, answer
  <1> QED BY <1>1, <1>2, <1>3 DEF Next, CallStep, AllDone, InCall

LEMMA InitRefines == Init => ST!Init
  BY Answers DEF Init, phase, answer, ST!Init

\* A call of an SQLite worker takes effect at one moment; "true" means that
\* the statement was applied, "false" that it was not.
THEOREM WorkerImplements == Spec => ImplementsSqlTable
  BY InitRefines, StepRefines, Invariance, PTL DEF Spec, ImplementsSqlTable, ST!Spec

-----------------------------------------------------------------------------
(* What a caller may conclude from an answer.                              *)

\* A statement that is answered "true" is in the table, one that is answered
\* "false" is not, and a read is answered with nothing the table has not got.
AnswersTell ==
  \A c \in Clients :
    /\ answer[c].kind = "true" => <<c, made[c]>> \in table
    /\ answer[c].kind = "false" => <<c, made[c]>> \notin table
    /\ answer[c].kind = "rows" => answer[c].rows \subseteq table

\* The table holds statements of calls that were made, and not the one a
\* client is still waiting for; who waits for no answer has none.
CallsTold ==
  /\ AnswersTell
  /\ \A i \in table : i[2] <= made[i[1]]
  /\ \A c \in Clients : phase[c] = "statement" => <<c, made[c]>> \notin table
  /\ \A c \in Clients : phase[c] # "answered" => answer[c] = ST!NoAnswer

\* What each step of a call does to the table, and when.
TableGrows ==
  \/ table' = table
  \/ \E c \in Clients :
       /\ pc[c] = "commit" /\ answer'[c].kind = "true"
       /\ table' = table \cup {<<c, made[c]>>}

LEMMA ToldInit == Init => CallsTold
  <1>1. Init => \A c \in Clients : answer[c] = ST!NoAnswer /\ phase[c] = "idle"
    BY Answers DEF Init, phase, answer
  <1>2. ST!NoAnswer.kind = "none"
    BY DEF ST!NoAnswer, ST!Answer
  <1> QED BY <1>1, <1>2 DEF Init, CallsTold, AnswersTell

\* A step that answers client c, in a call that is not answered yet.
LEMMA ToldAnswer ==
  ASSUME TypeOK, CallsTold, NEW c \in Clients, NEW a, ST!Answers(c, a),
         \/ table' = table /\ a.kind # "true"
         \/ table' = table \cup {<<c, made[c]>>} /\ a.kind = "true",
         a.kind = "false" => phase[c] = "statement",
         a.kind = "rows" => a.rows \subseteq table
  PROVE  CallsTold'
  <1>0. made \in [Clients -> 0..MaxCalls] /\ MaxCalls \in Nat
    BY SQLiteAssumption DEF TypeOK, DataOK
  <1>1. /\ made' = made
        /\ \A d \in Clients : /\ phase'[d] = IF d = c THEN "answered" ELSE phase[d]
                              /\ answer'[d] = IF d = c THEN a ELSE answer[d]
    BY AreFunctions DEF ST!Answers
  <1>2. \A d \in Clients \ {c} : <<d, made[d]>> \in table' <=> <<d, made[d]>> \in table
    OBVIOUS
  <1>3. table \subseteq table'
    OBVIOUS
  <1>4. AnswersTell'
    BY <1>1, <1>2, <1>3 DEF CallsTold, AnswersTell
  <1>5. (\A i \in table : i[2] <= made[i[1]])'
    BY <1>0, <1>1 DEF CallsTold
  <1> QED BY <1>1, <1>2, <1>4, <1>5 DEF CallsTold

LEMMA ToldNext == IInv /\ CallsTold /\ [ST!Next]_(ST!vars) => CallsTold'
  <1> SUFFICES ASSUME IInv, CallsTold, [ST!Next]_(ST!vars) PROVE CallsTold'
    OBVIOUS
  <1>0. TypeOK /\ made \in [Clients -> 0..MaxCalls] /\ MaxCalls \in Nat /\ table \subseteq Ids
    BY SQLiteAssumption DEF IInv, TypeOK, DataOK
  <1>1. ASSUME NEW c \in Clients, NEW kind \in {"statement", "query"}, ST!Call(c, kind)
        PROVE  CallsTold'
    <2>1. /\ table' = table /\ answer' = answer
          /\ \A d \in Clients : /\ made'[d] = IF d = c THEN made[d] + 1 ELSE made[d]
                                /\ phase'[d] = IF d = c THEN kind ELSE phase[d]
      BY <1>0, <1>1, AreFunctions DEF ST!Call
    <2>2. answer[c].kind = "none"
      BY <1>1 DEF ST!Call, CallsTold, ST!NoAnswer, ST!Answer
    <2>3. \A i \in table : i[1] \in Clients /\ i[2] \in Nat
      BY <1>0 DEF Ids
    <2>4. <<c, made[c] + 1>> \notin table
      BY <1>0 DEF CallsTold
    <2>5. AnswersTell'
      BY <2>1, <2>2 DEF CallsTold, AnswersTell
    <2>6. (\A i \in table : i[2] <= made[i[1]])'
      BY <1>0, <2>1, <2>3 DEF CallsTold
    <2>7. \A d \in Clients : /\ phase'[d] = "statement" => <<d, made'[d]>> \notin table'
                             /\ phase'[d] # "answered" => answer'[d] = ST!NoAnswer
      BY <1>1, <2>1, <2>4 DEF CallsTold, ST!Call
    <2> QED BY <2>5, <2>6, <2>7 DEF CallsTold
  <1>2. ASSUME NEW c \in Clients, ST!Apply(c) PROVE CallsTold'
    BY <1>0, <1>2, ToldAnswer DEF ST!Apply, ST!Answer
  <1>3. ASSUME NEW c \in Clients, ST!Refuse(c) PROVE CallsTold'
    BY <1>0, <1>3, ToldAnswer DEF ST!Refuse, ST!Answer
  <1>4. ASSUME NEW c \in Clients, ST!Look(c) PROVE CallsTold'
    BY <1>0, <1>4, ToldAnswer DEF ST!Look, ST!Answer
  <1>5. ASSUME NEW c \in Clients, ST!Return(c) PROVE CallsTold'
    <2>1. /\ table' = table /\ made' = made
          /\ \A d \in Clients : /\ answer'[d] = IF d = c THEN ST!NoAnswer ELSE answer[d]
                                /\ phase'[d] = IF d = c THEN "idle" ELSE phase[d]
      BY <1>5, AreFunctions DEF ST!Return
    <2>2. ST!NoAnswer.kind = "none"
      BY DEF ST!NoAnswer, ST!Answer
    <2> QED BY <2>1, <2>2 DEF CallsTold, AnswersTell
  <1>6. CASE UNCHANGED ST!vars
    BY <1>6 DEF ST!vars, CallsTold, AnswersTell
  <1>7. ASSUME NEW c \in Clients, ST!Lose(c) PROVE FALSE
    BY <1>7 DEF ST!Lose
  <1>8. ASSUME NEW i \in ST!Ids, ST!ApplyLate(i) PROVE FALSE
    BY <1>8 DEF ST!ApplyLate
  <1> QED BY <1>1, <1>2, <1>3, <1>4, <1>5, <1>6, <1>7, <1>8 DEF ST!Next

\* The answers of an SQLite worker may be taken at their word.
THEOREM AnswersAreHonest == Spec => []AnswersTell
  <1>1. CallsTold => AnswersTell
    BY DEF CallsTold
  <1> QED BY <1>1, ToldInit, ToldNext, StepRefines, Invariance, PTL DEF Spec

\* No statement leaves the table, and one enters it only as its call is
\* answered "true": together with AnswersTell, what was answered "false" is
\* never in the table.
THEOREM TableOnlyGrows == Spec => [][TableGrows]_vars
  <1>1. ASSUME IInv, Next PROVE TableGrows
    <2>1. ASSUME NEW c \in Clients, Commit(c) PROVE TableGrows
      <3>1. /\ result \in [Clients -> AnswerType]
            /\ result' = [result EXCEPT ![c] = Answer("true", {})]
        BY <1>1, <2>1 DEF IInv, TypeOK, DataOK, Commit
      <3>2. answer'[c].kind = "true"
        BY <3>1, Answers DEF answer, ST!Answer
      <3> QED BY <2>1, <3>2 DEF Commit, Goes, TableGrows
    <2>2. ASSUME NEW c \in Clients,
                 \/ \E o \in Ops, w \in Workers : Call(c, o, w)
                 \/ Lock(c) \/ Open(c) \/ FailToOpen(c) \/ ExecStep(c) \/ ExecFails(c)
                 \/ Prepare(c) \/ Step(c) \/ Close(c) \/ Unlock(c)
          PROVE  table' = table
      BY <2>2 DEF Call, Lock, Open, FailToOpen, ExecStep, ExecFails, Prepare, Step, Close, Unlock
    <2>3. AllDone => table' = table
      BY DEF AllDone, vars
    <2> QED BY <1>1, <2>1, <2>2, <2>3 DEF Next, CallStep, TableGrows
  <1> QED BY <1>1, Invariance, PTL DEF Spec

-----------------------------------------------------------------------------
(* Readers and the writer.                                                 *)

\* The answer is a row, whose statement holds the shared lock until it is
\* finalized, or it is that a lookup has found none.
RowHeld(c)  == lock[c] = "shared"
NoRow(c)    == op[c] = "lookup" /\ lock[c] = "none"

\* The locks of SQLite as the clients climb them: who has the exclusive lock
\* is alone, who commits has it, and a row is held under the shared lock.
LocksFit ==
  /\ \A c, d \in Clients : c # d /\ lock[c] = "exclusive" => lock[d] = "none"
  /\ \A c \in Clients : pc[c] = "commit" => lock[c] = "exclusive"
  /\ \A c \in Clients :
       pc[c] = "close" /\ result[c].kind = "rows" => RowHeld(c) \/ NoRow(c)
  /\ \A c \in Clients : pc[c] \notin {"close", "unlock"} => result[c] = NoAnswer

\* What a list or a lookup has found is what the file holds until its
\* connection is closed: the daemon that adds or deletes songs cannot commit in
\* between.  That a lookup has found nothing may be out of date at once.
ReadsStand ==
  \A c \in Clients :
    pc[c] = "close" /\ result[c].kind = "rows" => result[c].rows = table \/ NoRow(c)

LEMMA ReadsInit == Init => LocksFit /\ ReadsStand
  BY DEF Init, LocksFit, ReadsStand

LEMMA ReadsNext ==
  IInv /\ LocksFit /\ ReadsStand /\ [Next]_vars => LocksFit' /\ ReadsStand'
  <1> SUFFICES ASSUME IInv, LocksFit, ReadsStand, [Next]_vars
               PROVE  LocksFit' /\ ReadsStand'
    OBVIOUS
  <1> DEFINE Goal == LocksFit' /\ ReadsStand'
  <1>0. /\ pc \in [Clients -> Places] /\ result \in [Clients -> AnswerType]
        /\ op \in [Clients -> Ops \cup {"none"}]
        /\ lock \in [Clients -> {"none", "shared", "reserved", "exclusive"}]
    BY DEF IInv, TypeOK, DataOK
  <1>a. NoAnswer.kind = "none" /\ False.kind = "false" /\ Nothing.kind = "nothing"
        /\ Undefined.kind = "undefined" /\ Answer("true", {}).kind = "true"
        /\ Answer("rows", table).kind = "rows" /\ Answer("rows", table).rows = table
    BY DEF NoAnswer, False, Nothing, Undefined, Answer
  <1>1. ASSUME NEW c \in Clients, NEW o \in Ops, NEW w \in Workers, Call(c, o, w)
        PROVE  Goal
    BY <1>0, <1>1 DEF Call, Goes, LocksFit, ReadsStand, RowHeld, NoRow
  <1>2. ASSUME NEW c \in Clients, Lock(c) \/ Open(c) PROVE Goal
    BY <1>0, <1>2 DEF Lock, Open, Goes, callVars, LocksFit, ReadsStand, RowHeld, NoRow
  <1>3. ASSUME NEW c \in Clients, FailToOpen(c) PROVE Goal
    BY <1>0, <1>3 DEF FailToOpen, Goes, callVars, LocksFit, ReadsStand, RowHeld, NoRow
  <1>4. ASSUME NEW c \in Clients, ExecStep(c) PROVE Goal
    <2>1. ASSUME NEW to \in {"reserve", "exclude", "commit"},
                 NEW kind \in {"shared", "reserved", "exclusive"},
                 pc[c] \in {"begin", "reserve", "exclude"},
                 pc' = [pc EXCEPT ![c] = to], lock' = [lock EXCEPT ![c] = kind],
                 to = "commit" <=> kind = "exclusive",
                 UNCHANGED <<result, table, op>>,
                 Holders(c, {"exclusive"}) = {},
                 kind = "exclusive" => Holders(c, {"shared", "reserved", "exclusive"}) = {}
          PROVE  Goal
      <3>1. \A d \in Clients \ {c} : /\ lock[d] # "exclusive"
                                     /\ kind = "exclusive" => lock[d] = "none"
        BY <1>0, <2>1 DEF Holders
      <3>2. /\ pc'[c] = to /\ lock'[c] = kind
            /\ \A d \in Clients \ {c} : pc'[d] = pc[d] /\ lock'[d] = lock[d]
        BY <1>0, <2>1
      <3>3. (\A e, d \in Clients : e # d /\ lock[e] = "exclusive" => lock[d] = "none")'
        BY <3>1, <3>2
      <3>4. (\A e \in Clients : pc[e] = "commit" => lock[e] = "exclusive")'
        BY <2>1, <3>2 DEF LocksFit
      <3>5. (\A e \in Clients :
               /\ pc[e] = "close" /\ result[e].kind = "rows" => RowHeld(e) \/ NoRow(e)
               /\ pc[e] \notin {"close", "unlock"} => result[e] = NoAnswer)'
        BY <2>1, <3>2 DEF LocksFit, RowHeld, NoRow
      <3>6. ReadsStand'
        BY <2>1, <3>2 DEF ReadsStand, NoRow
      <3> QED BY <3>3, <3>4, <3>5, <3>6 DEF LocksFit
    <2>2. ASSUME pc' = [pc EXCEPT ![c] = "close"], lock' = [lock EXCEPT ![c] = "none"],
                 result' = [result EXCEPT ![c] = False], UNCHANGED <<table, op>>
          PROVE  Goal
      BY <1>0, <1>a, <2>2 DEF LocksFit, ReadsStand, RowHeld, NoRow
    <2>3. UNCHANGED <<table, op>>
      BY <1>4 DEF ExecStep, callVars
    <2>4. CASE Climb(c, "begin", "reserve", "shared", {"exclusive"})
      BY <2>1, <2>2, <2>3, <2>4 DEF Climb, Goes
    <2>5. CASE Climb(c, "reserve", "exclude", "reserved", {"reserved", "exclusive"})
      <3>1. Holders(c, {"reserved", "exclusive"}) = {} => Holders(c, {"exclusive"}) = {}
        BY DEF Holders
      <3> QED BY <2>1, <2>2, <2>3, <2>5, <3>1 DEF Climb, Goes
    <2>6. CASE Climb(c, "exclude", "commit", "exclusive", {"shared", "reserved", "exclusive"})
      <3>1. Holders(c, {"shared", "reserved", "exclusive"}) = {}
              => Holders(c, {"exclusive"}) = {}
        BY DEF Holders
      <3> QED BY <2>1, <2>2, <2>3, <2>6, <3>1 DEF Climb, Goes
    <2> QED BY <1>4, <2>4, <2>5, <2>6 DEF ExecStep
  <1>4a. ASSUME NEW c \in Clients, ExecFails(c) PROVE Goal
    BY <1>0, <1>a, <1>4a DEF ExecFails, Goes, callVars, LocksFit, ReadsStand, RowHeld, NoRow
  <1>5. ASSUME NEW c \in Clients, Commit(c) PROVE Goal
    <2>1. /\ pc[c] = "commit" /\ pc' = [pc EXCEPT ![c] = "close"]
          /\ lock' = [lock EXCEPT ![c] = "none"] /\ op' = op
          /\ result' = [result EXCEPT ![c] = Answer("true", {})]
      BY <1>5 DEF Commit, Goes, callVars
    <2>2. \A d \in Clients \ {c} : lock[d] = "none"
      BY <2>1 DEF LocksFit
    <2>3. \A d \in Clients : pc[d] = "close" /\ result[d].kind = "rows" => NoRow(d)
      BY <2>1, <2>2 DEF LocksFit, RowHeld
    <2>4. ReadsStand'
      BY <1>0, <1>a, <2>1, <2>3 DEF ReadsStand, NoRow
    <2>5. LocksFit'
      BY <1>0, <1>a, <2>1, <2>2 DEF LocksFit, RowHeld, NoRow
    <2> QED BY <2>4, <2>5
  <1>6. ASSUME NEW c \in Clients, Prepare(c) PROVE Goal
    <2>1. UNCHANGED <<table, lock, op>>
      BY <1>6 DEF Prepare, callVars
    <2>2. CASE pc' = [pc EXCEPT ![c] = "step"] /\ UNCHANGED result
      <3>1. pc[c] = "prepare"
        BY <1>6 DEF Prepare, Goes
      <3> QED BY <1>0, <2>1, <2>2, <3>1 DEF LocksFit, ReadsStand, RowHeld, NoRow
    <2>3. ASSUME NEW a \in {Nothing, Undefined},
                 pc' = [pc EXCEPT ![c] = "close"], result' = [result EXCEPT ![c] = a]
          PROVE  Goal
      BY <1>0, <1>a, <2>1, <2>3 DEF LocksFit, ReadsStand, RowHeld, NoRow
    <2> QED BY <1>6, <2>2, <2>3 DEF Prepare, Goes
  <1>7. ASSUME NEW c \in Clients, Step(c) PROVE Goal
    <2>1. pc[c] = "step" /\ pc' = [pc EXCEPT ![c] = "close"]
          /\ UNCHANGED <<table, op>>
      BY <1>7 DEF Step, Goes, callVars
    <2>2. CASE /\ Holders(c, {"exclusive"}) = {}
               /\ lock' = [lock EXCEPT ![c] = "shared"] \/ (op[c] = "lookup" /\ UNCHANGED lock)
               /\ result' = [result EXCEPT ![c] = Answer("rows", table)]
      <3>1. \A d \in Clients \ {c} : lock[d] # "exclusive"
        BY <1>0, <2>2 DEF Holders
      <3>2. lock[c] = "none"
        BY <2>1 DEF IInv, PlaceFits
      <3> QED BY <1>0, <1>a, <2>1, <2>2, <3>1, <3>2 DEF LocksFit, ReadsStand, RowHeld, NoRow
    <2>3. CASE result' = [result EXCEPT ![c] = Nothing] /\ UNCHANGED lock
      BY <1>0, <1>a, <2>1, <2>3 DEF LocksFit, ReadsStand, RowHeld, NoRow
    <2>4. \/ /\ Holders(c, {"exclusive"}) = {}
             /\ lock' = [lock EXCEPT ![c] = "shared"] \/ (op[c] = "lookup" /\ UNCHANGED lock)
             /\ result' = [result EXCEPT ![c] = Answer("rows", table)]
          \/ result' = [result EXCEPT ![c] = Nothing] /\ UNCHANGED lock
      BY <1>7 DEF Step
    <2> QED BY <2>2, <2>3, <2>4
  <1>8. ASSUME NEW c \in Clients, Close(c) \/ Unlock(c) PROVE Goal
    <2>1. /\ UNCHANGED <<table, op>>
          /\ \/ /\ pc[c] = "close" /\ pc' = [pc EXCEPT ![c] = "unlock"]
                /\ lock' = [lock EXCEPT ![c] = "none"] /\ UNCHANGED result
             \/ /\ pc[c] = "unlock" /\ pc' = [pc EXCEPT ![c] = "idle"]
                /\ UNCHANGED lock /\ result' = [result EXCEPT ![c] = NoAnswer]
      BY <1>8 DEF Close, Unlock, Goes, callVars
    <2> QED BY <1>0, <1>a, <2>1 DEF LocksFit, ReadsStand, RowHeld, NoRow
  <1>9. CASE UNCHANGED vars
    BY <1>9 DEF vars, LocksFit, ReadsStand, RowHeld, NoRow
  <1> QED
    BY <1>1, <1>2, <1>3, <1>4, <1>4a, <1>5, <1>6, <1>7, <1>8, <1>9 DEF Next, CallStep, AllDone

\* The two daemons at one file: a read that has found something is not
\* overtaken by a statement before its connection is closed.
THEOREM ReadsAreCurrent == Spec => []ReadsStand
  BY ReadsInit, ReadsNext, Invariance, PTL DEF Spec

=============================================================================
