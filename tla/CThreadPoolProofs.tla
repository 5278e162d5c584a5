------------------------- MODULE CThreadPoolProofs --------------------------
(***************************************************************************)
(* What CThreadPool guarantees for every number of functions, producers    *)
(* and workers.                                                            *)
(***************************************************************************)
EXTENDS CThreadPool, FiniteSetTheorems, TLAPS

\* A sequence that is not empty is its head followed by its tail.
LEMMA HeadTail ==
  ASSUME NEW S, NEW s \in Seq(S), s # <<>>
  PROVE  /\ Head(s) \in S /\ Head(s) = s[1] /\ Tail(s) \in Seq(S)
         /\ Len(s) \in Nat \ {0} /\ Len(Tail(s)) = Len(s) - 1
         /\ DOMAIN s = 1..Len(s) /\ DOMAIN Tail(s) = 1..(Len(s) - 1)
         /\ \A i \in DOMAIN Tail(s) : Tail(s)[i] = s[i + 1]
  OBVIOUS

\* The elements of a sequence stay the elements of what is left of it.
LEMMA RangeTail ==
  ASSUME NEW S, NEW s \in Seq(S), s # <<>>
  PROVE  /\ Range(Tail(s)) \subseteq Range(s)
         /\ Range(s) = Range(Tail(s)) \cup {Head(s)}
  <1>1. \A i \in DOMAIN Tail(s) : i + 1 \in DOMAIN s /\ Tail(s)[i] = s[i + 1]
    BY HeadTail
  <1>2. \A i \in DOMAIN s : i = 1 \/ (i - 1 \in DOMAIN Tail(s) /\ Tail(s)[i - 1] = s[i])
    BY HeadTail
  <1>3. 1 \in DOMAIN s /\ s[1] = Head(s)
    BY HeadTail
  <1> QED BY <1>1, <1>2, <1>3 DEF Range

LEMMA RangeAppend ==
  ASSUME NEW S, NEW s \in Seq(S), NEW t \in S
  PROVE  Range(Append(s, t)) = Range(s) \cup {t}
  <1>1. /\ DOMAIN s = 1..Len(s) /\ DOMAIN Append(s, t) = 1..(Len(s) + 1)
        /\ Len(s) \in Nat
        /\ \A i \in 1..Len(s) : Append(s, t)[i] = s[i]
        /\ Append(s, t)[Len(s) + 1] = t
    OBVIOUS
  <1> QED BY <1>1 DEF Range

LEMMA RangeInSet ==
  ASSUME NEW S, NEW s \in Seq(S)
  PROVE  Range(s) \subseteq S
  BY DEF Range

-----------------------------------------------------------------------------
(* Types and shape.                                                        *)

TypeInv == TypeOK /\ ShapeInv

LEMMA TypeInit == Init => TypeInv
  <1> SUFFICES ASSUME Init PROVE TypeInv
    OBVIOUS
  <1> USE PoolAssumption DEF Init
  <1>1. pc \in [Workers -> {"none", "pop", "run", "check", "lock", "pred",
                            "predExit", "asleep", "woken", "exit"}]
    OBVIOUS
  <1>2. ShapeInv
    BY DEF ShapeInv, Workers
  <1>3. born \in 0..MaxThreads /\ threads \subseteq 1..born /\ q \in Seq(Tasks)
    OBVIOUS
  <1>4. /\ flag \in [Workers -> BOOLEAN]
        /\ task \in [Workers -> Tasks \cup {NoTask}]
        /\ notifying \in [Producers -> Tasks \cup {NoTask}]
    OBVIOUS
  <1>5. toFlag \subseteq threads /\ detached \subseteq 1..born
    OBVIOUS
  <1>6. /\ isDone \in BOOLEAN /\ isStop \in BOOLEAN /\ destructing \in BOOLEAN
        /\ done \subseteq Tasks /\ dropped \subseteq Tasks /\ taken \subseteq Tasks
    OBVIOUS
  <1>7. promised \subseteq Tasks
    OBVIOUS
  <1>8. nWaiting \in Int /\ mutex = Free /\ opc = "idle"
    OBVIOUS
  <1> HIDE DEF Init
  <1> QED BY <1>1, <1>2, <1>3, <1>4, <1>5, <1>6, <1>7, <1>8 DEF TypeInv, TypeOK

LEMMA TypeNext == TypeInv /\ [Next]_vars => TypeInv'
  <1> SUFFICES ASSUME TypeInv, [Next]_vars PROVE TypeInv'
    OBVIOUS
  <1> USE PoolAssumption DEF TypeInv, TypeOK, ShapeInv, Workers, ownerVars, fateVars
  <1>1. ASSUME NEW p \in Producers, NEW t \in Tasks, PushEnqueue(p, t)
        PROVE  TypeInv'
    BY <1>1, HeadTail DEF PushEnqueue
  <1>2. ASSUME NEW p \in Producers, PushNotify(p)
        PROVE  TypeInv'
    <2>1. pc' \in [Workers -> {"none", "pop", "run", "check", "lock", "pred",
                               "predExit", "asleep", "woken", "exit"}]
      BY <1>2 DEF PushNotify
    <2>2. \A v \in Workers : pc'[v] # pc[v] => pc[v] = "asleep" /\ pc'[v] = "woken"
      BY <1>2 DEF PushNotify, At
    <2> QED BY <1>2, <2>1, <2>2 DEF PushNotify
  <1>3. CASE ClientPop
    BY <1>3, HeadTail DEF ClientPop
  <1>4. ASSUME NEW w \in Workers, WorkerPop(w)
        PROVE  TypeInv'
    <2>1. CASE q # <<>>
      <3>1. Head(q) \in Tasks /\ Tail(q) \in Seq(Tasks)
        BY <2>1
      <3>2. /\ q' \in Seq(Tasks) /\ task' = [task EXCEPT ![w] = Head(q)]
            /\ pc[w] = "pop" /\ pc' = [pc EXCEPT ![w] = "run"]
            /\ UNCHANGED <<isDone, isStop, nWaiting, mutex, flag, notifying>>
            /\ UNCHANGED <<ownerVars, fateVars>>
        BY <1>4, <2>1, <3>1 DEF WorkerPop, Goto, TakeHead
      <3>3. /\ task' \in [Workers -> Tasks \cup {NoTask}]
            /\ pc' \in [Workers -> {"none", "pop", "run", "check", "lock", "pred",
                                    "predExit", "asleep", "woken", "exit"}]
        BY <3>1, <3>2
      <3> QED BY <3>1, <3>2, <3>3
    <2>2. CASE q = <<>>
      BY <1>4, <2>2 DEF WorkerPop, Goto
    <2> QED BY <2>1, <2>2
  <1>5. ASSUME NEW w \in Workers, WorkerRun(w)
        PROVE  TypeInv'
    BY <1>5 DEF WorkerRun, Goto
  <1>6. ASSUME NEW w \in Workers, WorkerCheckFlag(w)
        PROVE  TypeInv'
    BY <1>6 DEF WorkerCheckFlag, Goto
  <1>7. ASSUME NEW w \in Workers, WorkerEnterWait(w)
        PROVE  TypeInv'
    BY <1>7 DEF WorkerEnterWait, Goto
  <1>8. ASSUME NEW w \in Workers, WorkerReacquire(w)
        PROVE  TypeInv'
    BY <1>8 DEF WorkerReacquire, Goto
  <1>9. ASSUME NEW w \in Workers, WorkerPredPop(w)
        PROVE  TypeInv'
    <2>1. CASE q # <<>>
      <3>1. Head(q) \in Tasks /\ Tail(q) \in Seq(Tasks)
        BY <2>1
      <3>2. /\ q' = Tail(q) /\ task' = [task EXCEPT ![w] = Head(q)]
            /\ pc' = [pc EXCEPT ![w] = "run"]
            /\ mutex' = Free /\ nWaiting' = nWaiting - 1
        BY <1>9, <2>1, Zenon DEF WorkerPredPop, Goto, TakeHead
      <3>3. UNCHANGED <<isDone, isStop, flag, notifying, ownerVars, fateVars>>
        BY <1>9 DEF WorkerPredPop
      <3>4. pc[w] = "pred"
        BY <1>9, <2>1 DEF WorkerPredPop, Goto
      <3> QED BY <3>1, <3>2, <3>3, <3>4
    <2>2. CASE q = <<>>
      BY <1>9, <2>2 DEF WorkerPredPop, Goto
    <2> QED BY <2>1, <2>2
  <1>10. ASSUME NEW w \in Workers, WorkerPredExit(w)
        PROVE  TypeInv'
    BY <1>10 DEF WorkerPredExit, Goto
  <1>11. ASSUME NEW w \in Workers, SpuriousWakeup(w)
        PROVE  TypeInv'
    BY <1>11 DEF SpuriousWakeup, Goto
  <1>12. ASSUME NEW n \in ResizeTo, ResizeGrow(n)
        PROVE  TypeInv'
    <2> DEFINE more == n - Cardinality(threads)
               fresh == (born + 1)..(born + more)
    <2>1. more \in Nat
      <3>1. IsFiniteSet(threads)
        BY FS_Interval, FS_Subset, 1 \in Int, born \in Int
      <3> QED BY <1>12, <3>1, FS_CardinalityType DEF ResizeGrow
    <2> HIDE DEF more
    <2>2. /\ born + more <= MaxThreads
          /\ born' = born + more
          /\ threads' = threads \cup fresh
          /\ flag' = [w \in Workers |-> IF w \in fresh THEN FALSE ELSE flag[w]]
          /\ pc' = [w \in Workers |-> IF w \in fresh THEN "pop" ELSE pc[w]]
      BY <1>12 DEF ResizeGrow, more
    <2>3. born' \in 0..MaxThreads /\ threads' \subseteq 1..born' /\ born <= born'
      BY <2>1, <2>2
    <2>4. detached' \subseteq 1..born' /\ toFlag' \subseteq threads'
      BY <1>12, <2>2, <2>3 DEF ResizeGrow
    <2>5. flag' \in [Workers -> BOOLEAN]
      BY <2>2
    <2>6. pc' \in [Workers -> {"none", "pop", "run", "check", "lock", "pred",
                               "predExit", "asleep", "woken", "exit"}]
      BY <2>2
    <2>7. \A w \in Workers : w > born' => pc'[w] = "none"
      BY <2>1, <2>2
    <2>8. \A w \in Workers : pc'[w] = "run" => task'[w] \in Tasks
      BY <1>12, <2>2 DEF ResizeGrow
    <2> QED BY <1>12, <2>3, <2>4, <2>5, <2>6, <2>7, <2>8 DEF ResizeGrow
  <1>13. ASSUME NEW n \in ResizeTo, ResizeShrink(n)
        PROVE  TypeInv'
    BY <1>13 DEF ResizeShrink
  <1>14. ASSUME NEW w \in Workers, DetachOne(w)
        PROVE  TypeInv'
    BY <1>14 DEF DetachOne
  <1>15. ASSUME NEW w \in Workers, FlagOne(w)
        PROVE  TypeInv'
    BY <1>15 DEF FlagOne
  <1>16. CASE ResizeNotify
    BY <1>16 DEF ResizeNotify, NotifyAll
  <1>17. CASE FlagDone
    BY <1>17 DEF FlagDone, OwnerGoes
  <1>18. CASE ClearQueue
    BY <1>18 DEF ClearQueue, OwnerGoes
  <1>19. CASE ClearOne
    BY <1>19, HeadTail DEF ClearOne
  <1>20. CASE ClearDone
    BY <1>20 DEF ClearDone, OwnerGoes
  <1>21. CASE StopNow
    BY <1>21 DEF StopNow
  <1>22. CASE DropDone
    BY <1>22 DEF DropDone, OwnerGoes
  <1>23. CASE StopWait
    <2>1. Queued \subseteq Tasks
      BY RangeInSet DEF Queued
    <2> QED BY <1>23, <2>1 DEF StopWait, SetDone
  <1>24. CASE Destruct
    <2>1. Queued \subseteq Tasks
      BY RangeInSet DEF Queued
    <2> QED BY <1>24, <2>1 DEF Destruct, SetDone
  <1>25. CASE StopNotify
    BY <1>25 DEF StopNotify, NotifyAll
  <1>26. CASE StopJoin
    BY <1>26 DEF StopJoin, OwnerGoes
  <1>27. CASE StopFinish
    BY <1>27 DEF StopFinish
  <1>28. CASE UNCHANGED vars
    BY <1>28, HeadTail DEF vars
  <1> QED
    BY <1>1, <1>2, <1>3, <1>4, <1>5, <1>6, <1>7, <1>8, <1>9, <1>10, 
       <1>11, <1>12, <1>13, <1>14, <1>15, <1>16, <1>17, <1>18, <1>19, 
       <1>20, <1>21, <1>22, <1>23, <1>24, <1>25, <1>26, <1>27, <1>28
    DEF Next, ProducerStep, WorkerStep, OwnerStep, Terminated


-----------------------------------------------------------------------------
(* The mutex and the wakeups.                                              *)

\* What resize() to more threads does to the workers: some that did not
\* exist start, nobody else moves.
LEMMA GrowPc ==
  ASSUME TypeInv, NEW n \in ResizeTo, ResizeGrow(n)
  PROVE  \A w \in Workers :
           \/ pc[w] = "none" /\ pc'[w] = "pop" /\ flag'[w] = FALSE
              /\ w \notin threads /\ w \in threads'
           \/ pc'[w] = pc[w] /\ flag'[w] = flag[w] /\ (w \in threads' <=> w \in threads)
  <1> DEFINE more == n - Cardinality(threads)
             fresh == (born + 1)..(born + more)
  <1>1. /\ threads' = threads \cup fresh
        /\ flag' = [w \in Workers |-> IF w \in fresh THEN FALSE ELSE flag[w]]
        /\ pc' = [w \in Workers |-> IF w \in fresh THEN "pop" ELSE pc[w]]
    BY DEF ResizeGrow
  <1>2. \A w \in fresh : w > born
    BY DEF TypeInv, TypeOK
  <1>3. \A w \in Workers : w \in fresh => pc[w] = "none" /\ w \notin threads
    BY <1>2, PoolAssumption DEF TypeInv, TypeOK, ShapeInv, Workers
  <1> HIDE DEF fresh
  <1> QED BY <1>1, <1>3

LEMMA LockInit == Init => LockInv
  BY PoolAssumption DEF Init, LockInv, Workers, Free

LEMMA LockNext == TypeInv /\ LockInv /\ [Next]_vars => LockInv'
  <1> SUFFICES ASSUME TypeInv, LockInv, [Next]_vars PROVE LockInv'
    OBVIOUS
  <1> USE PoolAssumption DEF TypeInv, TypeOK, ShapeInv, Workers, Free, ownerVars,
             fateVars
  <1>1. ASSUME NEW p \in Producers, NEW t \in Tasks, PushEnqueue(p, t)
        PROVE  LockInv'
    BY <1>1 DEF PushEnqueue, LockInv
  <1>2. ASSUME NEW p \in Producers, PushNotify(p)
        PROVE  LockInv'
    BY <1>2 DEF PushNotify, LockInv
  <1>3. CASE ClientPop
    BY <1>3 DEF ClientPop, LockInv
  <1>4. ASSUME NEW w \in Workers, WorkerPop(w)
        PROVE  LockInv'
    BY <1>4 DEF WorkerPop, Goto, TakeHead, LockInv
  <1>5. ASSUME NEW w \in Workers, WorkerRun(w)
        PROVE  LockInv'
    BY <1>5 DEF WorkerRun, Goto, LockInv
  <1>6. ASSUME NEW w \in Workers, WorkerCheckFlag(w)
        PROVE  LockInv'
    BY <1>6 DEF WorkerCheckFlag, Goto, LockInv
  <1>7. ASSUME NEW w \in Workers, WorkerEnterWait(w)
        PROVE  LockInv'
    BY <1>7 DEF WorkerEnterWait, Goto, LockInv
  <1>8. ASSUME NEW w \in Workers, WorkerReacquire(w)
        PROVE  LockInv'
    BY <1>8 DEF WorkerReacquire, Goto, LockInv
  <1>9. ASSUME NEW w \in Workers, WorkerPredPop(w)
        PROVE  LockInv'
    BY <1>9 DEF WorkerPredPop, Goto, TakeHead, LockInv
  <1>10. ASSUME NEW w \in Workers, WorkerPredExit(w)
        PROVE  LockInv'
    BY <1>10 DEF WorkerPredExit, Goto, LockInv
  <1>11. ASSUME NEW w \in Workers, SpuriousWakeup(w)
        PROVE  LockInv'
    BY <1>11 DEF SpuriousWakeup, Goto, LockInv
  <1>12. ASSUME NEW n \in ResizeTo, ResizeGrow(n)
        PROVE  LockInv'
    <2>1. mutex' = mutex
      BY <1>12 DEF ResizeGrow
    <2> QED BY <1>12, <2>1, GrowPc DEF LockInv
  <1>13. ASSUME NEW n \in ResizeTo, ResizeShrink(n)
        PROVE  LockInv'
    BY <1>13 DEF ResizeShrink, LockInv
  <1>14. ASSUME NEW w \in Workers, DetachOne(w)
        PROVE  LockInv'
    BY <1>14 DEF DetachOne, LockInv
  <1>15. ASSUME NEW w \in Workers, FlagOne(w)
        PROVE  LockInv'
    BY <1>15 DEF FlagOne, LockInv
  <1>16. CASE ResizeNotify
    BY <1>16 DEF ResizeNotify, NotifyAll, LockInv
  <1>17. CASE FlagDone
    BY <1>17 DEF FlagDone, OwnerGoes, LockInv
  <1>18. CASE ClearQueue
    BY <1>18 DEF ClearQueue, OwnerGoes, LockInv
  <1>19. CASE ClearOne
    BY <1>19 DEF ClearOne, LockInv
  <1>20. CASE ClearDone
    BY <1>20 DEF ClearDone, OwnerGoes, LockInv
  <1>21. CASE StopNow
    BY <1>21 DEF StopNow, LockInv
  <1>22. CASE DropDone
    BY <1>22 DEF DropDone, OwnerGoes, LockInv
  <1>23. CASE StopWait
    BY <1>23 DEF StopWait, SetDone, LockInv
  <1>24. CASE Destruct
    BY <1>24 DEF Destruct, SetDone, LockInv
  <1>25. CASE StopNotify
    BY <1>25 DEF StopNotify, NotifyAll, LockInv
  <1>26. CASE StopJoin
    BY <1>26 DEF StopJoin, OwnerGoes, LockInv
  <1>27. CASE StopFinish
    BY <1>27 DEF StopFinish, LockInv
  <1>28. CASE UNCHANGED vars
    BY <1>28 DEF vars, LockInv
  <1> QED
    BY <1>1, <1>2, <1>3, <1>4, <1>5, <1>6, <1>7, <1>8, <1>9, <1>10, 
       <1>11, <1>12, <1>13, <1>14, <1>15, <1>16, <1>17, <1>18, <1>19, 
       <1>20, <1>21, <1>22, <1>23, <1>24, <1>25, <1>26, <1>27, <1>28
    DEF Next, ProducerStep, WorkerStep, OwnerStep, Terminated

LEMMA CountWorkers ==
  ASSUME NEW S \in SUBSET Workers
  PROVE  IsFiniteSet(S) /\ Cardinality(S) \in Nat
  BY PoolAssumption, FS_Interval, FS_Subset, FS_CardinalityType, 1 \in Int,
     MaxThreads \in Int
  DEF Workers

LEMMA CountProducers ==
  ASSUME NEW S \in SUBSET Producers
  PROVE  IsFiniteSet(S) /\ Cardinality(S) \in Nat
  BY PoolAssumption, FS_Subset, FS_CardinalityType

\* A step that adds no function to the queue and takes nobody off the way to
\* it, and lets nobody decide to sleep, keeps WakeupInv.
LEMMA WakeupKept ==
  ASSUME TypeInv, TypeInv', WakeupInv,
         Popping \subseteq Popping', Announcing \subseteq Announcing',
         Len(q') <= Len(q),
         At({"predExit", "asleep"})' # {} => At({"predExit", "asleep"}) # {}
  PROVE  WakeupInv'
  <1>1. Popping' \in SUBSET Workers /\ Announcing' \in SUBSET Producers
    BY DEF Popping, Announcing, At
  <1>2. Cardinality(Popping) <= Cardinality(Popping')
    BY <1>1, CountWorkers, FS_Subset
  <1>3. Cardinality(Announcing) <= Cardinality(Announcing')
    BY <1>1, CountProducers, FS_Subset
  <1>4. /\ Cardinality(Popping) \in Nat /\ Cardinality(Popping') \in Nat
        /\ Cardinality(Announcing) \in Nat /\ Cardinality(Announcing') \in Nat
    BY <1>1, CountWorkers, CountProducers
  <1>5. Len(q) \in Nat /\ Len(q') \in Nat
    BY DEF TypeInv, TypeOK
  <1> HIDE DEF Popping, Announcing
  <1> QED BY <1>2, <1>3, <1>4, <1>5 DEF WakeupInv

\* A worker that takes a function out of the queue shortens it by one.
LEMMA WakeupTaken ==
  ASSUME TypeInv, TypeInv', WakeupInv, NEW w \in Workers, w \in Popping,
         Popping' = Popping \ {w}, Announcing' = Announcing,
         q # <<>>, q' = Tail(q),
         At({"predExit", "asleep"})' # {} => At({"predExit", "asleep"}) # {}
  PROVE  WakeupInv'
  <1>1. Popping \in SUBSET Workers /\ Announcing \in SUBSET Producers
    BY DEF Popping, Announcing, At
  <1>2. /\ Cardinality(Popping') = Cardinality(Popping) - 1
        /\ Cardinality(Popping) \in Nat /\ Cardinality(Announcing) \in Nat
    BY <1>1, CountWorkers, CountProducers, FS_RemoveElement
  <1>3. Len(q) \in Nat /\ Len(q') = Len(q) - 1
    BY HeadTail DEF TypeInv, TypeOK
  <1> QED BY <1>2, <1>3 DEF WakeupInv

LEMMA WakeupInit == Init => WakeupInv
  BY DEF Init, WakeupInv, At

LEMMA WakeupNext == TypeInv /\ TypeInv' /\ LockInv /\ WakeupInv /\ [Next]_vars => WakeupInv'
  <1> SUFFICES ASSUME TypeInv, TypeInv', LockInv, WakeupInv, [Next]_vars PROVE WakeupInv'
    OBVIOUS
  <1> USE DEF TypeInv, TypeOK, ShapeInv, Workers, Free, ownerVars,
             fateVars
  <1>1. ASSUME NEW p \in Producers, NEW t \in Tasks, PushEnqueue(p, t)
        PROVE  WakeupInv'
    <2>1. Announcing' = Announcing \cup {p} /\ p \notin Announcing
      BY <1>1, PoolAssumption DEF PushEnqueue, Announcing
    <2>2. Cardinality(Announcing') = Cardinality(Announcing) + 1
      BY <2>1, CountProducers, FS_AddElement DEF Announcing
    <2>3. Len(q') = Len(q) + 1
      BY <1>1 DEF PushEnqueue
    <2>4. UNCHANGED pc
      BY <1>1 DEF PushEnqueue
    <2>5. Cardinality(Popping) \in Nat /\ Cardinality(Announcing) \in Nat
      BY CountWorkers, CountProducers DEF Popping, At, Announcing
    <2>6. Len(q) \in Nat
      OBVIOUS
    <2> QED BY <2>2, <2>3, <2>4, <2>5, <2>6 DEF WakeupInv, Popping, At
  <1>2. ASSUME NEW p \in Producers, PushNotify(p)
        PROVE  WakeupInv'
    <2>1. At({"predExit"}) = {}
      BY <1>2 DEF PushNotify, LockInv, At
    <2>2. q' = q /\ Announcing' = Announcing \ {p} /\ p \in Announcing
      BY <1>2 DEF PushNotify, Announcing
    <2>3. Cardinality(Announcing') = Cardinality(Announcing) - 1
      <3>1. IsFiniteSet(Announcing)
        BY CountProducers DEF Announcing
      <3> QED BY <2>2, <3>1, FS_RemoveElement
    <2>4. /\ Cardinality(Popping) \in Nat /\ Cardinality(Announcing) \in Nat
          /\ Popping \in SUBSET Workers
      BY CountWorkers, CountProducers DEF Popping, At, Announcing
    <2>5. CASE At({"asleep"}) = {}
      <3>1. UNCHANGED pc
        BY <1>2, <2>5 DEF PushNotify
      <3> QED BY <2>1, <2>5, <3>1 DEF WakeupInv, At
    <2>6. ASSUME NEW w \in At({"asleep"}), pc' = [pc EXCEPT ![w] = "woken"]
          PROVE  WakeupInv'
      <3>1. Popping' = Popping \cup {w} /\ w \notin Popping
        BY <2>6 DEF Popping, At
      <3>2. Cardinality(Popping') = Cardinality(Popping) + 1
        BY <2>4, <3>1, CountWorkers, FS_AddElement
      <3>3. Len(q) <= Cardinality(Popping) + Cardinality(Announcing)
        BY <2>6 DEF WakeupInv, At
      <3>4. Len(q) \in Nat
        OBVIOUS
      <3> QED BY <2>2, <2>3, <2>4, <3>2, <3>3, <3>4 DEF WakeupInv
    <2> QED BY <1>2, <2>5, <2>6 DEF PushNotify
  <1>3. CASE ClientPop
    <2>1. Popping \subseteq Popping' /\ Announcing \subseteq Announcing'
      BY <1>3
      DEF ClientPop, Goto, TakeHead, NotifyAll, SetDone, Popping, Announcing, At
    <2>2. At({"predExit", "asleep"})' # {} => At({"predExit", "asleep"}) # {}
      BY <1>3 DEF ClientPop, Goto, NotifyAll, SetDone, At
    <2>3. Len(q') <= Len(q)
      BY <1>3, HeadTail DEF ClientPop
    <2> QED BY <2>1, <2>2, <2>3, WakeupKept
  <1>4. ASSUME NEW w \in Workers, WorkerPop(w)
        PROVE  WakeupInv'
    <2>1. CASE q # <<>>
      <3>1. pc[w] = "pop" /\ pc' = [pc EXCEPT ![w] = "run"] /\ q' = Tail(q)
        BY <1>4, <2>1, Zenon DEF WorkerPop, Goto, TakeHead
      <3>2. Popping' = Popping \ {w} /\ w \in Popping
        BY <3>1 DEF Popping, At
      <3>3. Announcing' = Announcing
        BY <1>4 DEF WorkerPop, Announcing
      <3>4. At({"predExit", "asleep"})' # {} => At({"predExit", "asleep"}) # {}
        BY <3>1 DEF At
      <3> QED BY <2>1, <3>1, <3>2, <3>3, <3>4, WakeupTaken
    <2>2. CASE q = <<>>
      <3>1. pc[w] = "pop" /\ pc' = [pc EXCEPT ![w] = "lock"] /\ q' = q
        BY <1>4, <2>2, Zenon DEF WorkerPop, Goto, TakeHead
      <3>2. Popping \subseteq Popping'
        BY <3>1 DEF Popping, At
      <3>3. Announcing' = Announcing
        BY <1>4 DEF WorkerPop, Announcing
      <3>4. At({"predExit", "asleep"})' # {} => At({"predExit", "asleep"}) # {}
        BY <3>1 DEF At
      <3> QED BY <3>1, <3>2, <3>3, <3>4, WakeupKept
    <2> QED BY <2>1, <2>2
  <1>5. ASSUME NEW w \in Workers, WorkerRun(w)
        PROVE  WakeupInv'
    <2>1. Popping \subseteq Popping' /\ Announcing \subseteq Announcing'
      BY <1>5 DEF WorkerRun, Goto, Popping, Announcing, At
    <2>2. At({"predExit", "asleep"})' # {} => At({"predExit", "asleep"}) # {}
      BY <1>5 DEF WorkerRun, Goto, At
    <2>3. Len(q') <= Len(q)
      BY <1>5 DEF WorkerRun
    <2> QED BY <2>1, <2>2, <2>3, WakeupKept
  <1>6. ASSUME NEW w \in Workers, WorkerCheckFlag(w)
        PROVE  WakeupInv'
    <2>1. Popping \subseteq Popping' /\ Announcing \subseteq Announcing'
      BY <1>6 DEF WorkerCheckFlag, Goto, Popping, Announcing, At
    <2>2. At({"predExit", "asleep"})' # {} => At({"predExit", "asleep"}) # {}
      BY <1>6 DEF WorkerCheckFlag, Goto, At
    <2>3. Len(q') <= Len(q)
      BY <1>6 DEF WorkerCheckFlag
    <2> QED BY <2>1, <2>2, <2>3, WakeupKept
  <1>7. ASSUME NEW w \in Workers, WorkerEnterWait(w)
        PROVE  WakeupInv'
    <2>1. Popping \subseteq Popping' /\ Announcing \subseteq Announcing'
      BY <1>7 DEF WorkerEnterWait, Goto, Popping, Announcing, At
    <2>2. At({"predExit", "asleep"})' # {} => At({"predExit", "asleep"}) # {}
      BY <1>7 DEF WorkerEnterWait, Goto, At
    <2>3. Len(q') <= Len(q)
      BY <1>7 DEF WorkerEnterWait
    <2> QED BY <2>1, <2>2, <2>3, WakeupKept
  <1>8. ASSUME NEW w \in Workers, WorkerReacquire(w)
        PROVE  WakeupInv'
    <2>1. Popping \subseteq Popping' /\ Announcing \subseteq Announcing'
      BY <1>8 DEF WorkerReacquire, Goto, Popping, Announcing, At
    <2>2. At({"predExit", "asleep"})' # {} => At({"predExit", "asleep"}) # {}
      BY <1>8 DEF WorkerReacquire, Goto, At
    <2>3. Len(q') <= Len(q)
      BY <1>8 DEF WorkerReacquire
    <2> QED BY <2>1, <2>2, <2>3, WakeupKept
  <1>9. ASSUME NEW w \in Workers, WorkerPredPop(w)
        PROVE  WakeupInv'
    <2>1. CASE q # <<>>
      <3>1. pc[w] = "pred" /\ pc' = [pc EXCEPT ![w] = "run"] /\ q' = Tail(q)
        BY <1>9, <2>1, Zenon DEF WorkerPredPop, Goto, TakeHead
      <3>2. Popping' = Popping \ {w} /\ w \in Popping
        BY <3>1 DEF Popping, At
      <3>3. Announcing' = Announcing
        BY <1>9 DEF WorkerPredPop, Announcing
      <3>4. At({"predExit", "asleep"})' # {} => At({"predExit", "asleep"}) # {}
        BY <3>1 DEF At
      <3> QED BY <2>1, <3>1, <3>2, <3>3, <3>4, WakeupTaken
    <2>2. CASE q = <<>>
      <3>1. q' = <<>> /\ Len(q') = 0
        BY <1>9, <2>2 DEF WorkerPredPop
      <3>2. Cardinality(Popping') \in Nat /\ Cardinality(Announcing') \in Nat
        BY CountWorkers, CountProducers DEF Popping, At, Announcing
      <3> QED BY <3>1, <3>2 DEF WakeupInv
    <2> QED BY <2>1, <2>2
  <1>10. ASSUME NEW w \in Workers, WorkerPredExit(w)
        PROVE  WakeupInv'
    <2>1. w \in At({"predExit", "asleep"})
      BY <1>10 DEF WorkerPredExit, Goto, At
    <2>2. Popping \subseteq Popping' /\ Announcing \subseteq Announcing'
      BY <1>10 DEF WorkerPredExit, Goto, Popping, Announcing, At
    <2>3. q' = q
      BY <1>10 DEF WorkerPredExit
    <2> QED BY <2>1, <2>2, <2>3, WakeupKept
  <1>11. ASSUME NEW w \in Workers, SpuriousWakeup(w)
        PROVE  WakeupInv'
    <2>1. Popping \subseteq Popping' /\ Announcing \subseteq Announcing'
      BY <1>11 DEF SpuriousWakeup, Goto, Popping, Announcing, At
    <2>2. At({"predExit", "asleep"})' # {} => At({"predExit", "asleep"}) # {}
      BY <1>11 DEF SpuriousWakeup, Goto, At
    <2>3. Len(q') <= Len(q)
      BY <1>11 DEF SpuriousWakeup
    <2> QED BY <2>1, <2>2, <2>3, WakeupKept
  <1>12. ASSUME NEW n \in ResizeTo, ResizeGrow(n)
        PROVE  WakeupInv'
    <2>1. Popping \subseteq Popping'
      BY <1>12, GrowPc DEF Popping, At
    <2>2. q' = q /\ Announcing' = Announcing
      BY <1>12 DEF ResizeGrow, Announcing
    <2>3. At({"predExit", "asleep"})' # {} => At({"predExit", "asleep"}) # {}
      BY <1>12, GrowPc DEF At
    <2> QED BY <2>1, <2>2, <2>3, WakeupKept
  <1>13. ASSUME NEW n \in ResizeTo, ResizeShrink(n)
        PROVE  WakeupInv'
    <2>1. Popping \subseteq Popping' /\ Announcing \subseteq Announcing'
      BY <1>13 DEF ResizeShrink, Popping, Announcing, At
    <2>2. At({"predExit", "asleep"})' # {} => At({"predExit", "asleep"}) # {}
      BY <1>13 DEF ResizeShrink, At
    <2>3. Len(q') <= Len(q)
      BY <1>13 DEF ResizeShrink
    <2> QED BY <2>1, <2>2, <2>3, WakeupKept
  <1>14. ASSUME NEW w \in Workers, DetachOne(w)
        PROVE  WakeupInv'
    <2>1. Popping \subseteq Popping' /\ Announcing \subseteq Announcing'
      BY <1>14 DEF DetachOne, Popping, Announcing, At
    <2>2. At({"predExit", "asleep"})' # {} => At({"predExit", "asleep"}) # {}
      BY <1>14 DEF DetachOne, At
    <2>3. Len(q') <= Len(q)
      BY <1>14 DEF DetachOne
    <2> QED BY <2>1, <2>2, <2>3, WakeupKept
  <1>15. ASSUME NEW w \in Workers, FlagOne(w)
        PROVE  WakeupInv'
    <2>1. Popping \subseteq Popping' /\ Announcing \subseteq Announcing'
      BY <1>15 DEF FlagOne, Popping, Announcing, At
    <2>2. At({"predExit", "asleep"})' # {} => At({"predExit", "asleep"}) # {}
      BY <1>15 DEF FlagOne, At
    <2>3. Len(q') <= Len(q)
      BY <1>15 DEF FlagOne
    <2> QED BY <2>1, <2>2, <2>3, WakeupKept
  <1>16. CASE ResizeNotify
    <2>1. Popping \subseteq Popping' /\ Announcing \subseteq Announcing'
      BY <1>16 DEF ResizeNotify, NotifyAll, Popping, Announcing, At
    <2>2. At({"predExit", "asleep"})' # {} => At({"predExit", "asleep"}) # {}
      BY <1>16 DEF ResizeNotify, NotifyAll, At
    <2>3. Len(q') <= Len(q)
      BY <1>16 DEF ResizeNotify
    <2> QED BY <2>1, <2>2, <2>3, WakeupKept
  <1>17. CASE FlagDone
    <2>1. Popping \subseteq Popping' /\ Announcing \subseteq Announcing'
      BY <1>17 DEF FlagDone, OwnerGoes, Popping, Announcing, At
    <2>2. At({"predExit", "asleep"})' # {} => At({"predExit", "asleep"}) # {}
      BY <1>17 DEF FlagDone, OwnerGoes, At
    <2>3. Len(q') <= Len(q)
      BY <1>17 DEF FlagDone, OwnerGoes
    <2> QED BY <2>1, <2>2, <2>3, WakeupKept
  <1>18. CASE ClearQueue
    <2>1. Popping \subseteq Popping' /\ Announcing \subseteq Announcing'
      BY <1>18 DEF ClearQueue, OwnerGoes, Popping, Announcing, At
    <2>2. At({"predExit", "asleep"})' # {} => At({"predExit", "asleep"}) # {}
      BY <1>18 DEF ClearQueue, OwnerGoes, At
    <2>3. Len(q') <= Len(q)
      BY <1>18 DEF ClearQueue, OwnerGoes
    <2> QED BY <2>1, <2>2, <2>3, WakeupKept
  <1>19. CASE ClearOne
    <2>1. Popping \subseteq Popping' /\ Announcing \subseteq Announcing'
      BY <1>19
      DEF ClearOne, Goto, TakeHead, NotifyAll, SetDone, Popping, Announcing, At
    <2>2. At({"predExit", "asleep"})' # {} => At({"predExit", "asleep"}) # {}
      BY <1>19 DEF ClearOne, Goto, NotifyAll, SetDone, At
    <2>3. Len(q') <= Len(q)
      BY <1>19, HeadTail DEF ClearOne
    <2> QED BY <2>1, <2>2, <2>3, WakeupKept
  <1>20. CASE ClearDone
    <2>1. Popping \subseteq Popping' /\ Announcing \subseteq Announcing'
      BY <1>20 DEF ClearDone, OwnerGoes, Popping, Announcing, At
    <2>2. At({"predExit", "asleep"})' # {} => At({"predExit", "asleep"}) # {}
      BY <1>20 DEF ClearDone, OwnerGoes, At
    <2>3. Len(q') <= Len(q)
      BY <1>20 DEF ClearDone, OwnerGoes
    <2> QED BY <2>1, <2>2, <2>3, WakeupKept
  <1>21. CASE StopNow
    <2>1. Popping \subseteq Popping' /\ Announcing \subseteq Announcing'
      BY <1>21 DEF StopNow, Popping, Announcing, At
    <2>2. At({"predExit", "asleep"})' # {} => At({"predExit", "asleep"}) # {}
      BY <1>21 DEF StopNow, At
    <2>3. Len(q') <= Len(q)
      BY <1>21 DEF StopNow
    <2> QED BY <2>1, <2>2, <2>3, WakeupKept
  <1>22. CASE DropDone
    <2>1. Popping \subseteq Popping' /\ Announcing \subseteq Announcing'
      BY <1>22 DEF DropDone, OwnerGoes, Popping, Announcing, At
    <2>2. At({"predExit", "asleep"})' # {} => At({"predExit", "asleep"}) # {}
      BY <1>22 DEF DropDone, OwnerGoes, At
    <2>3. Len(q') <= Len(q)
      BY <1>22 DEF DropDone, OwnerGoes
    <2> QED BY <2>1, <2>2, <2>3, WakeupKept
  <1>23. CASE StopWait
    <2>1. Popping \subseteq Popping' /\ Announcing \subseteq Announcing'
      BY <1>23 DEF StopWait, SetDone, Popping, Announcing, At
    <2>2. At({"predExit", "asleep"})' # {} => At({"predExit", "asleep"}) # {}
      BY <1>23 DEF StopWait, SetDone, At
    <2>3. Len(q') <= Len(q)
      BY <1>23 DEF StopWait
    <2> QED BY <2>1, <2>2, <2>3, WakeupKept
  <1>24. CASE Destruct
    <2>1. Popping \subseteq Popping' /\ Announcing \subseteq Announcing'
      BY <1>24 DEF Destruct, SetDone, Popping, Announcing, At
    <2>2. At({"predExit", "asleep"})' # {} => At({"predExit", "asleep"}) # {}
      BY <1>24 DEF Destruct, SetDone, At
    <2>3. Len(q') <= Len(q)
      BY <1>24 DEF Destruct
    <2> QED BY <2>1, <2>2, <2>3, WakeupKept
  <1>25. CASE StopNotify
    <2>1. Popping \subseteq Popping' /\ Announcing \subseteq Announcing'
      BY <1>25 DEF StopNotify, NotifyAll, Popping, Announcing, At
    <2>2. At({"predExit", "asleep"})' # {} => At({"predExit", "asleep"}) # {}
      BY <1>25 DEF StopNotify, NotifyAll, At
    <2>3. Len(q') <= Len(q)
      BY <1>25 DEF StopNotify
    <2> QED BY <2>1, <2>2, <2>3, WakeupKept
  <1>26. CASE StopJoin
    <2>1. Popping \subseteq Popping' /\ Announcing \subseteq Announcing'
      BY <1>26 DEF StopJoin, OwnerGoes, Popping, Announcing, At
    <2>2. At({"predExit", "asleep"})' # {} => At({"predExit", "asleep"}) # {}
      BY <1>26 DEF StopJoin, OwnerGoes, At
    <2>3. Len(q') <= Len(q)
      BY <1>26 DEF StopJoin, OwnerGoes
    <2> QED BY <2>1, <2>2, <2>3, WakeupKept
  <1>27. CASE StopFinish
    <2>1. Popping \subseteq Popping' /\ Announcing \subseteq Announcing'
      BY <1>27 DEF StopFinish, Popping, Announcing, At
    <2>2. At({"predExit", "asleep"})' # {} => At({"predExit", "asleep"}) # {}
      BY <1>27 DEF StopFinish, At
    <2>3. Len(q') <= Len(q)
      BY <1>27 DEF StopFinish
    <2> QED BY <2>1, <2>2, <2>3, WakeupKept
  <1>28. CASE UNCHANGED vars
    BY <1>28 DEF vars, WakeupInv, Popping, Announcing, At
  <1> QED
    BY <1>1, <1>2, <1>3, <1>4, <1>5, <1>6, <1>7, <1>8, <1>9, <1>10, 
       <1>11, <1>12, <1>13, <1>14, <1>15, <1>16, <1>17, <1>18, <1>19, 
       <1>20, <1>21, <1>22, <1>23, <1>24, <1>25, <1>26, <1>27, <1>28
    DEF Next, ProducerStep, WorkerStep, OwnerStep, Terminated


-----------------------------------------------------------------------------
(* Where the functions are.                                                *)

\* What a step does to the places a function can be at: it is in one of them
\* only, it never becomes fresh again, and only a fresh one enters the queue.
FateStep == FateInv' /\ Fresh' \subseteq Fresh /\ Queued' \subseteq Queued \cup Fresh

LEMMA FateKept ==
  ASSUME TypeInv, FateInv, UNCHANGED <<q, task, done, dropped, taken>>,
         \A w \in Workers : pc'[w] = "run" <=> pc[w] = "run"
  PROVE  FateStep /\ Running' = Running /\ Queued' = Queued
  <1>1. At({"run"})' = At({"run"})
    BY DEF At
  <1>2. Running' = Running
    <2>1. {w \in Workers : pc'[w] = "run"} = {w \in Workers : pc[w] = "run"}
      OBVIOUS
    <2> QED BY <2>1 DEF Running
  <1>3. Queued' = Queued
    BY DEF Queued
  <1> QED BY <1>1, <1>2, <1>3 DEF FateInv, FateStep, Fresh

\* Taking the head out of a queue without repetitions.
LEMMA DistinctTail ==
  ASSUME q \in Seq(Tasks), q # <<>>, FateInv, q' = Tail(q)
  PROVE  /\ \A i, j \in DOMAIN q' : q'[i] = q'[j] => i = j
         /\ Head(q) \notin Queued'
         /\ Queued = Queued' \cup {Head(q)}
  <1>1. \A i, j \in DOMAIN q' : i + 1 \in DOMAIN q /\ j + 1 \in DOMAIN q
                                  /\ q'[i] = q[i + 1] /\ q'[j] = q[j + 1]
                                  /\ i \in Int /\ j \in Int
    BY HeadTail
  <1>2. \A i, j \in DOMAIN q' : q'[i] = q'[j] => i = j
    BY <1>1 DEF FateInv
  <1>3. Head(q) \notin Queued'
    <2>1. \A i \in DOMAIN q' : i \in Nat \ {0} /\ i + 1 \in DOMAIN q /\ q'[i] = q[i + 1]
      BY HeadTail
    <2>2. 1 \in DOMAIN q /\ Head(q) = q[1]
      BY HeadTail
    <2> QED BY <2>1, <2>2 DEF Queued, Range, FateInv
  <1> QED BY <1>2, <1>3, RangeTail DEF Queued

LEMMA DistinctAppend ==
  ASSUME q \in Seq(Tasks), FateInv, NEW t \in Tasks, t \notin Queued, q' = Append(q, t)
  PROVE  /\ \A i, j \in DOMAIN q' : q'[i] = q'[j] => i = j
         /\ Queued' = Queued \cup {t}
  <1>1. /\ Len(q) \in Nat /\ DOMAIN q = 1..Len(q)
        /\ DOMAIN q' = 1..(Len(q) + 1)
        /\ \A i \in DOMAIN q : q'[i] = q[i]
        /\ q'[Len(q) + 1] = t
    OBVIOUS
  <1>2. \A i \in DOMAIN q : q[i] # t
    BY DEF Queued, Range
  <1> QED BY <1>1, <1>2, RangeAppend DEF FateInv, Queued

\* A worker takes the oldest function to execute it.
LEMMA TakeToRun ==
  ASSUME TypeInv, FateInv, NEW w \in Workers, pc[w] # "run", q # <<>>, TakeHead(w),
         pc' = [pc EXCEPT ![w] = "run"], UNCHANGED fateVars
  PROVE  /\ FateStep
         /\ Running' = Running \cup {Head(q)}
         /\ Fresh' = Fresh
  <1>1. /\ q' = Tail(q) /\ task' = [task EXCEPT ![w] = Head(q)]
        /\ q \in Seq(Tasks) /\ Head(q) \in Tasks
    BY DEF TakeHead, TypeInv, TypeOK
  <1>2. /\ At({"run"})' = At({"run"}) \cup {w} /\ w \notin At({"run"})
        /\ task'[w] = Head(q)
        /\ \A v \in At({"run"}) : task'[v] = task[v]
    BY <1>1 DEF At, TypeInv, TypeOK
  <1>3. Running' = Running \cup {Head(q)}
    BY <1>2 DEF Running, At
  <1>4. Head(q) \in Queued
    BY <1>1, DistinctTail
  <1>5. \A v \in At({"run"}) : task'[v] # Head(q)
    BY <1>2, <1>4 DEF FateInv, Running, At
  <1>6. \A v, u \in At({"run"})' : task'[v] = task'[u] => v = u
    BY <1>2, <1>5 DEF FateInv
  <1>7. /\ Queued' \cap Running' = {}
        /\ (Queued' \cup Running') \cap (done' \cup dropped' \cup taken') = {}
        /\ Fresh' = Fresh
    BY <1>1, <1>3, DistinctTail DEF FateInv, Fresh, fateVars
  <1>8. Queued' \subseteq Queued
    BY <1>1, DistinctTail
  <1> QED BY <1>1, <1>3, <1>6, <1>7, <1>8, DistinctTail DEF FateStep, FateInv

\* Someone else takes the oldest function out of the queue for good.
LEMMA TakeForGood ==
  ASSUME TypeInv, FateInv, q # <<>>, q' = Tail(q), UNCHANGED <<pc, task, done>>,
         \/ taken' = taken \cup {Head(q)} /\ dropped' = dropped
         \/ dropped' = dropped \cup {Head(q)} /\ taken' = taken
  PROVE  FateStep /\ Running' = Running
  <1>1. q \in Seq(Tasks)
    BY DEF TypeInv, TypeOK
  <1>2. At({"run"})' = At({"run"}) /\ Running' = Running
    BY DEF At, Running
  <1> QED BY <1>1, <1>2, DistinctTail DEF FateStep, FateInv, Fresh

\* A function that returns is in its worker's hands no longer.
LEMMA RunToDone ==
  ASSUME TypeInv, FateInv, NEW w \in Workers, WorkerRun(w)
  PROVE  /\ FateStep
         /\ Running' = Running \ {task[w]} /\ task[w] \in Running
  <1> USE DEF TypeInv, TypeOK, ShapeInv, ownerVars, fateVars
  <1>1. /\ pc[w] = "run" /\ pc' = [pc EXCEPT ![w] = "check"]
        /\ done' = done \cup {task[w]} /\ task' = [task EXCEPT ![w] = NoTask]
        /\ UNCHANGED <<q, dropped, taken>>
    BY DEF WorkerRun, Goto
  <1>2. /\ At({"run"})' = At({"run"}) \ {w} /\ w \in At({"run"})
        /\ \A v \in At({"run"})' : task'[v] = task[v]
    BY <1>1 DEF At
  <1>3. Running' = Running \ {task[w]} /\ task[w] \in Running
    BY <1>1, <1>2 DEF Running, At, FateInv
  <1>4. \A v, u \in At({"run"})' : task'[v] = task'[u] => v = u
    BY <1>2 DEF FateInv
  <1>5. Queued' = Queued
    BY <1>1 DEF Queued
  <1> QED BY <1>1, <1>3, <1>4, <1>5 DEF FateInv, FateStep, Fresh

LEMMA FateInit == Init => FateInv
  BY DEF Init, FateInv, Queued, Running, Range, At

LEMMA FateNext == TypeInv /\ FateInv /\ [Next]_vars => FateStep
  <1> SUFFICES ASSUME TypeInv, FateInv, [Next]_vars PROVE FateStep
    OBVIOUS
  <1> USE DEF TypeInv, TypeOK, ShapeInv, Workers, Free, ownerVars,
             fateVars
  <1>1. ASSUME NEW p \in Producers, NEW t \in Tasks, PushEnqueue(p, t)
        PROVE  FateStep
    <2>1. t \in Fresh /\ t \in Tasks /\ t \notin Queued
      BY <1>1 DEF PushEnqueue, Fresh
    <2>2. At({"run"})' = At({"run"}) /\ Running' = Running
      BY <1>1 DEF PushEnqueue, At, Running
    <2> QED BY <1>1, <2>1, <2>2, DistinctAppend
             DEF PushEnqueue, FateStep, FateInv, Fresh
  <1>2. ASSUME NEW p \in Producers, PushNotify(p)
        PROVE  FateStep
    <2>1. \A v \in Workers : pc'[v] = "run" <=> pc[v] = "run"
      BY <1>2 DEF PushNotify, At
    <2> QED BY <1>2, <2>1, FateKept DEF PushNotify
  <1>3. CASE ClientPop
    BY <1>3, TakeForGood DEF ClientPop
  <1>4. ASSUME NEW w \in Workers, WorkerPop(w)
        PROVE  FateStep
    <2>1. CASE q # <<>>
      <3>1. pc[w] = "pop" /\ pc' = [pc EXCEPT ![w] = "run"] /\ TakeHead(w)
        BY <1>4, <2>1, Zenon DEF WorkerPop, Goto
      <3> QED BY <1>4, <2>1, <3>1, TakeToRun DEF WorkerPop
    <2>2. CASE q = <<>>
      BY <1>4, <2>2, FateKept DEF WorkerPop, Goto
    <2> QED BY <2>1, <2>2
  <1>5. ASSUME NEW w \in Workers, WorkerRun(w)
        PROVE  FateStep
    BY <1>5, RunToDone
  <1>6. ASSUME NEW w \in Workers, WorkerCheckFlag(w)
        PROVE  FateStep
    BY <1>6, FateKept DEF WorkerCheckFlag, Goto
  <1>7. ASSUME NEW w \in Workers, WorkerEnterWait(w)
        PROVE  FateStep
    BY <1>7, FateKept DEF WorkerEnterWait, Goto
  <1>8. ASSUME NEW w \in Workers, WorkerReacquire(w)
        PROVE  FateStep
    BY <1>8, FateKept DEF WorkerReacquire, Goto
  <1>9. ASSUME NEW w \in Workers, WorkerPredPop(w)
        PROVE  FateStep
    <2>1. CASE q # <<>>
      <3>1. pc[w] = "pred" /\ pc' = [pc EXCEPT ![w] = "run"] /\ TakeHead(w)
        BY <1>9, <2>1, Zenon DEF WorkerPredPop, Goto
      <3> QED BY <1>9, <2>1, <3>1, TakeToRun DEF WorkerPredPop
    <2>2. CASE q = <<>>
      BY <1>9, <2>2, FateKept DEF WorkerPredPop, Goto
    <2> QED BY <2>1, <2>2
  <1>10. ASSUME NEW w \in Workers, WorkerPredExit(w)
        PROVE  FateStep
    BY <1>10, FateKept DEF WorkerPredExit, Goto
  <1>11. ASSUME NEW w \in Workers, SpuriousWakeup(w)
        PROVE  FateStep
    BY <1>11, FateKept DEF SpuriousWakeup, Goto
  <1>12. ASSUME NEW n \in ResizeTo, ResizeGrow(n)
        PROVE  FateStep
    <2>1. \A v \in Workers : pc'[v] = "run" <=> pc[v] = "run"
      BY <1>12, GrowPc
    <2> QED BY <1>12, <2>1, FateKept DEF ResizeGrow
  <1>13. ASSUME NEW n \in ResizeTo, ResizeShrink(n)
        PROVE  FateStep
    BY <1>13, FateKept DEF ResizeShrink
  <1>14. ASSUME NEW w \in Workers, DetachOne(w)
        PROVE  FateStep
    BY <1>14, FateKept DEF DetachOne
  <1>15. ASSUME NEW w \in Workers, FlagOne(w)
        PROVE  FateStep
    BY <1>15, FateKept DEF FlagOne
  <1>16. CASE ResizeNotify
    BY <1>16, FateKept DEF ResizeNotify, NotifyAll
  <1>17. CASE FlagDone
    BY <1>17, FateKept DEF FlagDone, OwnerGoes
  <1>18. CASE ClearQueue
    BY <1>18, FateKept DEF ClearQueue, OwnerGoes
  <1>19. CASE ClearOne
    BY <1>19, TakeForGood DEF ClearOne
  <1>20. CASE ClearDone
    BY <1>20, FateKept DEF ClearDone, OwnerGoes
  <1>21. CASE StopNow
    BY <1>21, FateKept DEF StopNow
  <1>22. CASE DropDone
    BY <1>22, FateKept DEF DropDone, OwnerGoes
  <1>23. CASE StopWait
    BY <1>23, FateKept DEF StopWait, SetDone
  <1>24. CASE Destruct
    BY <1>24, FateKept DEF Destruct, SetDone
  <1>25. CASE StopNotify
    BY <1>25, FateKept DEF StopNotify, NotifyAll
  <1>26. CASE StopJoin
    BY <1>26, FateKept DEF StopJoin, OwnerGoes
  <1>27. CASE StopFinish
    BY <1>27, FateKept DEF StopFinish
  <1>28. CASE UNCHANGED vars
    BY <1>28, FateKept DEF vars
  <1> QED
    BY <1>1, <1>2, <1>3, <1>4, <1>5, <1>6, <1>7, <1>8, <1>9, <1>10, 
       <1>11, <1>12, <1>13, <1>14, <1>15, <1>16, <1>17, <1>18, <1>19, 
       <1>20, <1>21, <1>22, <1>23, <1>24, <1>25, <1>26, <1>27, <1>28
    DEF Next, ProducerStep, WorkerStep, OwnerStep, Terminated


-----------------------------------------------------------------------------
(* stop(true) and the queue.                                               *)

LEMMA OwnerInit == Init => OwnerInv
  <1> SUFFICES ASSUME Init PROVE OwnerInv
    OBVIOUS
  <1>1. \A w \in Workers : (w \in threads => flag[w] = FALSE)
                           /\ (pc[w] \notin {"none", "exit"} => w \in threads)
    BY DEF Init, Workers
  <1>2. threads \subseteq Workers
    BY PoolAssumption DEF Init, Workers
  <1>3. opc = "idle" /\ ~isDone /\ ~isStop
    BY DEF Init
  <1> QED BY <1>1, <1>2, <1>3 DEF OwnerInv, At

LEMMA PromiseInit == Init => PromiseInv
  <1> SUFFICES ASSUME Init PROVE PromiseInv
    OBVIOUS
  <1>1. \A w \in Workers : pc[w] \in {"pop", "none"}
    BY DEF Init
  <1> QED BY <1>1 DEF Init, PromiseInv, At

LEMMA OwnerNext == TypeInv /\ TypeInv' /\ OwnerInv /\ [Next]_vars => OwnerInv'
  <1> SUFFICES ASSUME TypeInv, TypeInv', OwnerInv, [Next]_vars PROVE OwnerInv'
    OBVIOUS
  <1> USE PoolAssumption DEF TypeInv, TypeOK, ShapeInv, Workers, Free, ownerVars,
             fateVars
  <1>1. ASSUME NEW p \in Producers, NEW t \in Tasks, PushEnqueue(p, t)
        PROVE  OwnerInv'
    BY <1>1 DEF PushEnqueue, At, OwnerInv
  <1>2. ASSUME NEW p \in Producers, PushNotify(p)
        PROVE  OwnerInv'
    BY <1>2 DEF PushNotify, At, OwnerInv
  <1>3. CASE ClientPop
    BY <1>3 DEF ClientPop, At, OwnerInv
  <1>4. ASSUME NEW w \in Workers, WorkerPop(w)
        PROVE  OwnerInv'
    <2>1. /\ UNCHANGED <<flag, isDone, isStop, opc, threads, detached>>
          /\ \A v \in Workers : /\ pc[v] = "exit" => pc'[v] = "exit"
                                /\ pc[v] = "none" => pc'[v] = "none"
      BY <1>4 DEF WorkerPop, Goto
    <2> QED BY <2>1 DEF OwnerInv, At
  <1>5. ASSUME NEW w \in Workers, WorkerRun(w)
        PROVE  OwnerInv'
    BY <1>5 DEF WorkerRun, Goto, At, OwnerInv
  <1>6. ASSUME NEW w \in Workers, WorkerCheckFlag(w)
        PROVE  OwnerInv'
    BY <1>6 DEF WorkerCheckFlag, Goto, At, OwnerInv
  <1>7. ASSUME NEW w \in Workers, WorkerEnterWait(w)
        PROVE  OwnerInv'
    BY <1>7 DEF WorkerEnterWait, Goto, At, OwnerInv
  <1>8. ASSUME NEW w \in Workers, WorkerReacquire(w)
        PROVE  OwnerInv'
    BY <1>8 DEF WorkerReacquire, Goto, At, OwnerInv
  <1>9. ASSUME NEW w \in Workers, WorkerPredPop(w)
        PROVE  OwnerInv'
    <2>1. /\ UNCHANGED <<flag, isDone, isStop, opc, threads, detached>>
          /\ \A v \in Workers : /\ pc[v] = "exit" => pc'[v] = "exit"
                                /\ pc[v] = "none" => pc'[v] = "none"
      BY <1>9 DEF WorkerPredPop, Goto
    <2> QED BY <2>1 DEF OwnerInv, At
  <1>10. ASSUME NEW w \in Workers, WorkerPredExit(w)
        PROVE  OwnerInv'
    BY <1>10 DEF WorkerPredExit, Goto, At, OwnerInv
  <1>11. ASSUME NEW w \in Workers, SpuriousWakeup(w)
        PROVE  OwnerInv'
    BY <1>11 DEF SpuriousWakeup, Goto, At, OwnerInv
  <1>12. ASSUME NEW n \in ResizeTo, ResizeGrow(n)
        PROVE  OwnerInv'
    <2>1. /\ opc = "idle" /\ ~isStop /\ ~isDone
          /\ UNCHANGED <<opc, isStop, isDone, detached>>
      BY <1>12 DEF ResizeGrow
    <2>2. \A w \in threads' : w \in Workers
      BY TypeInv' DEF TypeInv, TypeOK
    <2> QED BY <1>12, <2>1, <2>2, GrowPc DEF OwnerInv
  <1>13. ASSUME NEW n \in ResizeTo, ResizeShrink(n)
        PROVE  OwnerInv'
    BY <1>13 DEF ResizeShrink, At, OwnerInv
  <1>14. ASSUME NEW w \in Workers, DetachOne(w)
        PROVE  OwnerInv'
    BY <1>14 DEF DetachOne, At, OwnerInv
  <1>15. ASSUME NEW w \in Workers, FlagOne(w)
        PROVE  OwnerInv'
    BY <1>15 DEF FlagOne, At, OwnerInv
  <1>16. CASE ResizeNotify
    BY <1>16 DEF ResizeNotify, NotifyAll, At, OwnerInv
  <1>17. CASE FlagDone
    BY <1>17 DEF FlagDone, OwnerGoes, At, OwnerInv
  <1>18. CASE ClearQueue
    BY <1>18 DEF ClearQueue, OwnerGoes, At, OwnerInv
  <1>19. CASE ClearOne
    BY <1>19 DEF ClearOne, At, OwnerInv
  <1>20. CASE ClearDone
    BY <1>20 DEF ClearDone, OwnerGoes, At, OwnerInv
  <1>21. CASE StopNow
    BY <1>21 DEF StopNow, At, OwnerInv
  <1>22. CASE DropDone
    BY <1>22 DEF DropDone, OwnerGoes, At, OwnerInv
  <1>23. CASE StopWait
    BY <1>23 DEF StopWait, SetDone, At, OwnerInv
  <1>24. CASE Destruct
    BY <1>24 DEF Destruct, SetDone, At, OwnerInv
  <1>25. CASE StopNotify
    BY <1>25 DEF StopNotify, NotifyAll, At, OwnerInv
  <1>26. CASE StopJoin
    BY <1>26 DEF StopJoin, OwnerGoes, At, OwnerInv
  <1>27. CASE StopFinish
    BY <1>27 DEF StopFinish, At, OwnerInv
  <1>28. CASE UNCHANGED vars
    BY <1>28 DEF vars, OwnerInv, At
  <1> QED
    BY <1>1, <1>2, <1>3, <1>4, <1>5, <1>6, <1>7, <1>8, <1>9, <1>10, 
       <1>11, <1>12, <1>13, <1>14, <1>15, <1>16, <1>17, <1>18, <1>19, 
       <1>20, <1>21, <1>22, <1>23, <1>24, <1>25, <1>26, <1>27, <1>28
    DEF Next, ProducerStep, WorkerStep, OwnerStep, Terminated


\* A step that keeps the history, in which nobody starts to leave unflagged
\* and nobody's announcement ends while the mutex is held.
LEMMA PromiseKept ==
  ASSUME TypeInv, TypeInv', FateStep, PromiseInv, UNCHANGED <<promised, isDone>>,
         \A w \in Workers : pc'[w] = "predExit" => pc[w] = "predExit",
         \A w \in Workers : pc'[w] = "exit" /\ ~flag'[w] =>
            (pc[w] = "exit" /\ ~flag[w]) \/ (isDone /\ pc[w] = "predExit"),
         At({"predExit"})' # {} => Queued' \subseteq Range(notifying')
  PROVE  PromiseInv'
  <1>1. promised' \cap Fresh' = {}
    BY DEF PromiseInv, FateStep
  <1>2. promised \cap Queued = {} => promised' \cap Queued' = {}
    BY DEF PromiseInv, FateStep
  <1>3. At({"predExit"})' # {} => At({"predExit"}) # {}
    BY DEF At
  <1>4. ASSUME NEW w \in Workers, pc'[w] = "exit", ~flag'[w]
        PROVE  isDone /\ promised \cap Queued = {}
    <2>1. CASE pc[w] = "exit" /\ ~flag[w]
      BY <2>1 DEF PromiseInv
    <2>2. CASE isDone /\ pc[w] = "predExit"
      BY <2>2 DEF PromiseInv, At
    <2> QED BY <1>4, <2>1, <2>2
  <1> QED BY <1>1, <1>2, <1>3, <1>4 DEF PromiseInv

\* Setting isDone takes the history.
LEMMA PromiseMade ==
  ASSUME TypeInv, PromiseInv, ~isDone, SetDone,
         UNCHANGED <<q, notifying, pc, flag, task, fateVars>>
  PROVE  PromiseInv'
  <1>1. /\ Queued' = Queued /\ Fresh' = Fresh /\ Range(notifying') = Range(notifying)
        /\ At({"predExit"})' = At({"predExit"})
    BY DEF Queued, Fresh, Running, At, fateVars
  <1>2. promised' = Queued \ Range(notifying) /\ isDone' = TRUE
    BY DEF SetDone
  <1>3. promised' \cap Fresh' = {}
    BY <1>1, <1>2 DEF Fresh
  <1>4. At({"predExit"}) # {} => promised' \cap Queued' = {}
    BY <1>1, <1>2 DEF PromiseInv
  <1>5. \A w \in Workers : ~(pc'[w] = "exit" /\ ~flag'[w])
    BY DEF PromiseInv
  <1> QED BY <1>1, <1>3, <1>4, <1>5 DEF PromiseInv

LEMMA PromiseNext == TypeInv /\ TypeInv' /\ LockInv /\ FateStep /\ PromiseInv /\ [Next]_vars => PromiseInv'
  <1> SUFFICES ASSUME TypeInv, TypeInv', LockInv, FateStep, PromiseInv, [Next]_vars PROVE PromiseInv'
    OBVIOUS
  <1> USE DEF TypeInv, TypeOK, ShapeInv, Workers, Free, ownerVars,
             fateVars
  <1>1. ASSUME NEW p \in Producers, NEW t \in Tasks, PushEnqueue(p, t)
        PROVE  PromiseInv'
    <2>1. /\ UNCHANGED <<promised, isDone, pc, flag>>
          /\ q' = Append(q, t) /\ notifying' = [notifying EXCEPT ![p] = t]
          /\ notifying[p] = NoTask
      BY <1>1 DEF PushEnqueue
    <2>2. Queued' = Queued \cup {t}
      BY <2>1, RangeAppend DEF Queued
    <2>3. Range(notifying') = (Range(notifying) \ {NoTask}) \cup {t}
             \/ Range(notifying') = Range(notifying) \cup {t}
      BY <2>1 DEF Range
    <2>4. Queued \subseteq Range(notifying) => Queued' \subseteq Range(notifying')
      BY <2>2, <2>3, RangeInSet, PoolAssumption DEF Queued
    <2> QED BY <2>1, <2>4, PromiseKept DEF PromiseInv, At
  <1>2. ASSUME NEW p \in Producers, PushNotify(p)
        PROVE  PromiseInv'
    <2>1. At({"predExit"})' = {}
      BY <1>2 DEF PushNotify, LockInv, At
    <2>2. /\ UNCHANGED <<promised, isDone, flag>>
          /\ \A v \in Workers : pc'[v] = "exit" => pc[v] = "exit"
      BY <1>2 DEF PushNotify, At
    <2> QED BY <2>1, <2>2, PromiseKept DEF At
  <1>3. CASE ClientPop
    <2>1. /\ UNCHANGED <<promised, isDone, notifying, pc, flag>>
          /\ q # <<>> /\ q' = Tail(q)
      BY <1>3 DEF ClientPop
    <2>2. At({"predExit"})' = At({"predExit"}) /\ Queued' \subseteq Queued
      BY <2>1, RangeTail DEF At, Queued
    <2> QED BY <2>1, <2>2, PromiseKept DEF PromiseInv
  <1>4. ASSUME NEW w \in Workers, WorkerPop(w)
        PROVE  PromiseInv'
    <2>1. /\ UNCHANGED <<promised, isDone, notifying, flag>> /\ mutex' = mutex
          /\ pc' = [pc EXCEPT ![w] = "run"] \/ pc' = [pc EXCEPT ![w] = "lock"]
          /\ q' = q \/ (q # <<>> /\ q' = Tail(q))
      BY <1>4, Zenon DEF WorkerPop, Goto, TakeHead, ownerVars
    <2>2. At({"predExit"})' # {} => At({"predExit"}) # {} /\ Queued' \subseteq Queued
      BY <2>1, RangeTail DEF At, Queued
    <2>3. \A v \in Workers : /\ pc'[v] = "predExit" => pc[v] = "predExit"
                             /\ pc'[v] = "exit" => pc[v] = "exit"
      BY <2>1
    <2> QED BY <2>1, <2>2, <2>3, PromiseKept DEF PromiseInv
  <1>5. ASSUME NEW w \in Workers, WorkerRun(w)
        PROVE  PromiseInv'
    <2>1. /\ UNCHANGED <<promised, isDone, notifying, q>>
          /\ \A v \in Workers : /\ pc'[v] = "predExit" => pc[v] = "predExit"
                                /\ pc'[v] = "exit" /\ ~flag'[v] => pc[v] = "exit" /\ ~flag[v]
      BY <1>5 DEF WorkerRun, Goto
    <2>2. At({"predExit"})' # {} => At({"predExit"}) # {} /\ Queued' = Queued
      BY <2>1 DEF At, Queued
    <2> QED BY <2>1, <2>2, PromiseKept DEF PromiseInv
  <1>6. ASSUME NEW w \in Workers, WorkerCheckFlag(w)
        PROVE  PromiseInv'
    <2>1. /\ UNCHANGED <<promised, isDone, notifying, q, flag>>
          /\ \/ flag[w] /\ pc' = [pc EXCEPT ![w] = "exit"]
             \/ pc' = [pc EXCEPT ![w] = "pop"]
      BY <1>6 DEF WorkerCheckFlag, Goto
    <2>2. \A v \in Workers : /\ pc'[v] = "predExit" => pc[v] = "predExit"
                             /\ pc'[v] = "exit" /\ ~flag'[v] => pc[v] = "exit" /\ ~flag[v]
      BY <2>1
    <2>3. At({"predExit"})' # {} => At({"predExit"}) # {} /\ Queued' = Queued
      BY <2>1, <2>2 DEF At, Queued
    <2> QED BY <2>1, <2>2, <2>3, PromiseKept DEF PromiseInv
  <1>7. ASSUME NEW w \in Workers, WorkerEnterWait(w)
        PROVE  PromiseInv'
    <2>1. /\ UNCHANGED <<promised, isDone, notifying, q>>
          /\ \A v \in Workers : /\ pc'[v] = "predExit" => pc[v] = "predExit"
                                /\ pc'[v] = "exit" /\ ~flag'[v] => pc[v] = "exit" /\ ~flag[v]
      BY <1>7 DEF WorkerEnterWait, Goto
    <2>2. At({"predExit"})' # {} => At({"predExit"}) # {} /\ Queued' = Queued
      BY <2>1 DEF At, Queued
    <2> QED BY <2>1, <2>2, PromiseKept DEF PromiseInv
  <1>8. ASSUME NEW w \in Workers, WorkerReacquire(w)
        PROVE  PromiseInv'
    <2>1. /\ UNCHANGED <<promised, isDone, notifying, q>>
          /\ \A v \in Workers : /\ pc'[v] = "predExit" => pc[v] = "predExit"
                                /\ pc'[v] = "exit" /\ ~flag'[v] => pc[v] = "exit" /\ ~flag[v]
      BY <1>8 DEF WorkerReacquire, Goto
    <2>2. At({"predExit"})' # {} => At({"predExit"}) # {} /\ Queued' = Queued
      BY <2>1 DEF At, Queued
    <2> QED BY <2>1, <2>2, PromiseKept DEF PromiseInv
  <1>9. ASSUME NEW w \in Workers, WorkerPredPop(w)
        PROVE  PromiseInv'
    <2>1. CASE q # <<>>
      <3>1. /\ UNCHANGED <<promised, isDone, notifying, flag>>
            /\ pc' = [pc EXCEPT ![w] = "run"] /\ q' = Tail(q)
        BY <1>9, <2>1, Zenon
        DEF WorkerPredPop, Goto, TakeHead, ownerVars
      <3>2. At({"predExit"})' # {} => At({"predExit"}) # {} /\ Queued' \subseteq Queued
        BY <2>1, <3>1, RangeTail DEF At, Queued
      <3>3. \A v \in Workers : /\ pc'[v] = "predExit" => pc[v] = "predExit"
                               /\ pc'[v] = "exit" => pc[v] = "exit"
        BY <3>1
      <3> QED BY <3>1, <3>2, <3>3, PromiseKept DEF PromiseInv
    <2>2. CASE q = <<>>
      <3>1. /\ UNCHANGED <<promised, isDone, notifying, flag, q>>
            /\ pc' = [pc EXCEPT ![w] = "predExit"]
        BY <1>9, <2>2, Zenon
        DEF WorkerPredPop, Goto, TakeHead, ownerVars
      <3>2. Queued' = {}
        BY <2>2, <3>1 DEF Queued, Range
      <3>3. promised' \cap Fresh' = {}
        BY <3>1 DEF PromiseInv, FateStep
      <3>4. \A v \in Workers : pc'[v] = "exit" => pc[v] = "exit"
        BY <3>1
      <3> QED BY <3>1, <3>2, <3>3, <3>4 DEF PromiseInv
    <2> QED BY <2>1, <2>2
  <1>10. ASSUME NEW w \in Workers, WorkerPredExit(w)
        PROVE  PromiseInv'
    <2>1. /\ UNCHANGED <<promised, isDone, notifying, q, flag>>
          /\ pc[w] = "predExit"
          /\ \/ (isDone \/ flag[w]) /\ pc' = [pc EXCEPT ![w] = "exit"]
             \/ pc' = [pc EXCEPT ![w] = "asleep"]
      BY <1>10 DEF WorkerPredExit, Goto
    <2>2. \A v \in Workers :
             /\ pc'[v] = "predExit" => pc[v] = "predExit"
             /\ pc'[v] = "exit" /\ ~flag'[v] =>
                   (pc[v] = "exit" /\ ~flag[v]) \/ (isDone /\ pc[v] = "predExit")
      BY <2>1
    <2>3. At({"predExit"})' # {} => At({"predExit"}) # {} /\ Queued' = Queued
      BY <2>1, <2>2 DEF At, Queued
    <2> QED BY <2>1, <2>2, <2>3, PromiseKept DEF PromiseInv
  <1>11. ASSUME NEW w \in Workers, SpuriousWakeup(w)
        PROVE  PromiseInv'
    <2>1. /\ UNCHANGED <<promised, isDone, notifying, q>>
          /\ \A v \in Workers : /\ pc'[v] = "predExit" => pc[v] = "predExit"
                                /\ pc'[v] = "exit" /\ ~flag'[v] => pc[v] = "exit" /\ ~flag[v]
      BY <1>11 DEF SpuriousWakeup, Goto
    <2>2. At({"predExit"})' # {} => At({"predExit"}) # {} /\ Queued' = Queued
      BY <2>1 DEF At, Queued
    <2> QED BY <2>1, <2>2, PromiseKept DEF PromiseInv
  <1>12. ASSUME NEW n \in ResizeTo, ResizeGrow(n)
        PROVE  PromiseInv'
    <2>1. /\ UNCHANGED <<promised, isDone, notifying, q>>
      BY <1>12 DEF ResizeGrow
    <2>2. \A v \in Workers : /\ pc'[v] = "predExit" => pc[v] = "predExit"
                             /\ pc'[v] = "exit" /\ ~flag'[v] => pc[v] = "exit" /\ ~flag[v]
      BY <1>12, GrowPc
    <2>3. At({"predExit"})' # {} => At({"predExit"}) # {} /\ Queued' = Queued
      BY <2>1, <2>2 DEF At, Queued
    <2> QED BY <2>1, <2>2, <2>3, PromiseKept DEF PromiseInv
  <1>13. ASSUME NEW n \in ResizeTo, ResizeShrink(n)
        PROVE  PromiseInv'
    <2>1. /\ UNCHANGED <<promised, isDone, notifying, q>>
          /\ \A v \in Workers : /\ pc'[v] = "predExit" => pc[v] = "predExit"
                                /\ pc'[v] = "exit" /\ ~flag'[v] => pc[v] = "exit" /\ ~flag[v]
      BY <1>13 DEF ResizeShrink
    <2>2. At({"predExit"})' # {} => At({"predExit"}) # {} /\ Queued' = Queued
      BY <2>1 DEF At, Queued
    <2> QED BY <2>1, <2>2, PromiseKept DEF PromiseInv
  <1>14. ASSUME NEW w \in Workers, DetachOne(w)
        PROVE  PromiseInv'
    <2>1. /\ UNCHANGED <<promised, isDone, notifying, q>>
          /\ \A v \in Workers : /\ pc'[v] = "predExit" => pc[v] = "predExit"
                                /\ pc'[v] = "exit" /\ ~flag'[v] => pc[v] = "exit" /\ ~flag[v]
      BY <1>14 DEF DetachOne
    <2>2. At({"predExit"})' # {} => At({"predExit"}) # {} /\ Queued' = Queued
      BY <2>1 DEF At, Queued
    <2> QED BY <2>1, <2>2, PromiseKept DEF PromiseInv
  <1>15. ASSUME NEW w \in Workers, FlagOne(w)
        PROVE  PromiseInv'
    <2>1. /\ UNCHANGED <<promised, isDone, notifying, q>>
          /\ \A v \in Workers : /\ pc'[v] = "predExit" => pc[v] = "predExit"
                                /\ pc'[v] = "exit" /\ ~flag'[v] => pc[v] = "exit" /\ ~flag[v]
      BY <1>15 DEF FlagOne
    <2>2. At({"predExit"})' # {} => At({"predExit"}) # {} /\ Queued' = Queued
      BY <2>1 DEF At, Queued
    <2> QED BY <2>1, <2>2, PromiseKept DEF PromiseInv
  <1>16. CASE ResizeNotify
    <2>1. /\ UNCHANGED <<promised, isDone, notifying, q>>
          /\ \A v \in Workers : /\ pc'[v] = "predExit" => pc[v] = "predExit"
                                /\ pc'[v] = "exit" /\ ~flag'[v] => pc[v] = "exit" /\ ~flag[v]
      BY <1>16 DEF ResizeNotify, NotifyAll
    <2>2. At({"predExit"})' # {} => At({"predExit"}) # {} /\ Queued' = Queued
      BY <2>1 DEF At, Queued
    <2> QED BY <2>1, <2>2, PromiseKept DEF PromiseInv
  <1>17. CASE FlagDone
    <2>1. /\ UNCHANGED <<promised, isDone, notifying, q>>
          /\ \A v \in Workers : /\ pc'[v] = "predExit" => pc[v] = "predExit"
                                /\ pc'[v] = "exit" /\ ~flag'[v] => pc[v] = "exit" /\ ~flag[v]
      BY <1>17 DEF FlagDone, OwnerGoes
    <2>2. At({"predExit"})' # {} => At({"predExit"}) # {} /\ Queued' = Queued
      BY <2>1 DEF At, Queued
    <2> QED BY <2>1, <2>2, PromiseKept DEF PromiseInv
  <1>18. CASE ClearQueue
    <2>1. /\ UNCHANGED <<promised, isDone, notifying, q>>
          /\ \A v \in Workers : /\ pc'[v] = "predExit" => pc[v] = "predExit"
                                /\ pc'[v] = "exit" /\ ~flag'[v] => pc[v] = "exit" /\ ~flag[v]
      BY <1>18 DEF ClearQueue, OwnerGoes
    <2>2. At({"predExit"})' # {} => At({"predExit"}) # {} /\ Queued' = Queued
      BY <2>1 DEF At, Queued
    <2> QED BY <2>1, <2>2, PromiseKept DEF PromiseInv
  <1>19. CASE ClearOne
    <2>1. /\ UNCHANGED <<promised, isDone, notifying, pc, flag>>
          /\ q # <<>> /\ q' = Tail(q)
      BY <1>19 DEF ClearOne
    <2>2. At({"predExit"})' = At({"predExit"}) /\ Queued' \subseteq Queued
      BY <2>1, RangeTail DEF At, Queued
    <2> QED BY <2>1, <2>2, PromiseKept DEF PromiseInv
  <1>20. CASE ClearDone
    <2>1. /\ UNCHANGED <<promised, isDone, notifying, q>>
          /\ \A v \in Workers : /\ pc'[v] = "predExit" => pc[v] = "predExit"
                                /\ pc'[v] = "exit" /\ ~flag'[v] => pc[v] = "exit" /\ ~flag[v]
      BY <1>20 DEF ClearDone, OwnerGoes
    <2>2. At({"predExit"})' # {} => At({"predExit"}) # {} /\ Queued' = Queued
      BY <2>1 DEF At, Queued
    <2> QED BY <2>1, <2>2, PromiseKept DEF PromiseInv
  <1>21. CASE StopNow
    <2>1. /\ UNCHANGED <<promised, isDone, notifying, q>>
          /\ \A v \in Workers : /\ pc'[v] = "predExit" => pc[v] = "predExit"
                                /\ pc'[v] = "exit" /\ ~flag'[v] => pc[v] = "exit" /\ ~flag[v]
      BY <1>21 DEF StopNow
    <2>2. At({"predExit"})' # {} => At({"predExit"}) # {} /\ Queued' = Queued
      BY <2>1 DEF At, Queued
    <2> QED BY <2>1, <2>2, PromiseKept DEF PromiseInv
  <1>22. CASE DropDone
    <2>1. /\ UNCHANGED <<promised, isDone, notifying, q>>
          /\ \A v \in Workers : /\ pc'[v] = "predExit" => pc[v] = "predExit"
                                /\ pc'[v] = "exit" /\ ~flag'[v] => pc[v] = "exit" /\ ~flag[v]
      BY <1>22 DEF DropDone, OwnerGoes
    <2>2. At({"predExit"})' # {} => At({"predExit"}) # {} /\ Queued' = Queued
      BY <2>1 DEF At, Queued
    <2> QED BY <2>1, <2>2, PromiseKept DEF PromiseInv
  <1>23. CASE StopWait
    BY <1>23, PromiseMade DEF StopWait
  <1>24. CASE Destruct
    <2>1. CASE ~isDone /\ ~isStop /\ SetDone
      BY <1>24, <2>1, PromiseMade DEF Destruct
    <2>2. CASE isDone' = isDone /\ promised' = promised
      BY <1>24, <2>2, PromiseKept DEF Destruct, PromiseInv, At, Queued
    <2> QED BY <1>24, <2>1, <2>2 DEF Destruct
  <1>25. CASE StopNotify
    <2>1. /\ UNCHANGED <<promised, isDone, notifying, q>>
          /\ \A v \in Workers : /\ pc'[v] = "predExit" => pc[v] = "predExit"
                                /\ pc'[v] = "exit" /\ ~flag'[v] => pc[v] = "exit" /\ ~flag[v]
      BY <1>25 DEF StopNotify, NotifyAll
    <2>2. At({"predExit"})' # {} => At({"predExit"}) # {} /\ Queued' = Queued
      BY <2>1 DEF At, Queued
    <2> QED BY <2>1, <2>2, PromiseKept DEF PromiseInv
  <1>26. CASE StopJoin
    <2>1. /\ UNCHANGED <<promised, isDone, notifying, q>>
          /\ \A v \in Workers : /\ pc'[v] = "predExit" => pc[v] = "predExit"
                                /\ pc'[v] = "exit" /\ ~flag'[v] => pc[v] = "exit" /\ ~flag[v]
      BY <1>26 DEF StopJoin, OwnerGoes
    <2>2. At({"predExit"})' # {} => At({"predExit"}) # {} /\ Queued' = Queued
      BY <2>1 DEF At, Queued
    <2> QED BY <2>1, <2>2, PromiseKept DEF PromiseInv
  <1>27. CASE StopFinish
    <2>1. /\ UNCHANGED <<promised, isDone, notifying, q>>
          /\ \A v \in Workers : /\ pc'[v] = "predExit" => pc[v] = "predExit"
                                /\ pc'[v] = "exit" /\ ~flag'[v] => pc[v] = "exit" /\ ~flag[v]
      BY <1>27 DEF StopFinish
    <2>2. At({"predExit"})' # {} => At({"predExit"}) # {} /\ Queued' = Queued
      BY <2>1 DEF At, Queued
    <2> QED BY <2>1, <2>2, PromiseKept DEF PromiseInv
  <1>28. CASE UNCHANGED vars
    BY <1>28, PromiseKept DEF vars, PromiseInv, At, Queued
  <1> QED
    BY <1>1, <1>2, <1>3, <1>4, <1>5, <1>6, <1>7, <1>8, <1>9, <1>10, 
       <1>11, <1>12, <1>13, <1>14, <1>15, <1>16, <1>17, <1>18, <1>19, 
       <1>20, <1>21, <1>22, <1>23, <1>24, <1>25, <1>26, <1>27, <1>28
    DEF Next, ProducerStep, WorkerStep, OwnerStep, Terminated


-----------------------------------------------------------------------------
(* The count of idle workers.                                              *)

Waiting == At({"pred", "predExit", "asleep", "woken"})

LEMMA IdleKept ==
  ASSUME NIdleExact, nWaiting' = nWaiting, Waiting' = Waiting
  PROVE  NIdleExact'
  BY DEF NIdleExact, Waiting

LEMMA IdleLeft ==
  ASSUME TypeInv, NIdleExact, nWaiting' = nWaiting - 1, NEW w \in Waiting,
         Waiting' = Waiting \ {w}
  PROVE  NIdleExact'
  <1>1. IsFiniteSet(Waiting) /\ Cardinality(Waiting) \in Nat
    BY CountWorkers DEF Waiting, At
  <1>2. Cardinality(Waiting \ {w}) = Cardinality(Waiting) - 1
    BY <1>1, FS_RemoveElement
  <1> QED BY <1>2 DEF NIdleExact, Waiting

LEMMA IdleJoined ==
  ASSUME TypeInv, NIdleExact, nWaiting' = nWaiting + 1, NEW w, w \notin Waiting,
         Waiting' = Waiting \cup {w}
  PROVE  NIdleExact'
  <1>1. IsFiniteSet(Waiting) /\ Cardinality(Waiting) \in Nat
    BY CountWorkers DEF Waiting, At
  <1>2. Cardinality(Waiting \cup {w}) = Cardinality(Waiting) + 1
    BY <1>1, FS_AddElement
  <1> QED BY <1>2 DEF NIdleExact, Waiting

LEMMA IdleInit == Init => NIdleExact
  <1> SUFFICES ASSUME Init PROVE NIdleExact
    OBVIOUS
  <1>1. At({"pred", "predExit", "asleep", "woken"}) = {}
    BY DEF Init, At
  <1> QED BY <1>1, FS_EmptySet DEF Init, NIdleExact

LEMMA IdleNext == TypeInv /\ NIdleExact /\ [Next]_vars => NIdleExact'
  <1> SUFFICES ASSUME TypeInv, NIdleExact, [Next]_vars PROVE NIdleExact'
    OBVIOUS
  <1> USE DEF TypeInv, TypeOK, ShapeInv, Workers, Free, ownerVars,
             fateVars
  <1>1. ASSUME NEW p \in Producers, NEW t \in Tasks, PushEnqueue(p, t)
        PROVE  NIdleExact'
    <2>1. nWaiting' = nWaiting /\ Waiting' = Waiting
      BY <1>1 DEF PushEnqueue, Waiting, At
    <2> QED BY <2>1, IdleKept
  <1>2. ASSUME NEW p \in Producers, PushNotify(p)
        PROVE  NIdleExact'
    <2>1. nWaiting' = nWaiting /\ Waiting' = Waiting
      BY <1>2 DEF PushNotify, Waiting, At
    <2> QED BY <2>1, IdleKept
  <1>3. CASE ClientPop
    <2>1. nWaiting' = nWaiting /\ Waiting' = Waiting
      BY <1>3 DEF ClientPop, Waiting, At
    <2> QED BY <2>1, IdleKept
  <1>4. ASSUME NEW w \in Workers, WorkerPop(w)
        PROVE  NIdleExact'
    <2>1. /\ pc[w] = "pop" /\ nWaiting' = nWaiting
          /\ pc' = [pc EXCEPT ![w] = "run"] \/ pc' = [pc EXCEPT ![w] = "lock"]
      BY <1>4, Zenon DEF WorkerPop, Goto
    <2>2. Waiting' = Waiting
      BY <2>1 DEF Waiting, At
    <2> QED BY <2>1, <2>2, IdleKept
  <1>5. ASSUME NEW w \in Workers, WorkerRun(w)
        PROVE  NIdleExact'
    <2>1. nWaiting' = nWaiting /\ Waiting' = Waiting
      BY <1>5 DEF WorkerRun, Goto, Waiting, At
    <2> QED BY <2>1, IdleKept
  <1>6. ASSUME NEW w \in Workers, WorkerCheckFlag(w)
        PROVE  NIdleExact'
    <2>1. nWaiting' = nWaiting /\ Waiting' = Waiting
      BY <1>6 DEF WorkerCheckFlag, Goto, Waiting, At
    <2> QED BY <2>1, IdleKept
  <1>7. ASSUME NEW w \in Workers, WorkerEnterWait(w)
        PROVE  NIdleExact'
    <2>1. pc[w] = "lock" /\ pc' = [pc EXCEPT ![w] = "pred"] /\ nWaiting' = nWaiting + 1
      BY <1>7 DEF WorkerEnterWait, Goto
    <2>2. Waiting' = Waiting \cup {w} /\ w \notin Waiting
      BY <2>1 DEF Waiting, At
    <2> QED BY <2>1, <2>2, IdleJoined
  <1>8. ASSUME NEW w \in Workers, WorkerReacquire(w)
        PROVE  NIdleExact'
    <2>1. nWaiting' = nWaiting /\ Waiting' = Waiting
      BY <1>8 DEF WorkerReacquire, Goto, Waiting, At
    <2> QED BY <2>1, IdleKept
  <1>9. ASSUME NEW w \in Workers, WorkerPredPop(w)
        PROVE  NIdleExact'
    <2>1. pc[w] = "pred" /\ w \in Waiting
      BY <1>9 DEF WorkerPredPop, Goto, Waiting, At
    <2>2. CASE q # <<>>
      <3>1. pc' = [pc EXCEPT ![w] = "run"] /\ nWaiting' = nWaiting - 1
        BY <1>9, <2>2, Zenon DEF WorkerPredPop, Goto
      <3>2. Waiting' = Waiting \ {w}
        BY <3>1 DEF Waiting, At
      <3> QED BY <2>1, <3>1, <3>2, IdleLeft
    <2>3. CASE q = <<>>
      <3>1. pc' = [pc EXCEPT ![w] = "predExit"] /\ nWaiting' = nWaiting
        BY <1>9, <2>3, Zenon DEF WorkerPredPop, Goto
      <3>2. Waiting' = Waiting
        BY <2>1, <3>1 DEF Waiting, At
      <3> QED BY <3>1, <3>2, IdleKept
    <2> QED BY <2>2, <2>3
  <1>10. ASSUME NEW w \in Workers, WorkerPredExit(w)
        PROVE  NIdleExact'
    <2>1. pc[w] = "predExit" /\ w \in Waiting
      BY <1>10 DEF WorkerPredExit, Goto, Waiting, At
    <2>2. CASE pc' = [pc EXCEPT ![w] = "exit"] /\ nWaiting' = nWaiting - 1
      <3>1. Waiting' = Waiting \ {w}
        BY <2>2 DEF Waiting, At
      <3> QED BY <2>1, <2>2, <3>1, IdleLeft
    <2>3. CASE pc' = [pc EXCEPT ![w] = "asleep"] /\ nWaiting' = nWaiting
      <3>1. Waiting' = Waiting
        BY <2>1, <2>3 DEF Waiting, At
      <3> QED BY <2>3, <3>1, IdleKept
    <2> QED BY <1>10, <2>2, <2>3, Zenon DEF WorkerPredExit, Goto
  <1>11. ASSUME NEW w \in Workers, SpuriousWakeup(w)
        PROVE  NIdleExact'
    <2>1. nWaiting' = nWaiting /\ Waiting' = Waiting
      BY <1>11 DEF SpuriousWakeup, Goto, Waiting, At
    <2> QED BY <2>1, IdleKept
  <1>12. ASSUME NEW n \in ResizeTo, ResizeGrow(n)
        PROVE  NIdleExact'
    <2>1. Waiting' = Waiting
      BY <1>12, GrowPc DEF Waiting, At
    <2> QED BY <1>12, <2>1, IdleKept DEF ResizeGrow
  <1>13. ASSUME NEW n \in ResizeTo, ResizeShrink(n)
        PROVE  NIdleExact'
    <2>1. nWaiting' = nWaiting /\ Waiting' = Waiting
      BY <1>13 DEF ResizeShrink, Waiting, At
    <2> QED BY <2>1, IdleKept
  <1>14. ASSUME NEW w \in Workers, DetachOne(w)
        PROVE  NIdleExact'
    <2>1. nWaiting' = nWaiting /\ Waiting' = Waiting
      BY <1>14 DEF DetachOne, Waiting, At
    <2> QED BY <2>1, IdleKept
  <1>15. ASSUME NEW w \in Workers, FlagOne(w)
        PROVE  NIdleExact'
    <2>1. nWaiting' = nWaiting /\ Waiting' = Waiting
      BY <1>15 DEF FlagOne, Waiting, At
    <2> QED BY <2>1, IdleKept
  <1>16. CASE ResizeNotify
    <2>1. nWaiting' = nWaiting /\ Waiting' = Waiting
      BY <1>16 DEF ResizeNotify, NotifyAll, Waiting, At
    <2> QED BY <2>1, IdleKept
  <1>17. CASE FlagDone
    <2>1. nWaiting' = nWaiting /\ Waiting' = Waiting
      BY <1>17 DEF FlagDone, OwnerGoes, Waiting, At
    <2> QED BY <2>1, IdleKept
  <1>18. CASE ClearQueue
    <2>1. nWaiting' = nWaiting /\ Waiting' = Waiting
      BY <1>18 DEF ClearQueue, OwnerGoes, Waiting, At
    <2> QED BY <2>1, IdleKept
  <1>19. CASE ClearOne
    <2>1. nWaiting' = nWaiting /\ Waiting' = Waiting
      BY <1>19 DEF ClearOne, Waiting, At
    <2> QED BY <2>1, IdleKept
  <1>20. CASE ClearDone
    <2>1. nWaiting' = nWaiting /\ Waiting' = Waiting
      BY <1>20 DEF ClearDone, OwnerGoes, Waiting, At
    <2> QED BY <2>1, IdleKept
  <1>21. CASE StopNow
    <2>1. nWaiting' = nWaiting /\ Waiting' = Waiting
      BY <1>21 DEF StopNow, Waiting, At
    <2> QED BY <2>1, IdleKept
  <1>22. CASE DropDone
    <2>1. nWaiting' = nWaiting /\ Waiting' = Waiting
      BY <1>22 DEF DropDone, OwnerGoes, Waiting, At
    <2> QED BY <2>1, IdleKept
  <1>23. CASE StopWait
    <2>1. nWaiting' = nWaiting /\ Waiting' = Waiting
      BY <1>23 DEF StopWait, Waiting, At
    <2> QED BY <2>1, IdleKept
  <1>24. CASE Destruct
    <2>1. nWaiting' = nWaiting /\ Waiting' = Waiting
      BY <1>24 DEF Destruct, Waiting, At
    <2> QED BY <2>1, IdleKept
  <1>25. CASE StopNotify
    <2>1. nWaiting' = nWaiting /\ Waiting' = Waiting
      BY <1>25 DEF StopNotify, NotifyAll, Waiting, At
    <2> QED BY <2>1, IdleKept
  <1>26. CASE StopJoin
    <2>1. nWaiting' = nWaiting /\ Waiting' = Waiting
      BY <1>26 DEF StopJoin, OwnerGoes, Waiting, At
    <2> QED BY <2>1, IdleKept
  <1>27. CASE StopFinish
    <2>1. nWaiting' = nWaiting /\ Waiting' = Waiting
      BY <1>27 DEF StopFinish, Waiting, At
    <2> QED BY <2>1, IdleKept
  <1>28. CASE UNCHANGED vars
    BY <1>28, IdleKept DEF vars, Waiting, At
  <1> QED
    BY <1>1, <1>2, <1>3, <1>4, <1>5, <1>6, <1>7, <1>8, <1>9, <1>10, 
       <1>11, <1>12, <1>13, <1>14, <1>15, <1>16, <1>17, <1>18, <1>19, 
       <1>20, <1>21, <1>22, <1>23, <1>24, <1>25, <1>26, <1>27, <1>28
    DEF Next, ProducerStep, WorkerStep, OwnerStep, Terminated

-----------------------------------------------------------------------------
(* The safety theorems.                                                    *)

IInv == TypeInv /\ LockInv /\ WakeupInv /\ FateInv /\ OwnerInv /\ PromiseInv
          /\ NIdleExact

\* The invariants hold together in every reachable state of the pool: this is
\* the inductive argument all theorems below rest on.
THEOREM Invariance == Spec => []IInv
  <1>1. Init => IInv
    BY TypeInit, LockInit, WakeupInit, FateInit, OwnerInit, PromiseInit, IdleInit
    DEF IInv
  <1>2. IInv /\ [Next]_vars => IInv'
    <2> SUFFICES ASSUME IInv, [Next]_vars PROVE IInv'
      OBVIOUS
    <2>1. TypeInv' /\ LockInv' /\ FateStep /\ NIdleExact'
      BY TypeNext, LockNext, FateNext, IdleNext DEF IInv
    <2>2. WakeupInv' /\ OwnerInv' /\ PromiseInv'
      BY <2>1, WakeupNext, OwnerNext, PromiseNext DEF IInv
    <2> QED BY <2>1, <2>2 DEF IInv, FateStep
  <1> QED BY <1>1, <1>2, PTL DEF Spec

\* The variables of the pool have their types, whatever the sequence of
\* push(), pop(), resize(), clear_queue() and stop().
THEOREM TypeCorrect == Spec => []TypeOK
  <1>1. IInv => TypeOK
    BY DEF IInv, TypeInv
  <1> QED BY <1>1, Invariance, PTL

\* push() and the waiting workers lose no wakeup although push() enqueues
\* outside the mutex of the condition variable.
THEOREM WakeupSafe == Spec => []NoLostWakeup
  <1>1. IInv => NoLostWakeup
    BY DEF IInv, WakeupInv, NoLostWakeup, At
  <1> QED BY <1>1, Invariance, PTL

\* When stop(true) deletes what is left in the queue, no function is in it
\* whose push() had returned before stop() was called.
THEOREM StopDrains == Spec => []DrainedBeforeSweep
  <1>1. IInv => DrainedBeforeSweep
    <2> SUFFICES ASSUME IInv, opc = "sweep", threads # {}, ~isStop
                 PROVE  promised \cap Queued = {}
      BY DEF DrainedBeforeSweep
    <2>1. PICK w \in threads : TRUE
      OBVIOUS
    <2>2. w \in Workers /\ pc[w] = "exit" /\ ~flag[w]
      BY <2>1 DEF IInv, OwnerInv, At
    <2> QED BY <2>2 DEF IInv, PromiseInv
  <1> QED BY <1>1, Invariance, PTL

\* n_idle() is the number of workers inside cv.wait().
THEOREM IdleCounted == Spec => []NIdleExact
  <1>1. IInv => NIdleExact
    BY DEF IInv
  <1> QED BY <1>1, Invariance, PTL

\* The destructor returns only when every worker that resize() has not
\* detached has ended.
THEOREM DestructorJoins == Spec => []OnlyDetachedOutlive
  <1>1. IInv => OnlyDetachedOutlive
    BY DEF IInv, OwnerInv, OnlyDetachedOutlive, At
  <1> QED BY <1>1, Invariance, PTL


-----------------------------------------------------------------------------
(* The pool implements TaskPool.                                           *)

Discarding == opc \in {"clear", "drop", "sweep"}
MappedStep == [TP!Next]_(TP!vars)

LEMMA MappedInit == Init => TP!Init
  <1> SUFFICES ASSUME Init PROVE TP!Init
    OBVIOUS
  <1>1. \A w \in Workers : pc[w] # "run"
    BY DEF Init
  <1>2. Running = {}
    BY <1>1 DEF Running
  <1> QED BY <1>2 DEF Init, TP!Init

\* A step that leaves all functions where they are is no step of TaskPool,
\* unless the owner begins or ends to empty the queue.
LEMMA MappedKept ==
  ASSUME IInv, UNCHANGED <<q, task, done, dropped, taken>>,
         \A w \in Workers : pc'[w] = "run" <=> pc[w] = "run",
         Discarding' = Discarding \/ (Discarding => q = <<>>)
  PROVE  MappedStep
  <1>1. Running' = Running
    BY FateKept DEF IInv
  <1>2. CASE Discarding' = Discarding
    BY <1>1, <1>2 DEF MappedStep, TP!vars, Discarding
  <1>3. CASE Discarding' # Discarding /\ (Discarding => q = <<>>)
    <2>1. TP!SetDiscarding
      BY <1>1, <1>3 DEF TP!SetDiscarding, Discarding
    <2> QED BY <2>1 DEF MappedStep, TP!Next
  <1> QED BY <1>2, <1>3

LEMMA MappedStart ==
  ASSUME IInv, NEW w \in Workers, pc[w] # "run", q # <<>>, TakeHead(w),
         pc' = [pc EXCEPT ![w] = "run"], UNCHANGED <<fateVars, opc>>
  PROVE  MappedStep
  <1>1. Running' = Running \cup {Head(q)}
    BY TakeToRun DEF IInv
  <1>2. TP!Start
    BY <1>1 DEF TP!Start, TakeHead, fateVars
  <1> QED BY <1>2 DEF MappedStep, TP!Next

LEMMA MappedNext == IInv /\ [Next]_vars => MappedStep
  <1> SUFFICES ASSUME IInv, [Next]_vars PROVE MappedStep
    OBVIOUS
  <1> USE DEF ownerVars, fateVars
  <1>1. ASSUME NEW p \in Producers, NEW t \in Tasks, PushEnqueue(p, t)
        PROVE  MappedStep
    <2>1. t \in Fresh /\ Running' = Running /\ opc' = opc
      BY <1>1 DEF PushEnqueue, Running
    <2>2. t \notin TP!Accepted
      BY <2>1 DEF TP!Accepted, Fresh, Queued, Range
    <2>3. TP!Submit(t)
      BY <1>1, <2>1, <2>2 DEF PushEnqueue, TP!Submit
    <2> QED BY <2>3 DEF MappedStep, TP!Next
  <1>2. ASSUME NEW p \in Producers, PushNotify(p)
        PROVE  MappedStep
    <2>1. \A v \in Workers : pc'[v] = "run" <=> pc[v] = "run"
      BY <1>2 DEF PushNotify, At, IInv, TypeInv, TypeOK
    <2> QED BY <1>2, <2>1, MappedKept DEF PushNotify, Discarding
  <1>3. CASE ClientPop
    <2>1. Running' = Running /\ opc' = opc
      BY <1>3 DEF ClientPop, Running
    <2>2. TP!Withdraw
      BY <1>3, <2>1 DEF ClientPop, TP!Withdraw
    <2> QED BY <2>2 DEF MappedStep, TP!Next
  <1>4. ASSUME NEW w \in Workers, WorkerPop(w)
        PROVE  MappedStep
    <2>1. CASE q # <<>>
      <3>1. pc[w] = "pop" /\ pc' = [pc EXCEPT ![w] = "run"] /\ TakeHead(w)
        BY <1>4, <2>1, Zenon DEF WorkerPop, Goto
      <3> QED BY <1>4, <2>1, <3>1, MappedStart DEF WorkerPop
    <2>2. CASE q = <<>>
      BY <1>4, <2>2, MappedKept
      DEF WorkerPop, Goto, IInv, TypeInv, TypeOK, Discarding
    <2> QED BY <2>1, <2>2
  <1>5. ASSUME NEW w \in Workers, WorkerRun(w)
        PROVE  MappedStep
    <2>1. /\ Running' = Running \ {task[w]} /\ task[w] \in Running
          /\ task[w] \in Tasks
      BY <1>5, RunToDone DEF IInv, TypeInv, ShapeInv, WorkerRun, Goto
    <2>2. TP!Finish(task[w])
      BY <1>5, <2>1 DEF WorkerRun, TP!Finish
    <2> QED BY <2>1, <2>2 DEF MappedStep, TP!Next
  <1>6. ASSUME NEW w \in Workers, WorkerCheckFlag(w)
        PROVE  MappedStep
    BY <1>6, MappedKept
    DEF WorkerCheckFlag, Goto, NotifyAll, SetDone, Discarding, IInv, TypeInv, TypeOK
  <1>7. ASSUME NEW w \in Workers, WorkerEnterWait(w)
        PROVE  MappedStep
    BY <1>7, MappedKept
    DEF WorkerEnterWait, Goto, NotifyAll, SetDone, Discarding, IInv, TypeInv, TypeOK
  <1>8. ASSUME NEW w \in Workers, WorkerReacquire(w)
        PROVE  MappedStep
    BY <1>8, MappedKept
    DEF WorkerReacquire, Goto, NotifyAll, SetDone, Discarding, IInv, TypeInv, TypeOK
  <1>9. ASSUME NEW w \in Workers, WorkerPredPop(w)
        PROVE  MappedStep
    <2>1. CASE q # <<>>
      <3>1. pc[w] = "pred" /\ pc' = [pc EXCEPT ![w] = "run"] /\ TakeHead(w)
        BY <1>9, <2>1, Zenon DEF WorkerPredPop, Goto
      <3> QED BY <1>9, <2>1, <3>1, MappedStart DEF WorkerPredPop
    <2>2. CASE q = <<>>
      BY <1>9, <2>2, MappedKept
      DEF WorkerPredPop, Goto, IInv, TypeInv, TypeOK, Discarding
    <2> QED BY <2>1, <2>2
  <1>10. ASSUME NEW w \in Workers, WorkerPredExit(w)
        PROVE  MappedStep
    BY <1>10, MappedKept
    DEF WorkerPredExit, Goto, NotifyAll, SetDone, Discarding, IInv, TypeInv, TypeOK
  <1>11. ASSUME NEW w \in Workers, SpuriousWakeup(w)
        PROVE  MappedStep
    BY <1>11, MappedKept
    DEF SpuriousWakeup, Goto, NotifyAll, SetDone, Discarding, IInv, TypeInv, TypeOK
  <1>12. ASSUME NEW n \in ResizeTo, ResizeGrow(n)
        PROVE  MappedStep
    <2>1. \A v \in Workers : pc'[v] = "run" <=> pc[v] = "run"
      BY <1>12, GrowPc DEF IInv
    <2> QED BY <1>12, <2>1, MappedKept DEF ResizeGrow, Discarding
  <1>13. ASSUME NEW n \in ResizeTo, ResizeShrink(n)
        PROVE  MappedStep
    BY <1>13, MappedKept DEF ResizeShrink, Discarding
  <1>14. ASSUME NEW w \in Workers, DetachOne(w)
        PROVE  MappedStep
    BY <1>14, MappedKept DEF DetachOne, Discarding
  <1>15. ASSUME NEW w \in Workers, FlagOne(w)
        PROVE  MappedStep
    BY <1>15, MappedKept DEF FlagOne, Discarding
  <1>16. CASE ResizeNotify
    BY <1>16, MappedKept
    DEF ResizeNotify, Goto, NotifyAll, SetDone, Discarding, IInv, TypeInv, TypeOK
  <1>17. CASE FlagDone
    BY <1>17, MappedKept DEF FlagDone, OwnerGoes, Discarding
  <1>18. CASE ClearQueue
    BY <1>18, MappedKept DEF ClearQueue, OwnerGoes, Discarding
  <1>19. CASE ClearOne
    <2>1. Running' = Running /\ opc' = opc
      BY <1>19 DEF ClearOne, Running
    <2>2. TP!Discard
      BY <1>19, <2>1 DEF ClearOne, TP!Discard
    <2> QED BY <2>2 DEF MappedStep, TP!Next
  <1>20. CASE ClearDone
    BY <1>20, MappedKept DEF ClearDone, OwnerGoes, Discarding
  <1>21. CASE StopNow
    BY <1>21, MappedKept DEF StopNow, Discarding
  <1>22. CASE DropDone
    BY <1>22, MappedKept DEF DropDone, OwnerGoes, Discarding
  <1>23. CASE StopWait
    BY <1>23, MappedKept DEF StopWait, SetDone, Discarding
  <1>24. CASE Destruct
    BY <1>24, MappedKept DEF Destruct, SetDone, Discarding
  <1>25. CASE StopNotify
    BY <1>25, MappedKept
    DEF StopNotify, Goto, NotifyAll, SetDone, Discarding, IInv, TypeInv, TypeOK
  <1>26. CASE StopJoin
    BY <1>26, MappedKept DEF StopJoin, OwnerGoes, Discarding
  <1>27. CASE StopFinish
    BY <1>27, MappedKept DEF StopFinish, Discarding
  <1>28. CASE UNCHANGED vars
    BY <1>28, MappedKept DEF vars, Discarding
  <1> QED
    BY <1>1, <1>2, <1>3, <1>4, <1>5, <1>6, <1>7, <1>8, <1>9, <1>10, 
       <1>11, <1>12, <1>13, <1>14, <1>15, <1>16, <1>17, <1>18, <1>19, 
       <1>20, <1>21, <1>22, <1>23, <1>24, <1>25, <1>26, <1>27, <1>28
    DEF Next, ProducerStep, WorkerStep, OwnerStep, Terminated

\* The pool keeps the promise of TaskPool: functions are started in the order
\* of push(), each at most once, and none is lost except by clear_queue().
THEOREM PoolImplements == Spec => ImplementsTaskPool
  <1>1. Init => TP!Init
    BY MappedInit
  <1>2. IInv /\ [Next]_vars => [TP!Next]_(TP!vars)
    BY MappedNext DEF MappedStep
  <1> QED BY <1>1, <1>2, Invariance, PTL DEF Spec, ImplementsTaskPool, TP!Spec

-----------------------------------------------------------------------------
(* Nobody whom stop() joins goes on sleeping.                              *)

\* A worker sleeps with a reason to leave only until the owner, who has set
\* the flag or is about to, notifies; from the end of the flagging loop on
\* every worker in the vector has that reason.
SleepInv ==
  /\ \A w \in Workers :
       pc[w] = "asleep" /\ (isDone \/ flag[w]) =>
         opc \in {"shrink", "flag", "drop", "notify"}
  /\ opc = "flag" => \A w \in threads : isDone \/ flag[w] \/ w \in toFlag
  /\ opc \in {"drop", "notify", "join"} => \A w \in threads : isDone \/ flag[w]

LEMMA SleepInit == Init => SleepInv
  BY DEF Init, SleepInv, Workers

\* A step of the workers and the producers, if it puts nobody to sleep.
LEMMA SleepKept ==
  ASSUME TypeInv, TypeInv', SleepInv, UNCHANGED <<isDone, flag, opc, threads, toFlag>>,
         \A w \in Workers : pc'[w] = "asleep" => pc[w] = "asleep"
  PROVE  SleepInv'
  BY DEF SleepInv

\* A step of the owner that leaves the workers alone and goes on to where no
\* flag is promised.
LEMMA SleepMoved ==
  ASSUME TypeInv, TypeInv', SleepInv, UNCHANGED <<isDone, flag, pc>>,
         opc \notin {"flag", "drop", "notify"},
         opc' \notin {"flag", "drop", "notify", "join"},
         opc = "shrink" => opc' = "shrink"
  PROVE  SleepInv'
  BY DEF SleepInv

LEMMA SleepNext == TypeInv /\ TypeInv' /\ SleepInv /\ [Next]_vars => SleepInv'
  <1> SUFFICES ASSUME TypeInv, TypeInv', SleepInv, [Next]_vars PROVE SleepInv'
    OBVIOUS
  <1> USE DEF ownerVars, fateVars
  <1>1. ASSUME NEW p \in Producers, NEW t \in Tasks, PushEnqueue(p, t)
        PROVE  SleepInv'
    BY <1>1, SleepKept DEF PushEnqueue
  <1>2. ASSUME NEW p \in Producers, PushNotify(p)
        PROVE  SleepInv'
    <2>1. \A v \in Workers : pc'[v] = "asleep" => pc[v] = "asleep"
      BY <1>2 DEF PushNotify, At, TypeInv, TypeOK
    <2> QED BY <1>2, <2>1, SleepKept DEF PushNotify
  <1>3. CASE ClientPop
    BY <1>3, SleepKept DEF ClientPop
  <1>4. ASSUME NEW w \in Workers, WorkerPop(w)
        PROVE  SleepInv'
    <2>1. \A v \in Workers : pc'[v] = "asleep" => pc[v] = "asleep"
      BY <1>4 DEF WorkerPop, Goto, TypeInv, TypeOK
    <2> QED BY <1>4, <2>1, SleepKept DEF WorkerPop
  <1>5. ASSUME NEW w \in Workers, WorkerRun(w)
        PROVE  SleepInv'
    <2>1. \A v \in Workers : pc'[v] = "asleep" => pc[v] = "asleep"
      BY <1>5 DEF WorkerRun, Goto, TypeInv, TypeOK
    <2> QED BY <1>5, <2>1, SleepKept DEF WorkerRun
  <1>6. ASSUME NEW w \in Workers, WorkerCheckFlag(w)
        PROVE  SleepInv'
    <2>1. \A v \in Workers : pc'[v] = "asleep" => pc[v] = "asleep"
      BY <1>6 DEF WorkerCheckFlag, Goto, TypeInv, TypeOK
    <2> QED BY <1>6, <2>1, SleepKept DEF WorkerCheckFlag
  <1>7. ASSUME NEW w \in Workers, WorkerEnterWait(w)
        PROVE  SleepInv'
    <2>1. \A v \in Workers : pc'[v] = "asleep" => pc[v] = "asleep"
      BY <1>7 DEF WorkerEnterWait, Goto, TypeInv, TypeOK
    <2> QED BY <1>7, <2>1, SleepKept DEF WorkerEnterWait
  <1>8. ASSUME NEW w \in Workers, WorkerReacquire(w)
        PROVE  SleepInv'
    <2>1. \A v \in Workers : pc'[v] = "asleep" => pc[v] = "asleep"
      BY <1>8 DEF WorkerReacquire, Goto, TypeInv, TypeOK
    <2> QED BY <1>8, <2>1, SleepKept DEF WorkerReacquire
  <1>9. ASSUME NEW w \in Workers, WorkerPredPop(w)
        PROVE  SleepInv'
    <2>1. \A v \in Workers : pc'[v] = "asleep" => pc[v] = "asleep"
      BY <1>9 DEF WorkerPredPop, Goto, TypeInv, TypeOK
    <2> QED BY <1>9, <2>1, SleepKept DEF WorkerPredPop
  <1>10. ASSUME NEW w \in Workers, WorkerPredExit(w)
        PROVE  SleepInv'
    <2>1. \A v \in Workers : pc'[v] = "asleep" => pc[v] = "asleep" \/ (~isDone /\ ~flag[v])
      BY <1>10 DEF WorkerPredExit, Goto, TypeInv, TypeOK
    <2>2. UNCHANGED <<isDone, flag, opc, threads, toFlag>>
      BY <1>10 DEF WorkerPredExit
    <2> QED BY <2>1, <2>2 DEF SleepInv
  <1>11. ASSUME NEW w \in Workers, SpuriousWakeup(w)
        PROVE  SleepInv'
    <2>1. \A v \in Workers : pc'[v] = "asleep" => pc[v] = "asleep"
      BY <1>11 DEF SpuriousWakeup, Goto, TypeInv, TypeOK
    <2> QED BY <1>11, <2>1, SleepKept DEF SpuriousWakeup
  <1>12. ASSUME NEW n \in ResizeTo, ResizeGrow(n)
        PROVE  SleepInv'
    <2>1. opc = "idle" /\ opc' = "idle" /\ isDone' = isDone
      BY <1>12 DEF ResizeGrow
    <2>2. \A w \in Workers :
            pc'[w] = "asleep" => pc[w] = "asleep" /\ flag'[w] = flag[w]
      BY <1>12, GrowPc
    <2> QED BY <2>1, <2>2 DEF SleepInv
  <1>13. ASSUME NEW n \in ResizeTo, ResizeShrink(n)
        PROVE  SleepInv'
    BY <1>13, SleepMoved DEF ResizeShrink
  <1>14. ASSUME NEW w \in Workers, DetachOne(w)
        PROVE  SleepInv'
    BY <1>14 DEF DetachOne, SleepInv
  <1>15. ASSUME NEW w \in Workers, FlagOne(w)
        PROVE  SleepInv'
    <2>1. /\ opc = "flag" /\ UNCHANGED <<opc, isDone, pc, threads>>
          /\ flag' = [flag EXCEPT ![w] = TRUE] /\ toFlag' = toFlag \ {w}
      BY <1>15 DEF FlagOne
    <2>2. \A v \in threads : v \in Workers
      BY PoolAssumption DEF TypeInv, TypeOK, Workers
    <2>3. \A v \in Workers : flag'[v] = IF v = w THEN TRUE ELSE flag[v]
      BY <2>1 DEF TypeInv, TypeOK
    <2> QED BY <2>1, <2>2, <2>3 DEF SleepInv
  <1>16. CASE ResizeNotify
    <2>1. \A w \in Workers : pc'[w] # "asleep"
      BY <1>16 DEF ResizeNotify, NotifyAll
    <2> QED BY <1>16, <2>1 DEF ResizeNotify, SleepInv
  <1>17. CASE FlagDone
    BY <1>17 DEF FlagDone, OwnerGoes, SleepInv
  <1>18. CASE ClearQueue
    BY <1>18, SleepMoved DEF ClearQueue, OwnerGoes
  <1>19. CASE ClearOne
    BY <1>19, SleepKept DEF ClearOne
  <1>20. CASE ClearDone
    BY <1>20, SleepMoved DEF ClearDone, OwnerGoes
  <1>21. CASE StopNow
    BY <1>21 DEF StopNow, SleepInv
  <1>22. CASE DropDone
    BY <1>22 DEF DropDone, OwnerGoes, SleepInv
  <1>23. CASE StopWait
    BY <1>23 DEF StopWait, SetDone, SleepInv
  <1>24. CASE Destruct
    <2>1. CASE SetDone
      BY <1>24, <2>1 DEF Destruct, SetDone, SleepInv
    <2>2. CASE opc' = "destroyed" /\ isDone' = isDone
      BY <1>24, <2>2, SleepMoved DEF Destruct
    <2> QED BY <1>24, <2>1, <2>2 DEF Destruct
  <1>25. CASE StopNotify
    <2>1. \A w \in Workers : pc'[w] # "asleep"
      BY <1>25 DEF StopNotify, NotifyAll
    <2> QED BY <1>25, <2>1 DEF StopNotify, SleepInv
  <1>26. CASE StopJoin
    BY <1>26, SleepMoved DEF StopJoin, OwnerGoes
  <1>27. CASE StopFinish
    BY <1>27, SleepMoved DEF StopFinish
  <1>28. CASE UNCHANGED vars
    BY <1>28, SleepKept DEF vars
  <1> QED
    BY <1>1, <1>2, <1>3, <1>4, <1>5, <1>6, <1>7, <1>8, <1>9, <1>10,
       <1>11, <1>12, <1>13, <1>14, <1>15, <1>16, <1>17, <1>18, <1>19,
       <1>20, <1>21, <1>22, <1>23, <1>24, <1>25, <1>26, <1>27, <1>28
    DEF Next, ProducerStep, WorkerStep, OwnerStep, Terminated

\* Whoever stop() waits for has been told to leave and is awake to see it:
\* the flags and isDone are set before the pool's mutex is taken for
\* notify_all(), and a worker that was inside the predicate at that time
\* holds the mutex.
NobodyJoinedSleeps ==
  opc = "join" =>
    \A w \in threads : (isDone \/ flag[w]) /\ pc[w] # "asleep"

THEOREM JoinedAreAwake == Spec => []NobodyJoinedSleeps
  <1>1. Init => SleepInv
    BY SleepInit
  <1>2. IInv /\ IInv' /\ SleepInv /\ [Next]_vars => SleepInv'
    BY SleepNext DEF IInv
  <1>3. IInv /\ SleepInv => NobodyJoinedSleeps
    <2> SUFFICES ASSUME IInv, SleepInv, opc = "join", NEW w \in threads
                 PROVE  (isDone \/ flag[w]) /\ pc[w] # "asleep"
      BY DEF NobodyJoinedSleeps
    <2>1. w \in Workers
      BY PoolAssumption DEF IInv, TypeInv, TypeOK, Workers
    <2> QED BY <2>1 DEF SleepInv
  <1> QED BY <1>1, <1>2, <1>3, Invariance, PTL DEF Spec

-----------------------------------------------------------------------------
(* What TaskPool's promise says of a function of the pool.                 *)

\* A function that was accepted is never forgotten; one that was executed,
\* deleted or handed back is in nobody's queue or hands again; one that a
\* worker has begun ends in that worker; the next one begun is the oldest in
\* the queue; and one is deleted only while the owner empties the queue.
FatesAreFinal ==
  /\ done \subseteq done' /\ taken \subseteq taken' /\ dropped \subseteq dropped'
  /\ TP!Accepted \subseteq TP!Accepted'
  /\ (done \cup dropped \cup taken) \cap (Queued \cup Running)' = {}
  /\ Running \ Running' \subseteq done'
  /\ Running' \ Running # {} => q # <<>> /\ Running' = Running \cup {Head(q)}
  /\ dropped' # dropped => Discarding

\* The promise, step by step: each action of TaskPool moves a function on.
LEMMA PromisedFates ==
  ASSUME TypeInv, FateInv', MappedStep
  PROVE  FatesAreFinal
  <1> DEFINE Fates == done \cup dropped \cup taken
  <1>1. TP!Accepted = Queued \cup Running \cup Fates
    BY DEF TP!Accepted, Queued, Range
  <1>2. TP!Accepted' = Queued' \cup Running' \cup Fates'
    BY DEF TP!Accepted, Queued, Range
  <1>3. (Queued \cup Running)' \cap Fates' = {}
    BY DEF FateInv
  <1>4. q \in Seq(Tasks)
    BY DEF TypeInv, TypeOK
  <1> HIDE DEF Fates
  <1>5. ASSUME NEW t \in Tasks, TP!Submit(t)
        PROVE  FatesAreFinal
    <2>1. Queued' = Queued \cup {t}
      BY <1>4, <1>5, RangeAppend DEF TP!Submit, Queued
    <2> QED BY <1>1, <1>2, <1>3, <1>5, <2>1 DEF TP!Submit, FatesAreFinal, Fates
  <1>6. ASSUME NEW t \in Tasks, TP!Finish(t)
        PROVE  FatesAreFinal
    <2>1. Queued' = Queued
      BY <1>6 DEF TP!Finish, Queued
    <2> QED BY <1>1, <1>2, <1>3, <1>6, <2>1 DEF TP!Finish, FatesAreFinal, Fates
  <1>7. CASE TP!Start
    <2>1. Queued = Queued' \cup {Head(q)}
      BY <1>4, <1>7, RangeTail DEF TP!Start, Queued
    <2> QED BY <1>1, <1>2, <1>3, <1>7, <2>1 DEF TP!Start, FatesAreFinal, Fates
  <1>8. CASE TP!Withdraw
    <2>1. Queued = Queued' \cup {Head(q)}
      BY <1>4, <1>8, RangeTail DEF TP!Withdraw, Queued
    <2> QED BY <1>1, <1>2, <1>3, <1>8, <2>1 DEF TP!Withdraw, FatesAreFinal, Fates
  <1>9. CASE TP!Discard
    <2>1. Queued = Queued' \cup {Head(q)}
      BY <1>4, <1>9, RangeTail DEF TP!Discard, Queued
    <2> QED BY <1>1, <1>2, <1>3, <1>9, <2>1
            DEF TP!Discard, FatesAreFinal, Fates, Discarding
  <1>10. CASE TP!SetDiscarding
    <2>1. Queued' = Queued
      BY <1>10 DEF TP!SetDiscarding, Queued
    <2> QED BY <1>1, <1>2, <1>3, <1>10, <2>1 DEF TP!SetDiscarding, FatesAreFinal, Fates
  <1>11. CASE UNCHANGED TP!vars
    <2>1. Queued' = Queued
      BY <1>11 DEF TP!vars, Queued
    <2> QED BY <1>1, <1>2, <1>3, <1>11, <2>1 DEF TP!vars, FatesAreFinal, Fates
  <1> QED
    BY <1>5, <1>6, <1>7, <1>8, <1>9, <1>10, <1>11 DEF MappedStep, TP!Next

\* What happens to a function is final, through every interleaving of push(),
\* pop(), clear_queue(), stop() and the workers.
THEOREM FatesFinal == Spec => [][FatesAreFinal]_vars
  <1>1. IInv /\ IInv' /\ [Next]_vars => [FatesAreFinal]_vars
    BY MappedNext, PromisedFates DEF IInv
  <1> QED BY <1>1, Invariance, PTL DEF Spec

=============================================================================
