------------------------- MODULE SongServiceProofs --------------------------
(***************************************************************************)
(* What FileWatch and SongService guarantee for any songs, queues, changes *)
(* of the directory and stops of the watcher.                              *)
(***************************************************************************)
EXTENDS SongService, FiniteSetTheorems, SequenceTheorems, TLAPS

Arrives(e) == SideOf(e.kind) = "add"

\* E are the events of one file that wait to be handled, r and U its rows and
\* their UIDs, c what the file is now (0: there is none).  The events lead
\* from the rows to the file: arrivals and departures alternate, the oldest
\* fits the rows, the newest the file.
Leads(E, r, U, c) ==
  /\ \A e, o \in E : e.at = o.at => e = o
  /\ E = {} => IF c = 0 THEN r = 0 /\ U = {} ELSE r = 1 /\ U = {c}
  /\ \A e \in E : (\A o \in E : e.at <= o.at) =>
       IF Arrives(e) THEN r = 0 /\ U = {} ELSE r = 1
  /\ \A e \in E : (\A o \in E : o.at <= e.at) =>
       c = IF Arrives(e) THEN e.at ELSE 0
  /\ \A e, o \in E :
       e.at < o.at /\ (\A p \in E : p.at <= e.at \/ o.at <= p.at) => (Arrives(e) <=> ~Arrives(o))

\* Events of one file are in the order of the changes they tell of.
InOrder(q) ==
  \A i, j \in 1..Len(q) :
    i < j /\ q[i].name = q[j].name /\ q[i].name \in Songs => q[i].at < q[j].at

Precede(p, q) ==
  \A e \in ToSet(p), o \in ToSet(q) : e.name = o.name /\ e.name \in Songs => e.at < o.at

OrderFits ==
  \A s \in Sides :
    /\ InOrder(buf[s]) /\ InOrder(queue[s]) /\ Precede(buf[s], queue[s])
    /\ \A e \in Pending(s) : SideOf(e.kind) = s /\ (e.name \in Songs => e.at \in 1..changes)

\* UIDs come from arrivals that have been handled.
UidsFit ==
  /\ content \in [Songs -> 0..MaxChanges]
  /\ whole \subseteq dir /\ \A f \in Songs : content[f] # 0 <=> f \in dir
  /\ uids \in [Songs -> SUBSET Changes]
  /\ \A f \in Songs :
       /\ rows[f] = Cardinality(uids[f]) \/ (rows[f] = 2 /\ Cardinality(uids[f]) > 2)
       /\ \A u \in uids[f] : u <= changes
       /\ \A e \in Pending("add") : e.name = f => e.at \notin uids[f]

\* While no fault has happened every file is on its way into the table.
EventsFit ==
  faults = {} => \A f \in Songs : Leads(EventsOf(f), rows[f], uids[f], content[f])

\* A request that is not in doubt is about the file its UID was made for.
RequestFits ==
  /\ Idle \/ request \in [uid : Changes, name : Songs, doubt : BOOLEAN]
  /\ ~Idle /\ ~request.doubt => content[request.name] = request.uid

\* No two files are the same one.
FilesDiffer ==
  \A f, g \in Songs : content[f] <= changes /\ (content[f] = content[g] /\ content[f] # 0 => f = g)

IInv == TypeOK /\ OrderFits /\ UidsFit /\ EventsFit /\ FilesDiffer /\ RequestFits

\* What a statement can bring: its journal, or nothing.
JournalOnly == UNCHANGED queue \/ \E news \in {JournalNews, Events(None, None)} : Emit(news)

-----------------------------------------------------------------------------
(* One file and its events.                                                *)

\* A file comes.
LEMMA LeadsArrival ==
  ASSUME NEW E, NEW r, NEW U, Leads(E, r, U, 0), NEW e, Arrives(e), e.at \in Nat,
         \A o \in E : o.at \in Nat \ {0} /\ o.at < e.at
  PROVE  Leads(E \cup {e}, r, U, e.at)
  <1>1. \A m, o \in E \cup {e} : m.at = o.at => m = o
    BY DEF Leads
  <1>2. \A m \in E \cup {e} : (\A o \in E \cup {e} : m.at <= o.at) =>
          IF Arrives(m) THEN r = 0 /\ U = {} ELSE r = 1
    <2>1. CASE E = {}
      BY <2>1 DEF Leads
    <2>2. ASSUME NEW m \in E \cup {e}, \A o \in E \cup {e} : m.at <= o.at, E # {}
          PROVE  IF Arrives(m) THEN r = 0 /\ U = {} ELSE r = 1
      <3>1. m \in E
        BY <2>2
      <3> QED BY <2>2, <3>1 DEF Leads
    <2> QED BY <2>1, <2>2
  <1>3. \A m \in E \cup {e} : (\A o \in E \cup {e} : o.at <= m.at) =>
          e.at = IF Arrives(m) THEN m.at ELSE 0
    OBVIOUS
  <1>4. ASSUME NEW m \in E \cup {e}, NEW o \in E \cup {e}, m.at < o.at,
               \A p \in E \cup {e} : p.at <= m.at \/ o.at <= p.at
        PROVE  Arrives(m) <=> ~Arrives(o)
    <2>1. m \in E /\ m.at \in Nat \ {0}
      BY <1>4
    <2>2. CASE o = e
      <3>1. \A p \in E : p.at <= m.at
        BY <1>4, <2>1, <2>2
      <3>2. ~Arrives(m)
        BY <2>1, <3>1 DEF Leads
      <3> QED BY <2>2, <3>2
    <2>3. CASE o \in E
      BY <1>4, <2>1, <2>3 DEF Leads
    <2> QED BY <2>2, <2>3
  <1> QED BY <1>1, <1>2, <1>3, <1>4 DEF Leads

\* A file goes.
LEMMA LeadsDeparture ==
  ASSUME NEW E, NEW r, NEW U, NEW c, c # 0, Leads(E, r, U, c), NEW e, ~Arrives(e),
         e.at \in Nat \ {0}, \A o \in E : o.at \in Nat /\ o.at < e.at
  PROVE  Leads(E \cup {e}, r, U, 0)
  BY DEF Leads

\* The oldest event is an arrival, and its row is inserted.
LEMMA LeadsInsert ==
  ASSUME NEW E, NEW r, NEW U, NEW c, Leads(E, r, U, c), NEW e \in E, Arrives(e), e.at # 0,
         \A o \in E : o.at \in Nat /\ e.at <= o.at
  PROVE  r = 0 /\ U = {} /\ Leads(E \ {e}, 1, {e.at}, c)
  <1>1. r = 0 /\ U = {}
    BY DEF Leads
  <1>2. \A o \in E \ {e} : e.at < o.at
    <2>1. \A o \in E \ {e} : e.at # o.at
      BY DEF Leads
    <2> QED BY <2>1
  <1>3. E \ {e} = {} => c = e.at
    BY DEF Leads
  <1>4. \A m \in E \ {e} : (\A o \in E \ {e} : m.at <= o.at) => ~Arrives(m)
    BY <1>2 DEF Leads
  <1>5. \A m \in E \ {e} : (\A o \in E \ {e} : o.at <= m.at) => c = IF Arrives(m) THEN m.at ELSE 0
    BY <1>2 DEF Leads
  <1>6. \A m, o \in E \ {e} :
          m.at < o.at /\ (\A p \in E \ {e} : p.at <= m.at \/ o.at <= p.at)
            => (Arrives(m) <=> ~Arrives(o))
    BY <1>2 DEF Leads
  <1>7. \A m, o \in E \ {e} : m.at = o.at => m = o
    BY DEF Leads
  <1> QED BY <1>1, <1>3, <1>4, <1>5, <1>6, <1>7 DEF Leads

\* The oldest event is a departure, and the rows are deleted.
LEMMA LeadsDelete ==
  ASSUME NEW E, NEW r, NEW U, NEW c, Leads(E, r, U, c), NEW e \in E, ~Arrives(e),
         \A o \in E : o.at \in Nat /\ e.at <= o.at
  PROVE  Leads(E \ {e}, 0, {}, c)
  <1>2. \A o \in E \ {e} : e.at < o.at
    BY DEF Leads
  <1>3. E \ {e} = {} => c = 0
    BY DEF Leads
  <1>4. \A m \in E \ {e} : (\A o \in E \ {e} : m.at <= o.at) => Arrives(m)
    BY <1>2 DEF Leads
  <1>5. \A m \in E \ {e} : (\A o \in E \ {e} : o.at <= m.at) => c = IF Arrives(m) THEN m.at ELSE 0
    BY <1>2 DEF Leads
  <1>6. \A m, o \in E \ {e} :
          m.at < o.at /\ (\A p \in E \ {e} : p.at <= m.at \/ o.at <= p.at)
            => (Arrives(m) <=> ~Arrives(o))
    BY <1>2 DEF Leads
  <1>7. \A m, o \in E \ {e} : m.at = o.at => m = o
    BY DEF Leads
  <1> QED BY <1>3, <1>4, <1>5, <1>6, <1>7 DEF Leads

-----------------------------------------------------------------------------
(* Queues and buffers.                                                     *)

LEMMA SetOf ==
  ASSUME NEW S, NEW q \in Seq(S)
  PROVE  ToSet(q) = {q[i] : i \in 1..Len(q)}
  BY LenProperties DEF ToSet

LEMMA NothingIn == <<>> \in Seq(EventSet) /\ Len(<<>>) = 0 /\ ToSet(<<>>) = {}
  <1>1. <<>> \in Seq(EventSet) /\ Len(<<>>) = 0
    BY EmptySeq
  <1>2. DOMAIN <<>> = {}
    OBVIOUS
  <1>3. ToSet(<<>>) = {}
    BY <1>2 DEF ToSet
  <1> QED BY <1>1, <1>3

LEMMA AppendOrder ==
  ASSUME NEW S, NEW q \in Seq(S), NEW e \in S
  PROVE  /\ ToSet(Append(q, e)) = ToSet(q) \cup {e}
         /\ InOrder(q) /\ (\A o \in ToSet(q) : o.name = e.name /\ e.name \in Songs => o.at < e.at)
              => InOrder(Append(q, e))
  <1>1. /\ Append(q, e) \in Seq(S) /\ Len(Append(q, e)) = Len(q) + 1 /\ Len(q) \in Nat
        /\ \A i \in 1..Len(q) : Append(q, e)[i] = q[i] /\ q[i] \in ToSet(q)
        /\ Append(q, e)[Len(q) + 1] = e
    BY AppendProperties DEF ToSet
  <1>2. ToSet(Append(q, e)) = ToSet(q) \cup {e}
    BY <1>1 DEF ToSet
  <1>3. ASSUME InOrder(q), \A o \in ToSet(q) : o.name = e.name /\ e.name \in Songs => o.at < e.at
        PROVE  InOrder(Append(q, e))
    BY <1>1, <1>3 DEF InOrder
  <1> QED BY <1>2, <1>3

LEMMA TailOrder ==
  ASSUME NEW S, NEW q \in Seq(S), q # <<>>
  PROVE  /\ ToSet(q) = ToSet(Tail(q)) \cup {Head(q)} /\ Head(q) \in S /\ Tail(q) \in Seq(S)
         /\ InOrder(q) => /\ InOrder(Tail(q))
                          /\ \A e \in ToSet(Tail(q)) :
                               e.name = Head(q).name /\ e.name \in Songs => Head(q).at < e.at
  <1>1. /\ Tail(q) \in Seq(S) /\ Len(Tail(q)) = Len(q) - 1 /\ Len(q) \in Nat \ {0}
        /\ \A i \in 1..Len(Tail(q)) : Tail(q)[i] = q[i + 1]
        /\ Head(q) = q[1] /\ Head(q) \in S
    BY HeadTailProperties, EmptySeq
  <1>2. ToSet(q) = ToSet(Tail(q)) \cup {Head(q)}
    <2>1. \A i \in 1..Len(q) : i = 1 \/ (i - 1 \in 1..Len(Tail(q)) /\ q[i] = Tail(q)[i - 1])
      BY <1>1
    <2>2. ToSet(q) = {q[i] : i \in 1..Len(q)}
      BY SetOf
    <2>3. ToSet(Tail(q)) = {Tail(q)[i] : i \in 1..Len(Tail(q))}
      BY <1>1, SetOf
    <2>4. \A i \in 1..Len(Tail(q)) : i + 1 \in 1..Len(q)
      BY <1>1
    <2>5. \A x \in ToSet(Tail(q)) \cup {Head(q)} : x \in ToSet(q)
      BY <1>1, <2>2, <2>3, <2>4
    <2>6. ASSUME NEW x \in ToSet(q) PROVE x \in ToSet(Tail(q)) \cup {Head(q)}
      <3>1. PICK i \in 1..Len(q) : x = q[i]
        BY <2>2, <2>6
      <3>2. CASE i = 1
        BY <1>1, <3>1, <3>2
      <3>3. CASE i # 1
        BY <2>1, <2>3, <3>1, <3>3
      <3> QED BY <3>2, <3>3
    <2> QED BY <2>5, <2>6
  <1>3. InOrder(q) => InOrder(Tail(q))
    BY <1>1 DEF InOrder
  <1>4. InOrder(q) => \A e \in ToSet(Tail(q)) :
                        e.name = Head(q).name /\ e.name \in Songs => Head(q).at < e.at
    BY <1>1 DEF InOrder, ToSet
  <1> QED BY <1>1, <1>2, <1>3, <1>4

LEMMA SplitOrder ==
  ASSUME NEW S, NEW q \in Seq(S), NEW n \in 0..Len(q)
  PROVE  /\ SubSeq(q, 1, n) \in Seq(S) /\ Len(SubSeq(q, 1, n)) = n
         /\ SubSeq(q, n + 1, Len(q)) \in Seq(S) /\ Len(SubSeq(q, n + 1, Len(q))) = Len(q) - n
         /\ ToSet(SubSeq(q, 1, n)) \cup ToSet(SubSeq(q, n + 1, Len(q))) = ToSet(q)
         /\ InOrder(q) => /\ InOrder(SubSeq(q, 1, n)) /\ InOrder(SubSeq(q, n + 1, Len(q)))
                          /\ Precede(SubSeq(q, 1, n), SubSeq(q, n + 1, Len(q)))
  <1> DEFINE a == SubSeq(q, 1, n)
             b == SubSeq(q, n + 1, Len(q))
  <1>1. /\ a \in Seq(S) /\ Len(a) = n /\ \A i \in 1..n : a[i] = q[i]
        /\ b \in Seq(S) /\ Len(b) = Len(q) - n /\ \A i \in 1..(Len(q) - n) : b[i] = q[n + i]
        /\ Len(q) \in Nat
    <2>1. Len(q) \in Nat /\ \A i \in 1..Len(q) : q[i] \in S
      OBVIOUS
    <2>2. a \in Seq(S) /\ Len(a) = n /\ \A i \in 1..n : a[i] = q[i]
      BY <2>1, SubSeqProperties
    <2>3. b \in Seq(S) /\ Len(b) = Len(q) - n /\ \A i \in 1..(Len(q) - n) : b[i] = q[n + i]
      BY <2>1, SubSeqProperties
    <2> QED BY <2>1, <2>2, <2>3
  <1> HIDE DEF a, b
  <1>a. ToSet(a) = {a[i] : i \in 1..Len(a)}
    <2>1. a \in Seq(S)
      BY <1>1
    <2> QED BY <2>1, SetOf
  <1>b. ToSet(b) = {b[i] : i \in 1..Len(b)}
    <2>1. b \in Seq(S)
      BY <1>1
    <2> QED BY <2>1, SetOf
  <1>2. ToSet(a) \cup ToSet(b) = ToSet(q)
    <2>1. \A i \in 1..Len(q) : (i \in 1..n /\ q[i] = a[i])
                               \/ (i - n \in 1..(Len(q) - n) /\ q[i] = b[i - n])
      BY <1>1
    <2>2. /\ ToSet(q) = {q[i] : i \in 1..Len(q)} /\ ToSet(a) = {a[i] : i \in 1..n}
          /\ ToSet(b) = {b[i] : i \in 1..(Len(q) - n)}
      <3>1. ToSet(q) = {q[i] : i \in 1..Len(q)}
        BY SetOf
      <3> QED BY <1>1, <1>a, <1>b, <3>1
    <2>3. \A i \in 1..n : i \in 1..Len(q)
      BY <1>1
    <2>4. \A i \in 1..(Len(q) - n) : n + i \in 1..Len(q)
      BY <1>1
    <2>5. ToSet(q) \subseteq ToSet(a) \cup ToSet(b)
      BY <2>1, <2>2
    <2>6. ToSet(a) \subseteq ToSet(q)
      BY <1>1, <2>2, <2>3
    <2>7. ToSet(b) \subseteq ToSet(q)
      BY <1>1, <2>2, <2>4
    <2> QED BY <2>5, <2>6, <2>7
  <1>3. ASSUME InOrder(q) PROVE InOrder(a) /\ InOrder(b)
    <2>1. ASSUME NEW i \in 1..Len(a), NEW j \in 1..Len(a), i < j, a[i].name = a[j].name,
                 a[i].name \in Songs
          PROVE  a[i].at < a[j].at
      <3>1. i \in 1..Len(q) /\ j \in 1..Len(q) /\ a[i] = q[i] /\ a[j] = q[j]
        BY <1>1, <2>1
      <3> QED BY <1>3, <2>1, <3>1 DEF InOrder
    <2>2. ASSUME NEW i \in 1..Len(b), NEW j \in 1..Len(b), i < j, b[i].name = b[j].name,
                 b[i].name \in Songs
          PROVE  b[i].at < b[j].at
      <3>1. /\ n + i \in 1..Len(q) /\ n + j \in 1..Len(q) /\ n + i < n + j
            /\ b[i] = q[n + i] /\ b[j] = q[n + j]
        BY <1>1, <2>2
      <3> QED BY <1>3, <2>2, <3>1 DEF InOrder
    <2> QED BY <2>1, <2>2 DEF InOrder
  <1>4. ASSUME InOrder(q), NEW e \in ToSet(a), NEW o \in ToSet(b), e.name = o.name, e.name \in Songs
        PROVE  e.at < o.at
    <2>1. PICK i \in 1..n : e = q[i]
      BY <1>1, <1>4, <1>a
    <2>2. PICK j \in 1..(Len(q) - n) : o = q[n + j]
      <3>1. PICK j \in 1..Len(b) : o = b[j]
        BY <1>4, <1>b
      <3>2. j \in 1..(Len(q) - n)
        BY <1>1
      <3> QED BY <1>1, <3>1, <3>2
    <2>3. i \in 1..Len(q) /\ n + j \in 1..Len(q) /\ i < n + j
      BY <1>1
    <2> QED BY <1>4, <2>1, <2>2, <2>3 DEF InOrder
  <1>5. InOrder(q) => Precede(a, b)
    BY <1>4 DEF Precede
  <1> QED BY <1>1, <1>2, <1>3, <1>5 DEF a, b

-----------------------------------------------------------------------------
(* A change of the directory.                                              *)

\* The kernel puts an event into its queue, or it is a loss.
LEMMA EmitFacts ==
  ASSUME TypeOK, NEW ev, Emit(ev),
         \A s \in Sides : ev[s] = None \/ (ev[s] \in EventSet /\ SideOf(ev[s].kind) = s)
  PROVE  /\ queue' \in [Sides -> Seq(EventSet)]
         /\ \A s \in Sides :
              /\ Len(queue'[s]) <= QueueMax
              /\ \/ queue'[s] = queue[s] /\ (ev[s] # None => Loss(ev[s]) # {})
                 \/ ev[s] # None /\ queue'[s] = Append(queue[s], ev[s])
  <1>1. ASSUME NEW s \in Sides
        PROVE  /\ queue'[s] \in Seq(EventSet) /\ Len(queue'[s]) <= QueueMax
               /\ \/ queue'[s] = queue[s] /\ (ev[s] # None => Loss(ev[s]) # {})
                  \/ ev[s] # None /\ queue'[s] = Append(queue[s], ev[s])
    <2>1. queue[s] \in Seq(EventSet) /\ Len(queue[s]) <= QueueMax /\ Len(queue[s]) \in Nat
      BY DEF TypeOK
    <2>2. CASE ev[s] = None \/ ~Watched(s) \/ Merges(ev[s]) \/ Full(ev[s])
      <3>1. queue'[s] = queue[s]
        BY <2>2 DEF Emit
      <3>2. ASSUME ev[s] # None PROVE Loss(ev[s]) # {}
        <4>1. SideOf(ev[s].kind) = s
          BY <3>2
        <4>2. CASE ~Watched(s)
          BY <3>2, <4>1, <4>2 DEF Loss
        <4>3. CASE Watched(s) /\ Merges(ev[s])
          BY <3>2, <4>1, <4>3 DEF Loss
        <4>4. CASE Watched(s) /\ ~Merges(ev[s]) /\ Full(ev[s])
          BY <3>2, <4>1, <4>4 DEF Loss
        <4> QED BY <2>2, <3>2, <4>2, <4>3, <4>4
      <3> QED BY <2>1, <3>1, <3>2
    <2>3. CASE ~(ev[s] = None \/ ~Watched(s) \/ Merges(ev[s]) \/ Full(ev[s]))
      <3>1. queue'[s] = Append(queue[s], ev[s]) /\ ev[s] # None
        BY <2>3 DEF Emit
      <3>2. Len(queue[s]) # QueueMax /\ ev[s] \in EventSet
        BY <2>3 DEF Full
      <3>3. queue'[s] \in Seq(EventSet) /\ Len(queue'[s]) = Len(queue[s]) + 1
        BY <2>1, <3>1, <3>2, AppendProperties
      <3> QED BY <2>1, <3>1, <3>2, <3>3, WatchAssumption
    <2> QED BY <2>2, <2>3
  <1>2. queue' = [s \in Sides |-> queue'[s]]
    BY DEF Emit
  <1> QED BY <1>1, <1>2

\* A change of the directory brings an arrival, a departure, or one of each;
\* None stands for the one that is missing.
IsNews(e, kinds) == e = None \/ (e.name \in Songs /\ e \in EventSet /\ e.kind \in kinds /\ e.at = Now)

Happens(arr, dep) ==
  /\ IsNews(arr, {"create", "movedTo"}) /\ IsNews(dep, {"delete", "movedFrom"})
  /\ arr.name # dep.name
  /\ dep # None => dep.name \in dir
  /\ changes < MaxChanges /\ changes' = Now
  /\ dir' = (dir \ {dep.name}) \cup ({arr.name} \cap Songs)
  /\ Emit(Events(arr, dep))
  /\ \E more \in SUBSET {"replaced"} :
       /\ Blame(Loss(arr) \cup Loss(dep) \cup more)
       /\ more = {} => arr.name \notin dir
  /\ content' = [g \in Songs |-> IF g = arr.name THEN Now
                                 ELSE IF g = dep.name THEN 0 ELSE content[g]]
  /\ whole' \subseteq dir'
  /\ Disturb({arr.name, dep.name} \cap Songs)
  /\ UNCHANGED <<buf, stage, rows, stops, uids>>

LEMMA ChangeHappens ==
  ASSUME IInv, NEW arr, NEW dep, NEW newDir, NEW replaced,
         changes < MaxChanges =>
           IsNews(arr, {"create", "movedTo"}) /\ IsNews(dep, {"delete", "movedFrom"}),
         arr.name # dep.name, dep # None => dep.name \in dir,
         replaced \in BOOLEAN, Change(Events(arr, dep), newDir, replaced),
         newDir = (dir \ {dep.name}) \cup ({arr.name} \cap Songs),
         arr.name \in dir => replaced = TRUE,
         content' = [g \in Songs |-> IF g = arr.name THEN Now
                                    ELSE IF g = dep.name THEN 0 ELSE content[g]],
         whole' \subseteq newDir, Disturb({arr.name, dep.name} \cap Songs), UNCHANGED uids
  PROVE  Happens(arr, dep)
  <1>1. Events(arr, dep)["add"] = arr /\ Events(arr, dep)["del"] = dep
    BY DEF Events, Sides
  <1>2. /\ changes < MaxChanges /\ changes' = Now /\ dir' = newDir
        /\ Emit(Events(arr, dep)) /\ UNCHANGED <<buf, stage, rows, stops>>
        /\ Blame(Loss(arr) \cup Loss(dep) \cup (IF replaced THEN {"replaced"} ELSE {}))
    BY <1>1 DEF Change, Now
  <1>3. \E more \in SUBSET {"replaced"} :
          /\ Blame(Loss(arr) \cup Loss(dep) \cup more)
          /\ more = {} => arr.name \notin dir
    <2> DEFINE more == IF replaced THEN {"replaced"} ELSE {}
    <2>1. more \in SUBSET {"replaced"} /\ (more = {} => arr.name \notin dir)
      OBVIOUS
    <2> QED BY <1>2, <2>1
  <1> QED BY <1>2, <1>3 DEF Happens

LEMMA SongStepHappens ==
  ASSUME IInv, NEW f \in Songs,
         CreateSong(f) \/ DeleteSong(f) \/ MoveSongIn(f) \/ \E g \in Songs : RenameSong(f, g)
  PROVE  \E arr, dep : Happens(arr, dep)
  <1> USE DEF IInv
  <1>1. f # Journal /\ None.name = Journal /\ Journal \notin Songs /\ dir \subseteq Songs
    BY WatchAssumption DEF None, TypeOK
  <1>2. content \in [Songs -> 0..MaxChanges] /\ whole \subseteq dir
    BY DEF UidsFit
  <1>0. \A k, g, n : Event(k, g, n).name = g
    BY DEF Event
  <1>3. ASSUME changes < MaxChanges, NEW k \in Kinds, NEW g \in Songs
        PROVE  Event(k, g, Now) \in EventSet /\ Event(k, g, Now).kind = k /\ Event(k, g, Now).at = Now
    BY <1>3, WatchAssumption DEF Event, EventSet, Now, Names, TypeOK
  <1>4. CASE CreateSong(f)
    <2> DEFINE arr == Event("create", f, Now)
               dep == None
    <2>1. f \notin dir /\ Change(Events(Event("create", f, Now), None), dir \cup {f}, FALSE)
      BY <1>4 DEF CreateSong, CreateFile
    <2>2. changes < MaxChanges => IsNews(Event("create", f, Now), {"create", "movedTo"})
      BY <1>0, <1>3 DEF IsNews, Kinds
    <2>3. /\ whole' \subseteq dir \cup {f} /\ UNCHANGED uids /\ Disturb({f})
          /\ content' = [g \in Songs |-> IF g = f THEN Now ELSE IF g = Journal THEN 0 ELSE content[g]]
      BY <1>1, <1>2, <1>4 DEF CreateSong
    <2>4. {f, Journal} \cap Songs = {f} /\ dir \cup {f} = (dir \ {Journal}) \cup ({f} \cap Songs)
      BY <1>1
    <2>5. /\ arr.name = f /\ dep.name = Journal /\ arr.name # dep.name /\ (dep # None => dep.name \in dir)
          /\ changes < MaxChanges =>
               IsNews(arr, {"create", "movedTo"}) /\ IsNews(dep, {"delete", "movedFrom"})
      BY <1>0, <1>1, <2>1, <2>2 DEF IsNews
    <2>6. Change(Events(arr, dep), (dir \ {dep.name}) \cup ({arr.name} \cap Songs), FALSE)
      BY <2>1, <2>4, <2>5
    <2>7. content' = [h \in Songs |-> IF h = arr.name THEN Now
                                     ELSE IF h = dep.name THEN 0 ELSE content[h]]
      BY <2>3, <2>5
    <2>8. /\ whole' \subseteq (dir \ {dep.name}) \cup ({arr.name} \cap Songs) /\ UNCHANGED uids
          /\ Disturb({arr.name, dep.name} \cap Songs)
      BY <2>3, <2>4, <2>5
    <2> HIDE DEF arr, dep
    <2>9. Happens(arr, dep)
      BY <2>1, <2>5, <2>6, <2>7, <2>8, ChangeHappens
    <2> QED BY <2>9
  <1>5. CASE DeleteSong(f)
    <2>1. PICK k \in {"delete", "movedFrom"} :
            f \in dir /\ Change(Events(None, Event(k, f, Now)), dir \ {f}, FALSE)
      BY <1>5 DEF DeleteSong, DeleteFile, MoveOut
    <2> DEFINE arr == None
               dep == Event(k, f, Now)
    <2>2. changes < MaxChanges => IsNews(Event(k, f, Now), {"delete", "movedFrom"})
      BY <1>0, <1>3 DEF IsNews, Kinds
    <2>3. /\ whole' \subseteq dir \ {f} /\ UNCHANGED uids /\ Disturb({f})
          /\ content' = [g \in Songs |-> IF g = Journal THEN Now ELSE IF g = f THEN 0 ELSE content[g]]
      BY <1>1, <1>2, <1>5 DEF DeleteSong
    <2>4. {Journal, f} \cap Songs = {f} /\ dir \ {f} = (dir \ {f}) \cup ({Journal} \cap Songs)
      BY <1>1
    <2>5. /\ arr.name = Journal /\ dep.name = f /\ arr.name # dep.name /\ (dep # None => dep.name \in dir)
          /\ changes < MaxChanges =>
               IsNews(arr, {"create", "movedTo"}) /\ IsNews(dep, {"delete", "movedFrom"})
      BY <1>0, <1>1, <2>1, <2>2 DEF IsNews
    <2>6. Change(Events(arr, dep), (dir \ {dep.name}) \cup ({arr.name} \cap Songs), FALSE)
      BY <2>1, <2>4, <2>5
    <2>7. content' = [h \in Songs |-> IF h = arr.name THEN Now
                                     ELSE IF h = dep.name THEN 0 ELSE content[h]]
      BY <2>3, <2>5
    <2>8. /\ whole' \subseteq (dir \ {dep.name}) \cup ({arr.name} \cap Songs) /\ UNCHANGED uids
          /\ Disturb({arr.name, dep.name} \cap Songs)
      BY <2>3, <2>4, <2>5
    <2> HIDE DEF arr, dep
    <2>9. Happens(arr, dep)
      BY <1>1, <2>1, <2>5, <2>6, <2>7, <2>8, ChangeHappens
    <2> QED BY <2>9
  <1>6. CASE MoveSongIn(f)
    <2> DEFINE arr == Event("movedTo", f, Now)
               dep == None
               replaced == f \in dir
    <2>1. Change(Events(Event("movedTo", f, Now), None), dir \cup {f}, f \in dir)
      BY <1>6 DEF MoveSongIn, MoveIn
    <2>2. changes < MaxChanges => IsNews(Event("movedTo", f, Now), {"create", "movedTo"})
      BY <1>0, <1>3 DEF IsNews, Kinds
    <2>3. /\ whole' \subseteq dir \cup {f} /\ UNCHANGED uids /\ Disturb({f})
          /\ content' = [g \in Songs |-> IF g = f THEN Now ELSE IF g = Journal THEN 0 ELSE content[g]]
      BY <1>1, <1>2, <1>6 DEF MoveSongIn
    <2>4. {f, Journal} \cap Songs = {f} /\ dir \cup {f} = (dir \ {Journal}) \cup ({f} \cap Songs)
      BY <1>1
    <2>5. /\ arr.name = f /\ dep.name = Journal /\ arr.name # dep.name /\ (dep # None => dep.name \in dir)
          /\ changes < MaxChanges =>
               IsNews(arr, {"create", "movedTo"}) /\ IsNews(dep, {"delete", "movedFrom"})
      BY <1>0, <1>1, <2>1, <2>2 DEF IsNews
    <2>6. /\ Change(Events(arr, dep), (dir \ {dep.name}) \cup ({arr.name} \cap Songs), replaced)
          /\ replaced \in BOOLEAN /\ (arr.name \in dir => replaced = TRUE)
      BY <2>1, <2>4, <2>5
    <2>7. content' = [h \in Songs |-> IF h = arr.name THEN Now
                                     ELSE IF h = dep.name THEN 0 ELSE content[h]]
      BY <2>3, <2>5
    <2>8. /\ whole' \subseteq (dir \ {dep.name}) \cup ({arr.name} \cap Songs) /\ UNCHANGED uids
          /\ Disturb({arr.name, dep.name} \cap Songs)
      BY <2>3, <2>4, <2>5
    <2> HIDE DEF arr, dep, replaced
    <2>9. Happens(arr, dep)
      BY <2>1, <2>5, <2>6, <2>7, <2>8, ChangeHappens
    <2> QED BY <2>9
  <1>7. ASSUME NEW g \in Songs, RenameSong(f, g) PROVE \E arr, dep : Happens(arr, dep)
    <2> DEFINE arr == Event("movedTo", g, Now)
               dep == Event("movedFrom", f, Now)
               replaced == g \in dir
    <2>1. /\ f \in dir /\ g # f
          /\ Change(Events(Event("movedTo", g, Now), Event("movedFrom", f, Now)),
                    (dir \ {f}) \cup {g}, g \in dir)
      BY <1>7 DEF RenameSong, Rename
    <2>2. changes < MaxChanges => /\ IsNews(Event("movedTo", g, Now), {"create", "movedTo"})
                                  /\ IsNews(Event("movedFrom", f, Now), {"delete", "movedFrom"})
      BY <1>0, <1>3 DEF IsNews, Kinds
    <2>3. /\ whole' \subseteq (dir \ {f}) \cup {g} /\ UNCHANGED uids /\ Disturb({f, g})
          /\ content' = [h \in Songs |-> IF h = g THEN Now ELSE IF h = f THEN 0 ELSE content[h]]
      BY <1>2, <1>7, <2>1 DEF RenameSong
    <2>4. {g, f} \cap Songs = {f, g} /\ (dir \ {f}) \cup {g} = (dir \ {f}) \cup ({g} \cap Songs)
      BY <1>1
    <2>5. /\ arr.name = g /\ dep.name = f /\ arr.name # dep.name /\ (dep # None => dep.name \in dir)
          /\ changes < MaxChanges =>
               IsNews(arr, {"create", "movedTo"}) /\ IsNews(dep, {"delete", "movedFrom"})
      BY <1>0, <1>1, <2>1, <2>2 DEF IsNews
    <2>6. /\ Change(Events(arr, dep), (dir \ {dep.name}) \cup ({arr.name} \cap Songs), replaced)
          /\ replaced \in BOOLEAN /\ (arr.name \in dir => replaced = TRUE)
      BY <2>1, <2>4, <2>5
    <2>7. content' = [h \in Songs |-> IF h = arr.name THEN Now
                                     ELSE IF h = dep.name THEN 0 ELSE content[h]]
      BY <2>3, <2>5
    <2>8. /\ whole' \subseteq (dir \ {dep.name}) \cup ({arr.name} \cap Songs) /\ UNCHANGED uids
          /\ Disturb({arr.name, dep.name} \cap Songs)
      BY <2>3, <2>4, <2>5
    <2> HIDE DEF arr, dep, replaced
    <2>9. Happens(arr, dep)
      BY <2>1, <2>5, <2>6, <2>7, <2>8, ChangeHappens
    <2> QED BY <2>9
  <1> QED BY <1>4, <1>5, <1>6, <1>7

\* Who waits in a queue or a buffer is an event of that side.
LEMMA PendingFacts ==
  ASSUME TypeOK, OrderFits, NEW s \in Sides, NEW e \in Pending(s)
  PROVE  /\ e \in EventSet /\ SideOf(e.kind) = s /\ (e.name \in Songs => e.at \in 1..changes)
         /\ e.at \in Nat /\ e.name \in Names
  <1>1. queue[s] \in Seq(EventSet) /\ buf[s] \in Seq(EventSet)
    BY DEF TypeOK
  <1>2. ToSet(queue[s]) \subseteq EventSet /\ ToSet(buf[s]) \subseteq EventSet
    BY <1>1, SetOf
  <1>3. e \in EventSet
    BY <1>2 DEF Pending
  <1> QED BY <1>3, WatchAssumption DEF OrderFits, EventSet

\* The events of a change are the newest of their files.
LEMMA HappensKeeps == ASSUME IInv, NEW arr, NEW dep, Happens(arr, dep) PROVE IInv'
  <1> DEFINE ev == Events(arr, dep)
  <1> USE DEF IInv
  <1>1. /\ changes \in Nat /\ changes' = changes + 1 /\ changes' \in 0..MaxChanges /\ dir \subseteq Songs
        /\ UNCHANGED <<buf, stage, rows, stops, uids>> /\ Now = changes + 1 /\ Now \in Changes
    BY WatchAssumption DEF Happens, TypeOK, Now, Changes
  <1>2. /\ ev["add"] = arr /\ ev["del"] = dep /\ "add" \in Sides /\ "del" \in Sides
        /\ \A s \in Sides : s = "add" \/ s = "del"
    BY DEF Events, Sides
  <1>3. /\ arr # None => arr \in EventSet /\ arr.name \in Songs /\ Arrives(arr) /\ arr.at = changes + 1
        /\ dep # None => dep \in EventSet /\ dep.name \in Songs /\ ~Arrives(dep) /\ dep.at = changes + 1
        /\ dep # None => SideOf(dep.kind) = "del"
    BY <1>1 DEF Happens, IsNews, Arrives, SideOf
  <1>4. None.name = Journal /\ Journal \notin Songs
    BY WatchAssumption DEF None
  <1>5. \A s \in Sides : ev[s] = None \/ (ev[s] \in EventSet /\ SideOf(ev[s].kind) = s)
    BY <1>2, <1>3 DEF Arrives
  <1>6. Emit(ev)
    BY DEF Happens
  <1> HIDE DEF ev
  <1>7. /\ queue' \in [Sides -> Seq(EventSet)]
        /\ \A s \in Sides :
             /\ Len(queue'[s]) <= QueueMax
             /\ \/ queue'[s] = queue[s] /\ (ev[s] # None => Loss(ev[s]) # {})
                \/ ev[s] # None /\ queue'[s] = Append(queue[s], ev[s])
    BY <1>5, <1>6, EmitFacts
  <1>8. ASSUME NEW s \in Sides
        PROVE  /\ ToSet(queue'[s]) \in {ToSet(queue[s]), ToSet(queue[s]) \cup {ev[s]} }
               /\ ToSet(queue'[s]) # ToSet(queue[s]) => ev[s] # None
               /\ ev[s] # None /\ Loss(ev[s]) = {} => ToSet(queue'[s]) = ToSet(queue[s]) \cup {ev[s]}
               /\ InOrder(queue'[s])
    <2>1. queue[s] \in Seq(EventSet)
      BY DEF TypeOK
    <2>2. \A o \in ToSet(queue[s]) : o.name \in Songs => o.at < changes + 1
      BY <1>1, PendingFacts DEF Pending
    <2>3. InOrder(queue[s])
      BY DEF OrderFits
    <2>4. CASE queue'[s] = queue[s] /\ (ev[s] # None => Loss(ev[s]) # {})
      BY <2>3, <2>4
    <2>5. CASE ev[s] # None /\ queue'[s] = Append(queue[s], ev[s])
      <3>1. ev[s] \in EventSet /\ ev[s].at = changes + 1
        BY <1>2, <1>3, <2>5
      <3>2. ToSet(queue'[s]) = ToSet(queue[s]) \cup {ev[s]}
        BY <2>1, <2>5, <3>1, AppendOrder
      <3>3. InOrder(queue'[s])
        BY <2>1, <2>2, <2>3, <2>5, <3>1, AppendOrder
      <3> QED BY <2>5, <3>2, <3>3
    <2> QED BY <1>7, <2>4, <2>5
  <1>9. \A s \in Sides : \A e \in Pending(s)' : e \in Pending(s) \/ (e = ev[s] /\ e # None)
    BY <1>1, <1>8 DEF Pending
  <1>10. TypeOK'
    <2>1. dir' \subseteq Songs
      BY <1>1 DEF Happens
    <2>2. buf' \in [Sides -> Seq(EventSet)] /\ rows' \in [Names -> 0..2] /\ stops' \in 0..MaxStops
          /\ stage' \in {"down", "halfWatched", "watched", "up"}
      BY <1>1 DEF TypeOK
    <2>3. faults' \subseteq {"unwatched", "merged", "overflow", "replaced", "overtaken", "failed", "forgotten"}
      BY DEF Happens, TypeOK, Loss, Blame
    <2>4. ASSUME NEW s \in Sides
          PROVE  /\ Len(queue'[s]) <= QueueMax /\ Len(buf'[s]) <= BufMax
                 /\ \A e \in ToSet(queue'[s]) \cup ToSet(buf'[s]) : SideOf(e.kind) = s
      BY <1>1, <1>5, <1>7, <1>9 DEF TypeOK, Pending
    <2> QED BY <1>1, <1>7, <2>1, <2>2, <2>3, <2>4 DEF TypeOK
  <1>11. OrderFits'
    <2> SUFFICES ASSUME NEW s \in Sides
                 PROVE  /\ InOrder(buf'[s]) /\ InOrder(queue'[s]) /\ Precede(buf'[s], queue'[s])
                        /\ \A e \in Pending(s)' :
                             SideOf(e.kind) = s /\ (e.name \in Songs => e.at \in 1..changes')
      BY DEF OrderFits
    <2>1. InOrder(buf'[s]) /\ buf'[s] = buf[s]
      BY <1>1 DEF OrderFits
    <2>2. \A e \in Pending(s)' : SideOf(e.kind) = s /\ (e.name \in Songs => e.at \in 1..changes')
      BY <1>1, <1>2, <1>3, <1>5, <1>9, PendingFacts
    <2>3. Precede(buf'[s], queue'[s])
      <3>1. Precede(buf[s], queue[s])
        BY DEF OrderFits
      <3>2. \A e \in ToSet(buf[s]) : e.name \in Songs => e.at < changes + 1
        BY <1>1, PendingFacts DEF Pending
      <3>3. \A o \in ToSet(queue'[s]) : o \in ToSet(queue[s]) \/ o.at = changes + 1
        BY <1>2, <1>3, <1>8
      <3> QED BY <2>1, <3>1, <3>2, <3>3 DEF Precede
    <2> QED BY <1>8, <2>1, <2>2, <2>3
  <1>12. UidsFit'
    <2>1. content' \in [Songs -> 0..MaxChanges]
      <3>1. Now \in 0..MaxChanges /\ 0 \in 0..MaxChanges /\ content \in [Songs -> 0..MaxChanges]
        BY <1>1, WatchAssumption DEF Changes, UidsFit
      <3> QED BY <3>1 DEF Happens
    <2>2. \A f \in Songs : content'[f] # 0 <=> f \in dir'
      <3>1. \A f \in Songs : content'[f] = IF f = arr.name THEN Now ELSE IF f = dep.name THEN 0 ELSE content[f]
        BY DEF Happens
      <3>2. \A f \in Songs : content[f] # 0 <=> f \in dir
        BY DEF UidsFit
      <3>3. dir' = (dir \ {dep.name}) \cup ({arr.name} \cap Songs) /\ arr.name # dep.name
        BY DEF Happens
      <3> QED BY <1>1, <3>1, <3>2, <3>3
    <2>3. whole' \subseteq dir'
      BY DEF Happens
    <2>4. ASSUME NEW f \in Songs
          PROVE  /\ rows'[f] = Cardinality(uids'[f]) \/ (rows'[f] = 2 /\ Cardinality(uids'[f]) > 2)
                 /\ \A u \in uids'[f] : u <= changes'
                 /\ \A e \in Pending("add")' : e.name = f => e.at \notin uids'[f]
      <3>1. \A u \in uids[f] : u <= changes /\ u \in Nat
        BY <1>1 DEF UidsFit, Changes
      <3>2. changes + 1 \notin uids[f]
        BY <1>1, <3>1
      <3>3. \A e \in Pending("add")' : e.name = f => e.at \notin uids[f]
        BY <1>2, <1>3, <1>9, <3>2 DEF UidsFit
      <3> QED BY <1>1, <3>1, <3>3 DEF UidsFit
    <2> QED BY <1>1, <2>1, <2>2, <2>3, <2>4 DEF UidsFit
  <1>13. EventsFit'
    <2> SUFFICES ASSUME faults' = {}, NEW f \in Songs
                 PROVE  Leads(EventsOf(f)', rows'[f], uids'[f], content'[f])
      BY DEF EventsFit
    <2>1. faults = {} /\ Loss(arr) = {} /\ Loss(dep) = {} /\ arr.name \notin dir
      BY DEF Happens, Blame
    <2>2. Leads(EventsOf(f), rows[f], uids[f], content[f])
      BY <2>1 DEF EventsFit
    <2>3. \A e \in EventsOf(f) : e.at \in Nat \ {0} /\ e.at < changes + 1
      BY <1>1, <1>2, PendingFacts DEF EventsOf
    <2>4. content'[f] = IF f = arr.name THEN changes + 1 ELSE IF f = dep.name THEN 0 ELSE content[f]
      BY <1>1 DEF Happens
    <2>5. Pending("add")' = Pending("add") \cup (IF arr = None THEN {} ELSE {arr})
      BY <1>1, <1>2, <1>8, <2>1 DEF Pending
    <2>6. Pending("del")' = Pending("del") \cup (IF dep = None THEN {} ELSE {dep})
      BY <1>1, <1>2, <1>8, <2>1 DEF Pending
    <2>7. CASE f = arr.name
      <3>1. arr # None /\ dep.name # f
        BY <1>4, <2>7 DEF Happens
      <3>2. EventsOf(f)' = EventsOf(f) \cup {arr}
        BY <2>5, <2>6, <2>7, <3>1 DEF EventsOf
      <3>3. content[f] = 0
        BY <2>1, <2>7 DEF UidsFit
      <3>4. Leads(EventsOf(f) \cup {arr}, rows[f], uids[f], arr.at)
        <4>1. Leads(EventsOf(f), rows[f], uids[f], 0)
          BY <2>2, <3>3
        <4>2. /\ Arrives(arr) /\ arr.at \in Nat
              /\ \A o \in EventsOf(f) : o.at \in Nat \ {0} /\ o.at < arr.at
          BY <1>1, <1>3, <2>3, <3>1
        <4> QED BY <4>1, <4>2, LeadsArrival
      <3> QED BY <1>1, <1>3, <2>4, <2>7, <3>1, <3>2, <3>4
    <2>8. CASE f = dep.name
      <3>1. dep # None /\ arr.name # f
        BY <1>4, <2>8 DEF Happens
      <3>2. EventsOf(f)' = EventsOf(f) \cup {dep}
        BY <2>5, <2>6, <2>8, <3>1 DEF EventsOf
      <3>3. content[f] # 0
        BY <2>8, <3>1 DEF UidsFit, Happens
      <3>4. Leads(EventsOf(f) \cup {dep}, rows[f], uids[f], 0)
        BY <1>1, <1>3, <2>2, <2>3, <3>1, <3>3, LeadsDeparture
      <3> QED BY <1>1, <2>4, <2>8, <3>1, <3>2, <3>4
    <2>9. CASE f # arr.name /\ f # dep.name
      <3>1. EventsOf(f)' = EventsOf(f)
        BY <2>5, <2>6, <2>9 DEF EventsOf
      <3> QED BY <1>1, <2>2, <2>4, <2>9, <3>1
    <2> QED BY <2>7, <2>8, <2>9
  <1>14. FilesDiffer'
    <2>1. \A f \in Songs : content[f] \in Nat /\ content[f] < changes + 1
      BY <1>1, WatchAssumption DEF FilesDiffer, UidsFit
    <2>2. \A f \in Songs : content'[f] = IF f = arr.name THEN changes + 1
                                          ELSE IF f = dep.name THEN 0 ELSE content[f]
      BY <1>1 DEF Happens
    <2> QED BY <1>1, <2>1, <2>2 DEF FilesDiffer
  <1>15. RequestFits'
    <2>1. request' = [request EXCEPT !.doubt = @ \/ request.name \in {arr.name, dep.name} \cap Songs]
      BY DEF Happens, Disturb
    <2>2. CASE Idle
      <3>1. request' = request
        <4>1. PICK b \in BOOLEAN : request = [uid |-> 0, name |-> Journal, doubt |-> b]
          BY <2>2 DEF Idle, NoRequest, NotFound, Request
        <4>2. request' = [request EXCEPT !.doubt = b]
          BY <1>4, <2>1, <4>1
        <4> QED BY <4>1, <4>2
      <3> QED BY <2>2, <3>1 DEF RequestFits, Idle
    <2>3. CASE ~Idle
      <3>0. request \in [uid : Changes, name : Songs, doubt : BOOLEAN]
        BY <2>3 DEF RequestFits
      <3>1. /\ request' \in [uid : Changes, name : Songs, doubt : BOOLEAN]
            /\ request'.uid = request.uid /\ request'.name = request.name
            /\ request'.doubt = (request.doubt \/ request.name \in {arr.name, dep.name} \cap Songs)
        BY <2>1, <3>0
      <3>2. ASSUME ~request'.doubt PROVE content'[request'.name] = request'.uid
        <4>1. ~request.doubt /\ request.name # arr.name /\ request.name # dep.name /\ request.name \in Songs
          BY <3>0, <3>1, <3>2
        <4>2. content'[request.name] = content[request.name]
          BY <4>1 DEF Happens
        <4> QED BY <2>3, <3>1, <4>1, <4>2 DEF RequestFits
      <3> QED BY <3>1, <3>2 DEF RequestFits
    <2> QED BY <2>2, <2>3
  <1> QED BY <1>10, <1>11, <1>12, <1>13, <1>14, <1>15

-----------------------------------------------------------------------------
(* The watcher.                                                            *)

\* Nothing that waits changes.
LEMMA QuietKeeps ==
  ASSUME IInv, StartStep, UNCHANGED serviceVars
  PROVE  IInv'
  <1>1. /\ UNCHANGED <<dir, queue, buf, rows, changes, stops, faults, content, whole, uids, request>>
        /\ stage' \in {"halfWatched", "watched", "up"}
    BY DEF StartStep, WatchDepartures, WatchArrivals, RunService, serviceVars
  <1>2. /\ \A s \in Sides : Pending(s)' = Pending(s)
        /\ Pending("add")' = Pending("add") /\ \A f : EventsOf(f)' = EventsOf(f)
    BY <1>1 DEF Pending, EventsOf
  <1> QED BY <1>1, <1>2 DEF IInv, TypeOK, OrderFits, UidsFit, EventsFit, RequestFits,
                        FilesDiffer, Idle

\* What is read waits in m_buf instead of the queue, in the same order.
LEMMA ReadKeeps ==
  ASSUME IInv, NEW s \in Sides, ReadEvents(s), UNCHANGED serviceVars
  PROVE  IInv'
  <1> DEFINE n == IF Len(queue[s]) < BufMax THEN Len(queue[s]) ELSE BufMax
  <1> USE DEF IInv
  <1>1. /\ buf[s] = <<>> /\ buf' = [buf EXCEPT ![s] = SubSeq(queue[s], 1, n)]
        /\ queue' = [queue EXCEPT ![s] = SubSeq(queue[s], n + 1, Len(queue[s]))]
        /\ UNCHANGED <<dir, stage, rows, changes, stops, faults, content, whole, uids, request>>
    BY DEF ReadEvents, serviceVars
  <1>2. queue \in [Sides -> Seq(EventSet)] /\ buf \in [Sides -> Seq(EventSet)]
    BY DEF TypeOK
  <1>3. n \in 0..Len(queue[s]) /\ n <= BufMax /\ Len(queue[s]) \in Nat
    BY <1>2, WatchAssumption
  <1> HIDE DEF n
  <1>4. /\ buf'[s] \in Seq(EventSet) /\ Len(buf'[s]) = n
        /\ queue'[s] \in Seq(EventSet) /\ Len(queue'[s]) = Len(queue[s]) - n
        /\ ToSet(buf'[s]) \cup ToSet(queue'[s]) = ToSet(queue[s])
        /\ InOrder(buf'[s]) /\ InOrder(queue'[s]) /\ Precede(buf'[s], queue'[s])
    <2>1. queue[s] \in Seq(EventSet) /\ InOrder(queue[s])
      BY <1>2 DEF OrderFits
    <2>2. buf'[s] = SubSeq(queue[s], 1, n) /\ queue'[s] = SubSeq(queue[s], n + 1, Len(queue[s]))
      BY <1>1, <1>2
    <2>3. n \in 0..Len(queue[s])
      BY <1>3
    <2> DEFINE a == SubSeq(queue[s], 1, n)
               b == SubSeq(queue[s], n + 1, Len(queue[s]))
    <2>4. /\ a \in Seq(EventSet) /\ Len(a) = n /\ b \in Seq(EventSet) /\ Len(b) = Len(queue[s]) - n
          /\ ToSet(a) \cup ToSet(b) = ToSet(queue[s])
          /\ InOrder(a) /\ InOrder(b) /\ Precede(a, b)
      BY <2>1, <2>3, SplitOrder
    <2>5. buf'[s] = a /\ queue'[s] = b
      BY <2>2
    <2> HIDE DEF a, b
    <2> QED BY <2>4, <2>5
  <1>5. \A z \in Sides : z # s => buf'[z] = buf[z] /\ queue'[z] = queue[z]
    BY <1>1, <1>2
  <1>6. ToSet(buf[s]) = {}
    BY <1>1, <1>2, SetOf, EmptySeq
  <1>7. \A z \in Sides : Pending(z)' = Pending(z)
    BY <1>4, <1>5, <1>6 DEF Pending
  <1>8. Pending("add")' = Pending("add") /\ \A f : EventsOf(f)' = EventsOf(f)
    BY <1>7 DEF EventsOf, Sides
  <1>9. TypeOK'
    <2>1. buf' \in [Sides -> Seq(EventSet)] /\ queue' \in [Sides -> Seq(EventSet)]
      BY <1>1, <1>2, <1>4
    <2>2. ASSUME NEW z \in Sides
          PROVE  /\ Len(queue'[z]) <= QueueMax /\ Len(buf'[z]) <= BufMax
                 /\ \A e \in ToSet(queue'[z]) \cup ToSet(buf'[z]) : SideOf(e.kind) = z
      <3>1. \A e \in ToSet(queue'[z]) \cup ToSet(buf'[z]) : SideOf(e.kind) = z
        BY <1>7 DEF Pending, TypeOK
      <3>2. Len(queue[z]) <= QueueMax /\ Len(buf[z]) <= BufMax
        BY DEF TypeOK
      <3>3. CASE z = s
        BY <1>3, <1>4, <3>1, <3>2, <3>3, WatchAssumption
      <3>4. CASE z # s
        BY <1>5, <3>1, <3>2, <3>4
      <3> QED BY <3>3, <3>4
    <2> QED BY <1>1, <2>1, <2>2 DEF TypeOK
  <1>10. OrderFits'
    <2> SUFFICES ASSUME NEW z \in Sides
                 PROVE  /\ InOrder(buf'[z]) /\ InOrder(queue'[z]) /\ Precede(buf'[z], queue'[z])
                        /\ \A e \in Pending(z)' :
                             SideOf(e.kind) = z /\ (e.name \in Songs => e.at \in 1..changes')
      BY DEF OrderFits
    <2>1. InOrder(buf'[z]) /\ InOrder(queue'[z]) /\ Precede(buf'[z], queue'[z])
      BY <1>4, <1>5 DEF OrderFits
    <2> QED BY <1>1, <1>7, <2>1 DEF OrderFits
  <1> QED BY <1>1, <1>8, <1>9, <1>10 DEF UidsFit, EventsFit, FilesDiffer, RequestFits, Idle

\* The first event of a buffer is handled, whatever comes of it; the statement
\* may bring the journal's events.
LEMMA CallbackFacts ==
  ASSUME IInv, NEW s \in Sides, buf[s] # <<>>, buf' = [buf EXCEPT ![s] = Tail(@)],
         JournalOnly, UNCHANGED changes
  PROVE  /\ queue' \in [Sides -> Seq(EventSet)] /\ buf' \in [Sides -> Seq(EventSet)]
         /\ \A z \in Sides :
              /\ Len(queue'[z]) <= QueueMax /\ Len(buf'[z]) <= BufMax
              /\ \A e \in ToSet(queue'[z]) \cup ToSet(buf'[z]) : SideOf(e.kind) = z
              /\ \A e \in Pending(z)' : e \in Pending(z) \/ e.name = Journal
              /\ \A e \in Pending(z) : e \in Pending(z)' \/ (z = s /\ e = Head(buf[s]))
         /\ \A e \in Pending(s)' :
              e.name = Head(buf[s]).name /\ e.name \in Songs => Head(buf[s]).at < e.at
         /\ Head(buf[s]) \in Pending(s)
         /\ OrderFits'
  <1> USE DEF IInv
  <1>1. queue \in [Sides -> Seq(EventSet)] /\ buf \in [Sides -> Seq(EventSet)] /\ Journal \notin Songs
    BY WatchAssumption DEF TypeOK
  <1>2. /\ ToSet(buf[s]) = ToSet(Tail(buf[s])) \cup {Head(buf[s])}
        /\ Tail(buf[s]) \in Seq(EventSet) /\ InOrder(Tail(buf[s]))
        /\ \A e \in ToSet(Tail(buf[s])) :
             e.name = Head(buf[s]).name /\ e.name \in Songs => Head(buf[s]).at < e.at
    <2>1. buf[s] \in Seq(EventSet) /\ InOrder(buf[s])
      BY <1>1 DEF OrderFits
    <2> QED BY <2>1, TailOrder
  <1>3. /\ buf'[s] = Tail(buf[s]) /\ \A z \in Sides : z # s => buf'[z] = buf[z]
        /\ buf' \in [Sides -> Seq(EventSet)] /\ Len(Tail(buf[s])) <= Len(buf[s])
    <2>1. Len(Tail(buf[s])) = Len(buf[s]) - 1 /\ Len(buf[s]) \in Nat
      BY <1>1, HeadTailProperties, LenProperties
    <2> QED BY <1>1, <1>2, <2>1
  <1>4. /\ queue' \in [Sides -> Seq(EventSet)]
        /\ \A z \in Sides :
             /\ Len(queue'[z]) <= QueueMax /\ InOrder(queue'[z])
             /\ \/ queue'[z] = queue[z]
                \/ \E e : /\ e.name = Journal /\ SideOf(e.kind) = z
                         /\ ToSet(queue'[z]) = ToSet(queue[z]) \cup {e}
    <2>1. CASE UNCHANGED queue
      BY <1>1, <2>1 DEF TypeOK, OrderFits
    <2>2. CASE \E news \in {JournalNews, Events(None, None)} : Emit(news)
      <3>0. PICK ev \in {JournalNews, Events(None, None)} : Emit(ev)
        BY <2>2
      <3>1. \A z \in Sides :
              ev[z] = None
              \/ (ev[z] \in EventSet /\ SideOf(ev[z].kind) = z /\ ev[z].name = Journal)
        <4>1. /\ Event("create", Journal, 0) \in EventSet /\ Event("delete", Journal, 0) \in EventSet
              /\ SideOf(Event("create", Journal, 0).kind) = "add"
              /\ SideOf(Event("delete", Journal, 0).kind) = "del"
              /\ Event("create", Journal, 0).name = Journal /\ Event("delete", Journal, 0).name = Journal
          BY WatchAssumption DEF Event, EventSet, Kinds, Names, SideOf
        <4>2. ev = Events(None, None)
              \/ ev = Events(Event("create", Journal, 0), Event("delete", Journal, 0))
          BY DEF JournalNews
        <4> QED BY <4>1, <4>2 DEF Events, Sides
      <3>2. Emit(ev) /\ \A z \in Sides : ev[z] = None \/ (ev[z] \in EventSet /\ SideOf(ev[z].kind) = z)
        BY <3>0, <3>1
      <3>3. /\ queue' \in [Sides -> Seq(EventSet)]
            /\ \A z \in Sides : /\ Len(queue'[z]) <= QueueMax
                                /\ \/ queue'[z] = queue[z]
                                   \/ ev[z] # None /\ queue'[z] = Append(queue[z], ev[z])
        BY <3>2, EmitFacts
      <3>4. \A z \in Sides : ev[z] # None =>
              ev[z] \in EventSet /\ SideOf(ev[z].kind) = z /\ ev[z].name = Journal
        BY <3>1
      <3>5. ASSUME NEW z \in Sides, ev[z] # None, queue'[z] = Append(queue[z], ev[z])
            PROVE  InOrder(queue'[z]) /\ ToSet(queue'[z]) = ToSet(queue[z]) \cup {ev[z]}
        <4>1. queue[z] \in Seq(EventSet) /\ InOrder(queue[z]) /\ ev[z] \in EventSet /\ ev[z].name \notin Songs
          BY <1>1, <3>4, <3>5 DEF OrderFits
        <4> QED BY <3>5, <4>1, AppendOrder
      <3>6. \A z \in Sides : queue'[z] = queue[z] => InOrder(queue'[z])
        BY DEF OrderFits
      <3> QED BY <3>3, <3>4, <3>5, <3>6
    <2> QED BY <2>1, <2>2 DEF JournalOnly
  <1>5. ASSUME NEW z \in Sides
        PROVE  /\ \A e \in Pending(z)' : (e \in Pending(z) \/ e.name = Journal) /\ SideOf(e.kind) = z
               /\ \A e \in Pending(z) : e \in Pending(z)' \/ (z = s /\ e = Head(buf[s]))
               /\ \A e \in ToSet(queue'[z]) : e \in ToSet(queue[z]) \/ e.name = Journal
               /\ ToSet(buf'[z]) \subseteq ToSet(buf[z])
    <2>1. ToSet(buf'[z]) \subseteq ToSet(buf[z])
          /\ \A e \in ToSet(buf[z]) : e \in ToSet(buf'[z]) \/ (z = s /\ e = Head(buf[s]))
      BY <1>2, <1>3
    <2>2. /\ ToSet(queue[z]) \subseteq ToSet(queue'[z])
          /\ \A e \in ToSet(queue'[z]) : e \in ToSet(queue[z]) \/ (e.name = Journal /\ SideOf(e.kind) = z)
      BY <1>4
    <2>3. \A e \in Pending(z) : SideOf(e.kind) = z
      BY DEF OrderFits
    <2> QED BY <2>1, <2>2, <2>3 DEF Pending
  <1>6. Head(buf[s]) \in ToSet(buf[s]) /\ Head(buf[s]) \in Pending(s)
    BY <1>2 DEF Pending
  <1>7. \A e \in Pending(s)' : e.name = Head(buf[s]).name /\ e.name \in Songs => Head(buf[s]).at < e.at
    <2>1. Precede(buf[s], queue[s])
      BY DEF OrderFits
    <2>2. \A e \in ToSet(queue[s]) : e.name = Head(buf[s]).name /\ e.name \in Songs => Head(buf[s]).at < e.at
      BY <1>6, <2>1 DEF Precede
    <2> QED BY <1>1, <1>2, <1>3, <1>5, <2>2 DEF Pending
  <1>8. OrderFits'
    <2> SUFFICES ASSUME NEW z \in Sides
                 PROVE  /\ InOrder(buf'[z]) /\ InOrder(queue'[z]) /\ Precede(buf'[z], queue'[z])
                        /\ \A e \in Pending(z)' :
                             SideOf(e.kind) = z /\ (e.name \in Songs => e.at \in 1..changes')
      BY DEF OrderFits
    <2>1. InOrder(buf'[z])
      BY <1>2, <1>3 DEF OrderFits
    <2>2. Precede(buf'[z], queue'[z])
      <3>1. Precede(buf[z], queue[z])
        BY DEF OrderFits
      <3> QED BY <1>1, <1>5, <3>1 DEF Precede
    <2>3. \A e \in Pending(z)' : e.name \in Songs => e.at \in 1..changes'
      BY <1>1, <1>5 DEF OrderFits
    <2> QED BY <1>4, <1>5, <2>1, <2>2, <2>3
  <1>9. \A z \in Sides : Len(buf'[z]) <= BufMax
    <2>1. \A z \in Sides : Len(buf[z]) <= BufMax /\ Len(buf[z]) \in Nat
      BY <1>1 DEF TypeOK
    <2>2. Len(Tail(buf[s])) \in Nat
      BY <1>2, LenProperties
    <2> QED BY <1>3, <2>1, <2>2, WatchAssumption
  <1> QED BY <1>3, <1>4, <1>5, <1>6, <1>7, <1>8, <1>9 DEF Pending

\* An event of the journal is dropped; of an event whose statement fails only
\* the fault remains.
LEMMA DropKeeps ==
  ASSUME IInv, NEW s \in Sides, IgnoreEvent(s) \/ FailEvent(s), UNCHANGED serviceVars
  PROVE  IInv'
  <1> USE DEF IInv
  <1>1. /\ buf[s] # <<>> /\ buf' = [buf EXCEPT ![s] = Tail(@)]
        /\ UNCHANGED <<dir, stage, rows, changes, stops, content, whole, uids, request>>
        /\ JournalOnly
    BY DEF IgnoreEvent, FailEvent, Callback, serviceVars, JournalOnly
  <1>2. /\ queue' \in [Sides -> Seq(EventSet)] /\ buf' \in [Sides -> Seq(EventSet)]
        /\ \A z \in Sides :
             /\ Len(queue'[z]) <= QueueMax /\ Len(buf'[z]) <= BufMax
             /\ \A e \in ToSet(queue'[z]) \cup ToSet(buf'[z]) : SideOf(e.kind) = z
             /\ \A e \in Pending(z)' : e \in Pending(z) \/ e.name = Journal
             /\ \A e \in Pending(z) : e \in Pending(z)' \/ (z = s /\ e = Head(buf[s]))
        /\ OrderFits'
    BY <1>1, CallbackFacts
  <1>3. Journal \notin Songs /\ "add" \in Sides /\ "del" \in Sides
    BY WatchAssumption DEF Sides
  <1>4. faults' \subseteq {"unwatched", "merged", "overflow", "replaced", "overtaken", "failed", "forgotten"}
    BY DEF IgnoreEvent, FailEvent, TypeOK, Blame
  <1>5. TypeOK'
    BY <1>1, <1>2, <1>4 DEF TypeOK
  <1>6. UidsFit'
    <2>1. \A f \in Songs : \A e \in Pending("add")' : e.name = f => e.at \notin uids[f]
      BY <1>2, <1>3 DEF UidsFit
    <2> QED BY <1>1, <2>1 DEF UidsFit
  <1>7. EventsFit'
    <2> SUFFICES ASSUME faults' = {}, NEW f \in Songs
                 PROVE  Leads(EventsOf(f)', rows'[f], uids'[f], content'[f])
      BY DEF EventsFit
    <2>1. faults = {} /\ Head(buf[s]).name = Journal
      BY DEF IgnoreEvent, FailEvent, Callback, Ignored, Blame
    <2>2. EventsOf(f)' = EventsOf(f)
      BY <1>2, <1>3, <2>1 DEF EventsOf
    <2> QED BY <1>1, <2>1, <2>2 DEF EventsFit
  <1> QED BY <1>1, <1>2, <1>5, <1>6, <1>7 DEF RequestFits, Idle, FilesDiffer

\* An event that is applied was the oldest of its file, or has overtaken one.
LEMMA ApplyKeeps == ASSUME IInv, NEW s \in Sides, Apply(s) PROVE IInv'
  <1> DEFINE e == Head(buf[s])
             f == e.name
  <1> USE DEF IInv
  <1>1. /\ buf[s] # <<>> /\ buf' = [buf EXCEPT ![s] = Tail(@)] /\ JournalOnly /\ f # Journal
        /\ rows' = RowsAfter(s, f) /\ uids' = UidsAfter(s, e)
        /\ faults' = IF faults # {} THEN faults
                     ELSE IF Overtakes(s, e) THEN {"overtaken"} ELSE {}
        /\ UNCHANGED <<dir, stage, changes, stops, content, whole, request>>
    BY DEF Apply, ApplyEvent, Callback, Ignored, Blame, JournalOnly, JournalEvents
  <1>2. /\ queue' \in [Sides -> Seq(EventSet)] /\ buf' \in [Sides -> Seq(EventSet)]
        /\ \A z \in Sides :
             /\ Len(queue'[z]) <= QueueMax /\ Len(buf'[z]) <= BufMax
             /\ \A o \in ToSet(queue'[z]) \cup ToSet(buf'[z]) : SideOf(o.kind) = z
             /\ \A o \in Pending(z)' : o \in Pending(z) \/ o.name = Journal
             /\ \A o \in Pending(z) : o \in Pending(z)' \/ (z = s /\ o = e)
        /\ \A o \in Pending(s)' : o.name = f /\ o.name \in Songs => e.at < o.at
        /\ e \in Pending(s)
        /\ OrderFits'
    BY <1>1, CallbackFacts
  <1>3. Journal \notin Songs /\ "add" \in Sides /\ "del" \in Sides
    BY WatchAssumption DEF Sides
  <1>4. e \in EventSet /\ SideOf(e.kind) = s /\ f \in Songs /\ e.at \in 1..changes
    BY <1>1, <1>2, PendingFacts DEF Names
  <1> HIDE DEF e
  <1>5. /\ rows' = [rows EXCEPT ![f] = IF s = "add" THEN (IF rows[f] = 0 THEN 1 ELSE 2) ELSE 0]
        /\ uids' = [uids EXCEPT ![f] = IF s = "add" THEN uids[f] \cup {e.at} ELSE {}]
        /\ f \in Names /\ rows \in [Names -> 0..2] /\ uids \in [Songs -> SUBSET Changes]
        /\ changes \in 0..MaxChanges
    BY <1>1, <1>4 DEF RowsAfter, UidsAfter, Names, TypeOK, UidsFit
  <1>6. TypeOK'
    <2>1. rows' \in [Names -> 0..2]
      BY <1>5
    <2>2. faults' \subseteq {"unwatched", "merged", "overflow", "replaced", "overtaken", "failed", "forgotten"}
      BY <1>1 DEF TypeOK
    <2> QED BY <1>1, <1>2, <2>1, <2>2 DEF TypeOK
  <1>7. UidsFit'
    <2>1. uids' \in [Songs -> SUBSET Changes]
      <3>1. e.at \in Changes
        BY <1>4, <1>5, WatchAssumption DEF Changes
      <3> QED BY <1>4, <1>5, <3>1
    <2>2. ASSUME NEW g \in Songs
          PROVE  /\ rows'[g] = Cardinality(uids'[g]) \/ (rows'[g] = 2 /\ Cardinality(uids'[g]) > 2)
                 /\ \A u \in uids'[g] : u <= changes'
                 /\ \A o \in Pending("add")' : o.name = g => o.at \notin uids'[g]
      <3>1. /\ rows[g] = Cardinality(uids[g]) \/ (rows[g] = 2 /\ Cardinality(uids[g]) > 2)
            /\ \A u \in uids[g] : u <= changes
            /\ \A o \in Pending("add") : o.name = g => o.at \notin uids[g]
        BY DEF UidsFit
      <3>2. \A o \in Pending("add")' : o.name = g => o \in Pending("add")
        BY <1>2, <1>3
      <3>3. CASE g # f
        <4>1. rows'[g] = rows[g] /\ uids'[g] = uids[g]
          BY <1>5, <3>3 DEF Names
        <4> QED BY <1>1, <3>1, <3>2, <4>1
      <3>4. CASE g = f /\ s = "add"
        <4>1. uids'[g] = uids[g] \cup {e.at} /\ rows'[g] = IF rows[g] = 0 THEN 1 ELSE 2
          BY <1>5, <3>4
        <4>2. e.at \notin uids[g]
          BY <1>2, <3>1, <3>4
        <4>3. IsFiniteSet(uids[g])
          <5>1. IsFiniteSet(1..MaxChanges)
            BY FS_Interval, WatchAssumption
          <5> QED BY <1>5, <5>1, FS_Subset DEF Changes
        <4>4. Cardinality(uids'[g]) = Cardinality(uids[g]) + 1 /\ Cardinality(uids[g]) \in Nat
          BY <4>1, <4>2, <4>3, FS_AddElement, FS_CardinalityType
        <4>5. rows'[g] = Cardinality(uids'[g]) \/ (rows'[g] = 2 /\ Cardinality(uids'[g]) > 2)
          BY <3>1, <4>1, <4>4
        <4>6. \A u \in uids'[g] : u <= changes'
          BY <1>1, <1>4, <3>1, <4>1
        <4>7. \A o \in Pending("add")' : o.name = g => o.at \notin uids'[g]
          <5> SUFFICES ASSUME NEW o \in Pending("add")', o.name = g PROVE o.at \notin uids'[g]
            OBVIOUS
          <5>1. o \in Pending("add") /\ o.at \notin uids[g]
            BY <3>1, <3>2
          <5>2. e.at < o.at /\ o.at \in Nat
            BY <1>2, <1>3, <3>4, <5>1, PendingFacts
          <5> QED BY <1>4, <4>1, <5>1, <5>2
        <4> QED BY <4>5, <4>6, <4>7
      <3>5. CASE g = f /\ s # "add"
        <4>1. uids'[g] = {} /\ rows'[g] = 0
          BY <1>5, <3>5
        <4> QED BY <4>1, FS_EmptySet
      <3> QED BY <3>3, <3>4, <3>5
    <2> QED BY <1>1, <2>1, <2>2 DEF UidsFit
  <1>8. EventsFit'
    <2> SUFFICES ASSUME faults' = {}, NEW g \in Songs
                 PROVE  Leads(EventsOf(g)', rows'[g], uids'[g], content'[g])
      BY DEF EventsFit
    <2>1. faults = {} /\ ~Overtakes(s, e)
      BY <1>1
    <2>2. Leads(EventsOf(g), rows[g], uids[g], content[g])
      BY <2>1 DEF EventsFit
    <2>3. CASE g # f
      <3>1. EventsOf(g)' = EventsOf(g)
        BY <1>2, <1>3, <2>3 DEF EventsOf
      <3>2. rows'[g] = rows[g] /\ uids'[g] = uids[g]
        BY <1>5, <2>3 DEF Names
      <3> QED BY <1>1, <2>2, <3>1, <3>2
    <2>4. CASE g = f
      <3>1. e \in EventsOf(g)
        BY <1>2, <2>4 DEF EventsOf, Sides
      <3>2. \A z \in Sides : z # s => z = Other(s) /\ e \notin Pending(z)' /\ e \notin Pending(z)
        <4>1. \A z \in Sides : \A o \in Pending(z)' : SideOf(o.kind) = z
          BY <1>2 DEF Pending
        <4>2. \A z \in Sides : \A o \in Pending(z) : SideOf(o.kind) = z
          BY DEF OrderFits
        <4> QED BY <1>4, <4>1, <4>2 DEF Sides, Other
      <3>3. e \notin Pending(s)'
        <4>1. e.at \in Nat
          BY <1>4, <1>5
        <4> QED BY <1>2, <1>4, <4>1
      <3>4. EventsOf(g)' = EventsOf(g) \ {e}
        BY <1>2, <1>3, <3>2, <3>3 DEF EventsOf, Sides
      <3>5. \A o \in EventsOf(g) : o.at \in Nat /\ e.at <= o.at
        <4> SUFFICES ASSUME NEW z \in Sides, NEW o \in Pending(z), o.name = g
                     PROVE  o.at \in Nat /\ e.at <= o.at
          BY DEF EventsOf, Sides
        <4>1. o.at \in Nat /\ e.at \in Nat
          BY <1>4, <1>5, PendingFacts
        <4>2. CASE z = s
          <5>1. o \in Pending(s)' \/ o = e
            BY <1>2, <4>2
          <5>2. o.name = f /\ o.name \in Songs
            BY <2>4
          <5>3. e.at < o.at \/ o = e
            BY <1>2, <5>1, <5>2
          <5> QED BY <4>1, <5>3
        <4>3. CASE z # s
          BY <2>1, <2>4, <3>2, <4>1, <4>3 DEF Overtakes
        <4> QED BY <4>1, <4>2, <4>3
      <3>6. CASE s = "add"
        <4>1. Arrives(e) /\ e.at # 0
          BY <1>4, <3>6 DEF Arrives
        <4>2. rows[g] = 0 /\ uids[g] = {} /\ Leads(EventsOf(g) \ {e}, 1, {e.at}, content[g])
          BY <2>2, <3>1, <3>5, <4>1, LeadsInsert
        <4>3. rows'[g] = 1 /\ uids'[g] = {e.at}
          BY <1>5, <2>4, <3>6, <4>2
        <4> QED BY <1>1, <3>4, <4>2, <4>3
      <3>7. CASE s # "add"
        <4>1. ~Arrives(e)
          BY <1>4, <3>7 DEF Arrives
        <4>2. Leads(EventsOf(g) \ {e}, 0, {}, content[g])
          BY <2>2, <3>1, <3>5, <4>1, LeadsDelete
        <4>3. rows'[g] = 0 /\ uids'[g] = {}
          BY <1>5, <2>4, <3>7
        <4> QED BY <1>1, <3>4, <4>2, <4>3
      <3> QED BY <3>6, <3>7
    <2> QED BY <2>3, <2>4
  <1> QED BY <1>1, <1>2, <1>6, <1>7, <1>8 DEF RequestFits, Idle, FilesDiffer

\* A stop forgets what waits; if it was about a song that is a fault.
LEMMA StopKeeps == ASSUME IInv, Stop, UNCHANGED serviceVars PROVE IInv'
  <1> USE DEF IInv
  <1>1. /\ queue' = [z \in Sides |-> <<>>] /\ buf' = [z \in Sides |-> <<>>]
        /\ stage' = "down" /\ stops < MaxStops /\ stops' = stops + 1
        /\ Blame(IF \E z \in Sides : \E e \in Pending(z) : e.name \in Songs THEN {"forgotten"} ELSE {})
        /\ UNCHANGED <<dir, rows, changes, content, whole, uids, request>>
    BY DEF Stop, serviceVars
  <1>2. <<>> \in Seq(EventSet) /\ Len(<<>>) = 0 /\ ToSet(<<>>) = {}
    BY NothingIn
  <1>3. \A z \in Sides : Pending(z)' = {} /\ InOrder(queue'[z]) /\ InOrder(buf'[z])
                        /\ Precede(buf'[z], queue'[z])
    BY <1>1, <1>2 DEF Pending, InOrder, Precede
  <1>4. TypeOK'
    <2>1. stops' \in 0..MaxStops
      BY <1>1, WatchAssumption DEF TypeOK
    <2> QED BY <1>1, <1>2, <2>1, WatchAssumption DEF TypeOK, Blame
  <1>5. OrderFits' /\ UidsFit' /\ RequestFits' /\ FilesDiffer'
    BY <1>1, <1>3 DEF OrderFits, UidsFit, RequestFits, Sides, Idle, FilesDiffer
  <1>6. EventsFit'
    <2> SUFFICES ASSUME faults' = {}, NEW f \in Songs
                 PROVE  Leads(EventsOf(f)', rows'[f], uids'[f], content'[f])
      BY DEF EventsFit
    <2>1. faults = {} /\ \A z \in Sides : \A e \in Pending(z) : e.name \notin Songs
      BY <1>1 DEF Blame
    <2>2. EventsOf(f) = {} /\ EventsOf(f)' = {}
      BY <1>3, <2>1 DEF EventsOf, Sides
    <2> QED BY <1>1, <2>1, <2>2 DEF EventsFit
  <1> QED BY <1>4, <1>5, <1>6

-----------------------------------------------------------------------------
(* The server, and together.                                               *)

LEMMA ServerKeeps ==
  ASSUME IInv, ServerStep \/ \E f \in Songs : FinishWriting(f)
  PROVE  IInv'
  <1> USE DEF IInv
  <1>1. /\ UNCHANGED <<dir, queue, buf, stage, rows, changes, stops, faults, content, uids>>
        /\ whole' \subseteq dir
    BY DEF ServerStep, LookUp, NotListed, LookUpFails, ServeSong, ServeNotFound, OpenFails,
           FinishWriting, vars, UidsFit
  <1>2. /\ \A s \in Sides : Pending(s)' = Pending(s)
        /\ Pending("add")' = Pending("add") /\ \A f : EventsOf(f)' = EventsOf(f)
    BY <1>1 DEF Pending, EventsOf
  <1>3. RequestFits'
    <2>1. ASSUME NEW u \in Changes, LookUp(u) PROVE RequestFits'
      <3>1. PICK f \in Songs :
              u \in uids[f] /\ request' = [uid |-> u, name |-> f, doubt |-> Doubtful(f)]
        BY <2>1 DEF LookUp, Request
      <3>2. Doubtful(f) \in BOOLEAN
        BY DEF Doubtful
      <3>3. ASSUME ~Doubtful(f) PROVE content[f] = u
        <4>1. Leads({}, rows[f], uids[f], content[f])
          BY <3>3 DEF Doubtful, EventsFit
        <4> QED BY <3>1, <4>1 DEF Leads
      <3> QED BY <1>1, <3>1, <3>2, <3>3 DEF RequestFits
    <2>2. CASE request' \in {NoRequest, NotFound}
      BY <2>2 DEF Idle, RequestFits
    <2>3. ASSUME NEW f \in Songs, FinishWriting(f) PROVE RequestFits'
      BY <1>1, <2>3 DEF FinishWriting, RequestFits, Idle
    <2> QED BY <2>1, <2>2, <2>3 DEF ServerStep, NotListed, LookUpFails, ServeSong, ServeNotFound, OpenFails
  <1>4. TypeOK' /\ OrderFits' /\ UidsFit' /\ EventsFit' /\ FilesDiffer'
    BY <1>1, <1>2 DEF TypeOK, OrderFits, UidsFit, EventsFit, FilesDiffer
  <1> QED BY <1>3, <1>4

LEMMA InitInv == ServiceInit => IInv
  <1> SUFFICES ASSUME ServiceInit PROVE IInv
    OBVIOUS
  <1> USE WatchAssumption DEF ServiceInit, Init
  <1>1. <<>> \in Seq(EventSet) /\ Len(<<>>) = 0 /\ ToSet(<<>>) = {}
    BY NothingIn
  <1>2. \A s \in Sides : Pending(s) = {} /\ InOrder(queue[s]) /\ InOrder(buf[s])
                        /\ Precede(buf[s], queue[s])
    BY <1>1 DEF Pending, InOrder, Precede
  <1>3. TypeOK
    BY <1>1 DEF TypeOK
  <1>4. OrderFits
    BY <1>2 DEF OrderFits
  <1>5. UidsFit
    <2>1. \A f \in Songs : rows[f] = 0
      BY DEF Names
    <2>2. content \in [Songs -> 0..MaxChanges] /\ uids \in [Songs -> SUBSET Changes]
      OBVIOUS
    <2> QED BY <1>2, <2>1, <2>2, FS_EmptySet DEF UidsFit, Sides
  <1>6. EventsFit
    BY <1>2 DEF EventsFit, EventsOf, Leads, Sides, Names
  <1>7. RequestFits /\ FilesDiffer
    BY DEF RequestFits, Idle, FilesDiffer
  <1> QED BY <1>3, <1>4, <1>5, <1>6, <1>7 DEF IInv

LEMMA NextInv == ASSUME IInv, [ServiceNext]_svars PROVE IInv'
  <1>1. CASE UNCHANGED svars
    BY <1>1 DEF svars, vars, serviceVars, IInv, TypeOK, OrderFits, UidsFit, EventsFit, RequestFits,
                FilesDiffer, Idle, Pending, EventsOf
  <1>2. CASE SongStep
    <2>1. PICK f \in Songs :
            \/ CreateSong(f) \/ DeleteSong(f) \/ MoveSongIn(f) \/ \E g \in Songs : RenameSong(f, g)
            \/ FinishWriting(f)
      BY <1>2 DEF SongStep
    <2>2. CASE FinishWriting(f)
      BY <2>2, ServerKeeps
    <2>3. CASE CreateSong(f) \/ DeleteSong(f) \/ MoveSongIn(f) \/ \E g \in Songs : RenameSong(f, g)
      <3>1. PICK arr, dep : Happens(arr, dep)
        BY <2>3, SongStepHappens
      <3> QED BY <3>1, HappensKeeps
    <2> QED BY <2>1, <2>2, <2>3
  <1>3. CASE WatcherStep
    BY <1>3, ApplyKeeps, QuietKeeps, StopKeeps, ReadKeeps, DropKeeps DEF WatcherStep, OtherWatcherStep, LoopOnly
  <1>4. CASE ServerStep
    BY <1>4, ServerKeeps
  <1> QED BY <1>1, <1>2, <1>3, <1>4 DEF ServiceNext

\* The invariant of SongService: for every file the events that wait lead from
\* the table to the directory.
THEOREM Invariance == ServiceSpec => []IInv
  <1>1. IInv /\ [ServiceNext]_svars => IInv'
    BY NextInv
  <1> QED BY InitInv, <1>1, PTL DEF ServiceSpec

\* Types; the table's rows and their UIDs agree.
THEOREM TypeCorrect == ServiceSpec => []ServiceTypeOK
  <1>1. IInv => ServiceTypeOK
    BY DEF IInv, UidsFit, RequestFits, ServiceTypeOK
  <1> QED BY Invariance, <1>1, PTL

\* When the watcher has nothing left to do the table lists exactly the files
\* of the directory, unless one of the seven faults has happened.
THEOREM SettlesExactly == ServiceSpec => []SettledExact
  <1>1. IInv => SettledExact
    <2> SUFFICES ASSUME IInv, Settled, faults = {}, NEW f \in Songs PROVE rows[f] = RowsFor(f)
      BY DEF SettledExact
    <2>2. EventsOf(f) = {}
      BY NothingIn DEF EventsOf, Pending, Settled, Sides
    <2>3. Leads({}, rows[f], uids[f], content[f])
      BY <2>2 DEF IInv, EventsFit
    <2> QED BY <2>3 DEF Leads, IInv, UidsFit, RowsFor
  <1> QED BY Invariance, <1>1, PTL

\* A client never gets another song than the one its UID was made for, and
\* "not found" without a failed call only when that song is not there as a
\* whole, unless its request is in doubt.
THEOREM RightAnswers == ServiceSpec => AnswersFit
  <1> DEFINE A == /\ ServeSong /\ ~request.doubt => content[request.name] = request.uid
                  /\ ServeNotFound /\ ~request.doubt => \A f \in whole : content[f] # request.uid
                  /\ \A u \in Changes, f \in whole : NotListed(u) /\ content[f] = u => Doubtful(f)
  <1>1. ASSUME IInv, ServeSong, ~request.doubt PROVE content[request.name] = request.uid
    BY <1>1 DEF IInv, RequestFits, ServeSong
  <1>2. ASSUME IInv, ServeNotFound, ~request.doubt, NEW f \in whole PROVE content[f] # request.uid
    <2>1. /\ request.name \in Songs /\ request.name # f /\ request.uid # 0
          /\ content[request.name] = request.uid
      BY <1>2 DEF IInv, RequestFits, ServeNotFound, Changes
    <2>2. f \in Songs
      BY <1>2 DEF IInv, UidsFit, TypeOK
    <2> QED BY <1>2, <2>1, <2>2 DEF IInv, FilesDiffer
  <1>3. ASSUME IInv, NEW f \in whole, NotListed(content[f]), ~Doubtful(f) PROVE FALSE
    <2>1. f \in Songs /\ content[f] # 0 /\ content[f] \notin uids[f]
      BY <1>3 DEF IInv, UidsFit, TypeOK, NotListed
    <2>2. Leads({}, rows[f], uids[f], content[f])
      BY <1>3, <2>1 DEF IInv, EventsFit, Doubtful
    <2> QED BY <2>1, <2>2 DEF Leads
  <1>4. IInv => A
    BY <1>1, <1>2, <1>3
  <1> HIDE DEF A
  <1>5. IInv /\ [ServiceNext]_svars => [A]_svars
    BY <1>4
  <1>6. ServiceSpec => [][A]_svars
    BY Invariance, <1>5, PTL DEF ServiceSpec
  <1> QED BY <1>6 DEF A, AnswersFit

\* The service is the watcher with contents, UIDs and a server added: it does
\* to directory, queues and table what FileWatch describes, and nothing else.
THEOREM WatcherInside == ServiceSpec => Spec
  <1>1. ServiceInit => Init
    BY DEF ServiceInit
  <1>2. [ServiceNext]_svars => [Next]_vars
    <2> SUFFICES ASSUME [ServiceNext]_svars PROVE [Next]_vars
      OBVIOUS
    <2>1. CASE UNCHANGED svars
      BY <2>1 DEF svars
    <2>2. CASE SongStep
      BY <2>2 DEF SongStep, CreateSong, FinishWriting, DeleteSong, MoveSongIn, RenameSong,
                  Next, ChangeStep
    <2>3. CASE WatcherStep
      BY <2>3 DEF WatcherStep, Apply, OtherWatcherStep, LoopOnly, Next, LoopStep, HandleEvent
    <2>4. CASE ServerStep
      BY <2>4 DEF ServerStep, LookUp, NotListed, LookUpFails, ServeSong, ServeNotFound, OpenFails
    <2> QED BY <2>1, <2>2, <2>3, <2>4 DEF ServiceNext
  <1> QED BY <1>1, <1>2, PTL DEF ServiceSpec, Spec

-----------------------------------------------------------------------------
(* The loops wear down what waits.                                         *)

SongsPending == {e \in Pending("add") \cup Pending("del") : e.name \in Songs}
Queued == Len(queue["add"]) + Len(queue["del"])
Waiting == Queued + (Len(buf["add"]) + Len(buf["del"]))

\* Every step of a loop leaves less to do: fewer events of songs, though the
\* journal of the statement may bring two of its own; or the same ones and
\* fewer events in all; or the same events, more of them read.  Only finitely
\* many events wait, and neither the server nor the start of the watcher
\* touches them: until the directory changes again the loops take finitely
\* many steps.
WearsDown ==
  (\E s \in Sides : LoopStep(s)) =>
    \/ SongsPending' \subseteq SongsPending /\ SongsPending' # SongsPending
    \/ SongsPending' = SongsPending /\ Waiting' < Waiting
    \/ SongsPending' = SongsPending /\ Waiting' = Waiting /\ Queued' < Queued

LEMMA SidesTwo ==
  ASSUME NEW s \in Sides
  PROVE  /\ Other(s) \in Sides /\ Other(s) # s /\ \A z \in Sides : z = s \/ z = Other(s)
         /\ TypeOK => /\ Len(queue[s]) \in Nat /\ Len(buf[s]) \in Nat
                      /\ Len(queue[Other(s)]) \in Nat /\ Len(buf[Other(s)]) \in Nat
         /\ TypeOK => /\ Queued = Len(queue[s]) + Len(queue[Other(s)])
                      /\ Waiting = Queued + (Len(buf[s]) + Len(buf[Other(s)]))
         /\ TypeOK' => /\ Queued' = Len(queue'[s]) + Len(queue'[Other(s)])
                       /\ Waiting' = Queued' + (Len(buf'[s]) + Len(buf'[Other(s)]))
  <1>1. s = "add" \/ s = "del"
    BY DEF Sides
  <1>2. Other(s) \in Sides /\ Other(s) # s /\ \A z \in Sides : z = s \/ z = Other(s)
    BY <1>1 DEF Sides, Other
  <1>3. ASSUME TypeOK, NEW z \in Sides PROVE Len(queue[z]) \in Nat /\ Len(buf[z]) \in Nat
    <2>1. queue[z] \in Seq(EventSet) /\ buf[z] \in Seq(EventSet)
      BY <1>3 DEF TypeOK
    <2> QED BY <2>1, LenProperties
  <1>6. ASSUME TypeOK', NEW z \in Sides PROVE Len(queue'[z]) \in Nat /\ Len(buf'[z]) \in Nat
    <2>1. queue'[z] \in Seq(EventSet) /\ buf'[z] \in Seq(EventSet)
      BY <1>6 DEF TypeOK
    <2> QED BY <2>1, LenProperties
  <1>4. CASE s = "add"
    <2>1. Other(s) = "del"
      BY <1>4 DEF Other
    <2> QED BY <1>2, <1>3, <1>4, <1>6, <2>1 DEF Queued, Waiting
  <1>5. CASE s = "del"
    <2>1. Other(s) = "add" /\ "add" \in Sides /\ "del" \in Sides
      BY <1>5 DEF Other, Sides
    <2>2. TypeOK => /\ Len(queue["add"]) \in Nat /\ Len(buf["add"]) \in Nat
                    /\ Len(queue["del"]) \in Nat /\ Len(buf["del"]) \in Nat
      BY <1>3, <2>1
    <2>3. TypeOK' => /\ Len(queue'["add"]) \in Nat /\ Len(buf'["add"]) \in Nat
                     /\ Len(queue'["del"]) \in Nat /\ Len(buf'["del"]) \in Nat
      BY <1>6, <2>1
    <2>4. \A p, q \in Nat : p + q = q + p
      OBVIOUS
    <2>5. TypeOK => /\ Queued = Len(queue["del"]) + Len(queue["add"])
                    /\ Waiting = Queued + (Len(buf["del"]) + Len(buf["add"]))
      BY <2>2, <2>4 DEF Queued, Waiting
    <2>6. TypeOK' => /\ Queued' = Len(queue'["del"]) + Len(queue'["add"])
                     /\ Waiting' = Queued' + (Len(buf'["del"]) + Len(buf'["add"]))
      BY <2>3, <2>4 DEF Queued, Waiting
    <2> QED BY <1>2, <1>5, <2>1, <2>2, <2>5, <2>6
  <1> QED BY <1>1, <1>4, <1>5

\* read() moves events and loses none.
LEMMA ReadWears ==
  ASSUME IInv, TypeOK', NEW s \in Sides, ReadEvents(s)
  PROVE  SongsPending' = SongsPending /\ Waiting' = Waiting /\ Queued' < Queued
  <1> DEFINE n == IF Len(queue[s]) < BufMax THEN Len(queue[s]) ELSE BufMax
             o == Other(s)
  <1> USE DEF IInv
  <1>1. /\ buf[s] = <<>> /\ queue[s] # <<>> /\ buf' = [buf EXCEPT ![s] = SubSeq(queue[s], 1, n)]
        /\ queue' = [queue EXCEPT ![s] = SubSeq(queue[s], n + 1, Len(queue[s]))]
    BY DEF ReadEvents
  <1>2. /\ queue \in [Sides -> Seq(EventSet)] /\ buf \in [Sides -> Seq(EventSet)]
        /\ queue[s] \in Seq(EventSet)
    BY DEF TypeOK
  <1>3. n \in 1..Len(queue[s]) /\ Len(queue[s]) \in Nat
    <2>1. Len(queue[s]) \in Nat /\ Len(queue[s]) # 0
      BY <1>1, <1>2, LenProperties, EmptySeq
    <2> QED BY <2>1, WatchAssumption
  <1> HIDE DEF n
  <1>4. /\ Len(buf'[s]) = n /\ Len(queue'[s]) = Len(queue[s]) - n
        /\ ToSet(buf'[s]) \cup ToSet(queue'[s]) = ToSet(queue[s])
    <2>1. buf'[s] = SubSeq(queue[s], 1, n) /\ queue'[s] = SubSeq(queue[s], n + 1, Len(queue[s]))
      BY <1>1, <1>2
    <2>2. n \in 0..Len(queue[s])
      BY <1>3
    <2> QED BY <1>2, <2>1, <2>2, SplitOrder
  <1>5. /\ o \in Sides /\ o # s /\ \A z \in Sides : z = s \/ z = o
        /\ Len(queue[o]) \in Nat /\ Len(buf[o]) \in Nat
        /\ Queued = Len(queue[s]) + Len(queue[o])
        /\ Waiting = Queued + (Len(buf[s]) + Len(buf[o]))
    BY SidesTwo
  <1>6. buf'[o] = buf[o] /\ queue'[o] = queue[o]
    BY <1>1, <1>2, <1>5
  <1>7. Len(buf[s]) = 0 /\ ToSet(buf[s]) = {}
    BY <1>1, NothingIn
  <1>8. \A z \in Sides : Pending(z)' = Pending(z)
    BY <1>4, <1>5, <1>6, <1>7 DEF Pending
  <1>9. SongsPending' = SongsPending
    BY <1>8 DEF SongsPending, Sides
  <1>10. Queued' = Len(queue'[s]) + Len(queue'[o]) /\ Waiting' = Queued' + (Len(buf'[s]) + Len(buf'[o]))
    BY SidesTwo
  <1>11. Queued' = (Len(queue[s]) - n) + Len(queue[o]) /\ Waiting' = Queued' + (n + Len(buf[o]))
    BY <1>4, <1>6, <1>10
  <1>12. Queued = Len(queue[s]) + Len(queue[o]) /\ Waiting = Queued + (0 + Len(buf[o]))
    BY <1>5, <1>7
  <1>13. \A q, r, b \in Nat : \A m \in 1..q :
           (q - m) + r + (m + b) = q + r + (0 + b) /\ (q - m) + r < q + r
    OBVIOUS
  <1>14. /\ (Len(queue[s]) - n) + Len(queue[o]) + (n + Len(buf[o]))
            = Len(queue[s]) + Len(queue[o]) + (0 + Len(buf[o]))
         /\ (Len(queue[s]) - n) + Len(queue[o]) < Len(queue[s]) + Len(queue[o])
    BY <1>3, <1>5, <1>13
  <1>15. Waiting' = Waiting /\ Queued' < Queued
    BY <1>11, <1>12, <1>14
  <1> QED BY <1>9, <1>15

\* The first event of a buffer is gone after its callback, and what its
\* statement brings is not a song's.
LEMMA SongHandled ==
  ASSUME IInv, NEW s \in Sides, buf[s] # <<>>, buf' = [buf EXCEPT ![s] = Tail(@)],
         JournalOnly, UNCHANGED changes, Head(buf[s]).name # Journal
  PROVE  SongsPending' \subseteq SongsPending /\ SongsPending' # SongsPending
  <1> DEFINE e == Head(buf[s])
  <1> USE DEF IInv
  <1>1. /\ \A z \in Sides :
             /\ \A x \in ToSet(queue'[z]) \cup ToSet(buf'[z]) : SideOf(x.kind) = z
             /\ \A x \in Pending(z)' : x \in Pending(z) \/ x.name = Journal
        /\ \A x \in Pending(s)' : x.name = e.name /\ x.name \in Songs => e.at < x.at
        /\ e \in Pending(s)
    BY CallbackFacts
  <1>2. e.name \in Songs /\ SideOf(e.kind) = s /\ e.at \in Nat
    BY <1>1, PendingFacts DEF Names
  <1> HIDE DEF e
  <1>3. Journal \notin Songs
    BY WatchAssumption
  <1>4. SongsPending' \subseteq SongsPending
    BY <1>1, <1>3 DEF SongsPending, Sides
  <1>5. e \in SongsPending
    BY <1>1, <1>2 DEF SongsPending, Sides
  <1>6. ASSUME NEW z \in Sides, e \in Pending(z)' PROVE FALSE
    <2>1. z = s
      BY <1>1, <1>2, <1>6 DEF Pending
    <2>2. e.at < e.at
      BY <1>1, <1>2, <1>6, <2>1
    <2> QED BY <1>2, <2>2
  <1>7. e \notin SongsPending'
    BY <1>6 DEF SongsPending, Sides
  <1> QED BY <1>4, <1>5, <1>7

\* An event of the journal is gone, and brings nothing.
LEMMA JournalIgnored ==
  ASSUME IInv, TypeOK', NEW s \in Sides, IgnoreEvent(s)
  PROVE  SongsPending' = SongsPending /\ Waiting' < Waiting
  <1> DEFINE e == Head(buf[s])
             o == Other(s)
  <1> USE DEF IInv
  <1>1. /\ buf[s] # <<>> /\ buf' = [buf EXCEPT ![s] = Tail(@)]
        /\ UNCHANGED queue /\ UNCHANGED changes /\ e.name = Journal
    BY DEF IgnoreEvent, Callback, Ignored
  <1>2. \A z \in Sides :
          /\ \A x \in Pending(z)' : x \in Pending(z) \/ x.name = Journal
          /\ \A x \in Pending(z) : x \in Pending(z)' \/ (z = s /\ x = e)
    BY <1>1, CallbackFacts DEF JournalOnly
  <1>3. Journal \notin Songs
    BY WatchAssumption
  <1> HIDE DEF e
  <1>4. SongsPending' = SongsPending
    BY <1>1, <1>2, <1>3 DEF SongsPending, Sides
  <1>5. /\ o \in Sides /\ o # s
        /\ Len(queue[s]) \in Nat /\ Len(queue[o]) \in Nat /\ Len(buf[o]) \in Nat
        /\ Queued = Len(queue[s]) + Len(queue[o])
        /\ Waiting = Queued + (Len(buf[s]) + Len(buf[o]))
        /\ Queued' = Len(queue'[s]) + Len(queue'[o])
        /\ Waiting' = Queued' + (Len(buf'[s]) + Len(buf'[o]))
    BY SidesTwo
  <1>6. /\ buf'[s] = Tail(buf[s]) /\ buf'[o] = buf[o]
        /\ Len(Tail(buf[s])) = Len(buf[s]) - 1 /\ Len(buf[s]) \in Nat
    <2>1. buf \in [Sides -> Seq(EventSet)] /\ buf[s] \in Seq(EventSet)
      BY DEF TypeOK
    <2>2. Len(Tail(buf[s])) = Len(buf[s]) - 1 /\ Len(buf[s]) \in Nat
      BY <1>1, <2>1, HeadTailProperties, LenProperties
    <2> QED BY <1>1, <1>5, <2>1, <2>2
  <1>7. Queued' = Queued /\ Waiting' = Queued + ((Len(buf[s]) - 1) + Len(buf[o]))
    BY <1>1, <1>5, <1>6
  <1>8. \A p, q, a, b \in Nat : p + q + ((a - 1) + b) < p + q + (a + b)
    OBVIOUS
  <1>9. Waiting' < Waiting
    BY <1>5, <1>6, <1>7, <1>8
  <1> QED BY <1>4, <1>9

\* The daemon's own journal in the directory it watches never keeps it busy:
\* the safety core of ComesToRest, for any queues, buffers and songs.
THEOREM LoopsWearDown == ServiceSpec => [][WearsDown]_svars
  <1>1. ASSUME IInv, [ServiceNext]_svars PROVE WearsDown
    <2> SUFFICES ASSUME NEW s \in Sides, LoopStep(s)
                 PROVE  \/ SongsPending' \subseteq SongsPending /\ SongsPending' # SongsPending
                        \/ SongsPending' = SongsPending /\ Waiting' < Waiting
                        \/ SongsPending' = SongsPending /\ Waiting' = Waiting /\ Queued' < Queued
      BY DEF WearsDown
    <2>1. TypeOK'
      BY <1>1, NextInv DEF IInv
    <2>2. CASE ReadEvents(s)
      BY <1>1, <2>1, <2>2, ReadWears
    <2>3. CASE IgnoreEvent(s)
      BY <1>1, <2>1, <2>3, JournalIgnored
    <2>4. CASE ApplyEvent(s) \/ FailEvent(s)
      <3>1. /\ buf[s] # <<>> /\ buf' = [buf EXCEPT ![s] = Tail(@)]
            /\ JournalOnly
            /\ UNCHANGED changes /\ Head(buf[s]).name # Journal
        BY <2>4 DEF ApplyEvent, FailEvent, Callback, Ignored, JournalOnly, JournalEvents
      <3> QED BY <1>1, <3>1, SongHandled
    <2> QED BY <2>2, <2>3, <2>4 DEF LoopStep, HandleEvent
  <1>2. IInv /\ [ServiceNext]_svars => [WearsDown]_svars
    BY <1>1
  <1> QED BY Invariance, <1>2, PTL DEF ServiceSpec

=============================================================================
