-------------------------- MODULE HttpServerProofs --------------------------
(***************************************************************************)
(* What HttpServer guarantees for any clients, songs, descriptors and      *)
(* requests.                                                               *)
(***************************************************************************)
EXTENDS HttpServer, FiniteSetTheorems, WellFoundedInduction, TLAPS

\* Before the event loop there are no connections, before initBaseDaemon()
\* no descriptors; a request that is handled has its connection.
StageFits ==
  /\ stage \in {"construct", "base", "logWorker", "handler"} =>
       pc = "idle" /\ \A k \in Clients : conn[k] = "away"
  /\ stage \in {"construct", "base"} =>
       /\ logFd = 0 /\ lost = {} /\ \A f \in Fds : fds[f] = None
       /\ \A k \in Clients : owns[k] = 0
  /\ pc # "idle" => who \in Clients /\ conn[who] # "away"

\* The only song that is open is the one of the request being handled.
SongFits ==
  /\ pc \in {"idle", "save", "dispatch", "exists", "open"} => fd = 0
  /\ pc = "size" => fd # 0
  /\ \A f \in Fds : fds[f] = "song" => f = fd

\* While no number was given away that libevent still meant to close, every
\* number belongs to the one who uses it.
NumbersFit ==
  ~overlap =>
    /\ lost = {}
    /\ logFd # 0 => fds[logFd] = Log
    /\ fd # 0 => fds[fd] = "song"
    /\ \A k \in Clients : owns[k] # 0 => fds[owns[k]] \in {None, "song"}

\* The window of a request holds what its UID and the files are now, and what
\* the request has read was in it.
WindowFits ==
  pc # "idle" =>
    /\ NameOf(uri[who]) \in named
    /\ \A n \in Names : <<n, files[n]>> \in held
    /\ pc = "exists" => name \in named \/ (name = None /\ failed)
    /\ pc \in {"open", "size"} => name \in Names /\ name \in named
    /\ pc = "size" => /\ <<name, song.content>> \in held
                      /\ song.linked => song.content = files[name]

\* What was decided is justified by the window.
AnswerFits ==
  pc \in {"log", "send"} =>
    /\ answer.kind = "song" =>
         answer.content # Empty /\ \E n \in named \ {None} : <<n, answer.content>> \in held
    /\ answer = NotFound =>
         \/ failed \/ None \in named
         \/ \E n \in named : <<n, None>> \in held \/ <<n, Empty>> \in held

Descriptors == SocketsKnown /\ SongFits /\ NumbersFit
IInv == DataOK /\ StageFits /\ Descriptors /\ WindowFits /\ AnswerFits

-----------------------------------------------------------------------------
(* Descriptors.                                                            *)

\* A set of numbers has a least one, as the intervals up to them have.
LEMMA MinIsIn == ASSUME NEW n \in Nat, NEW T, T \subseteq 0..n, T # {} PROVE Min(T) \in T
  <1> DEFINE S == 0..n
             R == StrictSubsetOrdering(S)
             I == {0..m : m \in T}
  <1>1. IsWellFoundedOn(R, SUBSET S)
    <2>1. IsFiniteSet(S)
      BY FS_Interval
    <2>2. IsWellFoundedOn(R, FiniteSubsetsOf(S))
      BY FS_StrictSubsetOrderingWellFounded
    <2>3. FiniteSubsetsOf(S) = SUBSET S
      BY <2>1, FS_FiniteSubsetsOfFinite
    <2> QED BY <2>2, <2>3
  <1>2. I \subseteq SUBSET S /\ I # {}
    <2>1. \A m \in T : 0..m \subseteq S
      OBVIOUS
    <2> QED BY <2>1
  <1>3. \E x \in I : \A y \in I : ~ (<<y, x>> \in R)
    BY <1>1, <1>2, WFMin
  <1>4. PICK x \in T : \A y \in T : ~ (<<0..y, 0..x>> \in R)
    BY <1>3
  <1>5. \A y \in T : x <= y
    <2> SUFFICES ASSUME NEW y \in T, y < x PROVE FALSE
      OBVIOUS
    <2>1. 0..y \in SUBSET S /\ 0..x \in SUBSET S
      OBVIOUS
    <2>2. 0..y \subseteq 0..x /\ x \in 0..x /\ x \notin 0..y
      OBVIOUS
    <2>3. 0..y # 0..x
      BY <2>2
    <2>4. <<0..y, 0..x>> \in R
      BY <2>1, <2>2, <2>3 DEF StrictSubsetOrdering
    <2> QED BY <1>4, <2>4
  <1> QED BY <1>5 DEF Min

\* The kernel gives a free number, or none.
LEMMA LowestIsFree ==
  ASSUME NEW table, NEW new, new = Lowest(table)
  PROVE  new = 0 \/ (new \in Fds /\ table[new] = None)
  <1> DEFINE F == {f \in Fds : table[f] = None}
  <1>1. CASE F = {}
    BY <1>1 DEF Lowest
  <1>2. CASE F # {}
    <2>1. F \subseteq 0..MaxFd /\ MaxFd \in Nat
      BY HttpAssumption DEF Fds
    <2>2. Min(F) \in F
      BY <1>2, <2>1, MinIsIn
    <2>3. Lowest(table) = Min(F)
      BY <1>2 DEF Lowest
    <2> QED BY <2>2, <2>3
  <1> QED BY <1>1, <1>2

LEMMA Distinct ==
  /\ None \notin Holders /\ "song" \notin Holders /\ Log \in Holders /\ Log \notin Clients
  /\ Clients \subseteq Holders /\ None # "song" /\ 0 \notin Fds /\ Fds \subseteq 0..MaxFd
  /\ 0 \in 0..MaxFd /\ 1 \in Fds
  BY HttpAssumption DEF Holders, Fds, None

\* A step that leaves the descriptors alone.
LEMMA FrameDescriptors ==
  ASSUME Descriptors, UNCHANGED <<fds, lost, overlap, logFd, sock, owns, fd>>,
         \A k \in Clients : conn'[k] # "away" => conn[k] # "away",
         \/ pc' = pc
         \/ pc' \in {"idle", "save", "dispatch", "exists", "open"} /\ fd = 0
         \/ pc' \in {"log", "send"}
  PROVE  Descriptors'
  BY DEF Descriptors, SocketsKnown, SongFits, NumbersFit

\* The log takes numbers nobody uses, and gives back its own.
LEMMA LogKeeps ==
  ASSUME DataOK, Descriptors, FAST_LOG, UNCHANGED <<sock, owns, fd, conn>>,
         pc' = pc \/ (pc' \in {"dispatch"} /\ fd = 0) \/ pc' \in {"log", "send"}
  PROVE  /\ Descriptors'
         /\ fds' \in [Fds -> Holders \cup {"song", None}] /\ logFd' \in 0..MaxFd
         /\ lost' \subseteq Holders /\ overlap' \in BOOLEAN
  <1> USE DEF Descriptors
  <1>1. CASE UNCHANGED <<fdVars, logFd>>
    <2>1. Descriptors'
      BY <1>1, FrameDescriptors DEF fdVars
    <2> QED BY <1>1, <2>1 DEF fdVars, DataOK
  <1>2. ASSUME NEW new, NEW closed,
               closed = [f \in Fds |-> IF f = logFd THEN None ELSE fds[f]],
               new \in {Lowest(closed), 0},
               fds' = [f \in Fds |-> IF f = new THEN Log ELSE closed[f]],
               logFd' = new,
               lost' = (lost \ {Log}) \cup (HoldersOf({logFd} \ {0}) \cap Clients),
               overlap' = (overlap \/ (new # 0 /\ Outstanding))
        PROVE  /\ Descriptors'
               /\ fds' \in [Fds -> Holders \cup {"song", None}] /\ logFd' \in 0..MaxFd
               /\ lost' \subseteq Holders /\ overlap' \in BOOLEAN
    <2> USE Distinct
    <2>1. new = 0 \/ (new \in Fds /\ closed[new] = None)
      BY <1>2, LowestIsFree
    <2>2. /\ fds' \in [Fds -> Holders \cup {"song", None}] /\ logFd' \in 0..MaxFd
          /\ lost' \subseteq Holders /\ overlap' \in BOOLEAN
      BY <1>2, <2>1 DEF DataOK
    <2>3. \A f \in Fds : /\ f = new => fds'[f] = Log /\ (f = logFd \/ fds[f] = None)
                         /\ f # new /\ f = logFd => fds'[f] = None
                         /\ f # new /\ f # logFd => fds'[f] = fds[f]
      BY <1>2, <2>1
    <2>4. logFd # 0 => logFd \in Fds /\ HoldersOf({logFd} \ {0}) = {fds[logFd]} \cap Holders
      BY DEF HoldersOf, DataOK, Fds
    <2>5. SocketsKnown'
      <3> SUFFICES ASSUME NEW k \in Clients, conn[k] # "away"
                   PROVE  sock[k] # 0 /\ (k \notin lost' => fds'[sock[k]] = k)
        BY DEF SocketsKnown
      <3>1. sock[k] # 0 /\ sock[k] \in Fds
        BY DEF SocketsKnown, DataOK, Fds
      <3>2. ASSUME k \notin lost' PROVE fds'[sock[k]] = k
        <4>1. k # Log /\ k # None /\ k \in Holders
          BY Distinct
        <4>2. fds[sock[k]] = k
          BY <1>2, <3>2, <4>1 DEF SocketsKnown
        <4>3. sock[k] # logFd
          BY <1>2, <2>4, <3>1, <3>2, <4>1, <4>2
        <4> QED BY <2>3, <3>1, <4>1, <4>2, <4>3
      <3> QED BY <3>1, <3>2
    <2>6. SongFits'
      BY <2>3 DEF SongFits
    <2>7. NumbersFit'
      <3> SUFFICES ASSUME ~overlap' PROVE NumbersFit'
        BY DEF NumbersFit
      <3>1. ~overlap /\ (new # 0 => ~Outstanding)
        BY <1>2 DEF DataOK
      <3>2. lost' = {}
        BY <1>2, <2>4, <3>1 DEF NumbersFit, HoldersOf
      <3>3. logFd' # 0 => fds'[logFd'] = Log
        BY <1>2, <2>1, <2>3
      <3>4. fd # 0 => fds'[fd] = "song"
        BY <2>3, <3>1 DEF NumbersFit, DataOK, Fds
      <3>5. ASSUME NEW k \in Clients, owns[k] # 0 PROVE fds'[owns[k]] \in {None, "song"}
        <4>1. owns[k] \in Fds /\ new = 0
          BY <3>1, <3>5 DEF Outstanding, DataOK, Fds
        <4> QED BY <2>3, <3>1, <3>5, <4>1 DEF NumbersFit
      <3> QED BY <3>2, <3>3, <3>4, <3>5 DEF NumbersFit
    <2> QED BY <2>2, <2>5, <2>6, <2>7
  <1>3. CASE ~UNCHANGED <<fdVars, logFd>>
    <2> DEFINE closed == [f \in Fds |-> IF f = logFd THEN None ELSE fds[f]]
    <2>1. \E new \in {Lowest(closed), 0} :
            /\ fds' = [f \in Fds |-> IF f = new THEN Log ELSE closed[f]]
            /\ logFd' = new
            /\ lost' = (lost \ {Log}) \cup (HoldersOf({logFd} \ {0}) \cap Clients)
            /\ overlap' = (overlap \/ (new # 0 /\ Outstanding))
      BY <1>3 DEF FAST_LOG
    <2> HIDE DEF closed
    <2>2. closed = [f \in Fds |-> IF f = logFd THEN None ELSE fds[f]]
      BY DEF closed
    <2> QED BY <1>2, <2>1, <2>2
  <1> QED BY <1>1, <1>3

\* Numbers are closed when nobody but their user has them.
LEMMA CloseFacts ==
  ASSUME DataOK, NEW S, CloseNumbers(S)
  PROVE  /\ fds' \in [Fds -> Holders \cup {"song", None}]
         /\ \A f \in Fds : f \in S => fds'[f] = None
         /\ \A f \in Fds : f \notin S => fds'[f] = fds[f]
         /\ HoldersOf(S) \subseteq Holders
         /\ \A f \in S \cap Fds : fds[f] \in Holders => fds[f] \in HoldersOf(S)
  BY DEF DataOK, CloseNumbers, HoldersOf

-----------------------------------------------------------------------------
LEMMA InitInv == Init => IInv
  <1> SUFFICES ASSUME Init PROVE IInv
    OBVIOUS
  <1> USE HttpAssumption, Distinct DEF Init
  <1>1. DataOK
    <2>1. rows \in [Uids -> Names \cup {None}] /\ files \in [Names -> Contents \cup {Empty, None}]
      OBVIOUS
    <2>2. changes \in 0..MaxChanges /\ asks \in 0..MaxAsks
      OBVIOUS
    <2>3. song \in [content : Contents \cup {Empty, None}, linked : BOOLEAN]
      BY DEF NoSong
    <2>4. lost \subseteq Holders /\ named \subseteq Names \cup {None}
      OBVIOUS
    <2> QED BY <2>1, <2>2, <2>3, <2>4 DEF DataOK
  <1>2. StageFits
    BY DEF StageFits
  <1>3. Descriptors
    BY DEF Descriptors, SocketsKnown, SongFits, NumbersFit
  <1>4. WindowFits /\ AnswerFits
    BY DEF WindowFits, AnswerFits
  <1> QED BY <1>1, <1>2, <1>3, <1>4 DEF IInv

-----------------------------------------------------------------------------
(* The life of the process.                                                *)

LEMMA StartKeeps ==
  ASSUME IInv, StartStep \/ LoopFails \/ LeaveLoop \/ Term
  PROVE  IInv'
  <1> USE DEF IInv, outsideVars, connVars, requestVars, windowVars, Idle, Ends
  <1>0. /\ UNCHANGED <<rows, files, config, changes, conn, uri, owns, sock, asks, pc, who,
                       name, fd, song, answer, named, held, failed>>
        /\ code' \in {code, "crash", "noConfig", "cantInit", "exception", "normal"}
    BY DEF StartStep, Construct, InitBaseDaemon, InitTDBLogWorker, InitializeHTTPHandler,
           LoopFails, LeaveLoop, Term
  <1>1. WindowFits' /\ AnswerFits'
    BY <1>0 DEF WindowFits, AnswerFits, NameOf, SongUID
  <1>2. CASE InitBaseDaemon
    <2>1. CASE stage' = "logWorker"
      <3>1. /\ stage = "base" /\ pc = "idle" /\ fd = 0
            /\ (\A k \in Clients : conn[k] = "away" /\ owns[k] = 0) /\ (\A f \in Fds : fds[f] = None)
            /\ logFd' = 1 /\ fds' = [fds EXCEPT ![1] = Log] /\ canExit' = FALSE
            /\ UNCHANGED <<started, lost, overlap>> /\ lost = {}
        BY <1>2, <2>1 DEF InitBaseDaemon, StageFits, Descriptors, SongFits
      <3>2. DataOK'
        <4>1. fds' \in [Fds -> Holders \cup {"song", None}] /\ logFd' \in 0..MaxFd
          BY <3>1, Distinct DEF DataOK
        <4>2. canExit' \in BOOLEAN /\ UNCHANGED <<started, lost, overlap>>
          BY <3>1
        <4> QED BY <1>0, <2>1, <4>1, <4>2 DEF DataOK
      <3>3. \A f \in Fds : fds'[f] = IF f = 1 THEN Log ELSE None
        BY <3>1 DEF DataOK
      <3>4. StageFits' /\ SocketsKnown' /\ SongFits'
        BY <1>0, <2>1, <3>1, <3>3, Distinct DEF StageFits, SocketsKnown, SongFits
      <3>5. NumbersFit'
        BY <1>0, <3>1, <3>3, Distinct DEF NumbersFit, Descriptors, DataOK, Fds
      <3> QED BY <1>1, <3>2, <3>4, <3>5 DEF Descriptors
    <2>2. CASE stage' = "ended"
      <3>1. UNCHANGED <<started, canExit, fds, logFd, lost, overlap>>
        BY <1>2, <2>2 DEF InitBaseDaemon
      <3> QED BY <1>0, <1>1, <2>2, <3>1, FrameDescriptors DEF DataOK, StageFits
    <2> QED BY <1>2, <2>1, <2>2 DEF InitBaseDaemon
  <1>3. CASE Construct \/ InitTDBLogWorker \/ InitializeHTTPHandler \/ LeaveLoop \/ Term
    <2>1. /\ UNCHANGED <<fds, lost, overlap, logFd>>
          /\ \/ stage' \in {stage, "ended"}
             \/ stage = "construct" /\ stage' = "base"
             \/ stage = "logWorker" /\ stage' = "handler"
             \/ stage = "handler" /\ stage' = "loop"
          /\ started' \in BOOLEAN /\ canExit' \in BOOLEAN
      BY <1>3 DEF Construct, InitTDBLogWorker, InitializeHTTPHandler, LeaveLoop, Term, fdVars,
                  DataOK
    <2>2. DataOK'
      BY <1>0, <2>1 DEF DataOK
    <2>3. StageFits'
      BY <1>0, <2>1 DEF StageFits, DataOK
    <2> QED BY <1>0, <1>1, <2>1, <2>2, <2>3, FrameDescriptors
  <1>4. CASE LoopFails
    <2>1. FAST_LOG /\ stage = "loop" /\ UNCHANGED <<stage, code, started>> /\ canExit' = TRUE
      BY <1>4 DEF LoopFails
    <2>2. /\ Descriptors'
          /\ fds' \in [Fds -> Holders \cup {"song", None}] /\ logFd' \in 0..MaxFd
          /\ lost' \subseteq Holders /\ overlap' \in BOOLEAN
      BY <1>0, <2>1, LogKeeps
    <2>3. DataOK' /\ StageFits'
      BY <1>0, <2>1, <2>2 DEF DataOK, StageFits
    <2> QED BY <1>1, <2>2, <2>3
  <1> QED BY <1>2, <1>3, <1>4 DEF StartStep

-----------------------------------------------------------------------------
(* ProcessRequest().                                                       *)

\* The name a URI stands for.
LEMMA NameOfIsName ==
  ASSUME DataOK, NEW k \in Clients PROVE NameOf(uri[k]) \in Names \cup {None}
  <1>1. uri[k] \in URIs \cup {NoUri}
    BY DEF DataOK
  <1>2. uri[k].uid \in Uids \cup {None}
    BY <1>1, HttpAssumption DEF NoUri
  <1> QED BY <1>2 DEF NameOf, SongUID, DataOK

LEMMA TakeKeeps == ASSUME IInv, NEW k \in Clients, TakeRequest(k) PROVE IInv'
  <1> USE DEF IInv, Idle, outsideVars, lifeVars, fdVars, Decides
  <1>1. /\ UNCHANGED <<rows, files, config, changes, stage, code, started, canExit, fds, lost,
                       overlap, logFd, uri, owns, sock, asks, name, fd, song>>
        /\ stage = "loop" /\ pc = "idle" /\ conn[k] = "asked" /\ who' = k
        /\ conn' = [conn EXCEPT ![k] = "served"]
        /\ named' = {NameOf(uri[k])} /\ held' = {<<n, files[n]>> : n \in Names}
        /\ failed' \in BOOLEAN
        /\ \/ pc' = "save"
           \/ pc' = "log" /\ answer' \in {BadRequest, NoAnswer}
    BY DEF TakeRequest
  <1>2. DataOK'
    BY <1>1, NameOfIsName DEF DataOK
  <1>3. StageFits'
    BY <1>1 DEF StageFits, DataOK
  <1>4. Descriptors'
    <2>1. fd = 0 /\ \A j \in Clients : conn'[j] # "away" => conn[j] # "away"
      BY <1>1 DEF Descriptors, SongFits, DataOK
    <2> QED BY <1>1, <2>1, FrameDescriptors
  <1>5. WindowFits'
    BY <1>1 DEF WindowFits, NameOf, SongUID
  <1>6. AnswerFits'
    BY <1>1 DEF AnswerFits, BadRequest, NoAnswer, NotFound, Answer
  <1> QED BY <1>2, <1>3, <1>4, <1>5, <1>6

\* The steps that leave the descriptors alone, but for the log.
LEMMA QuietKeeps ==
  ASSUME IInv, SaveRequestAttempt \/ ServeList \/ ServeUnknown \/ LookUp \/ LogRequest
  PROVE  IInv'
  <1> USE DEF IInv, outsideVars, lifeVars, fdVars, connVars, windowVars, Goes, Decides
  <1>1. /\ UNCHANGED <<rows, files, config, changes, stage, code, started, canExit, conn, uri,
                       owns, sock, asks, who, fd, song, named, held>>
        /\ stage = "loop" /\ pc \in {"save", "dispatch", "log"}
        /\ pc' \in {"dispatch", "log", "exists", "send"}
        /\ who \in Clients /\ (pc # "log" => fd = 0)
    BY DEF SaveRequestAttempt, ServeList, ServeUnknown, LookUp, LogRequest, StageFits,
           Descriptors, SongFits
  <1>2. name' \in Names \cup {None} /\ failed' \in BOOLEAN
    BY NameOfIsName, <1>1
    DEF SaveRequestAttempt, ServeList, ServeUnknown, LookUp, LogRequest, DataOK
  <1>3. /\ Descriptors'
        /\ fds' \in [Fds -> Holders \cup {"song", None}] /\ logFd' \in 0..MaxFd
        /\ lost' \subseteq Holders /\ overlap' \in BOOLEAN
    <2>1. CASE FAST_LOG /\ (SaveRequestAttempt \/ LogRequest)
      <3>1. (pc' \in {"dispatch"} /\ fd = 0) \/ pc' \in {"log", "send"}
        BY <1>1, <2>1 DEF SaveRequestAttempt, LogRequest
      <3> QED BY <1>1, <2>1, <3>1, LogKeeps
    <2>2. CASE UNCHANGED <<fds, lost, overlap, logFd>>
      <3>1. \/ pc' \in {"idle", "save", "dispatch", "exists", "open"} /\ fd = 0
            \/ pc' \in {"log", "send"}
        BY <1>1 DEF SaveRequestAttempt, ServeList, ServeUnknown, LookUp, LogRequest
      <3>2. Descriptors'
        BY <1>1, <2>2, <3>1, FrameDescriptors
      <3> QED BY <2>2, <3>2 DEF DataOK
    <2> QED BY <2>1, <2>2
      DEF SaveRequestAttempt, ServeList, ServeUnknown, LookUp, LogRequest
  <1>4. DataOK'
    BY <1>1, <1>2, <1>3 DEF DataOK
  <1>5. StageFits'
    BY <1>1 DEF StageFits
  <1>6. WindowFits'
    <2>1. NameOf(uri[who])' = NameOf(uri[who])
      BY <1>1 DEF NameOf, SongUID
    <2>2. CASE LookUp
      BY <1>1, <2>1, <2>2 DEF LookUp, WindowFits
    <2>3. CASE ~LookUp
      <3>1. UNCHANGED <<name, failed>> /\ pc' \in {"dispatch", "log", "send"}
        BY <2>3 DEF SaveRequestAttempt, ServeList, ServeUnknown, LogRequest
      <3> QED BY <1>1, <2>1, <3>1 DEF WindowFits
    <2> QED BY <2>2, <2>3
  <1>7. AnswerFits'
    <2>1. CASE ServeList \/ ServeUnknown
      BY <1>1, <2>1 DEF ServeList, ServeUnknown, AnswerFits, Answer, BadRequest, NotFound
    <2>2. CASE SaveRequestAttempt \/ LookUp
      BY <2>2 DEF SaveRequestAttempt, LookUp, AnswerFits
    <2>3. CASE LogRequest
      BY <1>1, <2>3 DEF LogRequest, AnswerFits
    <2> QED BY <2>1, <2>2, <2>3
  <1> QED BY <1>3, <1>4, <1>5, <1>6, <1>7

LEMMA FindKeeps == ASSUME IInv, FindFile PROVE IInv'
  <1> USE DEF IInv, outsideVars, fdVars, connVars, windowVars, Decides, Ends
  <1>1. /\ UNCHANGED <<rows, files, config, changes, started, canExit, fds, lost, overlap, logFd,
                       conn, uri, owns, sock, asks, who, name, fd, song, named, held, failed>>
        /\ stage = "loop" /\ pc = "exists" /\ who \in Clients /\ fd = 0
    BY DEF FindFile, StageFits, Descriptors, SongFits
  <1>2. \/ pc' = "log" /\ answer' = NotFound /\ ~Exists(name) /\ UNCHANGED <<stage, code>>
        \/ pc' = "open" /\ Exists(name) /\ UNCHANGED <<stage, code>>
        \/ pc' = pc /\ stage' = "ended" /\ code' = "exception"
    BY DEF FindFile
  <1>3. DataOK' /\ StageFits'
    BY <1>1, <1>2 DEF DataOK, StageFits
  <1>4. Descriptors'
    BY <1>1, <1>2, FrameDescriptors
  <1>5. NameOf(uri[who])' = NameOf(uri[who])
    BY <1>1 DEF NameOf, SongUID
  <1>6. WindowFits'
    BY <1>1, <1>2, <1>5, HttpAssumption DEF WindowFits, Exists
  <1>7. AnswerFits'
    <2> SUFFICES ASSUME pc' = "log" PROVE AnswerFits'
      BY <1>1, <1>2 DEF AnswerFits
    <2>1. answer' = NotFound /\ answer'.kind # "song" /\ ~Exists(name)
      BY <1>1, <1>2 DEF NotFound, Answer
    <2>2. CASE name = None
      BY <1>1, <2>1, <2>2 DEF WindowFits, AnswerFits
    <2>3. CASE name \in Names
      <3>1. files[name] = None /\ <<name, files[name]>> \in held /\ (name \in named \/ failed)
        BY <1>1, <2>1, <2>3 DEF WindowFits, Exists
      <3>2. failed \/ (name \in named /\ <<name, None>> \in held)
        BY <3>1
      <3> QED BY <1>1, <2>1, <3>2 DEF AnswerFits
    <2> QED BY <2>2, <2>3 DEF DataOK
  <1> QED BY <1>3, <1>4, <1>6, <1>7

LEMMA OpenKeeps == ASSUME IInv, OpenSong PROVE IInv'
  <1> USE DEF IInv, outsideVars, lifeVars, connVars, Decides, Descriptors
  <1>1. /\ UNCHANGED <<rows, files, config, changes, stage, code, started, canExit, lost, logFd,
                       conn, uri, owns, sock, asks, who, name, named, held>>
        /\ stage = "loop" /\ pc = "open" /\ who \in Clients /\ fd = 0
        /\ name \in Names /\ name \in named
        /\ \A n \in Names : <<n, files[n]>> \in held
        /\ NameOf(uri[who]) \in named
    BY DEF OpenSong, StageFits, SongFits, WindowFits
  <1>2. NameOf(uri[who])' = NameOf(uri[who])
    BY <1>1 DEF NameOf, SongUID
  <1>3. StageFits'
    BY <1>1 DEF StageFits
  <1>4. CASE /\ Exists(name) /\ Lowest(fds) # 0
             /\ pc' = "size" /\ fd' = Lowest(fds)
             /\ fds' = [fds EXCEPT ![Lowest(fds)] = "song"]
             /\ song' = [content |-> files[name], linked |-> TRUE]
             /\ overlap' = (overlap \/ Outstanding)
             /\ UNCHANGED <<answer, failed>>
    <2> DEFINE new == Lowest(fds)
    <2>1. new \in Fds /\ fds[new] = None
      BY <1>4, LowestIsFree
    <2> HIDE DEF new
    <2>2. /\ pc' = "size" /\ fd' = new /\ fds' = [fds EXCEPT ![new] = "song"]
          /\ overlap' = (overlap \/ Outstanding) /\ failed' = failed
          /\ song' = [content |-> files[name], linked |-> TRUE]
      BY <1>4 DEF new
    <2>3. \A f \in Fds : fds'[f] = IF f = new THEN "song" ELSE fds[f]
      BY <2>1, <2>2 DEF DataOK
    <2>4. DataOK'
      <3>1. fds' \in [Fds -> Holders \cup {"song", None}] /\ fd' \in 0..MaxFd
        BY <2>1, <2>2, Distinct DEF DataOK
      <3>2. song' \in [content : Contents \cup {Empty, None}, linked : BOOLEAN]
        BY <1>1, <2>2 DEF DataOK
      <3>3. overlap' \in BOOLEAN /\ failed' \in BOOLEAN
        BY <2>2 DEF DataOK
      <3> QED BY <1>1, <2>2, <3>1, <3>2, <3>3 DEF DataOK
    <2>5. SocketsKnown'
      <3> SUFFICES ASSUME NEW k \in Clients, conn[k] # "away"
                   PROVE  sock[k] # 0 /\ (k \notin lost => fds'[sock[k]] = k)
        BY <1>1 DEF SocketsKnown
      <3>1. sock[k] # 0 /\ sock[k] \in Fds /\ k # None
        BY Distinct DEF SocketsKnown, DataOK, Fds
      <3> QED BY <2>1, <2>3, <3>1 DEF SocketsKnown
    <2>6. SongFits'
      BY <1>1, <2>1, <2>2, <2>3, Distinct DEF SongFits
    <2>7. NumbersFit'
      <3> SUFFICES ASSUME ~overlap' PROVE NumbersFit'
        BY DEF NumbersFit
      <3>1. ~overlap /\ \A k \in Clients : owns[k] = 0
        BY <2>2 DEF DataOK, Outstanding
      <3>2. logFd # 0 => fds'[logFd] = Log
        BY <2>1, <2>3, <3>1, Distinct DEF NumbersFit, DataOK, Fds
      <3> QED BY <1>1, <2>1, <2>2, <2>3, <3>1, <3>2 DEF NumbersFit
    <2>8. WindowFits' /\ AnswerFits'
      BY <1>1, <1>2, <2>2 DEF WindowFits, AnswerFits
    <2> QED BY <1>3, <2>4, <2>5, <2>6, <2>7, <2>8
  <1>5. CASE /\ ~Exists(name) \/ Lowest(fds) = 0
             /\ pc' = "log" /\ answer' = NotFound
             /\ failed' = (failed \/ Lowest(fds) = 0)
             /\ UNCHANGED <<fd, fds, song, overlap>>
    <2>1. DataOK'
      BY <1>1, <1>5 DEF DataOK
    <2>2. Descriptors'
      BY <1>1, <1>5, FrameDescriptors
    <2>3. WindowFits'
      BY <1>1, <1>2, <1>5 DEF WindowFits
    <2>4. AnswerFits'
      <3>1. failed' \/ (name \in named /\ <<name, None>> \in held)
        BY <1>1, <1>5 DEF Exists
      <3>2. answer'.kind # "song"
        BY <1>5 DEF NotFound, Answer
      <3> QED BY <1>1, <1>5, <3>1, <3>2 DEF AnswerFits
    <2> QED BY <1>3, <2>1, <2>2, <2>3, <2>4
  <1> QED BY <1>4, <1>5 DEF OpenSong

LEMMA AttachKeeps == ASSUME IInv, Attach PROVE IInv'
  <1> USE DEF IInv, outsideVars, lifeVars, fdVars, Decides, Descriptors
  <1>1. /\ UNCHANGED <<rows, files, config, changes, stage, code, started, canExit, fds, lost,
                       overlap, logFd, conn, uri, sock, asks, who, name, fd, song, named, held>>
        /\ stage = "loop" /\ pc = "size" /\ pc' = "log" /\ who \in Clients /\ fd # 0
        /\ name \in Names /\ name \in named /\ <<name, song.content>> \in held
        /\ \A n \in Names : <<n, files[n]>> \in held
        /\ NameOf(uri[who]) \in named
    BY DEF Attach, StageFits, SongFits, WindowFits
  <1>2. \/ /\ song.content # Empty /\ answer' = Answer("song", song.content)
           /\ owns' = [owns EXCEPT ![who] = fd] /\ failed' = failed
        \/ /\ answer' = NotFound /\ failed' = (failed \/ song.content # Empty)
           /\ owns' = owns
    BY DEF Attach
  <1>3. DataOK'
    <2>1. owns' \in [Clients -> 0..MaxFd] /\ failed' \in BOOLEAN
      BY <1>1, <1>2 DEF DataOK
    <2> QED BY <1>1, <2>1 DEF DataOK
  <1>4. StageFits' /\ SocketsKnown' /\ SongFits'
    BY <1>1 DEF StageFits, SocketsKnown, SongFits
  <1>5. NumbersFit'
    BY <1>1, <1>2 DEF NumbersFit, DataOK
  <1>6. WindowFits'
    <2>1. NameOf(uri[who])' = NameOf(uri[who])
      BY <1>1 DEF NameOf, SongUID
    <2> QED BY <1>1, <2>1 DEF WindowFits
  <1>7. AnswerFits'
    <2>1. CASE song.content # Empty /\ answer' = Answer("song", song.content)
      <3>1. answer'.kind = "song" /\ answer'.content = song.content /\ answer' # NotFound
        BY <2>1 DEF Answer, NotFound
      <3>2. name \in named \ {None}
        BY <1>1, HttpAssumption
      <3> QED BY <1>1, <2>1, <3>1, <3>2 DEF AnswerFits
    <2>2. CASE answer' = NotFound /\ failed' = (failed \/ song.content # Empty)
      <3>1. answer'.kind # "song" /\ (failed' \/ <<name, Empty>> \in held)
        BY <1>1, <2>2 DEF Answer, NotFound
      <3> QED BY <1>1, <2>2, <3>1 DEF AnswerFits
    <2> QED BY <1>2, <2>1, <2>2
  <1> QED BY <1>3, <1>4, <1>5, <1>6, <1>7

\* The song is closed, and nothing else unless numbers were mixed up.
LEMMA SendKeeps == ASSUME IInv, Send PROVE IInv'
  <1> USE DEF IInv, outsideVars, lifeVars, Descriptors
  <1>1. /\ UNCHANGED <<rows, files, config, changes, stage, code, started, canExit, overlap,
                       logFd, owns, sock, asks>>
        /\ stage = "loop" /\ pc = "send" /\ who \in Clients /\ conn[who] # "away"
        /\ pc' = "idle" /\ fd' = 0 /\ who' = None /\ name' = None /\ song' = NoSong
        /\ named' = {} /\ failed' = FALSE
        /\ CloseNumbers({fd} \ {0}) /\ lost' = lost \cup HoldersOf({fd} \ {0})
        /\ uri' = [uri EXCEPT ![who] = NoUri]
        /\ \E state \in {"mute", "replied"} : conn' = [conn EXCEPT ![who] = state]
    BY DEF Send, Replies, Forget, StageFits
  <1>2. /\ fds' \in [Fds -> Holders \cup {"song", None}]
        /\ \A f \in Fds : fds'[f] = IF f = fd THEN None ELSE fds[f]
        /\ lost' \subseteq Holders
        /\ \A k \in Clients \ lost' : k \notin lost /\ (fd \in Fds => fds[fd] # k)
        /\ HoldersOf({fd} \ {0}) = {fds[f] : f \in {fd} \ {0}} \cap Holders
    <2>1. /\ fds' \in [Fds -> Holders \cup {"song", None}]
          /\ \A f \in Fds : f \in {fd} \ {0} => fds'[f] = None
          /\ \A f \in Fds : f \notin {fd} \ {0} => fds'[f] = fds[f]
          /\ HoldersOf({fd} \ {0}) \subseteq Holders
          /\ \A f \in ({fd} \ {0}) \cap Fds : fds[f] \in Holders => fds[f] \in HoldersOf({fd} \ {0})
      BY <1>1, CloseFacts
    <2> QED BY <1>1, <2>1, Distinct DEF DataOK, HoldersOf
  <1>3. DataOK'
    <2>1. /\ conn' \in [Clients -> {"away", "open", "asked", "served", "replied", "mute"}]
          /\ uri' \in [Clients -> URIs \cup {NoUri}]
      BY <1>1 DEF DataOK
    <2>2. song' \in [content : Contents \cup {Empty, None}, linked : BOOLEAN]
      BY <1>1 DEF NoSong
    <2> QED BY <1>1, <1>2, <2>1, <2>2, Distinct DEF DataOK
  <1>4. StageFits' /\ WindowFits' /\ AnswerFits'
    BY <1>1 DEF StageFits, WindowFits, AnswerFits
  <1>5. SocketsKnown'
    <2> SUFFICES ASSUME NEW k \in Clients, conn'[k] # "away"
                 PROVE  sock[k] # 0 /\ (k \notin lost' => fds'[sock[k]] = k)
      BY <1>1 DEF SocketsKnown
    <2>1. conn[k] # "away"
      BY <1>1 DEF DataOK
    <2>2. sock[k] # 0 /\ sock[k] \in Fds
      BY <2>1 DEF SocketsKnown, DataOK, Fds
    <2>3. ASSUME k \notin lost' PROVE fds'[sock[k]] = k
      <3>1. fds[sock[k]] = k /\ sock[k] # fd
        BY <1>2, <2>1, <2>2, <2>3 DEF SocketsKnown
      <3> QED BY <1>2, <2>2, <3>1
    <2> QED BY <2>2, <2>3
  <1>6. SongFits'
    BY <1>1, <1>2, Distinct DEF SongFits
  <1>7. NumbersFit'
    <2> SUFFICES ASSUME ~overlap PROVE NumbersFit'
      BY <1>1 DEF NumbersFit
    <2>1. fd # 0 => fd \in Fds /\ fds[fd] = "song"
      BY DEF NumbersFit, DataOK, Fds
    <2>2. lost' = {}
      <3>1. {fds[f] : f \in {fd} \ {0}} \subseteq {"song"}
        BY <2>1
      <3>2. HoldersOf({fd} \ {0}) = {}
        BY <1>2, <3>1, Distinct
      <3>3. lost = {}
        BY DEF NumbersFit
      <3> QED BY <1>1, <3>2, <3>3
    <2>3. logFd # 0 => fds'[logFd] = Log
      BY <1>2, <2>1, Distinct DEF NumbersFit, DataOK, Fds
    <2>4. \A k \in Clients : owns[k] # 0 => fds'[owns[k]] \in {None, "song"}
      BY <1>2 DEF NumbersFit, DataOK, Fds
    <2> QED BY <1>1, <2>2, <2>3, <2>4 DEF NumbersFit
  <1> QED BY <1>3, <1>4, <1>5, <1>6, <1>7

-----------------------------------------------------------------------------
(* libevent, the clients and the outside.                                  *)

LEMMA AcceptKeeps == ASSUME IInv, NEW k \in Clients, Accept(k) PROVE IInv'
  <1> USE DEF IInv, outsideVars, lifeVars, requestVars, windowVars, Descriptors, Idle
  <1> DEFINE new == Lowest(fds)
  <1>1. new \in Fds /\ fds[new] = None
    BY LowestIsFree DEF Accept
  <1> HIDE DEF new
  <1>2. /\ UNCHANGED <<rows, files, config, changes, stage, code, started, canExit, lost, logFd,
                       uri, owns, asks, pc, who, name, fd, song, answer, named, held, failed>>
        /\ stage = "loop" /\ pc = "idle" /\ fd = 0 /\ conn[k] = "away"
        /\ conn' = [conn EXCEPT ![k] = "open"] /\ sock' = [sock EXCEPT ![k] = new]
        /\ fds' = [fds EXCEPT ![new] = k] /\ overlap' = (overlap \/ Outstanding)
    BY DEF Accept, SongFits, new
  <1>3. \A f \in Fds : fds'[f] = IF f = new THEN k ELSE fds[f]
    BY <1>1, <1>2 DEF DataOK
  <1>4. DataOK'
    <2>1. fds' \in [Fds -> Holders \cup {"song", None}] /\ sock' \in [Clients -> 0..MaxFd]
      BY <1>1, <1>2, Distinct DEF DataOK
    <2>2. /\ conn' \in [Clients -> {"away", "open", "asked", "served", "replied", "mute"}]
          /\ overlap' \in BOOLEAN
      BY <1>2 DEF DataOK
    <2> QED BY <1>2, <2>1, <2>2 DEF DataOK
  <1>5. StageFits' /\ WindowFits' /\ AnswerFits'
    BY <1>2 DEF StageFits, WindowFits, AnswerFits
  <1>6. SocketsKnown'
    <2> SUFFICES ASSUME NEW j \in Clients, conn'[j] # "away"
                 PROVE  sock'[j] # 0 /\ (j \notin lost => fds'[sock'[j]] = j)
      BY <1>2 DEF SocketsKnown
    <2>1. CASE j = k
      BY <1>1, <1>2, <1>3, <2>1, Distinct DEF DataOK
    <2>2. CASE j # k
      <3>1. sock'[j] = sock[j] /\ conn[j] # "away" /\ sock[j] \in Fds /\ j # None
        BY <1>2, <2>2, Distinct DEF SocketsKnown, DataOK, Fds
      <3> QED BY <1>1, <1>3, <3>1, Distinct DEF SocketsKnown
    <2> QED BY <2>1, <2>2
  <1>7. SongFits'
    BY <1>2, <1>3, Distinct DEF SongFits
  <1>8. NumbersFit'
    <2> SUFFICES ASSUME ~overlap' PROVE NumbersFit'
      BY DEF NumbersFit
    <2>1. ~overlap /\ \A j \in Clients : owns[j] = 0
      BY <1>2 DEF DataOK, Outstanding
    <2>2. logFd # 0 => fds'[logFd] = Log
      BY <1>1, <1>3, <2>1, Distinct DEF NumbersFit, DataOK, Fds
    <2> QED BY <1>2, <2>1, <2>2 DEF NumbersFit
  <1> QED BY <1>4, <1>5, <1>6, <1>7, <1>8

LEMMA AskKeeps == ASSUME IInv, NEW k \in Clients, NEW u \in URIs, Ask(k, u) PROVE IInv'
  <1> USE DEF IInv, outsideVars, lifeVars, fdVars, requestVars, windowVars, Idle
  <1>1. /\ UNCHANGED <<rows, files, config, changes, stage, code, started, canExit, fds, lost,
                       overlap, logFd, owns, sock, pc, who, name, fd, song, answer, named, held,
                       failed>>
        /\ stage = "loop" /\ pc = "idle" /\ conn[k] = "open" /\ asks < MaxAsks
        /\ asks' = asks + 1
        /\ conn' = [conn EXCEPT ![k] = "asked"] /\ uri' = [uri EXCEPT ![k] = u]
    BY DEF Ask
  <1>2. DataOK'
    <2>1. asks' \in 0..MaxAsks
      BY <1>1, HttpAssumption DEF DataOK
    <2>2. /\ conn' \in [Clients -> {"away", "open", "asked", "served", "replied", "mute"}]
          /\ uri' \in [Clients -> URIs \cup {NoUri}]
      BY <1>1 DEF DataOK
    <2> QED BY <1>1, <2>1, <2>2 DEF DataOK
  <1>3. StageFits' /\ WindowFits' /\ AnswerFits'
    BY <1>1 DEF StageFits, WindowFits, AnswerFits
  <1>4. \A j \in Clients : conn'[j] # "away" => conn[j] # "away"
    BY <1>1 DEF DataOK
  <1>5. Descriptors'
    BY <1>1, <1>4, FrameDescriptors
  <1> QED BY <1>2, <1>3, <1>5

\* Numbers are closed on behalf of a connection between two requests.
LEMMA ReleaseKeeps ==
  ASSUME IInv, NEW k \in Clients, Flush(k) \/ HangUp(k) PROVE IInv'
  <1> USE DEF IInv, outsideVars, lifeVars, requestVars, windowVars, Idle, Descriptors
  <1> DEFINE S == IF Flush(k) THEN Owned(k) ELSE Owned(k) \cup {sock[k]}
  <1>1. /\ UNCHANGED <<rows, files, config, changes, stage, code, started, canExit, overlap,
                       logFd, asks, pc, who, name, fd, song, answer, named, held, failed>>
        /\ stage = "loop" /\ pc = "idle" /\ fd = 0 /\ conn[k] # "away"
        /\ owns' = [owns EXCEPT ![k] = 0] /\ CloseNumbers(S)
        /\ \/ Flush(k) /\ conn' = [conn EXCEPT ![k] = "open"]
              /\ lost' = lost \cup HoldersOf(S)
              /\ UNCHANGED <<sock, uri>>
           \/ ~Flush(k) /\ conn' = [conn EXCEPT ![k] = "away"]
              /\ lost' = (lost \cup HoldersOf(S)) \ {k}
              /\ sock' = [sock EXCEPT ![k] = 0] /\ uri' = [uri EXCEPT ![k] = NoUri]
    BY DEF Flush, HangUp, SongFits
  <1>2. S \subseteq {owns[k], sock[k]} /\ (Flush(k) => S \subseteq {owns[k]}) /\ 0 \notin S
    BY <1>1 DEF Owned, SocketsKnown
  <1> HIDE DEF S
  <1>3. /\ fds' \in [Fds -> Holders \cup {"song", None}]
        /\ \A f \in Fds : f \in S => fds'[f] = None
        /\ \A f \in Fds : f \notin S => fds'[f] = fds[f]
        /\ HoldersOf(S) \subseteq Holders
        /\ \A f \in S \cap Fds : fds[f] \in Holders => fds[f] \in HoldersOf(S)
    BY <1>1, CloseFacts
  <1>4. DataOK'
    <2>1. owns' \in [Clients -> 0..MaxFd] /\ sock' \in [Clients -> 0..MaxFd]
      BY <1>1, Distinct DEF DataOK
    <2>2. /\ conn' \in [Clients -> {"away", "open", "asked", "served", "replied", "mute"}]
          /\ uri' \in [Clients -> URIs \cup {NoUri}]
      BY <1>1 DEF DataOK
    <2>3. lost' \subseteq Holders
      BY <1>1, <1>3 DEF DataOK
    <2> QED BY <1>1, <1>3, <2>1, <2>2, <2>3 DEF DataOK
  <1>5. StageFits' /\ WindowFits' /\ AnswerFits'
    BY <1>1 DEF StageFits, WindowFits, AnswerFits
  <1>6. SocketsKnown'
    <2> SUFFICES ASSUME NEW j \in Clients, conn'[j] # "away"
                 PROVE  sock'[j] # 0 /\ (j \notin lost' => fds'[sock'[j]] = j)
      BY DEF SocketsKnown
    <2>1. sock'[j] = sock[j] /\ conn[j] # "away" /\ (~Flush(k) => j # k)
      BY <1>1 DEF DataOK
    <2>2. sock[j] # 0 /\ sock[j] \in Fds /\ j \in Holders
      BY <2>1, Distinct DEF SocketsKnown, DataOK, Fds
    <2>3. ASSUME j \notin lost' PROVE fds'[sock[j]] = j
      <3>1. j \notin lost /\ j \notin HoldersOf(S)
        BY <1>1, <2>1, <2>3
      <3>2. fds[sock[j]] = j
        BY <2>1, <3>1 DEF SocketsKnown
      <3> QED BY <1>3, <2>2, <3>1, <3>2
    <2> QED BY <2>1, <2>2, <2>3
  <1>7. SongFits'
    BY <1>1, <1>3, Distinct DEF SongFits
  <1>8. NumbersFit'
    <2> SUFFICES ASSUME ~overlap PROVE NumbersFit'
      BY <1>1 DEF NumbersFit
    <2>1. lost = {} /\ \A f \in Fds : fds[f] # "song"
      BY <1>1, Distinct DEF NumbersFit, SongFits
    <2>2. \A f \in S : f \in Fds
      BY <1>2 DEF DataOK, Fds
    <2>3. fds[sock[k]] = k /\ (owns[k] # 0 => owns[k] \in Fds /\ fds[owns[k]] = None)
      BY <1>1, <2>1 DEF SocketsKnown, NumbersFit, DataOK, Fds
    <2>4. \A f \in S : fds[f] = None \/ (~Flush(k) /\ fds[f] = k)
      BY <1>2, <2>3
    <2>5. lost' = {}
      BY <1>1, <2>1, <2>4, Distinct DEF HoldersOf
    <2>6. ASSUME logFd # 0 PROVE fds'[logFd] = Log
      <3>1. logFd \in Fds /\ fds[logFd] = Log
        BY <1>1, <2>6 DEF NumbersFit, DataOK, Fds
      <3>2. Log # None /\ Log # k
        BY Distinct
      <3>3. logFd \notin S
        BY <2>4, <3>1, <3>2
      <3> QED BY <1>3, <3>1, <3>3
    <2>7. \A j \in Clients : owns'[j] # 0 => fds'[owns'[j]] \in {None, "song"}
      BY <1>1, <1>3 DEF NumbersFit, DataOK, Fds
    <2> QED BY <1>1, <2>5, <2>6, <2>7 DEF NumbersFit
  <1> QED BY <1>4, <1>5, <1>6, <1>7, <1>8

-----------------------------------------------------------------------------
(* Outside, and together.                                                  *)

\* What changes while a request is handled enters the window of the request.
LEMMA OutsideKeeps == ASSUME IInv, OutsideStep PROVE IInv'
  <1> USE DEF IInv
  <1>1. /\ stage = "loop" /\ pc \in {"save", "dispatch", "exists", "open", "size"}
        /\ changes < MaxChanges /\ changes' = changes + 1
        /\ named' = named \cup {IF SongUID(uri[who]) = None THEN None
                                                           ELSE rows'[SongUID(uri[who])]}
        /\ held' = held \cup {<<n, files'[n]>> : n \in Names}
        /\ UNCHANGED <<stage, code, started, canExit, fds, lost, overlap, logFd, conn, uri, owns,
                       sock, asks, pc, who, name, fd, answer, failed>>
    BY DEF OutsideStep, ChangeRow, ReplaceFile, WriteFile, LoseConfig, Outside, lifeVars, fdVars,
           connVars
  <1>2. who \in Clients
    BY <1>1 DEF StageFits
  <1>3. /\ rows' \in [Uids -> Names \cup {None}]
        /\ files' \in [Names -> Contents \cup {Empty, None}]
        /\ config' \in BOOLEAN
    <2>1. CASE \E u \in Uids : ChangeRow(u)
      BY <2>1 DEF ChangeRow, DataOK
    <2>2. CASE \E n \in Names : ReplaceFile(n)
      BY <2>2 DEF ReplaceFile, DataOK
    <2>3. CASE \E n \in Names : WriteFile(n)
      BY <2>3 DEF WriteFile, DataOK
    <2>4. CASE LoseConfig
      BY <2>4 DEF LoseConfig, DataOK
    <2> QED BY <2>1, <2>2, <2>3, <2>4 DEF OutsideStep
  <1>4. /\ song' \in [content : Contents \cup {Empty, None}, linked : BOOLEAN]
        /\ pc = "size" => /\ <<name, song'.content>> \in held'
                          /\ song'.linked => song'.content = files'[name]
    <2>1. song \in [content : Contents \cup {Empty, None}, linked : BOOLEAN]
      BY DEF DataOK
    <2>2. /\ pc = "size" => /\ name \in Names /\ fd # 0 /\ <<name, song.content>> \in held
                            /\ song.linked => song.content = files[name]
      BY <1>1 DEF WindowFits, SongFits, Descriptors
    <2>3. CASE (\E u \in Uids : ChangeRow(u)) \/ LoseConfig
      <3>1. UNCHANGED <<files, song>>
        BY <2>3 DEF ChangeRow, LoseConfig
      <3> QED BY <1>1, <2>1, <2>2, <3>1
    <2>4. ASSUME NEW n \in Names, ReplaceFile(n)
          PROVE  /\ song' \in [content : Contents \cup {Empty, None}, linked : BOOLEAN]
                 /\ pc = "size" => /\ <<name, song'.content>> \in held'
                                   /\ song'.linked => song'.content = files'[name]
      <3>1. song' = IF name = n /\ fd # 0 THEN [song EXCEPT !.linked = FALSE] ELSE song
        BY <2>4 DEF ReplaceFile
      <3>2. /\ song' \in [content : Contents \cup {Empty, None}, linked : BOOLEAN]
            /\ song'.content = song.content
            /\ song'.linked => song.linked /\ (name # n \/ fd = 0)
        BY <2>1, <3>1
      <3>3. \A m \in Names : m # n => files'[m] = files[m]
        BY <2>4 DEF ReplaceFile, DataOK
      <3> QED BY <1>1, <2>2, <3>2, <3>3
    <2>5. ASSUME NEW n \in Names, WriteFile(n)
          PROVE  /\ song' \in [content : Contents \cup {Empty, None}, linked : BOOLEAN]
                 /\ pc = "size" => /\ <<name, song'.content>> \in held'
                                   /\ song'.linked => song'.content = files'[name]
      <3>1. PICK c \in Contents :
              /\ files' = [files EXCEPT ![n] = c]
              /\ song' = IF name = n /\ fd # 0 /\ song.linked
                         THEN [song EXCEPT !.content = c] ELSE song
        BY <2>5 DEF WriteFile
      <3>2. \A m \in Names : files'[m] = IF m = n THEN c ELSE files[m]
        BY <3>1 DEF DataOK
      <3>3. CASE name = n /\ fd # 0 /\ song.linked
        <4>1. song'.content = c /\ song' \in [content : Contents \cup {Empty, None}, linked : BOOLEAN]
          BY <2>1, <3>1, <3>3
        <4> QED BY <1>1, <3>2, <3>3, <4>1
      <3>4. CASE ~(name = n /\ fd # 0 /\ song.linked)
        <4>1. song' = song
          BY <3>1, <3>4
        <4> QED BY <1>1, <2>1, <2>2, <3>2, <3>4, <4>1
      <3> QED BY <3>3, <3>4
    <2> QED BY <2>3, <2>4, <2>5 DEF OutsideStep
  <1>5. NameOf(uri[who])' \in named' /\ named' \subseteq Names \cup {None}
    <2>1. NameOf(uri[who])' = IF SongUID(uri[who]) = None THEN None ELSE rows'[SongUID(uri[who])]
      BY <1>1 DEF NameOf, SongUID
    <2>2. uri[who] \in URIs \cup {NoUri}
      BY <1>2 DEF DataOK
    <2>3. uri[who].uid \in Uids \cup {None}
      BY <2>2, HttpAssumption DEF NoUri
    <2>4. SongUID(uri[who]) \in Uids \cup {None}
      BY <2>3 DEF SongUID
    <2> QED BY <1>1, <1>3, <2>1, <2>4 DEF DataOK
  <1>6. DataOK'
    <2>1. changes' \in 0..MaxChanges
      BY <1>1, HttpAssumption DEF DataOK
    <2> QED BY <1>1, <1>3, <1>4, <1>5, <2>1 DEF DataOK
  <1>7. StageFits' /\ AnswerFits'
    BY <1>1 DEF StageFits, AnswerFits
  <1>8. Descriptors'
    BY <1>1, FrameDescriptors
  <1>9. WindowFits'
    <2>1. \A n \in Names : <<n, files'[n]>> \in held'
      BY <1>1
    <2> QED BY <1>1, <1>4, <1>5, <2>1 DEF WindowFits
  <1> QED BY <1>6, <1>7, <1>8, <1>9

\* Every step keeps the invariant.
LEMMA NextInv == ASSUME IInv, [Next]_vars PROVE IInv'
  <1>1. CASE UNCHANGED vars
    BY <1>1 DEF vars, outsideVars, lifeVars, fdVars, connVars, requestVars, windowVars, IInv, DataOK,
               StageFits, Descriptors, SocketsKnown, SongFits, NumbersFit, WindowFits, AnswerFits,
               NameOf, SongUID
  <1>2. CASE RequestStep
    BY <1>2, QuietKeeps, FindKeeps, OpenKeeps, AttachKeeps, SendKeeps DEF RequestStep
  <1>3. ASSUME NEW k \in Clients, ConnectionStep(k) PROVE IInv'
    BY <1>3, AcceptKeeps, AskKeeps, ReleaseKeeps DEF ConnectionStep
  <1> QED BY <1>1, <1>2, <1>3, StartKeeps, TakeKeeps, OutsideKeeps DEF Next

\* The invariant of HttpServer: who has which number, and what the window of
\* the request holds.
THEOREM Invariance == Spec => []IInv
  <1>1. IInv /\ [Next]_vars => IInv'
    BY NextInv
  <1> QED BY InitInv, <1>1, PTL DEF Spec

\* Types, and the numbers by which libevent knows its connections.
THEOREM TypeCorrect == Spec => []TypeOK
  <1>1. IInv => TypeOK
    BY DEF IInv, Descriptors, TypeOK
  <1> QED BY Invariance, <1>1, PTL

\* A song that is sent was found under its UID while the request was handled,
\* and "not found" has a reason in that time; whatever changes meanwhile in
\* the table and the directory.
THEOREM RepliesTrue == Spec => []RepliesAreTrue
  <1>1. IInv => RepliesAreTrue
    BY DEF IInv, AnswerFits, RepliesAreTrue
  <1> QED BY Invariance, <1>1, PTL

\* Somebody loses a descriptor to the second close() of a song only if a
\* number was given away while a song was on its way.
THEOREM LostInOverlap == Spec => []LostOnlyInOverlap
  <1>1. IInv => LostOnlyInOverlap
    BY DEF IInv, Descriptors, NumbersFit, LostOnlyInOverlap
  <1> QED BY Invariance, <1>1, PTL

\* Every way out of ProcessRequest() closes the song.
THEOREM NoneLeftOpen == Spec => []NoSongLeftOpen
  <1>1. IInv => NoSongLeftOpen
    BY Distinct DEF IInv, Descriptors, SongFits, NoSongLeftOpen, Idle
  <1> QED BY Invariance, <1>1, PTL

-----------------------------------------------------------------------------
(* A request that libevent hands over.                                     *)

\* What is left of ProcessRequest() at most.
StepsLeft(p) ==
  CASE p = "save" -> 7 [] p = "dispatch" -> 6 [] p = "exists" -> 5 [] p = "open" -> 4
    [] p = "size" -> 3 [] p = "log" -> 2      [] p = "send" -> 1   [] OTHER -> 0

\* The request that is handled is the only one taken and not answered, and
\* one that is left without a reply had no memory for it.
NoneForgotten ==
  /\ \A k \in Clients : conn[k] = "served" <=> pc # "idle" /\ who = k
  /\ pc \in {"log", "send"} /\ answer = NoAnswer => failed

\* Whatever happens meanwhile, ProcessRequest() works for the same connection
\* until it is through, comes closer to its end with each of its steps, and
\* at the end hands over a reply, or has none.
MovesOn ==
  pc # "idle" =>
    \/ UNCHANGED <<pc, who, conn>>
    \/ pc' # "idle" /\ StepsLeft(pc') < StepsLeft(pc) /\ UNCHANGED <<who, conn>>
    \/ /\ pc = "send" /\ pc' = "idle"
       /\ conn' = [conn EXCEPT ![who] = IF answer = NoAnswer THEN "mute" ELSE "replied"]

LEMMA ForgetInit == Init => NoneForgotten
  BY DEF Init, NoneForgotten

\* The steps of ProcessRequest() itself.
LEMMA RequestMoves ==
  ASSUME IInv, NoneForgotten, RequestStep
  PROVE  MovesOn /\ NoneForgotten'
  <1> USE DEF lifeVars, fdVars, connVars, windowVars, outsideVars
  <1>1. ASSUME pc # "idle", pc' \notin {"idle", "log"}, pc \notin {"log", "send"},
               StepsLeft(pc') < StepsLeft(pc), UNCHANGED <<who, conn, answer>>,
               pc' # "send"
        PROVE  MovesOn /\ NoneForgotten'
    BY <1>1 DEF MovesOn, NoneForgotten
  <1>2. ASSUME pc \in {"dispatch", "exists", "open", "size"}, pc' = "log",
               UNCHANGED <<who, conn>>, answer' # NoAnswer
        PROVE  MovesOn /\ NoneForgotten'
    BY <1>2 DEF MovesOn, NoneForgotten, StepsLeft
  <1>a. \A c : Answer("song", c) # NoAnswer /\ Answer("list", c) # NoAnswer
               /\ NotFound # NoAnswer /\ BadRequest # NoAnswer
    BY DEF Answer, NoAnswer, NotFound, BadRequest
  <1>3. CASE SaveRequestAttempt
    BY <1>1, <1>3 DEF SaveRequestAttempt, Goes, StepsLeft
  <1>4. CASE ServeList
    BY <1>2, <1>a, <1>4 DEF ServeList, Decides
  <1>5. CASE ServeUnknown
    BY <1>2, <1>a, <1>5 DEF ServeUnknown, Decides
  <1>6. CASE LookUp
    BY <1>1, <1>6 DEF LookUp, Goes, StepsLeft
  <1>7. CASE FindFile
    <2>1. CASE Decides(NotFound)
      BY <1>2, <1>a, <1>7, <2>1 DEF FindFile, Decides
    <2>2. CASE pc' = "open" /\ UNCHANGED answer
      BY <1>1, <1>7, <2>2 DEF FindFile, StepsLeft
    <2>3. CASE UNCHANGED <<pc, answer>>
      BY <1>7, <2>3 DEF FindFile, MovesOn, NoneForgotten
    <2> QED BY <1>7, <2>1, <2>2, <2>3 DEF FindFile
  <1>8. CASE OpenSong
    <2>1. CASE Decides(NotFound)
      BY <1>2, <1>a, <1>8, <2>1 DEF OpenSong, Decides
    <2>2. CASE pc' = "size" /\ UNCHANGED answer
      BY <1>1, <1>8, <2>2 DEF OpenSong, StepsLeft
    <2> QED BY <1>8, <2>1, <2>2 DEF OpenSong
  <1>9. CASE Attach
    BY <1>2, <1>a, <1>9 DEF Attach, Decides
  <1>10. CASE LogRequest
    BY <1>10 DEF LogRequest, Goes, MovesOn, NoneForgotten, StepsLeft
  <1>11. CASE Send
    <2>1. /\ pc = "send" /\ pc' = "idle"
          /\ conn' = [conn EXCEPT ![who] = IF answer = NoAnswer THEN "mute" ELSE "replied"]
      BY <1>11 DEF Send, Replies, Forget
    <2>2. \A k \in Clients : conn'[k] # "served"
      BY <2>1 DEF NoneForgotten, IInv, DataOK
    <2> QED BY <2>1, <2>2 DEF MovesOn, NoneForgotten
  <1> QED
    BY <1>3, <1>4, <1>5, <1>6, <1>7, <1>8, <1>9, <1>10, <1>11 DEF RequestStep

LEMMA ForgetNext ==
  ASSUME IInv, NoneForgotten, [Next]_vars
  PROVE  NoneForgotten' /\ MovesOn
  <1> USE DEF lifeVars, fdVars, connVars, requestVars, windowVars, outsideVars
  <1>0. conn \in [Clients -> {"away", "open", "asked", "served", "replied", "mute"}]
    BY DEF IInv, DataOK
  <1>1. ASSUME UNCHANGED <<conn, pc, who, answer, failed>> PROVE NoneForgotten' /\ MovesOn
    BY <1>1 DEF NoneForgotten, MovesOn
  <1>2. CASE StartStep \/ LoopFails \/ LeaveLoop \/ Term
    BY <1>1, <1>2 DEF StartStep, Construct, InitBaseDaemon, InitTDBLogWorker, InitializeHTTPHandler,
                      LoopFails, LeaveLoop, Term
  <1>3. CASE OutsideStep
    BY <1>1, <1>3 DEF OutsideStep, ChangeRow, ReplaceFile, WriteFile, LoseConfig, Outside
  <1>4. ASSUME NEW k \in Clients, TakeRequest(k) PROVE NoneForgotten' /\ MovesOn
    <2>1. /\ pc = "idle" /\ conn' = [conn EXCEPT ![k] = "served"] /\ who' = k
          /\ pc' # "idle"
      BY <1>4 DEF TakeRequest, Idle, Decides
    <2>2. pc' \in {"log", "send"} /\ answer' = NoAnswer => failed'
      BY <1>4 DEF TakeRequest, Decides, Answer, NoAnswer, BadRequest
    <2>3. \A j \in Clients : conn[j] # "served"
      BY <2>1 DEF NoneForgotten
    <2> QED BY <1>0, <2>1, <2>2, <2>3 DEF NoneForgotten, MovesOn
  <1>5. ASSUME NEW k \in Clients, ConnectionStep(k) PROVE NoneForgotten' /\ MovesOn
    <2>1. /\ pc = "idle" /\ UNCHANGED <<pc, who, answer, failed>>
          /\ \E s \in {"away", "open", "asked"} : conn' = [conn EXCEPT ![k] = s]
      BY <1>5 DEF ConnectionStep, Accept, Ask, Flush, HangUp, Idle
    <2>2. \A j \in Clients : conn'[j] # "served"
      BY <1>0, <2>1 DEF NoneForgotten
    <2> QED BY <2>1, <2>2 DEF NoneForgotten, MovesOn
  <1>6. CASE UNCHANGED vars
    BY <1>1, <1>6 DEF vars
  <1> QED BY <1>2, <1>3, <1>4, <1>5, <1>6, RequestMoves DEF Next

\* No request is forgotten between libevent's call and the reply.
THEOREM NoneIsForgotten == Spec => []NoneForgotten
  <1>1. IInv /\ NoneForgotten /\ [Next]_vars => NoneForgotten'
    BY ForgetNext
  <1> QED BY <1>1, ForgetInit, Invariance, PTL DEF Spec

\* ProcessRequest() goes straight to its reply, through every failure and
\* every change of the table and the directory.
THEOREM RequestsMoveOn == Spec => [][MovesOn]_vars
  <1>1. IInv /\ NoneForgotten /\ [Next]_vars => [MovesOn]_vars
    BY ForgetNext
  <1> QED BY <1>1, NoneIsForgotten, Invariance, PTL DEF Spec

=============================================================================
