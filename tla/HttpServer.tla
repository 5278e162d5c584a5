----------------------------- MODULE HttpServer -----------------------------
(***************************************************************************)
(* The process http_daemon: http_server.cpp.                               *)
(*                                                                         *)
(* One thread runs the event loop of libevent.  It accepts connections,    *)
(* calls ProcessRequest() for a request, writes replies bit by bit and     *)
(* closes what it is done with.  While a request is handled the watcher    *)
(* changes the table and others change the directory; between two requests *)
(* descriptors are closed and their numbers given away again.              *)
(*                                                                         *)
(* A song goes out through evbuffer_add_file(), which makes the descriptor *)
(* libevent's: it is closed when the reply has been written.               *)
(* ProcessRequest() closes the descriptor, too.                            *)
(***************************************************************************)
EXTENDS Integers, FiniteSets, FiniteSetsExt

CONSTANTS
  Clients,
  Uids, Names, Contents,
  Log,          \* the log file, as the holder of a descriptor
  URIs,         \* what clients ask for
  MaxFd,        \* descriptors the process may have besides the standard ones
  CanFail,      \* may calls fail for other reasons than the model's own?
  MaxChanges,   \* bound: changes of the table, the directory, the configuration
  MaxAsks       \* bound: requests

None  == "none"
Empty == "empty"      \* the content of a file of size 0

\* A URI by what ProcessRequest() finds in it; {} is the empty URI.
Tags == {"/", "get_song_list", "get_by_uid", "uid=", "more"}

ASSUME HttpAssumption ==
  /\ URIs \subseteq [has : SUBSET Tags, uid : Uids \cup {None}]
  /\ Log \notin Clients /\ {None, "song"} \cap (Clients \cup {Log}) = {}
  /\ None \notin Names \cup Uids \cup Contents /\ Empty \notin Contents
  /\ MaxFd \in Nat \ {0}
  /\ CanFail \in BOOLEAN
  /\ MaxChanges \in Nat /\ MaxAsks \in Nat

Fds     == 1..MaxFd
Holders == Clients \cup {Log}

VARIABLES
  rows, files,      \* song_list and the directory
  config,           \* has the configuration its section [FILE_OBSERVER]?
  changes,
  stage, code,      \* the life of the process and its exit code
  started,          \* m_httpStartedOK
  canExit,          \* baseDaemon::m_canExit
  fds,              \* the kernel: who holds a number
  sock, logFd,      \* the numbers libevent and the logger use
  conn, uri, owns,  \* libevent: the connections, their requests, and the
                    \* descriptor to close when the reply is out
  asks,
  pc, who,          \* ProcessRequest() and the connection it works for
  name, fd, song,   \* downloadingFilename, fd and the file behind it
  answer,           \* the reply it has decided on
  named, held, failed,  \* history: since the request was taken, the names its
                    \* UID had, what files held, whether a call failed
  overlap,          \* history: was a number given away while libevent still
                    \* meant to close one?
  lost              \* those whose descriptor somebody else has closed

outsideVars == <<rows, files, config, changes>>
lifeVars    == <<stage, code, started, canExit>>
fdVars      == <<fds, lost, overlap>>
connVars    == <<conn, uri, owns, sock, asks>>
requestVars == <<pc, who, name, fd, song, answer>>
windowVars  == <<named, held, failed>>
vars == <<outsideVars, lifeVars, fdVars, logFd, connVars, requestVars, windowVars>>

Answer(kind, content) == [kind |-> kind, content |-> content]
NoAnswer   == Answer("none", None)
NotFound   == Answer("notFound", None)
BadRequest == Answer("badRequest", None)
NoUri      == [has |-> {}, uid |-> None]
NoSong     == [content |-> None, linked |-> FALSE]

Init ==
  /\ rows \in [Uids -> Names \cup {None}]
  /\ files \in [Names -> Contents \cup {Empty, None}]
  /\ config = TRUE /\ changes = 0
  /\ stage = "construct" /\ code = None /\ started = FALSE
  /\ canExit = TRUE
  /\ fds = [f \in Fds |-> None] /\ logFd = 0
  /\ conn = [k \in Clients |-> "away"]
  /\ uri = [k \in Clients |-> NoUri]
  /\ owns = [k \in Clients |-> 0] /\ sock = [k \in Clients |-> 0]
  /\ asks = 0
  /\ pc = "idle" /\ who = None /\ name = None /\ fd = 0 /\ song = NoSong
  /\ answer = NoAnswer
  /\ named = {} /\ held = {} /\ failed = FALSE
  /\ overlap = FALSE /\ lost = {}

-----------------------------------------------------------------------------
(* Descriptors.                                                            *)

\* The kernel gives the lowest free number; 0 if there is none.
Lowest(table) ==
  IF \E f \in Fds : table[f] = None THEN Min({f \in Fds : table[f] = None}) ELSE 0

\* Numbers libevent is going to close that are not its own any more.
Outstanding ==
  \E k \in Clients : owns[k] # 0 \/ k \in lost

\* The numbers in S are closed, whoever has them now.
CloseNumbers(S) == fds' = [f \in Fds |-> IF f \in S THEN None ELSE fds[f]]
HoldersOf(S) == {fds[f] : f \in S} \cap Holders

\* FAST_LOG(), as far as descriptors go.  A file that is full is closed and a
\* new one opened, or not; a log that is closed tries to open one.  A log
\* whose descriptor somebody has closed is found full: what is written there
\* is lost, or goes to whoever has the number now, and tellp() fails.
FAST_LOG ==
  \/ /\ logFd # 0 /\ Log \notin lost
     /\ UNCHANGED <<fdVars, logFd>>
  \/ LET closed == [f \in Fds |-> IF f = logFd THEN None ELSE fds[f]]
     IN  \E new \in {Lowest(closed)} \cup (IF CanFail THEN {0} ELSE {}) :
           /\ fds' = [f \in Fds |-> IF f = new THEN Log ELSE closed[f]]
           /\ logFd' = new
           /\ lost' = (lost \ {Log}) \cup (HoldersOf({logFd} \ {0}) \cap Clients)
           /\ overlap' = (overlap \/ (new # 0 /\ Outstanding))

-----------------------------------------------------------------------------
(* Start and end: http_daemon.cpp, initServer(), mainServerLoop().         *)

Ends(c) == stage' = "ended" /\ code' = c

\* httpStart() runs in the constructor.  If event_init() fails it logs
\* through a logger that does not exist yet.
Construct ==
  /\ stage = "construct"
  /\ \/ stage' = "base" /\ started' \in BOOLEAN /\ UNCHANGED code
     \/ Ends("crash") /\ UNCHANGED started
     \/ Ends("noConfig") /\ UNCHANGED started
  /\ UNCHANGED <<outsideVars, canExit, fdVars, logFd, connVars, requestVars,
                 windowVars>>

\* initBaseDaemon(), see WatchDaemon: its last statement resets the flag.
InitBaseDaemon ==
  /\ stage = "base"
  /\ \/ /\ stage' = "logWorker" /\ canExit' = FALSE
        /\ logFd' = 1 /\ fds' = [fds EXCEPT ![1] = Log]
        /\ UNCHANGED code
     \/ /\ \E c \in {"cantInit", "exception", "crash"} : Ends(c)
        /\ UNCHANGED <<canExit, logFd, fds>>
  /\ UNCHANGED <<outsideVars, started, lost, overlap, connVars, requestVars,
                 windowVars>>

\* The worker for the log of requests; its section is read again.  A PostgreSQL
\* connection that fails is finished here and again by the destructor of the
\* worker, which may crash instead of returning CANT_INIT.
InitTDBLogWorker ==
  /\ stage = "logWorker"
  /\ \/ stage' = "handler" /\ UNCHANGED code
     \/ \E c \in {"cantInit", "exception", "crash"} : Ends(c)
  /\ UNCHANGED <<outsideVars, started, canExit, fdVars, logFd, connVars,
                 requestVars, windowVars>>

InitializeHTTPHandler ==
  /\ stage = "handler"
  /\ \/ started /\ stage' = "loop" /\ UNCHANGED code
     \/ ~started /\ Ends("cantInit")
  /\ UNCHANGED <<outsideVars, started, canExit, fdVars, logFd, connVars,
                 requestVars, windowVars>>

Idle == stage = "loop" /\ pc = "idle"

\* event_base_loop() fails.
LoopFails ==
  /\ Idle /\ CanFail /\ ~canExit
  /\ canExit' = TRUE
  /\ FAST_LOG
  /\ UNCHANGED <<outsideVars, stage, code, started, connVars, requestVars,
                 windowVars>>

\* Mutant: the server first waits until the replies are out.
LeaveWhenQuiet ==
  /\ Idle /\ canExit /\ \A k \in Clients : conn[k] # "replied"
  /\ Ends("normal")
  /\ UNCHANGED <<outsideVars, started, canExit, fdVars, logFd, connVars,
                 requestVars, windowVars>>

\* while(!canExit()): replies that are not out yet never will be.
LeaveLoop ==
  /\ Idle /\ canExit
  /\ Ends("normal")
  /\ UNCHANGED <<outsideVars, started, canExit, fdVars, logFd, connVars,
                 requestVars, windowVars>>

Term ==
  /\ stage # "ended"
  /\ canExit' = TRUE
  /\ UNCHANGED <<outsideVars, stage, code, started, fdVars, logFd, connVars,
                 requestVars, windowVars>>

-----------------------------------------------------------------------------
(* ProcessRequest().                                                       *)

Goes(from, to) == stage = "loop" /\ pc = from /\ pc' = to
Decides(a) == pc' = "log" /\ answer' = a

GET_SONG_LIST(u) == "get_song_list" \in u.has
GET_CONCRETE_SONG(u) == ~GET_SONG_LIST(u) /\ "get_by_uid" \in u.has

\* getSongUIDOutOfURI() takes everything up to begPos + 32 characters after the
\* first "uid=", so "more" in the URI, behind the UID or with an earlier "uid=",
\* is taken to be part of it (see UuidGenerator).
SongUID(u) == IF "uid=" \in u.has /\ "more" \notin u.has THEN u.uid ELSE None

NameOf(u) == IF SongUID(u) = None THEN None ELSE rows[SongUID(u)]

\* libevent calls back; the window of the request opens.
TakeRequest(k) ==
  /\ Idle /\ conn[k] = "asked" /\ k \notin lost
  /\ conn' = [conn EXCEPT ![k] = "served"]
  /\ who' = k
  /\ named' = {NameOf(uri[k])} /\ held' = {<<n, files[n]>> : n \in Names}
  /\ \/ /\ pc' = "save" /\ uri[k].has # {}
        /\ failed' = FALSE /\ UNCHANGED answer
     \/ /\ uri[k].has = {} /\ Decides(BadRequest)
        /\ failed' = FALSE
     \/ /\ CanFail /\ failed' = TRUE           \* no evbuffer: no reply
        /\ Decides(NoAnswer)
  /\ UNCHANGED <<outsideVars, lifeVars, fdVars, logFd, uri, owns, sock, asks, name,
                 fd, song>>

\* saveRequestAttemptToTDB(); that it failed is logged.
SaveRequestAttempt ==
  /\ Goes("save", "dispatch")
  /\ UNCHANGED <<fdVars, logFd>> \/ (CanFail /\ FAST_LOG)
  /\ UNCHANGED <<outsideVars, lifeVars, connVars, who, name, fd, song, answer,
                 windowVars>>

ServeList ==
  /\ stage = "loop" /\ pc = "dispatch" /\ GET_SONG_LIST(uri[who])
  /\ Decides(Answer("list", None))
  /\ UNCHANGED <<outsideVars, lifeVars, fdVars, logFd, connVars, who, name, fd, song,
                 windowVars>>

ServeUnknown ==
  /\ stage = "loop" /\ pc = "dispatch"
  /\ ~GET_SONG_LIST(uri[who]) /\ ~GET_CONCRETE_SONG(uri[who])
  /\ Decides(BadRequest)
  /\ UNCHANGED <<outsideVars, lifeVars, fdVars, logFd, connVars, who, name, fd, song,
                 windowVars>>

\* getFilenameByUID(); an error ends in no name, or in a text that is none.
LookUp ==
  /\ Goes("dispatch", "exists") /\ GET_CONCRETE_SONG(uri[who])
  /\ \/ name' = NameOf(uri[who]) /\ UNCHANGED failed
     \/ CanFail /\ name' = None /\ failed' = TRUE
  /\ UNCHANGED <<outsideVars, lifeVars, fdVars, logFd, connVars, who, fd, song,
                 answer, named, held>>

Exists(n) == n \in Names /\ files[n] # None

\* The directory is looked up in the configuration, which is read again;
\* without its section at("dir") throws, through libevent, up to main().
FindFile ==
  /\ stage = "loop" /\ pc = "exists"
  /\ \/ /\ config /\ ~Exists(name)
        /\ Decides(NotFound) /\ UNCHANGED <<stage, code>>
     \/ /\ config /\ Exists(name)
        /\ pc' = "open" /\ UNCHANGED <<answer, stage, code>>
     \/ ~config /\ Ends("exception") /\ UNCHANGED <<pc, answer>>
  /\ UNCHANGED <<outsideVars, started, canExit, fdVars, logFd, connVars, who,
                 name, fd, song, windowVars>>

\* Mutant: what open() returns is not tested.
OpenUnchecked ==
  /\ Goes("open", "size")
  /\ \/ /\ Exists(name) /\ Lowest(fds) # 0
        /\ fd' = Lowest(fds)
        /\ fds' = [fds EXCEPT ![Lowest(fds)] = "song"]
        /\ song' = [content |-> files[name], linked |-> TRUE]
     \/ /\ ~Exists(name) \/ Lowest(fds) = 0
        /\ fd' = -1 /\ UNCHANGED <<fds, song>>
  /\ UNCHANGED <<answer, failed, overlap>>
  /\ UNCHANGED <<outsideVars, lifeVars, lost, logFd, connVars, who, name, named, held>>

\* open(): the file may have gone, and descriptors may be used up.
OpenSong ==
  /\ stage = "loop" /\ pc = "open"
  /\ \/ /\ Exists(name) /\ Lowest(fds) # 0
        /\ pc' = "size" /\ fd' = Lowest(fds)
        /\ fds' = [fds EXCEPT ![Lowest(fds)] = "song"]
        /\ song' = [content |-> files[name], linked |-> TRUE]
        /\ overlap' = (overlap \/ Outstanding)
        /\ UNCHANGED <<answer, failed>>
     \/ /\ ~Exists(name) \/ Lowest(fds) = 0
        /\ Decides(NotFound)
        /\ failed' = (failed \/ Lowest(fds) = 0)
        /\ UNCHANGED <<fd, fds, song, overlap>>
  /\ UNCHANGED <<outsideVars, lifeVars, lost, logFd, connVars, who, name, named, held>>

\* Mutant: the size is not tested.
AttachUnseen ==
  /\ stage = "loop" /\ pc = "size"
  /\ Decides(Answer("song", song.content))
  /\ owns' = [owns EXCEPT ![who] = fd]
  /\ UNCHANGED failed
  /\ UNCHANGED <<outsideVars, lifeVars, fdVars, logFd, conn, uri, sock, asks, who, name,
                 fd, song, named, held>>

\* fstat() and evbuffer_add_file().
Attach ==
  /\ stage = "loop" /\ pc = "size"
  /\ \/ /\ song.content # Empty
        /\ Decides(Answer("song", song.content))
        /\ owns' = [owns EXCEPT ![who] = fd]
        /\ UNCHANGED failed
     \/ /\ song.content = Empty \/ CanFail
        /\ Decides(NotFound)
        /\ failed' = (failed \/ song.content # Empty)
        /\ UNCHANGED owns
  /\ UNCHANGED <<outsideVars, lifeVars, fdVars, logFd, conn, uri, sock, asks, who, name,
                 fd, song, named, held>>

LogRequest ==
  /\ Goes("log", "send")
  /\ FAST_LOG
  /\ UNCHANGED <<outsideVars, lifeVars, connVars, who, name, fd, song, answer,
                 windowVars>>

\* What every way out of ProcessRequest() does to its own variables.
Forget ==
  /\ pc' = "idle" /\ who' = None /\ name' = None /\ song' = NoSong
  /\ answer' = NoAnswer
  /\ named' = {} /\ held' = {} /\ failed' = FALSE

Replies(state) ==
  /\ conn' = [conn EXCEPT ![who] = state]
  /\ uri' = [uri EXCEPT ![who] = NoUri]

\* Mutant: a file that could not be sent stays open.
SendLeaving ==
  /\ stage = "loop" /\ pc = "send"
  /\ Replies(IF answer = NoAnswer THEN "mute" ELSE "replied")
  /\ CloseNumbers(IF answer.kind = "song" THEN {fd} ELSE {}) /\ UNCHANGED lost
  /\ Forget /\ fd' = 0
  /\ UNCHANGED <<outsideVars, lifeVars, overlap, logFd, owns, sock, asks>>

\* Mutant: a bad request is not answered.
SendGood ==
  /\ stage = "loop" /\ pc = "send"
  /\ Replies(CASE answer = NoAnswer -> "mute" [] answer = BadRequest -> "served"
                [] OTHER -> "replied")
  /\ CloseNumbers({fd} \ {0}) /\ lost' = lost \cup HoldersOf({fd} \ {0})
  /\ Forget /\ fd' = 0
  /\ UNCHANGED <<outsideVars, lifeVars, overlap, logFd, owns, sock, asks>>

\* Mutant: the number of the last song is kept, and closed once more after
\* the next request.
SendKeeping ==
  /\ stage = "loop" /\ pc = "send"
  /\ Replies(IF answer = NoAnswer THEN "mute" ELSE "replied")
  /\ CloseNumbers({fd} \ {0}) /\ lost' = lost \cup HoldersOf({fd} \ {0})
  /\ Forget /\ UNCHANGED fd
  /\ UNCHANGED <<outsideVars, lifeVars, overlap, logFd, owns, sock, asks>>

\* evhttp_send_reply() hands the reply to libevent; close(fd).
Send ==
  /\ stage = "loop" /\ pc = "send"
  /\ Replies(IF answer = NoAnswer THEN "mute" ELSE "replied")
  /\ CloseNumbers({fd} \ {0}) /\ lost' = lost \cup HoldersOf({fd} \ {0})
  /\ Forget /\ fd' = 0
  /\ UNCHANGED <<outsideVars, lifeVars, overlap, logFd, owns, sock, asks>>

-----------------------------------------------------------------------------
(* libevent and the clients.                                               *)

\* What libevent does with a connection whose descriptor is gone is not
\* modelled, but that it closes the number again when it gives up.
Accept(k) ==
  /\ Idle /\ conn[k] = "away" /\ Lowest(fds) # 0
  /\ conn' = [conn EXCEPT ![k] = "open"]
  /\ sock' = [sock EXCEPT ![k] = Lowest(fds)]
  /\ fds' = [fds EXCEPT ![Lowest(fds)] = k]
  /\ overlap' = (overlap \/ Outstanding)
  /\ UNCHANGED <<outsideVars, lifeVars, lost, logFd, uri, owns, asks, requestVars,
                 windowVars>>

Ask(k, u) ==
  /\ Idle /\ conn[k] = "open" /\ k \notin lost /\ asks < MaxAsks
  /\ asks' = asks + 1
  /\ conn' = [conn EXCEPT ![k] = "asked"]
  /\ uri' = [uri EXCEPT ![k] = u]
  /\ UNCHANGED <<outsideVars, lifeVars, fdVars, logFd, owns, sock, requestVars,
                 windowVars>>

Owned(k) == {owns[k]} \ {0}

\* The reply is out.
Flush(k) ==
  /\ Idle /\ conn[k] = "replied" /\ k \notin lost
  /\ conn' = [conn EXCEPT ![k] = "open"]
  /\ CloseNumbers(Owned(k)) /\ lost' = lost \cup HoldersOf(Owned(k))
  /\ owns' = [owns EXCEPT ![k] = 0]
  /\ UNCHANGED <<outsideVars, lifeVars, overlap, logFd, uri, sock, asks, requestVars,
                 windowVars>>

\* The client hangs up, or libevent loses patience with a silent connection.
HangUp(k) ==
  /\ Idle /\ conn[k] \notin {"away", "served"}
  /\ conn' = [conn EXCEPT ![k] = "away"]
  /\ CloseNumbers(Owned(k) \cup {sock[k]})
  /\ lost' = (lost \cup HoldersOf(Owned(k) \cup {sock[k]})) \ {k}
  /\ owns' = [owns EXCEPT ![k] = 0] /\ sock' = [sock EXCEPT ![k] = 0]
  /\ uri' = [uri EXCEPT ![k] = NoUri]
  /\ UNCHANGED <<outsideVars, lifeVars, overlap, logFd, asks, requestVars,
                 windowVars>>

-----------------------------------------------------------------------------
(* Outside: the watcher, whoever manages the songs and the configuration.  *)

\* Only a request for a song reads these, until its reply is decided on: a
\* change at another time is as good as another beginning, or as the same
\* change when the next such request comes.
Outside ==
  /\ stage = "loop" /\ pc \in {"save", "dispatch", "exists", "open", "size"}
  /\ GET_CONCRETE_SONG(uri[who]) /\ changes < MaxChanges
  /\ changes' = changes + 1
  /\ LET uid == SongUID(uri[who])
     IN  named' = named \cup {IF uid = None THEN None ELSE rows'[uid]}
  /\ held' = held \cup {<<n, files'[n]>> : n \in Names}
  /\ UNCHANGED <<lifeVars, fdVars, logFd, connVars, pc, who, name, fd, answer, failed>>

ChangeRow(u) ==
  /\ \E n \in Names \cup {None} : n # rows[u] /\ rows' = [rows EXCEPT ![u] = n]
  /\ UNCHANGED <<files, config, song>>
  /\ Outside

\* A new file of that name, or none.
ReplaceFile(n) ==
  /\ \E c \in Contents \cup {Empty, None} : c # files[n] /\ files' = [files EXCEPT ![n] = c]
  /\ song' = IF name = n /\ fd # 0 THEN [song EXCEPT !.linked = FALSE] ELSE song
  /\ UNCHANGED <<rows, config>>
  /\ Outside

\* The file is written while it may be open here.
WriteFile(n) ==
  /\ files[n] # None
  /\ \E c \in Contents : /\ c # files[n] /\ files' = [files EXCEPT ![n] = c]
                         /\ song' = IF name = n /\ fd # 0 /\ song.linked
                                    THEN [song EXCEPT !.content = c] ELSE song
  /\ UNCHANGED <<rows, config>>
  /\ Outside

LoseConfig ==
  /\ config /\ config' = FALSE
  /\ UNCHANGED <<rows, files, song>>
  /\ Outside

-----------------------------------------------------------------------------
StartStep ==
  Construct \/ InitBaseDaemon \/ InitTDBLogWorker \/ InitializeHTTPHandler

RequestStep ==
  \/ SaveRequestAttempt \/ ServeList \/ ServeUnknown \/ LookUp \/ FindFile \/ OpenSong
  \/ Attach \/ LogRequest \/ Send

ConnectionStep(k) ==
  Accept(k) \/ (\E u \in URIs : Ask(k, u)) \/ Flush(k) \/ HangUp(k)

OutsideStep ==
  \/ \E u \in Uids : ChangeRow(u)
  \/ \E n \in Names : ReplaceFile(n) \/ WriteFile(n)
  \/ LoseConfig

Next ==
  \/ StartStep \/ LoopFails \/ LeaveLoop \/ Term
  \/ RequestStep \/ \E k \in Clients : TakeRequest(k) \/ ConnectionStep(k)
  \/ OutsideStep

Spec == Init /\ [][Next]_vars

\* The thread runs, and libevent calls back for every request it has read:
\* it handles all active events in every round.  Clients need not do anything.
Fairness ==
  /\ WF_vars(StartStep \/ RequestStep \/ LeaveLoop)
  /\ \A k \in Clients : SF_vars(TakeRequest(k))
FairSpec == Spec /\ Fairness

-----------------------------------------------------------------------------
(* Properties.                                                             *)

DataOK ==
  /\ rows \in [Uids -> Names \cup {None}]
  /\ files \in [Names -> Contents \cup {Empty, None}]
  /\ changes \in 0..MaxChanges /\ asks \in 0..MaxAsks
  /\ stage \in {"construct", "base", "logWorker", "handler", "loop", "ended"}
  /\ code \in {None, "normal", "noConfig", "cantInit", "exception", "crash"}
  /\ config \in BOOLEAN /\ started \in BOOLEAN /\ canExit \in BOOLEAN
  /\ fds \in [Fds -> Holders \cup {"song", None}]
  /\ logFd \in 0..MaxFd /\ fd \in 0..MaxFd
  /\ sock \in [Clients -> 0..MaxFd] /\ owns \in [Clients -> 0..MaxFd]
  /\ conn \in [Clients -> {"away", "open", "asked", "served", "replied", "mute"}]
  /\ uri \in [Clients -> URIs \cup {NoUri}]
  /\ pc \in {"idle", "save", "dispatch", "exists", "open", "size", "log", "send"}
  /\ who \in Clients \cup {None} /\ name \in Names \cup {None}
  /\ song \in [content : Contents \cup {Empty, None}, linked : BOOLEAN]
  /\ named \subseteq Names \cup {None}
  /\ failed \in BOOLEAN /\ overlap \in BOOLEAN
  /\ lost \subseteq Holders

SocketsKnown ==
  \A k \in Clients :
    conn[k] # "away" => sock[k] # 0 /\ (k \notin lost => fds[sock[k]] = k)

\* Types; a connection that lost nothing holds the number libevent knows.
TypeOK == DataOK /\ SocketsKnown

\* While the request was handled its UID had a name and the file of that
\* name that content; nothing else is sent.  It is "not found" only if at
\* some time there was no row, no file or an empty one, or a call failed.
RepliesAreTrue ==
  pc \in {"log", "send"} /\ GET_CONCRETE_SONG(uri[who]) =>
    /\ answer.kind = "song" =>
         answer.content # Empty /\ \E n \in named \ {None} : <<n, answer.content>> \in held
    /\ answer = NotFound =>
         \/ failed \/ None \in named
         \/ \E n \in named : <<n, None>> \in held \/ <<n, Empty>> \in held

\* libevent's second close() of a song's number does no harm as long as
\* nothing is opened or accepted while a song is on its way to a client.
LostOnlyInOverlap == lost # {} => overlap

\* No way out of ProcessRequest() leaves a song open.
NoSongLeftOpen == Idle => \A f \in Fds : fds[f] # "song"

\* Every request is answered, unless the process ends, the client leaves,
\* there is no memory for a reply, or the connection has lost its
\* descriptor.
RequestsAreAnswered ==
  \A k \in Clients :
    conn[k] \in {"asked", "served"} ~>
      conn[k] \in {"replied", "away", "mute"} \/ k \in lost \/ stage = "ended"

\* Once the flag is set, by a signal or by a failure, the server ends, also
\* with requests waiting and replies nobody reads.
FlagEndsServer == (stage = "loop" /\ canExit) ~> stage = "ended"

=============================================================================
