----------------------------- MODULE SongService -----------------------------
(***************************************************************************)
(* The two daemons together: what a client of http_daemon gets for a UID   *)
(* while watch_daemon follows the directory.                               *)
(*                                                                         *)
(* This is FileWatch with the contents of the files, the UIDs of the rows, *)
(* and a server that looks up a UID and then, in a second step, opens the  *)
(* file of that name.  A content is known by the change of the directory   *)
(* that brought it; so is the UID of the row that is inserted for it.      *)
(***************************************************************************)
EXTENDS FileWatch, FiniteSets

VARIABLES
  content,      \* what the file of each name is, 0 if there is none
  whole,        \* the files that are completely written, and not empty
  uids,         \* the UIDs of the rows with each name
  request       \* what the server is working on

serviceVars == <<content, whole, uids, request>>
svars == <<vars, serviceVars>>

Changes == 1..MaxChanges

\* A request for whose UID the table gave a name: the answer may be wrong for
\* a reason the clients must accept if it is in doubt.  Between requests: was
\* the last answer "not found"?
Request(u, f, doubt) == [uid |-> u, name |-> f, doubt |-> doubt]
NoRequest == Request(0, Journal, FALSE)
NotFound == Request(0, Journal, TRUE)
Idle == request \in {NoRequest, NotFound}

ServiceInit ==
  /\ Init
  /\ content = [f \in Songs |-> 0] /\ whole = {}
  /\ uids = [f \in Songs |-> {}]
  /\ request = NoRequest

\* A name whose row and file may differ for reasons the clients must accept:
\* the watcher has not handled what happened to it, or was at fault before.
Doubtful(f) == EventsOf(f) # {} \/ faults # {}

-----------------------------------------------------------------------------
(* The directory.                                                          *)

\* Files change under the server's hands, too.
Disturb(F) ==
  request' = [request EXCEPT !.doubt = @ \/ request.name \in F]

\* A file that is created is empty, and written bit by bit later.
CreateSong(f) ==
  /\ CreateFile(f)
  /\ content' = [content EXCEPT ![f] = Now] /\ whole' = whole \ {f}
  /\ Disturb({f}) /\ UNCHANGED uids

\* The writer closes it.  Neither descriptor asks for IN_CLOSE_WRITE.
FinishWriting(f) ==
  /\ f \in dir \ whole
  /\ whole' = whole \cup {f}
  /\ UNCHANGED <<vars, content, uids, request>>

DeleteSong(f) ==
  /\ DeleteFile(f) \/ MoveOut(f)
  /\ content' = [content EXCEPT ![f] = 0] /\ whole' = whole \ {f}
  /\ Disturb({f}) /\ UNCHANGED uids

\* It may be an empty one.
MoveSongIn(f) ==
  /\ MoveIn(f)
  /\ content' = [content EXCEPT ![f] = Now] /\ whole' \in {whole \cup {f}, whole \ {f}}
  /\ Disturb({f}) /\ UNCHANGED uids

RenameSong(f, g) ==
  /\ Rename(f, g)
  /\ content' = [content EXCEPT ![f] = 0, ![g] = Now]
  /\ whole' = (whole \ {f, g}) \cup (IF f \in whole THEN {g} ELSE {})
  /\ Disturb({f, g}) /\ UNCHANGED uids

-----------------------------------------------------------------------------
(* The watcher.                                                            *)

\* Mutant: a new row gets the UID the name had before.
UidsKept(s, e) ==
  [uids EXCEPT ![e.name] = IF s = "del" THEN {} ELSE IF @ = {} THEN {1} ELSE @]

\* Mutant: a DELETE spares the newest row of the name, which may be the only
\* one.
UidsNewestKept(s, e) ==
  [uids EXCEPT ![e.name] = IF s = "add" THEN @ \cup {e.at}
                            ELSE {u \in @ : \A v \in @ : v <= u}]

\* INSERT with a new UID, DELETE of all rows with the name.
UidsAfter(s, e) ==
  [uids EXCEPT ![e.name] = IF s = "add" THEN @ \cup {e.at} ELSE {}]

Apply(s) ==
  /\ ApplyEvent(s)
  /\ uids' = UidsAfter(s, Head(buf[s]))
  /\ UNCHANGED <<content, whole, request>>

\* What a loop does without changing a row.
LoopOnly(s) == ReadEvents(s) \/ IgnoreEvent(s) \/ FailEvent(s)

OtherWatcherStep ==
  /\ StartStep \/ Stop \/ \E s \in Sides : LoopOnly(s)
  /\ UNCHANGED serviceVars

-----------------------------------------------------------------------------
(* The server; HttpServer has its details.                                 *)

\* getFilenameByUID() gives the name of a row with the UID, which the client
\* has seen in a list at some time.
LookUp(u) ==
  /\ Idle
  /\ \E f \in Songs : u \in uids[f] /\ request' = Request(u, f, Doubtful(f))
  /\ UNCHANGED <<vars, content, whole, uids>>

\* No row has the UID: the answer is given without a look at the directory.
NotListed(u) ==
  /\ Idle /\ u <= changes
  /\ \A f \in Songs : u \notin uids[f]
  /\ request' = NotFound
  /\ UNCHANGED <<vars, content, whole, uids>>

\* The database is locked, broken or cannot be opened.  The worker reports
\* that as it reports a UID without a row, or with a text that is no name.
LookUpFails ==
  /\ Idle
  /\ request' = NotFound
  /\ UNCHANGED <<vars, content, whole, uids>>

\* The file is there and not empty.  How much of a file that is being written
\* has been written by then is open.
ServeSong ==
  /\ ~Idle /\ request.name \in dir
  /\ request' = NoRequest
  /\ UNCHANGED <<vars, content, whole, uids>>

\* There is no file of that name, or it is empty.
ServeNotFound ==
  /\ ~Idle /\ request.name \notin whole
  /\ request' = NotFound
  /\ UNCHANGED <<vars, content, whole, uids>>

\* open(), fstat() or evbuffer_add_file() fails for a file that is there.
OpenFails ==
  /\ ~Idle /\ request.name \in dir
  /\ request' = NotFound
  /\ UNCHANGED <<vars, content, whole, uids>>

-----------------------------------------------------------------------------
SongStep ==
  \E f \in Songs : \/ CreateSong(f) \/ FinishWriting(f) \/ DeleteSong(f) \/ MoveSongIn(f)
                   \/ \E g \in Songs : RenameSong(f, g)

WatcherStep == (\E s \in Sides : Apply(s)) \/ OtherWatcherStep

ServerStep ==
  \/ \E u \in Changes : LookUp(u) \/ NotListed(u)
  \/ LookUpFails \/ ServeSong \/ ServeNotFound \/ OpenFails

ServiceNext == SongStep \/ WatcherStep \/ ServerStep

ServiceSpec == ServiceInit /\ [][ServiceNext]_svars

\* As in FileWatch: systemd restarts the watcher and its loops run.  Neither
\* clients nor writers have to do anything.
FairServiceSpec ==
  /\ ServiceSpec
  /\ WF_svars(StartStep /\ UNCHANGED serviceVars)
  /\ \A s \in Sides :
       WF_svars(Apply(s) \/ (LoopOnly(s) /\ UNCHANGED serviceVars))

-----------------------------------------------------------------------------
(* Properties.                                                             *)

\* Types; a name has as many UIDs as rows, counted up to 2.
ServiceTypeOK ==
  /\ TypeOK
  /\ content \in [Songs -> 0..MaxChanges]
  /\ whole \subseteq dir /\ \A f \in Songs : content[f] # 0 <=> f \in dir
  /\ uids \in [Songs -> SUBSET Changes]
  /\ \A f \in Songs :
       rows[f] = Cardinality(uids[f]) \/ (rows[f] = 2 /\ Cardinality(uids[f]) > 2)
  /\ Idle \/ request \in [uid : Changes, name : Songs, doubt : BOOLEAN]

\* The UIDs a name should have: one that was made for the very file that is
\* there, not for an earlier one of the same name; none without a file.
OwnUid(f) == IF f \in dir THEN {content[f]} ELSE {}

\* A client that asks for a UID never gets another song than the one the UID
\* was made for; and when no call of the request fails "not found" means that
\* this song is not there as a whole, under any name.  Excepted is what the
\* clients must accept: the watcher was at fault before, it had not handled
\* the last events of that name when the server looked, or the file changed
\* while the request was served.
AnswersFit ==
  [][/\ ServeSong /\ ~request.doubt => content[request.name] = request.uid
     /\ ServeNotFound /\ ~request.doubt => \A f \in whole : content[f] # request.uid
     /\ \A u \in Changes, f \in whole :
          NotListed(u) /\ content[f] = u => Doubtful(f)]_svars

\* A file that came while the daemon was watching is listed under a UID of
\* its own sooner or later, and one that went is not listed any more, unless
\* its name changes hands again and again.
UidsCatchUp ==
  \A f \in Songs : uids[f] # OwnUid(f) ~> uids[f] = OwnUid(f) \/ faults # {}

=============================================================================
