----------------------------- MODULE FileWatch ------------------------------
(***************************************************************************)
(* The file watcher: filewatch_daemon.cpp and inoty_wrapper.cpp.           *)
(*                                                                         *)
(* Two inotify descriptors watch the directory of songs, one for arrivals  *)
(* and one for departures; a loop of its own reads each of them and turns  *)
(* every event into an INSERT or a DELETE on song_list.  The kernel keeps  *)
(* each descriptor's events in order, nothing keeps the two in step.       *)
(*                                                                         *)
(* How the loops and the process end is the subject of WatchDaemon; here a *)
(* stop of any kind (signal, crash) loses what is in memory, and systemd   *)
(* starts the daemon again.                                                *)
(***************************************************************************)
EXTENDS Integers, Sequences, SequencesExt

CONSTANTS
  Songs,        \* file names
  Journal,      \* name of the rollback journal SQLite keeps beside its file
  DbInDir,      \* is the database file in the watched directory?
  CanFail,      \* may a statement fail (another process holds the lock)?
  BufMax,       \* events that fit m_buf
  QueueMax,     \* bound: events the kernel queues for a descriptor
  MaxChanges,   \* bound: changes of the directory
  MaxStops      \* bound: stops of the daemon

ASSUME WatchAssumption ==
  /\ Journal \notin Songs
  /\ DbInDir \in BOOLEAN /\ CanFail \in BOOLEAN
  /\ BufMax \in Nat \ {0} /\ QueueMax \in Nat \ {0}
  /\ MaxChanges \in Nat /\ MaxStops \in Nat

Names == Songs \cup {Journal}
Sides == {"add", "del"}       \* m_inotyInAdd and m_inotyInDelete
Other(s) == IF s = "add" THEN "del" ELSE "add"

VARIABLES
  dir,          \* songs in the directory
  queue,        \* events the kernel holds for each descriptor
  buf,          \* events a loop has read and not handled
  stage,        \* how far the daemon has come up
  rows,         \* rows of song_list with each name; 2 stands for "several"
  changes, stops,
  faults        \* history: what first happened that can falsify the table

vars == <<dir, queue, buf, stage, rows, changes, stops, faults>>

\* An event: what happened, to which file, and (for the properties only) as
\* which change of the directory.
Event(kind, f, at) == [kind |-> kind, name |-> f, at |-> at]
Kinds == {"create", "movedTo", "delete", "movedFrom"}
SideOf(kind) == IF kind \in {"create", "movedTo"} THEN "add" ELSE "del"

EventSet == {[kind |-> k, name |-> f, at |-> n] :
               k \in Kinds, f \in Names, n \in 0..MaxChanges}

\* One type invariant for the module.
TypeOK ==
  /\ dir \subseteq Songs
  /\ queue \in [Sides -> Seq(EventSet)] /\ buf \in [Sides -> Seq(EventSet)]
  /\ \A s \in Sides : /\ Len(queue[s]) <= QueueMax /\ Len(buf[s]) <= BufMax
                      /\ \A e \in ToSet(queue[s]) \cup ToSet(buf[s]) : SideOf(e.kind) = s
  /\ stage \in {"down", "halfWatched", "watched", "up"}
  /\ rows \in [Names -> 0..2]
  /\ changes \in 0..MaxChanges /\ stops \in 0..MaxStops
  /\ faults \subseteq {"unwatched", "merged", "overflow", "replaced", "overtaken",
                       "failed", "forgotten"}

Init ==
  /\ dir = {}
  /\ queue = [s \in Sides |-> <<>>]
  /\ buf = [s \in Sides |-> <<>>]
  /\ stage = "down"
  /\ rows = [f \in Names |-> 0]
  /\ changes = 0 /\ stops = 0
  /\ faults = {}

-----------------------------------------------------------------------------
(* The kernel.                                                             *)

Watched(s) == \/ stage \in {"watched", "up"}
              \/ stage = "halfWatched" /\ s = "del"

\* An event equal to the last one still queued is merged with it.
Merges(e) ==
  LET last == queue[SideOf(e.kind)]
  IN  /\ last # <<>>
      /\ Last(last).kind = e.kind /\ Last(last).name = e.name

Full(e) == Len(queue[SideOf(e.kind)]) = QueueMax

\* What a step makes known: at most one event for each descriptor.
None == [kind |-> "none", name |-> Journal, at |-> 0]
Events(arrival, departure) ==
  [s \in Sides |-> IF s = "add" THEN arrival ELSE departure]

Emit(events) ==
  queue' = [s \in Sides |->
              IF events[s] = None \/ ~Watched(s) \/ Merges(events[s]) \/ Full(events[s])
              THEN queue[s] ELSE Append(queue[s], events[s])]

\* What can falsify the table is remembered when it happens first.
Blame(new) == faults' = IF faults = {} THEN new ELSE faults

Loss(e) ==
  CASE e = None -> {}
    [] e # None /\ ~Watched(SideOf(e.kind)) -> {"unwatched"}
    [] e # None /\ Watched(SideOf(e.kind)) /\ Merges(e) -> {"merged"}
    [] e # None /\ Watched(SideOf(e.kind)) /\ ~Merges(e) /\ Full(e) -> {"overflow"}
    [] OTHER -> {}

-----------------------------------------------------------------------------
(* Whoever manages the songs.                                              *)

Change(events, newDir, replaced) ==
  /\ changes < MaxChanges
  /\ changes' = changes + 1
  /\ dir' = newDir
  /\ Emit(events)
  /\ Blame(Loss(events["add"]) \cup Loss(events["del"])
            \cup (IF replaced THEN {"replaced"} ELSE {}))
  /\ UNCHANGED <<buf, stage, rows, stops>>

Now == changes + 1

CreateFile(f) ==
  /\ f \notin dir
  /\ Change(Events(Event("create", f, Now), None), dir \cup {f}, FALSE)

DeleteFile(f) ==
  /\ f \in dir
  /\ Change(Events(None, Event("delete", f, Now)), dir \ {f}, FALSE)

\* mv from elsewhere; a file of that name is replaced without an event.
MoveIn(f) ==
  Change(Events(Event("movedTo", f, Now), None), dir \cup {f}, f \in dir)

MoveOut(f) ==
  /\ f \in dir
  /\ Change(Events(None, Event("movedFrom", f, Now)), dir \ {f}, FALSE)

Rename(f, g) ==
  /\ f \in dir /\ g # f
  /\ Change(Events(Event("movedTo", g, Now), Event("movedFrom", f, Now)),
            (dir \ {f}) \cup {g}, g \in dir)

-----------------------------------------------------------------------------
(* The daemon.                                                             *)

\* The constructor of fileWatch: the descriptor for departures first.
WatchDepartures ==
  /\ stage = "down" /\ stage' = "halfWatched"
  /\ UNCHANGED <<dir, queue, buf, rows, changes, stops, faults>>

WatchArrivals ==
  /\ stage = "halfWatched" /\ stage' = "watched"
  /\ UNCHANGED <<dir, queue, buf, rows, changes, stops, faults>>

\* initFileWatch() succeeds and runService() starts the loops.  What the
\* directory already holds is not looked at.
RunService ==
  /\ stage = "watched" /\ stage' = "up"
  /\ UNCHANGED <<dir, queue, buf, rows, changes, stops, faults>>

\* read(): blocks until there is an event, then fills m_buf.
ReadEvents(s) ==
  /\ stage = "up"
  /\ buf[s] = <<>> /\ queue[s] # <<>>
  /\ LET n == IF Len(queue[s]) < BufMax THEN Len(queue[s]) ELSE BufMax
     IN  /\ buf' = [buf EXCEPT ![s] = SubSeq(queue[s], 1, n)]
         /\ queue' = [queue EXCEPT ![s] = SubSeq(queue[s], n + 1, Len(queue[s]))]
  /\ UNCHANGED <<dir, stage, rows, changes, stops, faults>>

Pending(s) == ToSet(queue[s]) \cup ToSet(buf[s])

EventsOf(f) == {e \in Pending("add") \cup Pending("del") : e.name = f}

\* Does the other loop still have to handle something older of this file?
Overtakes(s, e) ==
  \E o \in Pending(Other(s)) : o.name = e.name /\ o.at < e.at

\* Mutant: the journal is taken for a song.
IgnoresNothing(f) == FALSE

\* Both callbacks return at once for names with ".sqlite-journal".
Ignored(f) == f = Journal

\* INSERT adds a row, whatever the table holds; DELETE removes every row
\* with that name.
RowsAfter(s, f) ==
  [rows EXCEPT ![f] = IF s = "add" THEN (IF @ = 0 THEN 1 ELSE 2) ELSE 0]

\* SQLite creates its journal for a transaction that writes and removes it.
JournalNews ==
  IF DbInDir
  THEN Events(Event("create", Journal, 0), Event("delete", Journal, 0))
  ELSE Events(None, None)

JournalEvents == IF rows' # rows THEN JournalNews ELSE Events(None, None)

\* What the callback of one event has in common, whatever comes of it.
Callback(s, ignored) ==
  /\ stage = "up" /\ buf[s] # <<>>
  /\ Ignored(Head(buf[s]).name) = ignored
  /\ buf' = [buf EXCEPT ![s] = Tail(@)]
  /\ UNCHANGED <<dir, stage, changes, stops>>

IgnoreEvent(s) ==
  /\ Callback(s, TRUE)
  /\ UNCHANGED <<rows, queue, faults>>

\* Mutant: the last of the events read together is skipped.
ApplyButLast(s) ==
  /\ Callback(s, FALSE)
  /\ rows' = IF Len(buf[s]) = 1 THEN rows ELSE RowsAfter(s, Head(buf[s]).name)
  /\ UNCHANGED <<queue, faults>>

\* One INSERT or DELETE.
ApplyEvent(s) ==
  /\ Callback(s, FALSE)
  /\ rows' = RowsAfter(s, Head(buf[s]).name)
  /\ Emit(JournalEvents)
  /\ Blame(IF Overtakes(s, Head(buf[s])) THEN {"overtaken"} ELSE {})

\* If the statement fails a message is printed and the event is gone.  It may
\* have failed before SQLite made its journal, or at the end of it.
FailEvent(s) ==
  /\ CanFail /\ Callback(s, FALSE)
  /\ Blame({"failed"})
  /\ UNCHANGED queue \/ Emit(JournalNews)
  /\ UNCHANGED rows

HandleEvent(s) == IgnoreEvent(s) \/ ApplyEvent(s) \/ FailEvent(s)

\* The process ends, during its start or later.
Stop ==
  /\ stage # "down" /\ stops < MaxStops
  /\ stage' = "down"
  /\ stops' = stops + 1
  /\ queue' = [s \in Sides |-> <<>>]
  /\ buf' = [s \in Sides |-> <<>>]
  /\ Blame(IF \E s \in Sides : \E e \in Pending(s) : e.name \in Songs
           THEN {"forgotten"} ELSE {})
  /\ UNCHANGED <<dir, rows, changes>>

-----------------------------------------------------------------------------
ChangeStep ==
  \E f \in Songs : \/ CreateFile(f) \/ DeleteFile(f) \/ MoveIn(f) \/ MoveOut(f)
                   \/ \E g \in Songs : Rename(f, g)

StartStep == WatchDepartures \/ WatchArrivals \/ RunService
LoopStep(s) == ReadEvents(s) \/ HandleEvent(s)

Next == ChangeStep \/ StartStep \/ (\E s \in Sides : LoopStep(s)) \/ Stop

Spec == Init /\ [][Next]_vars

-----------------------------------------------------------------------------
(* Properties.                                                             *)

Settled == \A s \in Sides : queue[s] = <<>> /\ buf[s] = <<>>
RowsFor(f) == IF f \in dir THEN 1 ELSE 0

\* When the watcher has nothing left to do the table lists exactly the
\* files of the directory, unless one of these happened: a change the
\* descriptor did not see because it was not open, was full, or merged it
\* with an equal event; a file replaced by another of the same name; a
\* statement that failed; an event lost in a stop; or the two loops handling
\* an arrival and a departure of a file in the wrong order.
SettledExact ==
  Settled /\ faults = {} => \A f \in Songs : rows[f] = RowsFor(f)

\* The daemon's own writes to a database inside the watched directory do not
\* keep it busy: when the directory stays as it is, the loops come to rest.
ComesToRest == <>[](Settled /\ stage = "up")

=============================================================================
