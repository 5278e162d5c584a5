------------------------------ MODULE TaskPool ------------------------------
(***************************************************************************)
(* What a pool of threads promises to the code that hands it functions:    *)
(* functions are started in the order in which they were handed over, each *)
(* one is started at most once, a function that was started finishes in    *)
(* its own thread, and a function is thrown away unexecuted only while the *)
(* owner is emptying the queue.                                            *)
(*                                                                         *)
(* Threads, locks and wakeups are not part of the promise.  CThreadPool    *)
(* implements this specification.                                          *)
(***************************************************************************)
EXTENDS Sequences, FiniteSets

CONSTANT Tasks          \* the functions that are ever handed to the pool

VARIABLES
  pending,              \* functions accepted and not started, oldest first
  running,              \* functions a thread is executing
  finished,             \* functions whose execution has ended
  discarded,            \* functions thrown away unexecuted
  withdrawn,            \* functions taken back by a client
  discarding            \* is the owner emptying the queue?

vars == <<pending, running, finished, discarded, withdrawn, discarding>>

Accepted == {pending[i] : i \in DOMAIN pending}
              \cup running \cup finished \cup discarded \cup withdrawn

Init ==
  /\ pending = <<>>
  /\ running = {}
  /\ finished = {}
  /\ discarded = {}
  /\ withdrawn = {}
  /\ discarding = FALSE

Submit(t) ==
  /\ t \notin Accepted
  /\ pending' = Append(pending, t)
  /\ UNCHANGED <<running, finished, discarded, withdrawn, discarding>>

\* Only the oldest pending function can be started.
Start ==
  /\ pending # <<>>
  /\ pending' = Tail(pending)
  /\ running' = running \cup {Head(pending)}
  /\ UNCHANGED <<finished, discarded, withdrawn, discarding>>

Finish(t) ==
  /\ t \in running
  /\ running' = running \ {t}
  /\ finished' = finished \cup {t}
  /\ UNCHANGED <<pending, discarded, withdrawn, discarding>>

Withdraw ==
  /\ pending # <<>>
  /\ pending' = Tail(pending)
  /\ withdrawn' = withdrawn \cup {Head(pending)}
  /\ UNCHANGED <<running, finished, discarded, discarding>>

Discard ==
  /\ discarding
  /\ pending # <<>>
  /\ pending' = Tail(pending)
  /\ discarded' = discarded \cup {Head(pending)}
  /\ UNCHANGED <<running, finished, withdrawn, discarding>>

\* Emptying ends only when there is nothing left to throw away.
SetDiscarding ==
  /\ discarding => pending = <<>>
  /\ discarding' = ~discarding
  /\ UNCHANGED <<pending, running, finished, discarded, withdrawn>>

Next ==
  \/ \E t \in Tasks : Submit(t) \/ Finish(t)
  \/ Start
  \/ Withdraw
  \/ Discard
  \/ SetDiscarding

Spec == Init /\ [][Next]_vars

=============================================================================
