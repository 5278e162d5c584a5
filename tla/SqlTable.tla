------------------------------ MODULE SqlTable ------------------------------
(***************************************************************************)
(* What the callers of a database worker rely on: a call takes effect at   *)
(* one moment between its beginning and its end, a statement is answered   *)
(* "true" only when it was applied, and a query is answered with what the  *)
(* table held at that moment, or with nothing.                             *)
(*                                                                         *)
(* Where answers cannot be lost "false" means that a statement was not     *)
(* applied.  Where they can, it may have been, or it may still be.         *)
(*                                                                         *)
(* SQLiteWorker and PostgreWorker implement this specification.            *)
(***************************************************************************)
EXTENDS Naturals

CONSTANTS
  Clients,              \* the threads that call
  MaxCalls,             \* bound: calls of each client
  CanLoseAnswers        \* is there a link on which answers are lost?

Ids == Clients \X (1..MaxCalls)

VARIABLES
  table,                \* the statements applied so far
  made,                 \* calls each client has made
  phase,                \* "idle", "statement", "query" or "answered"
  inDoubt,              \* statements answered "false" that may still be applied
  answer                \* to a statement "true" or "false", to a query the
                        \* rows it saw or "nothing"

vars == <<table, made, phase, inDoubt, answer>>

Answer(kind, rows) == [kind |-> kind, rows |-> rows]
NoAnswer == Answer("none", {})

Init ==
  /\ table = {}
  /\ made = [c \in Clients |-> 0]
  /\ phase = [c \in Clients |-> "idle"]
  /\ inDoubt = {}
  /\ answer = [c \in Clients |-> NoAnswer]

Call(c, kind) ==
  /\ phase[c] = "idle" /\ made[c] < MaxCalls
  /\ made' = [made EXCEPT ![c] = @ + 1]
  /\ phase' = [phase EXCEPT ![c] = kind]
  /\ UNCHANGED <<table, inDoubt, answer>>

Answers(c, a) ==
  /\ phase' = [phase EXCEPT ![c] = "answered"]
  /\ answer' = [answer EXCEPT ![c] = a]
  /\ UNCHANGED made

\* The statement of a call is known by the client and the number of the call.
Apply(c) ==
  /\ phase[c] = "statement"
  /\ table' = table \cup {<<c, made[c]>>}
  /\ Answers(c, Answer("true", {}))
  /\ UNCHANGED inDoubt

Refuse(c) ==
  /\ phase[c] = "statement"
  /\ Answers(c, Answer("false", {}))
  /\ \/ UNCHANGED inDoubt
     \/ CanLoseAnswers /\ inDoubt' = inDoubt \cup {<<c, made[c]>>}
  /\ UNCHANGED table

Look(c) ==
  /\ phase[c] = "query"
  /\ Answers(c, Answer("rows", table)) \/ Answers(c, Answer("nothing", {}))
  /\ UNCHANGED <<table, inDoubt>>

\* The answer is on its way, and lost.
Lose(c) ==
  /\ CanLoseAnswers
  /\ phase[c] = "answered"
  /\ \/ answer[c].kind = "true" /\ Answers(c, Answer("false", {}))
     \/ answer[c].kind = "rows" /\ Answers(c, Answer("nothing", {}))
  /\ UNCHANGED <<table, inDoubt>>

\* A statement nobody waits for any more is applied after all.
ApplyLate(i) ==
  /\ i \in inDoubt
  /\ table' = table \cup {i} /\ inDoubt' = inDoubt \ {i}
  /\ UNCHANGED <<made, phase, answer>>

Return(c) ==
  /\ phase[c] = "answered"
  /\ phase' = [phase EXCEPT ![c] = "idle"]
  /\ answer' = [answer EXCEPT ![c] = NoAnswer]
  /\ UNCHANGED <<table, made, inDoubt>>

Next ==
  \/ \E c \in Clients :
       \/ Call(c, "statement") \/ Call(c, "query")
       \/ Apply(c) \/ Refuse(c) \/ Look(c) \/ Lose(c) \/ Return(c)
  \/ \E i \in Ids : ApplyLate(i)

Spec == Init /\ [][Next]_vars

=============================================================================
