-------------------------- MODULE MCPostgreWorker ---------------------------
(* Two threads that share a worker, one that writes, one that does both. *)
EXTENDS PostgreWorker

CONSTANTS writer, both, worker

MCCallsOf == [c \in Clients |->
                IF c = writer THEN {<<"exec", worker>>} ELSE Ops \X {worker}]
=============================================================================
