--------------------------- MODULE MCCThreadPool ----------------------------
(* CThreadPool on small sets of producers and functions. *)
EXTENDS CThreadPool, TLC

\* Functions and producers are interchangeable; workers are numbered.
Symmetry == Permutations(Tasks) \cup Permutations(Producers)

=============================================================================
