---------------------------- MODULE MCPetLogger -----------------------------
(* PetLogger with two threads and a handful of messages. *)
EXTENDS PetLogger
Symmetry == Permutations(Messages)
=============================================================================
