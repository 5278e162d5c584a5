-------------------------- MODULE MCUuidGenerator ---------------------------
(* Words of seven bits, all lengths around the limits. *)
EXTENDS UuidGenerator

MCTemplates == 2..Words
MCRequests  == {0, 1, 31, 32, 33, 48, 49, 80, 81, 200}
MCGaps      == {0, 1, 3, 4, 12, 44}
=============================================================================
