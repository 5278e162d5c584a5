--------------------------- MODULE MCSongService ----------------------------
(* SongService, and the FileWatch in it, with a few songs and changes. *)
EXTENDS SongService
=============================================================================
