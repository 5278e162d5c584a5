---------------------------- MODULE MCHttpServer ----------------------------
(* HttpServer with one song that may be replaced, and every kind of URI. *)
EXTENDS HttpServer, TLC

CONSTANTS u1

Uri(has, uid) == [has |-> has, uid |-> uid]
MCURIs == {Uri({}, "none"), Uri({"/"}, "none"),
           Uri({"/", "get_song_list"}, "none"),
           Uri({"/", "get_by_uid", "uid="}, u1),
           Uri({"/", "get_by_uid", "uid=", "more"}, u1)}
=============================================================================
