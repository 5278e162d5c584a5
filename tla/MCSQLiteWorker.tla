--------------------------- MODULE MCSQLiteWorker ---------------------------
(* The loops of watch_daemon, and http_daemon, on one database file. *)
EXTENDS SQLiteWorker

CONSTANTS addLoop, delLoop, server, songs, contents, requests

MCCallsOf == [c \in Clients |->
                IF c = server THEN {<<"list", contents>>, <<"lookup", contents>>, <<"exec", requests>>}
                ELSE {<<"exec", songs>>}]
MCProcess   == [c \in Clients |-> IF c = server THEN "http_daemon" ELSE "watch_daemon"]
=============================================================================
