--------------------------- MODULE MCWatchDaemon ----------------------------
(* One life of watch_daemon with a few events, signals and configurations. *)
EXTENDS WatchDaemon

Whole(type) ==
  [e \in Entries |-> IF e = <<"FILE_OBSERVER", "db_type">> THEN type ELSE "value"]

Without(s, f) == [e \in {e \in DOMAIN f : e[1] # s} |-> f[e]]
WithoutKey(s, k, f) == [e \in DOMAIN f \ {<<s, k>>} |-> f[e]]

MCFiles ==
  {Whole("SQLITE"), Whole("POSTGRESQL"), Whole("MYSQL"), <<>>,
   WithoutKey("CONTENT_TDB", "passwd", Whole("SQLITE")),
   Without("CONTENT_TDB", Whole("POSTGRESQL")),
   Without("PET_LOGGER", Whole("SQLITE"))}
=============================================================================
