------------------------------ MODULE IniFile -------------------------------
(***************************************************************************)
(* The configuration of the daemons, ini_file_parser.                      *)
(*                                                                         *)
(* What boost makes of a file is a function from pairs of section and key  *)
(* to values; a file it cannot read, or rejects, is the empty function.    *)
(* The parser keeps nothing of a file: every call reads it again.          *)
(***************************************************************************)

\* *_PARAMS: the keys of each section, all of which a caller asks for.
Connection == {"host", "port", "user", "dbname", "passwd"}
Params == [HTTP_DATA     |-> {"host", "port", "db_type"},
           FILE_OBSERVER |-> {"dir", "db_type"},
           LOGS_TDB      |-> Connection,
           CONTENT_TDB   |-> Connection,
           PET_LOGGER    |-> {"dir", "max_size_mb"}]

Sections == DOMAIN Params

\* The entries of a file that lacks nothing.
Entries == UNION {{<<s, k>> : k \in Params[s]} : s \in Sections}

HasSection(file, s) == \A k \in Params[s] : <<s, k>> \in DOMAIN file

Content(ok, values) == [first |-> ok, second |-> values]
NoContent == Content(FALSE, <<>>)

\* All values of a section, or "false" and none of them.
getSectionContent(file, s) ==
  IF s \in Sections /\ HasSection(file, s)
  THEN Content(TRUE, [k \in Params[s] |-> file[<<s, k>>]])
  ELSE NoContent

\* The configuration lacks nothing that watch_daemon asks for.
Complete(file) ==
  \A s \in {"FILE_OBSERVER", "CONTENT_TDB", "PET_LOGGER"} : HasSection(file, s)
=============================================================================
