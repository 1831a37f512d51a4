------------------------------ MODULE MCArchive ------------------------------
(* Instance of Archive for TLC. *)
EXTENDS Archive

CONSTANTS MaxLength  \* bound: entries of an archive

MCDb == [p \in Project |-> CASE p = "tagdb" -> "tagdb.db"
                             [] p = "HOME" -> "HOME.db"
                             [] p = "a b" -> "a b.db"]

\* Plain files of any size.
MCFiles ==
  {[kind |-> "file", rooted |-> FALSE, parts |-> <<p>>, size |-> s] :
     p \in {"HOME.db", "tagdb.db", "img"}, s \in 0 .. 3}

\* Files at other paths: a directory called like a database, ones that go up
\* and stay inside, ones that climb out, and rooted ones.
MCPaths ==
  {<<"a b.db">>, <<"old.bak">>, <<"HOME.db", "img">>, <<"img", "..", "HOME.db">>,
   <<"img", "..">>, <<"img", "..", "..", "HOME.db">>}
MCOthers ==
  {[kind |-> "file", rooted |-> FALSE, parts |-> p, size |-> 1] : p \in MCPaths}
  \cup {[kind |-> "file", rooted |-> TRUE, parts |-> p, size |-> 1] :
          p \in {<<"HOME.db">>, <<"..">>}}
  \cup {[kind |-> k, rooted |-> FALSE, parts |-> p, size |-> 1] :
          k \in {"other", "damaged"}, p \in {<<"img">>, <<"img", "..">>}}

MCEntries == MCFiles \cup MCOthers

\* Any three entries, and one repeated until it is one too many.
MCArchives ==
  UNION {[1 .. n -> MCEntries] : n \in 0 .. MaxLength}
  \cup {[i \in 1 .. MaxArchiveEntries + 1 |-> e] : e \in MCEntries}
==============================================================================
