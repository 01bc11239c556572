---------------------------- MODULE MCFileStorage ----------------------------
(* An instance of FileStorage for TLC.  A behaviour is about one matter:    *)
(* failures without collections, a second branch, names, snapshots, or      *)
(* streams.                                                                 *)
EXTENDS FileStorage, TLC

VARIABLE about  \* bound: what this behaviour has beside commits and one crash

\* The files there are once the collections under way have written theirs.
FilesDue ==
  Cardinality(Written) + barrier - collected - (IF job.kind = "install" THEN 1 ELSE 0)

OnlyAbout ==
  /\ about \in {"syncs", "appends"} => barrier = 0
  /\ about # "syncs" => syncFaults = 0 /\ crashes <= 1
  /\ about # "appends" => writeFaults = 0
  /\ about # "branches" => barrier <= 1 /\ FilesDue <= 2
  /\ about \notin {"syncs", "branches"} => job.kind # "create"
  /\ about # "names" => job.kind # "retain"
  /\ about # "snapshots" => \A r \in Readers : readers[r] = NoReader
  /\ about = "streams" => crashes = 0  \* the engine is reopened after a close
  /\ about # "streams" =>
       Cardinality(DOMAIN content) < MaxCommits /\ \A t \in Streams : streams[t] = NoStream

MCInit == Init /\ about \in {"syncs", "appends", "branches", "names", "snapshots", "streams"}
MCNext == UNCHANGED about /\ Next /\ OnlyAbout'
MCSpec == MCInit /\ [][MCNext]_<<vars, about>>
=============================================================================
