------------------------ MODULE MCWatchDebouncer -------------------------
(* Instances of WatchDebouncer for TLC. *)
EXTENDS WatchDebouncer

CONSTANTS task, draft

\* draft is a file the watch is not about (not .md, or no watched directory).
MCWatched == {task}
==========================================================================
