--------------------------- MODULE MCWatchConsole ---------------------------
(* Instance of WatchConsole for TLC. *)
EXTENDS WatchConsole
==============================================================================
