---------------------------- MODULE MCWatchLoop ----------------------------
(* Small instances of WatchLoop for TLC: two files of the project root and  *)
(* one the snapshot does not list.                                          *)
EXTENDS WatchLoop

CONSTANTS a, b, c

=============================================================================
