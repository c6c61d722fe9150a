----------------------------- MODULE MCStoreLock ------------------------------
(* Three callers, and a table with room for one session and two ids. *)
EXTENDS StoreLock

==============================================================================
