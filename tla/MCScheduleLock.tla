---------------------------- MODULE MCScheduleLock ----------------------------
(* Small instances of ScheduleLock for TLC. *)
EXTENDS ScheduleLock

CONSTANTS s1, s2
=============================================================================
