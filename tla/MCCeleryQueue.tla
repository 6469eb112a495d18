---------------------------- MODULE MCCeleryQueue ----------------------------
(* Small instances of CeleryQueue for TLC. *)
EXTENDS CeleryQueue

CONSTANTS l1, l2, l3, m1, m2, m3
=============================================================================
