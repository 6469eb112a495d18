----------------------------- MODULE MCPluginVMs -----------------------------
(* Small instances of PluginVMs for TLC. *)
EXTENDS PluginVMs, TLC

Symmetry == Permutations(Setup)
=============================================================================
