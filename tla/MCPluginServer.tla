--------------------------- MODULE MCPluginServer ---------------------------
(* Model values and bounds for checking PluginServer with TLC.              *)
EXTENDS PluginServer

FirstIsSnapshot == {1}

=============================================================================
