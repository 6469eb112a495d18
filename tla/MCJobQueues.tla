----------------------------- MODULE MCJobQueues -----------------------------
(* Small instances of JobQueues for TLC. *)
EXTENDS JobQueues

CONSTANTS c1, c2, r1, r2
S3ThenGraphile == <<"s3", "graphile">>
=============================================================================
