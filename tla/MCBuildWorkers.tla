--------------------------- MODULE MCBuildWorkers ---------------------------
(* BuildWorkers with two streams, one of two tiles and one of one: a failing
   job with a job before it and one after it. *)
EXTENDS BuildWorkers

MCStreams == {{0}, {2, 3}}
=============================================================================
