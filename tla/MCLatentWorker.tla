--------------------------- MODULE MCLatentWorker ---------------------------
(* Instances of LatentWorker: one worker, and two builders that use it. *)
EXTENDS LatentWorker

SomeFaults == {"start", "check", "attach", "ping"}
NoFaults == {}
=============================================================================
