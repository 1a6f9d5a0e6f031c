----------------------------- MODULE MCJobQueue -----------------------------
(***************************************************************************)
(* Model-checking instance of JobQueue: the constants are set in           *)
(* MCJobQueue.cfg (every property that holds) and MCJobQueueWedge.cfg (the *)
(* promise that resubmitted hashes break).  No symmetry: both check        *)
(* liveness.                                                               *)
(***************************************************************************)
EXTENDS JobQueue
=============================================================================
