--------------------------- MODULE MCWorkerProcess ---------------------------
(* WorkerProcess for TLC; its only constant is the number of faults.       *)
EXTENDS WorkerProcess
=============================================================================
