---------------------------- MODULE MCWorkerEvents ----------------------------
(* Instance of WorkerEvents for TLC. *)
EXTENDS WorkerEvents
=============================================================================
