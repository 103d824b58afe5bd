--------------------------- MODULE MCWorkerServer ---------------------------
(* A small instance of WorkerServer. *)
EXTENDS WorkerServer
=============================================================================
