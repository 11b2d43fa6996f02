-------------------------- MODULE MCWorkerBoundary --------------------------
(* Model checking of WorkerBoundary: sizes small enough that one more byte *)
(* than the limit, and than a response may have, can be written.           *)
EXTENDS WorkerBoundary
=============================================================================
