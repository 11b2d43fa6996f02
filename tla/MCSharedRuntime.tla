---- MODULE MCSharedRuntime ----
(* One invocation, with two disturbances by others. *)
EXTENDS SharedRuntime
====
