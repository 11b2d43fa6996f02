--------------------------- MODULE MCOwnedRuntime ---------------------------
(* Model checking of OwnedRuntime with a bounded number of disturbances.   *)
EXTENDS OwnedRuntime
=============================================================================
