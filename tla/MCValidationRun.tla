--------------------------- MODULE MCValidationRun --------------------------
(* Model checking of ValidationRun with a bounded number of tests.         *)
EXTENDS ValidationRun
=============================================================================
