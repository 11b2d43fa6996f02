------------------------- MODULE MCCalderaOperation -------------------------
(* Model checking of CalderaOperation: two expected abilities, and a link  *)
(* that names none.                                                        *)
EXTENDS CalderaOperation

CONSTANTS a1, a2, u1
=============================================================================
