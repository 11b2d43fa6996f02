-------------------------- MODULE EphemeralHarness --------------------------
(***************************************************************************)
(* What an ephemeral validation harness promises, and nothing else: it     *)
(* takes resources while it works, only gives them back afterwards, and    *)
(* concludes "pass" with nothing left, for good.                           *)
(***************************************************************************)
CONSTANT Resources

VARIABLES
  residue,   \* the resources that exist, or may still come to exist
  phase      \* "working", "releasing", "pass" or "other"

vars == <<residue, phase>>

Init == residue = {} /\ phase = "working"

Acquire(r) ==
  /\ phase = "working"
  /\ residue' = residue \cup {r}
  /\ UNCHANGED phase

Release(r) ==
  /\ residue' = residue \ {r}
  /\ UNCHANGED phase

StopWorking ==
  /\ phase = "working"
  /\ phase' = "releasing"
  /\ \/ UNCHANGED residue
     \/ \E r \in Resources : residue' = residue \cup {r}

Pass ==
  /\ phase = "releasing"
  /\ residue = {}
  /\ phase' = "pass"
  /\ UNCHANGED residue

GiveUp ==
  /\ phase \in {"working", "releasing"}
  /\ phase' = "other"
  /\ UNCHANGED residue

Next ==
  \/ \E r \in Resources : Acquire(r) \/ Release(r)
  \/ StopWorking \/ Pass \/ GiveUp

Spec == Init /\ [][Next]_vars
=============================================================================
