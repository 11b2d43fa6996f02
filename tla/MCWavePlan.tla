---- MODULE MCWavePlan ----
(* Four packages over three tags, of which at most one is serial or blocked, or
   the first and the last by id are serial; at most one is held back.          *)
EXTENDS WavePlan, FiniteSets
TagSetsAre == {{"lab"}, {"qga"}, {"lab", "caldera"}, {"qga", "caldera"}}
TwoSerial == [p \in Packages |-> IF p \in {"p1", "p4"} THEN "serial" ELSE "parallel"]
KindsAre == {k \in [Packages -> {"parallel", "serial", "blocked"}] :
               Cardinality({p \in Packages : k[p] # "parallel"}) <= 1}
            \cup {TwoSerial}
HeldSetsAre == {{}} \cup {{p} : p \in Packages}
IdIs == [p \in Packages |-> CASE p = "p1" -> 1 [] p = "p2" -> 2
                              [] p = "p3" -> 3 [] OTHER -> 4]
====
