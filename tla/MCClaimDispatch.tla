---- MODULE MCClaimDispatch ----
(* Packages p1 and p2 in wave 1, p3 in wave 2, which depends on wave 1, and p4 in
   wave 3, which depends on the waves before it.                              *)
EXTENDS ClaimDispatch
AgentWorkIs == {<<"claimed", "p1">>, <<"direct", "p2">>}
WaveIs == [p \in Packages |-> CASE p = "p3" -> 2 [] p = "p4" -> 3 [] OTHER -> 1]
DependsIs == [p \in Packages |-> {w \in 1..LastWave : w < WaveIs[p]}]
OrderIs == [p \in Packages |-> CASE p = "p1" -> 1 [] p = "p2" -> 2
                                 [] p = "p3" -> 3 [] OTHER -> 4]
StageIs == [p \in Packages |-> IF p = "p2" THEN 2 ELSE 1]
ConflictIs == {<<"p1", "p2">>, <<"p2", "p1">>}
CommandsIs == [p \in Packages |-> 1]
OutputsIs == [p \in Packages |-> IF p = "p1" THEN 2 ELSE 1]
OneOutput == [p \in Packages |-> 1]
PromptedWork == {<<"prompted", "p1">>}
====
