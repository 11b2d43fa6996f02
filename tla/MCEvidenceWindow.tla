---- MODULE MCEvidenceWindow ----
(* Clocks that are right, or of which one or both are wrong. *)
EXTENDS EvidenceWindow
SkewsAre == {<<0, 0>>, <<-1, 0>>, <<1, 1>>}
====
