---- MODULE WavePlan ----
(* How the work packages of one wave are distributed over launchers
   (run_preflight_work_package.py).  The same greedy choice by resource tags is
   written four times: for the parallel launcher, for the launcher_selected
   field of the manifest, for the stages of the staged launcher and for the
   batches of the ready claims.  Each is a loop over the packages, one package
   per step.  The claims come last: they are the packages the manifest does not
   leave for a manual launch and whose own status or environment does not hold
   them back.                                                                *)
EXTENDS Integers

CONSTANTS
  Packages,   \* the packages of the wave
  Tags,       \* resource tags
  TagSets,    \* the tag sets packages may have
  Kinds,      \* the assignments of kinds to packages
  HeldSets,   \* the sets of packages that statuses may hold back
  Scores,     \* impact scores
  Id,         \* the place of a package among the sorted package ids
  Slots       \* bound: stages of one wave

ASSUME PackagesAssumption ==
  /\ Id \in [Packages -> Nat]
  /\ \A p, q \in Packages : Id[p] = Id[q] => p = q
  /\ Scores \subseteq Nat /\ Slots \in Nat
\* package_resource_tags never returns an empty list.
ASSUME TagsAssumption == TagSets \subseteq SUBSET Tags /\ {} \notin TagSets
ASSUME KindsAssumption == Kinds \subseteq [Packages -> {"parallel", "serial", "blocked"}]
ASSUME HeldAssumption == HeldSets \subseteq SUBSET Packages

VARIABLES
  tags, kind, score,       \* a package's tags, kind and impact score
  loop, left,              \* the loop that runs and the packages it has left
  picked, pickedTags,      \* items of the parallel launcher
  launched, launchedTags,  \* launcher_selected
  stage, stageTags,        \* stage of the staged launcher, 0 when it has none
  held,                    \* packages held back as the claims are written: the
                           \* status is fail, blocked or invalid, or the next
                           \* action it reports lacks its environment
  batch, batchTags         \* batch of the ready claims, 0 when it has none

inputs == <<tags, kind, score>>
pickVars == <<picked, pickedTags>>
launchVars == <<launched, launchedTags>>
stageVars == <<stage, stageTags>>
batchVars == <<batch, batchTags>>
vars == <<inputs, loop, left, pickVars, launchVars, stageVars, held, batchVars>>

\* Launch-ready packages of a wave that may run beside others.
Launchable == {p \in Packages : kind[p] = "parallel"}

\* Packages without a launch blocker that no launcher leaves for a manual
\* launch.  launcher_membership knows parallel packages only: a serial one is
\* never called unselected.
NotManual == launched \cup {p \in Packages : kind[p] = "serial"}

ReadyClaims == NotManual \ held

\* sorted by (-package_impact_score, package_id)
ByImpact(p, q) == \/ score[p] > score[q]
                  \/ score[p] = score[q] /\ Id[p] < Id[q]

\* sorted by (stage or 999, claim_id)
ClaimStage(p) == IF stage[p] = 0 THEN 999 ELSE stage[p]
\* Mutant of ByStage: the claims are sorted by their ids alone.
ByClaimId(p, q) == Id[p] < Id[q]

ByStage(p, q) == \/ ClaimStage(p) < ClaimStage(q)
                 \/ ClaimStage(p) = ClaimStage(q) /\ Id[p] < Id[q]

\* Mutant of Clash: only a package whose every tag is taken is skipped.
ClashWhole(used, p) == tags[p] \subseteq used

Clash(used, p) == used \cap tags[p] # {}

\* Mutant of Take: the package is noted instead of its tags.
TakeById(used, p) == used \cup {p}

Take(used, p) == used \cup tags[p]

Several(S) == \E p, q \in S : p # q

Init ==
  /\ tags \in [Packages -> TagSets]
  /\ kind \in Kinds
  /\ score \in [Packages -> Scores]
  /\ loop = "launcher" /\ left = IF Several(Launchable) THEN Launchable ELSE {}
  /\ picked = {} /\ pickedTags = {}
  /\ launched = {} /\ launchedTags = {}
  /\ stage = [p \in Packages |-> 0] /\ stageTags = [i \in 1..Slots |-> {}]
  /\ held = {}
  /\ batch = [p \in Packages |-> 0] /\ batchTags = [i \in 1..Slots |-> {}]

\* write_wave_launchers: a package whose tags overlap is skipped.
PickForLauncher(p) ==
  /\ loop = "launcher" /\ p \in left
  /\ \A q \in left : q = p \/ ByImpact(p, q)
  /\ left' = left \ {p}
  /\ IF Clash(pickedTags, p)
     THEN UNCHANGED pickVars
     ELSE picked' = picked \cup {p} /\ pickedTags' = Take(pickedTags, p)
  /\ UNCHANGED <<inputs, loop, launchVars, stageVars, held, batchVars>>

\* A launcher of fewer than two items is not written.
EndLauncher ==
  /\ loop = "launcher" /\ left = {}
  /\ loop' = "membership" /\ left' = Launchable
  /\ picked' = IF Several(picked) THEN picked ELSE {}
  /\ UNCHANGED <<inputs, pickedTags, launchVars, stageVars, held, batchVars>>

\* launcher_membership
MarkLaunched(p) ==
  /\ loop = "membership" /\ p \in left
  /\ \A q \in left : q = p \/ ByImpact(p, q)
  /\ left' = left \ {p}
  /\ IF Clash(launchedTags, p)
     THEN UNCHANGED launchVars
     ELSE launched' = launched \cup {p} /\ launchedTags' = Take(launchedTags, p)
  /\ UNCHANGED <<inputs, loop, pickVars, stageVars, held, batchVars>>

EndMembership ==
  /\ loop = "membership" /\ left = {}
  /\ loop' = "stages" /\ left' = IF Several(Launchable) THEN Launchable ELSE {}
  /\ launched' = IF Several(launched) THEN launched ELSE {}
  /\ UNCHANGED <<inputs, pickVars, launchedTags, stageVars, held, batchVars>>

\* The first stage without an overlap; a stage with no tags is a new one.
FirstFit(used, p, i) ==
  /\ ~Clash(used[i], p)
  /\ \A j \in 1..(i - 1) : Clash(used[j], p)

\* wave_execution_stages
PlaceInStage(p) ==
  /\ loop = "stages" /\ p \in left
  /\ \A q \in left : q = p \/ ByImpact(p, q)
  /\ left' = left \ {p}
  /\ \E i \in 1..Slots :
       /\ FirstFit(stageTags, p, i)
       /\ stage' = [stage EXCEPT ![p] = i]
       /\ stageTags' = [stageTags EXCEPT ![i] = Take(@, p)]
  /\ UNCHANGED <<inputs, loop, pickVars, launchVars, held, batchVars>>

\* The claims are written: statuses are read, and the ready ones chosen.
EndStages ==
  /\ loop = "stages" /\ left = {}
  /\ held' \in HeldSets
  /\ UNCHANGED <<inputs, pickVars, launchVars, stageVars, batchVars>>
  /\ loop' = "batches" /\ left' = ReadyClaims'

\* ready_claim_parallel_batches
PlaceInBatch(p) ==
  /\ loop = "batches" /\ p \in left
  /\ \A q \in left : q = p \/ ByStage(p, q)
  /\ left' = left \ {p}
  /\ \E i \in 1..Slots :
       /\ FirstFit(batchTags, p, i)
       /\ batch' = [batch EXCEPT ![p] = i]
       /\ batchTags' = [batchTags EXCEPT ![i] = Take(@, p)]
  /\ UNCHANGED <<inputs, loop, pickVars, launchVars, stageVars, held>>

EndBatches ==
  /\ loop = "batches" /\ left = {}
  /\ loop' = "done"
  /\ UNCHANGED <<inputs, left, pickVars, launchVars, stageVars, held, batchVars>>

Next == \/ EndLauncher \/ EndMembership \/ EndStages \/ EndBatches
        \/ \E p \in Packages : \/ PickForLauncher(p) \/ MarkLaunched(p)
                               \/ PlaceInStage(p) \/ PlaceInBatch(p)

Spec == Init /\ [][Next]_vars

----------------------------------------------------------------------------
TypeOK ==
  /\ tags \in [Packages -> TagSets]
  /\ kind \in [Packages -> {"parallel", "serial", "blocked"}]
  /\ score \in [Packages -> Scores]
  /\ loop \in {"launcher", "membership", "stages", "batches", "done"}
  /\ left \subseteq Packages
  /\ picked \subseteq Packages /\ pickedTags \subseteq Tags
  /\ launched \subseteq Packages /\ launchedTags \subseteq Tags
  /\ stage \in [Packages -> 0..Slots] /\ stageTags \in [1..Slots -> SUBSET Tags]
  /\ held \subseteq Packages
  /\ batch \in [Packages -> 0..Slots] /\ batchTags \in [1..Slots -> SUBSET Tags]

\* Packages that a launcher starts together never share a resource tag, in a
\* stage, in a batch or in the parallel launcher.
Apart(S) == \A p, q \in S : p # q => tags[p] \cap tags[q] = {}
NoOverlap ==
  /\ Apart(picked) /\ Apart(launched)
  /\ \A i \in 1..Slots : /\ Apart({p \in Packages : stage[p] = i})
                         /\ Apart({p \in Packages : batch[p] = i})

\* The copies agree: the manifest calls selected exactly what the parallel
\* launcher starts, that is the first stage when it has two packages; every
\* launchable package of a wave with a staged launcher has a stage; and the
\* ready claims, though in another order and beside serial packages, start what
\* the parallel launcher starts, less what is held back, together and first.
\* No other package with a stage is in a batch: the claims leave the later
\* stages, and a wave without a launcher, for a manual launch.
CopiesAgree ==
  LET first == {p \in Packages : stage[p] = 1} IN
  /\ loop \in {"batches", "done"} =>
       /\ launched = picked
       /\ picked = IF Several(first) THEN first ELSE {}
       /\ {p \in Packages : stage[p] # 0} = IF Several(Launchable) THEN Launchable ELSE {}
  /\ loop = "done" =>
       /\ {p \in Launchable : batch[p] # 0} = picked \ held
       /\ \A p \in picked \ held : batch[p] = 1
       /\ \A p \in Packages \ held : kind[p] = "serial" => batch[p] # 0
====
