--------------------------- MODULE WavePlanProofs ---------------------------
(***************************************************************************)
(* Proofs about WavePlan, for any packages, tags, kinds, scores, packages  *)
(* held back and any number of stages: type correctness, that no launcher, stage or batch    *)
(* holds two packages with a resource tag in common, and that the four     *)
(* loops agree on what starts together.                                    *)
(***************************************************************************)
EXTENDS WavePlan, TLAPS

(* Taking a package's tags keeps a set of tags.                            *)
LEMMA TakeTyped ==
  ASSUME TypeOK, NEW used \in SUBSET Tags, NEW p \in Packages
  PROVE  Take(used, p) \in SUBSET Tags
  BY TagsAssumption DEF TypeOK, Take

LEMMA InitTyped == Init => TypeOK
<1> SUFFICES ASSUME Init PROVE TypeOK
  OBVIOUS
<1>1. kind \in [Packages -> {"parallel", "serial", "blocked"}]
  BY KindsAssumption DEF Init
<1>2. left \subseteq Packages
  BY DEF Init, Launchable
<1>3. 0 \in 0..Slots
  BY PackagesAssumption
<1>4. /\ stage \in [Packages -> 0..Slots] /\ batch \in [Packages -> 0..Slots]
      /\ stageTags \in [1..Slots -> SUBSET Tags] /\ batchTags \in [1..Slots -> SUBSET Tags]
  BY <1>3 DEF Init
<1> QED
  BY <1>1, <1>2, <1>4 DEF Init, TypeOK

LEMMA PickTyped ==
  ASSUME TypeOK, NEW p \in Packages, PickForLauncher(p)
  PROVE  TypeOK'
<1>1. picked' \subseteq Packages /\ pickedTags' \subseteq Tags
  BY TakeTyped DEF PickForLauncher, TypeOK, pickVars
<1> QED
  BY <1>1 DEF PickForLauncher, TypeOK, inputs, launchVars, stageVars, batchVars

LEMMA MarkTyped ==
  ASSUME TypeOK, NEW p \in Packages, MarkLaunched(p)
  PROVE  TypeOK'
<1>1. launched' \subseteq Packages /\ launchedTags' \subseteq Tags
  BY TakeTyped DEF MarkLaunched, TypeOK, launchVars
<1> QED
  BY <1>1 DEF MarkLaunched, TypeOK, inputs, pickVars, stageVars, batchVars

LEMMA StageTyped ==
  ASSUME TypeOK, NEW p \in Packages, PlaceInStage(p)
  PROVE  TypeOK'
<1>1. PICK i \in 1..Slots : /\ stage' = [stage EXCEPT ![p] = i]
                            /\ stageTags' = [stageTags EXCEPT ![i] = Take(@, p)]
  BY DEF PlaceInStage
<1>2. Take(stageTags[i], p) \in SUBSET Tags
  BY TakeTyped DEF TypeOK
<1>3. stage' \in [Packages -> 0..Slots] /\ stageTags' \in [1..Slots -> SUBSET Tags]
  BY <1>1, <1>2, PackagesAssumption DEF TypeOK
<1> QED
  BY <1>3 DEF PlaceInStage, TypeOK, inputs, pickVars, launchVars, batchVars

LEMMA BatchTyped ==
  ASSUME TypeOK, NEW p \in Packages, PlaceInBatch(p)
  PROVE  TypeOK'
<1>1. PICK i \in 1..Slots : /\ batch' = [batch EXCEPT ![p] = i]
                            /\ batchTags' = [batchTags EXCEPT ![i] = Take(@, p)]
  BY DEF PlaceInBatch
<1>2. Take(batchTags[i], p) \in SUBSET Tags
  BY TakeTyped DEF TypeOK
<1>3. batch' \in [Packages -> 0..Slots] /\ batchTags' \in [1..Slots -> SUBSET Tags]
  BY <1>1, <1>2, PackagesAssumption DEF TypeOK
<1> QED
  BY <1>3 DEF PlaceInBatch, TypeOK, inputs, pickVars, launchVars, stageVars

(* Every reachable state is well typed.                                    *)
THEOREM TypeCorrect == Spec => []TypeOK
<1>1. TypeOK /\ [Next]_vars => TypeOK'
  <2> SUFFICES ASSUME TypeOK, [Next]_vars PROVE TypeOK'
    OBVIOUS
  <2>1. CASE EndLauncher
    BY <2>1 DEF EndLauncher, TypeOK, inputs, launchVars, stageVars, batchVars, Launchable
  <2>2. CASE EndMembership
    BY <2>2 DEF EndMembership, TypeOK, inputs, pickVars, stageVars, batchVars, Launchable
  <2>3. CASE EndStages
    <3>1. held' \subseteq Packages
      BY <2>3, HeldAssumption DEF EndStages
    <3>2. left' \subseteq Packages
      BY <2>3 DEF EndStages, TypeOK, inputs, launchVars, ReadyClaims, NotManual
    <3> QED
      BY <2>3, <3>1, <3>2
      DEF EndStages, TypeOK, inputs, pickVars, launchVars, stageVars, batchVars
  <2>4. CASE EndBatches
    BY <2>4 DEF EndBatches, TypeOK, inputs, pickVars, launchVars, stageVars, batchVars
  <2>5. ASSUME NEW p \in Packages, PickForLauncher(p) \/ MarkLaunched(p)
                                   \/ PlaceInStage(p) \/ PlaceInBatch(p)
        PROVE TypeOK'
    BY <2>5, PickTyped, MarkTyped, StageTyped, BatchTyped
  <2>6. CASE UNCHANGED vars
    BY <2>6 DEF vars, TypeOK, inputs, pickVars, launchVars, stageVars, batchVars
  <2> QED
    BY <2>1, <2>2, <2>3, <2>4, <2>5, <2>6 DEF Next
<1> QED
  BY <1>1, InitTyped, PTL DEF Spec

-----------------------------------------------------------------------------
(* What the tag sets of the loops are for: they hold the tags of every     *)
(* package that was taken.                                                 *)
Holds(S, used) == \A p \in S : tags[p] \subseteq used

HoldsAt(place, used) ==
  \A p \in Packages : \A i \in 1..Slots : place[p] = i => tags[p] \subseteq used[i]

ApartAt(place) == \A i \in 1..Slots : Apart({p \in Packages : place[p] = i})

OverlapInv ==
  /\ Apart(picked) /\ Holds(picked, pickedTags)
  /\ Apart(launched) /\ Holds(launched, launchedTags)
  /\ ApartAt(stage) /\ HoldsAt(stage, stageTags)
  /\ ApartAt(batch) /\ HoldsAt(batch, batchTags)

(* A package that does not clash can join.                                 *)
LEMMA JoinSet ==
  ASSUME NEW S, NEW used, NEW p, Apart(S), Holds(S, used), ~Clash(used, p)
  PROVE  Apart(S \cup {p}) /\ Holds(S \cup {p}, Take(used, p))
  BY DEF Apart, Holds, Clash, Take

LEMMA JoinPlace ==
  ASSUME NEW place \in [Packages -> 0..Slots], NEW used \in [1..Slots -> SUBSET Tags],
         ApartAt(place), HoldsAt(place, used),
         NEW p \in Packages, NEW i \in 1..Slots, ~Clash(used[i], p)
  PROVE  /\ ApartAt([place EXCEPT ![p] = i])
         /\ HoldsAt([place EXCEPT ![p] = i], [used EXCEPT ![i] = Take(@, p)])
<1> DEFINE new == [place EXCEPT ![p] = i]
<1>1. \A q \in Packages : new[q] = IF q = p THEN i ELSE place[q]
  OBVIOUS
<1>2. ApartAt(new)
  <2> SUFFICES ASSUME NEW j \in 1..Slots, NEW q \in Packages, NEW r \in Packages,
                      new[q] = j, new[r] = j, q # r
               PROVE  tags[q] \cap tags[r] = {}
    BY DEF ApartAt, Apart
  <2>1. CASE q # p /\ r # p
    BY <2>1, <1>1 DEF ApartAt, Apart
  <2>2. CASE q = p
    <3>1. j = i /\ place[r] = i
      BY <2>2, <1>1
    <3>2. tags[r] \subseteq used[i]
      BY <3>1 DEF HoldsAt
    <3> QED
      BY <2>2, <3>2 DEF Clash
  <2>3. CASE r = p
    <3>1. j = i /\ place[q] = i
      BY <2>3, <1>1
    <3>2. tags[q] \subseteq used[i]
      BY <3>1 DEF HoldsAt
    <3> QED
      BY <2>3, <3>2 DEF Clash
  <2> QED
    BY <2>1, <2>2, <2>3
<1>3. HoldsAt(new, [used EXCEPT ![i] = Take(@, p)])
  BY <1>1 DEF HoldsAt, Take
<1> QED
  BY <1>2, <1>3

LEMMA OverlapInit == Init => OverlapInv
  BY DEF Init, OverlapInv, Apart, Holds, ApartAt, HoldsAt

LEMMA OverlapStep ==
  ASSUME TypeOK, OverlapInv, [Next]_vars
  PROVE  OverlapInv'
<1> USE DEF inputs, pickVars, launchVars, stageVars, batchVars
<1>1. CASE EndLauncher
  BY <1>1 DEF EndLauncher, OverlapInv, Apart, Holds, ApartAt, HoldsAt
<1>2. CASE EndMembership
  BY <1>2 DEF EndMembership, OverlapInv, Apart, Holds, ApartAt, HoldsAt
<1>3. CASE EndStages \/ EndBatches \/ UNCHANGED vars
  BY <1>3 DEF EndStages, EndBatches, vars, OverlapInv, Apart, Holds, ApartAt, HoldsAt
<1>4. ASSUME NEW p \in Packages, PickForLauncher(p) PROVE OverlapInv'
  <2>1. Apart(picked') /\ Holds(picked', pickedTags')
    BY <1>4, JoinSet DEF PickForLauncher, OverlapInv
  <2> QED
    BY <1>4, <2>1 DEF PickForLauncher, OverlapInv, Apart, Holds, ApartAt, HoldsAt
<1>5. ASSUME NEW p \in Packages, MarkLaunched(p) PROVE OverlapInv'
  <2>1. Apart(launched') /\ Holds(launched', launchedTags')
    BY <1>5, JoinSet DEF MarkLaunched, OverlapInv
  <2> QED
    BY <1>5, <2>1 DEF MarkLaunched, OverlapInv, Apart, Holds, ApartAt, HoldsAt
<1>6. ASSUME NEW p \in Packages, PlaceInStage(p) PROVE OverlapInv'
  <2>1. PICK i \in 1..Slots : /\ ~Clash(stageTags[i], p)
                              /\ stage' = [stage EXCEPT ![p] = i]
                              /\ stageTags' = [stageTags EXCEPT ![i] = Take(@, p)]
    BY <1>6 DEF PlaceInStage, FirstFit
  <2>2. ApartAt(stage') /\ HoldsAt(stage', stageTags')
    BY <2>1, JoinPlace DEF TypeOK, OverlapInv
  <2> QED
    BY <1>6, <2>2 DEF PlaceInStage, OverlapInv, Apart, Holds, ApartAt, HoldsAt
<1>7. ASSUME NEW p \in Packages, PlaceInBatch(p) PROVE OverlapInv'
  <2>1. PICK i \in 1..Slots : /\ ~Clash(batchTags[i], p)
                              /\ batch' = [batch EXCEPT ![p] = i]
                              /\ batchTags' = [batchTags EXCEPT ![i] = Take(@, p)]
    BY <1>7 DEF PlaceInBatch, FirstFit
  <2>2. ApartAt(batch') /\ HoldsAt(batch', batchTags')
    BY <2>1, JoinPlace DEF TypeOK, OverlapInv
  <2> QED
    BY <1>7, <2>2 DEF PlaceInBatch, OverlapInv, Apart, Holds, ApartAt, HoldsAt
<1> QED
  BY <1>1, <1>2, <1>3, <1>4, <1>5, <1>6, <1>7 DEF Next

(* Packages that are started together share no resource tag, whichever     *)
(* launcher starts them and however many packages and tags there are.      *)
THEOREM NothingOverlaps == Spec => []NoOverlap
<1>1. OverlapInv => NoOverlap
  BY DEF OverlapInv, NoOverlap, ApartAt
<1> QED
  BY <1>1, OverlapInit, OverlapStep, TypeCorrect, PTL DEF Spec

-----------------------------------------------------------------------------
(* Why the copies agree.  Whoever goes through packages in the order of    *)
(* their impact and takes those that do not clash ends with the same set:  *)
(* the packages that share no tag with one taken before them.              *)
Trunc(S) == IF Several(S) THEN S ELSE {}

Fits(S, p) == \A q \in S : ByImpact(q, p) => tags[q] \cap tags[p] = {}

Greedy(S) == S \subseteq Launchable /\ \A p \in Launchable : p \in S <=> Fits(S, p)

Spans(S, used) ==
  /\ Holds(S, used)
  /\ \A t \in used : \E p \in S : t \in tags[p]

SpansAt(place, used) ==
  /\ HoldsAt(place, used)
  /\ \A i \in 1..Slots : \A t \in used[i] : \E p \in Packages : place[p] = i /\ t \in tags[p]

(* The loop has taken its packages of base in the order of their impact.   *)
InOrder(base) ==
  /\ left \subseteq base
  /\ \A d \in base \ left : \A q \in left : ByImpact(d, q)

LauncherInv ==
  loop = "launcher" =>
    /\ InOrder(Trunc(Launchable))
    /\ picked \subseteq Trunc(Launchable) \ left /\ Spans(picked, pickedTags)
    /\ \A p \in Trunc(Launchable) \ left : p \in picked <=> Fits(picked, p)
    /\ launched = {} /\ launchedTags = {}

(* S is the set every loop chooses.                                        *)
ChosenBy(S) ==
  /\ Greedy(S)
  /\ picked = Trunc(S)
  /\ loop = "membership" => /\ InOrder(Launchable)
                            /\ launched = S \ left /\ Spans(launched, launchedTags)
  /\ loop # "membership" => launched = Trunc(S)
  /\ loop = "stages" =>
       \A p \in Packages : stage[p] = 1 <=> p \in S /\ p \in Trunc(Launchable) \ left
  /\ loop \in {"batches", "done"} =>
       \A p \in Packages : stage[p] = 1 <=> p \in S /\ p \in Trunc(Launchable)

ChosenInv == loop # "launcher" => \E S \in SUBSET Packages : ChosenBy(S)

(* A package has a stage once its turn has come, and it clashes with every *)
(* stage before its own.                                                   *)
StageInv ==
  /\ loop \in {"launcher", "membership"} => \A p \in Packages : stage[p] = 0
  /\ loop = "stages" =>
       /\ InOrder(Trunc(Launchable))
       /\ \A p \in Packages : stage[p] # 0 <=> p \in Trunc(Launchable) \ left
  /\ loop \in {"batches", "done"} =>
       \A p \in Packages : stage[p] # 0 <=> p \in Trunc(Launchable)
  /\ SpansAt(stage, stageTags)
  /\ \A p \in Packages : \A j \in 1..Slots :
       j < stage[p] => \E q \in Packages : stage[q] = j /\ tags[q] \cap tags[p] # {}

(* The ready claims are batched in their order, and those of the launcher  *)
(* come to the first batch.                                                *)
BatchInv ==
  /\ loop \notin {"batches", "done"} => \A p \in Packages : batch[p] = 0
  /\ loop = "batches" =>
       /\ left \subseteq ReadyClaims
       /\ \A d \in ReadyClaims \ left : \A q \in left : ByStage(d, q)
       /\ \A p \in Packages : batch[p] # 0 <=> p \in ReadyClaims \ left
  /\ loop = "done" => \A p \in Packages : batch[p] # 0 <=> p \in ReadyClaims
  /\ SpansAt(batch, batchTags)
  /\ \A p \in Packages : stage[p] = 1 => batch[p] \in {0, 1}

CopiesInv == LauncherInv /\ ChosenInv /\ StageInv /\ BatchInv

(* The order by impact, and the order of the claims, have no cycles.       *)
LEMMA ImpactAsymmetric ==
  ASSUME TypeOK, NEW p \in Packages, NEW q \in Packages, ByImpact(p, q)
  PROVE  ~ByImpact(q, p)
<1>1. score[p] \in Nat /\ score[q] \in Nat /\ Id[p] \in Nat /\ Id[q] \in Nat
  BY PackagesAssumption DEF TypeOK
<1> QED
  BY <1>1 DEF ByImpact

LEMMA StageAsymmetric ==
  ASSUME TypeOK, NEW p \in Packages, NEW q \in Packages, ByStage(p, q)
  PROVE  ~ByStage(q, p) /\ ClaimStage(p) <= ClaimStage(q)
<1>1. ClaimStage(p) \in Nat /\ ClaimStage(q) \in Nat /\ Id[p] \in Nat /\ Id[q] \in Nat
  BY PackagesAssumption DEF TypeOK, ClaimStage
<1> QED
  BY <1>1 DEF ByStage

(* A package that joins brings exactly its tags.                           *)
LEMMA SpanSet ==
  ASSUME NEW S, NEW used, NEW p, Spans(S, used)
  PROVE  Spans(S \cup {p}, Take(used, p))
  BY DEF Spans, Holds, Take

LEMMA SpanPlace ==
  ASSUME NEW place \in [Packages -> 0..Slots], NEW used \in [1..Slots -> SUBSET Tags],
         SpansAt(place, used), NEW p \in Packages, place[p] = 0, NEW i \in 1..Slots
  PROVE  SpansAt([place EXCEPT ![p] = i], [used EXCEPT ![i] = Take(@, p)])
<1> DEFINE new == [place EXCEPT ![p] = i]
           more == [used EXCEPT ![i] = Take(@, p)]
<1>1. \A q \in Packages : new[q] = IF q = p THEN i ELSE place[q]
  OBVIOUS
<1>2. \A j \in 1..Slots : more[j] = IF j = i THEN used[i] \cup tags[p] ELSE used[j]
  BY DEF Take
<1>3. HoldsAt(new, more)
  BY <1>1, <1>2 DEF SpansAt, HoldsAt
<1>4. ASSUME NEW j \in 1..Slots, NEW t \in more[j]
      PROVE  \E q \in Packages : new[q] = j /\ t \in tags[q]
  <2>1. CASE j = i /\ t \in tags[p]
    BY <1>1, <2>1
  <2>2. CASE t \in used[j]
    <3>1. PICK q \in Packages : place[q] = j /\ t \in tags[q]
      BY <2>2 DEF SpansAt
    <3>2. q # p
      BY <3>1
    <3> QED
      BY <1>1, <3>1, <3>2
  <2> QED
    BY <1>2, <1>4, <2>1, <2>2
<1> QED
  BY <1>3, <1>4 DEF SpansAt

(* A loop that has taken what it had to of S takes its next package if and *)
(* only if that one is in S.                                               *)
LEMMA ChoosesNext ==
  ASSUME TypeOK, NEW S, Greedy(S), InOrder(Launchable), NEW used, Spans(S \ left, used),
         NEW p \in left, \A q \in left : q = p \/ ByImpact(p, q)
  PROVE  Clash(used, p) <=> p \notin S
<1>1. left \subseteq Launchable /\ Launchable \subseteq Packages /\ S \subseteq Launchable
  BY DEF InOrder, Launchable, Greedy
<1>2. ~ByImpact(p, p)
  BY <1>1, ImpactAsymmetric
<1>3. \A q \in S : ByImpact(q, p) <=> q \notin left
  BY <1>1, <1>2, ImpactAsymmetric DEF InOrder
<1>4. Fits(S, p) <=> \A q \in S \ left : tags[q] \cap tags[p] = {}
  BY <1>3 DEF Fits
<1>5. Clash(used, p) <=> \E q \in S \ left : tags[q] \cap tags[p] # {}
  BY DEF Clash, Spans, Holds
<1> QED
  BY <1>1, <1>4, <1>5 DEF Greedy

(* Unchanged inputs leave the orders and the sets of packages alone.       *)
LEMMA SameInputs ==
  ASSUME UNCHANGED inputs
  PROVE  /\ tags' = tags /\ Launchable' = Launchable
         /\ \A p, q : ByImpact(p, q)' <=> ByImpact(p, q)
  BY DEF inputs, Launchable, ByImpact

(* So does a manifest and statuses that stay for the ready claims.         *)
LEMMA SameClaims ==
  ASSUME UNCHANGED <<inputs, launchVars, held>>
  PROVE  ReadyClaims' = ReadyClaims
  BY DEF inputs, launchVars, ReadyClaims, NotManual

(* A ready claim that has a stage is one of the launcher: of the first.    *)
LEMMA ClaimsOfFirstStage ==
  ASSUME CopiesInv, loop \in {"batches", "done"},
         NEW p \in ReadyClaims, kind[p] = "parallel"
  PROVE  stage[p] = 1
<1>1. PICK S \in SUBSET Packages : ChosenBy(S)
  BY DEF CopiesInv, ChosenInv
<1>2. p \in Packages /\ p \in S /\ Several(S) /\ S \subseteq Launchable
  BY <1>1 DEF ReadyClaims, NotManual, ChosenBy, Greedy, Trunc
<1>3. Several(Launchable)
  BY <1>2 DEF Several
<1> QED
  BY <1>1, <1>2, <1>3 DEF ChosenBy, Trunc

LEMMA PickCopies ==
  ASSUME TypeOK, CopiesInv, NEW p \in Packages, PickForLauncher(p)
  PROVE  CopiesInv'
<1> DEFINE base == Trunc(Launchable)
<1>1. /\ loop = "launcher" /\ loop' = loop /\ p \in left /\ left' = left \ {p}
      /\ \A q \in left : q = p \/ ByImpact(p, q)
      /\ UNCHANGED <<inputs, launchVars, stageVars, batchVars>>
  BY DEF PickForLauncher
<1>2. /\ InOrder(base) /\ base \subseteq Packages
      /\ picked \subseteq base \ left /\ Spans(picked, pickedTags)
      /\ \A d \in base \ left : d \in picked <=> Fits(picked, d)
      /\ launched = {} /\ launchedTags = {}
  BY <1>1 DEF CopiesInv, LauncherInv, Launchable, Trunc
<1>3. InOrder(base)'
  BY <1>1, <1>2, SameInputs DEF InOrder, Trunc, Several
<1>4. ~ByImpact(p, p) /\ \A d \in base \ left : ByImpact(d, p) /\ ~ByImpact(p, d)
  BY <1>1, <1>2, ImpactAsymmetric DEF InOrder
<1>5. Clash(pickedTags, p) <=> ~Fits(picked, p)
  BY <1>2, <1>4 DEF Clash, Spans, Holds, Fits
<1>6. /\ picked' = (IF Fits(picked, p) THEN picked \cup {p} ELSE picked)
      /\ Spans(picked', pickedTags')
  BY <1>2, <1>5, SpanSet DEF PickForLauncher, pickVars
<1>7. \A d \in (base \ left) \cup {p} : Fits(picked', d) <=> Fits(picked, d)
  BY <1>4, <1>6 DEF Fits
<1>8. p \notin picked /\ p \in base
  BY <1>1, <1>2 DEF InOrder
<1>9. /\ picked' \subseteq base \ left'
      /\ \A d \in base \ left' : d \in picked' <=> Fits(picked', d)
  BY <1>1, <1>2, <1>6, <1>7, <1>8
<1>10. LauncherInv'
  <2>1. /\ base' = base
        /\ Spans(picked, pickedTags)' <=> Spans(picked', pickedTags')
        /\ \A d \in Packages : Fits(picked, d)' <=> Fits(picked', d)
    BY <1>1, SameInputs DEF Trunc, Several, Spans, Holds, Fits
  <2> QED
    BY <1>1, <1>2, <1>3, <1>6, <1>9, <2>1 DEF LauncherInv, launchVars
<1>11. ChosenInv' /\ StageInv' /\ BatchInv'
  BY <1>1, SameInputs DEF CopiesInv, ChosenInv, StageInv, BatchInv, SpansAt, HoldsAt,
                          stageVars, batchVars
<1> QED
  BY <1>10, <1>11 DEF CopiesInv

LEMMA EndLauncherCopies ==
  ASSUME TypeOK, CopiesInv, EndLauncher
  PROVE  CopiesInv'
<1>1. /\ loop = "launcher" /\ loop' = "membership" /\ left = {} /\ left' = Launchable
      /\ picked' = Trunc(picked)
      /\ UNCHANGED <<inputs, launchVars, stageVars, batchVars>>
  BY DEF EndLauncher, Trunc
<1>2. /\ picked \subseteq Trunc(Launchable)
      /\ \A p \in Trunc(Launchable) : p \in picked <=> Fits(picked, p)
      /\ launched = {} /\ launchedTags = {}
  BY <1>1 DEF CopiesInv, LauncherInv
<1>3. Launchable \subseteq Packages
  BY DEF Launchable
<1>4. \E S \in SUBSET Packages : Greedy(S) /\ picked' = Trunc(S)
  <2>1. CASE Several(Launchable)
    BY <1>1, <1>2, <1>3, <2>1 DEF Greedy, Trunc
  <2>2. CASE ~Several(Launchable)
    <3>1. \A p, q \in Launchable : ~ByImpact(q, p)
      BY <1>3, <2>2, ImpactAsymmetric DEF Several
    <3>2. Greedy(Launchable)
      BY <3>1 DEF Greedy, Fits
    <3>3. picked' = {} /\ Trunc(Launchable) = {}
      BY <1>1, <1>2, <2>2 DEF Trunc, Several
    <3> QED
      BY <1>3, <3>2, <3>3
  <2> QED
    BY <2>1, <2>2
<1>5. PICK S \in SUBSET Packages : Greedy(S) /\ picked' = Trunc(S)
  BY <1>4
<1>6. ChosenBy(S)'
  <2>1. Greedy(S)' /\ S \subseteq Launchable
    BY <1>1, <1>5, SameInputs DEF Greedy, Fits
  <2> QED
    BY <1>1, <1>2, <1>5, <2>1, SameInputs
    DEF ChosenBy, InOrder, Spans, Holds, launchVars, Trunc
<1>7. LauncherInv' /\ ChosenInv'
  BY <1>1, <1>6 DEF LauncherInv, ChosenInv
<1>8. StageInv' /\ BatchInv'
  BY <1>1, SameInputs DEF CopiesInv, StageInv, BatchInv, SpansAt, HoldsAt, stageVars, batchVars
<1> QED
  BY <1>7, <1>8 DEF CopiesInv

LEMMA MarkCopies ==
  ASSUME TypeOK, CopiesInv, NEW p \in Packages, MarkLaunched(p)
  PROVE  CopiesInv'
<1>1. /\ loop = "membership" /\ loop' = loop /\ p \in left /\ left' = left \ {p}
      /\ \A q \in left : q = p \/ ByImpact(p, q)
      /\ UNCHANGED <<inputs, pickVars, stageVars, batchVars>>
  BY DEF MarkLaunched
<1>2. PICK S \in SUBSET Packages : ChosenBy(S)
  BY <1>1 DEF CopiesInv, ChosenInv
<1>3. /\ Greedy(S) /\ picked = Trunc(S) /\ InOrder(Launchable)
      /\ launched = S \ left /\ Spans(launched, launchedTags)
  BY <1>1, <1>2 DEF ChosenBy
<1>4. Clash(launchedTags, p) <=> p \notin S
  BY <1>1, <1>3, ChoosesNext
<1>5. launched' = S \ left' /\ Spans(launched', launchedTags')
  <2>1. CASE p \in S
    BY <1>1, <1>3, <1>4, <2>1, SpanSet DEF MarkLaunched
  <2>2. CASE p \notin S
    BY <1>1, <1>3, <1>4, <2>2 DEF MarkLaunched, launchVars
  <2> QED
    BY <2>1, <2>2
<1>6. ChosenBy(S)'
  <2>1. Greedy(S)' /\ Spans(launched, launchedTags)'
    BY <1>1, <1>3, <1>5, SameInputs DEF Greedy, Fits, Spans, Holds
  <2>2. InOrder(Launchable)'
    BY <1>1, <1>3, SameInputs DEF InOrder
  <2>3. picked' = Trunc(S)'
    BY <1>1, <1>3 DEF pickVars, Trunc, Several
  <2> QED
    BY <1>1, <1>5, <2>1, <2>2, <2>3 DEF ChosenBy
<1>7. LauncherInv' /\ ChosenInv'
  BY <1>1, <1>6 DEF LauncherInv, ChosenInv
<1>8. StageInv' /\ BatchInv'
  BY <1>1, SameInputs DEF CopiesInv, StageInv, BatchInv, SpansAt, HoldsAt, stageVars, batchVars
<1> QED
  BY <1>7, <1>8 DEF CopiesInv

LEMMA EndMembershipCopies ==
  ASSUME TypeOK, CopiesInv, EndMembership
  PROVE  CopiesInv'
<1>1. /\ loop = "membership" /\ loop' = "stages" /\ left = {}
      /\ left' = Trunc(Launchable) /\ launched' = Trunc(launched)
      /\ UNCHANGED <<inputs, pickVars, stageVars, batchVars>>
  BY DEF EndMembership, Trunc
<1>2. PICK S \in SUBSET Packages : ChosenBy(S)
  BY <1>1 DEF CopiesInv, ChosenInv
<1>3. Greedy(S) /\ picked = Trunc(S) /\ launched = S
  BY <1>1, <1>2 DEF ChosenBy
<1>4. \A p \in Packages : stage[p] = 0
  BY <1>1 DEF CopiesInv, StageInv
<1>5. Greedy(S)' /\ Trunc(S)' = Trunc(S) /\ Trunc(Launchable)' = Trunc(Launchable)
  BY <1>1, <1>3, SameInputs DEF Greedy, Fits, Trunc, Several
<1>6. ChosenBy(S)'
  BY <1>1, <1>3, <1>4, <1>5 DEF ChosenBy, pickVars, stageVars
<1>7. LauncherInv' /\ ChosenInv'
  BY <1>1, <1>6 DEF LauncherInv, ChosenInv
<1>8. StageInv'
  BY <1>1, <1>4, <1>5, SameInputs DEF CopiesInv, StageInv, InOrder, SpansAt, HoldsAt, stageVars
<1>9. BatchInv'
  BY <1>1, SameInputs DEF CopiesInv, BatchInv, SpansAt, HoldsAt, stageVars, batchVars
<1> QED
  BY <1>7, <1>8, <1>9 DEF CopiesInv

LEMMA StageCopies ==
  ASSUME TypeOK, CopiesInv, NEW p \in Packages, PlaceInStage(p)
  PROVE  CopiesInv'
<1>1. /\ loop = "stages" /\ loop' = loop /\ p \in left /\ left' = left \ {p}
      /\ \A q \in left : q = p \/ ByImpact(p, q)
      /\ UNCHANGED <<inputs, pickVars, launchVars, batchVars>>
  BY DEF PlaceInStage
<1>2. PICK i \in 1..Slots : /\ FirstFit(stageTags, p, i)
                            /\ stage' = [stage EXCEPT ![p] = i]
                            /\ stageTags' = [stageTags EXCEPT ![i] = Take(@, p)]
  BY DEF PlaceInStage
<1>3. PICK S \in SUBSET Packages : ChosenBy(S)
  BY <1>1 DEF CopiesInv, ChosenInv
<1>4. Trunc(Launchable) = Launchable /\ InOrder(Launchable) /\ Launchable \subseteq Packages
  BY <1>1 DEF CopiesInv, StageInv, InOrder, Trunc, Launchable
<1>5. /\ Greedy(S) /\ picked = Trunc(S) /\ launched = Trunc(S)
      /\ \A q \in Packages : stage[q] = 1 <=> q \in S \ left
  BY <1>1, <1>3, <1>4 DEF ChosenBy, Greedy
<1>6. /\ \A q \in Packages : stage[q] # 0 <=> q \in Launchable \ left
      /\ SpansAt(stage, stageTags) /\ stage[p] = 0
  BY <1>1, <1>4 DEF CopiesInv, StageInv
<1>7. /\ i \in Nat /\ i # 0 /\ 1 \in 1..Slots
      /\ \A q \in Packages : stage'[q] = IF q = p THEN i ELSE stage[q]
  BY <1>2, PackagesAssumption DEF TypeOK
<1>8. i = 1 <=> p \in S
  <2>1. Spans(S \ left, stageTags[1])
    BY <1>5, <1>6, <1>7 DEF SpansAt, HoldsAt, Spans, Holds
  <2>2. Clash(stageTags[1], p) <=> p \notin S
    BY <1>1, <1>4, <1>5, <2>1, ChoosesNext
  <2> QED
    BY <1>2, <1>7, <2>2 DEF FirstFit
<1>9. /\ Trunc(Launchable)' = Launchable /\ InOrder(Launchable)' /\ Greedy(S)'
      /\ Trunc(S)' = Trunc(S)
  BY <1>1, <1>4, <1>5, SameInputs DEF Trunc, Several, InOrder, Greedy, Fits
<1>10. \A q \in Packages : /\ stage'[q] = 1 <=> q \in S \ left'
                           /\ stage'[q] # 0 <=> q \in Launchable \ left'
  <2>1. p \in Launchable
    BY <1>1, <1>4 DEF InOrder
  <2>2. /\ stage'[p] = 1 <=> p \in S \ left'
        /\ stage'[p] # 0 <=> p \in Launchable \ left'
    BY <1>1, <1>7, <1>8, <2>1
  <2>3. ASSUME NEW q \in Packages, q # p
        PROVE  stage'[q] = stage[q] /\ (q \in left' <=> q \in left)
    BY <1>1, <1>7, <2>3
  <2> QED
    BY <1>5, <1>6, <2>2, <2>3
<1>11. ChosenBy(S)'
  BY <1>1, <1>5, <1>9, <1>10 DEF ChosenBy, pickVars, launchVars
<1>12. LauncherInv' /\ ChosenInv'
  BY <1>1, <1>11 DEF LauncherInv, ChosenInv
<1>13. SpansAt(stage, stageTags)'
  <2>1. SpansAt(stage', stageTags')
    BY <1>2, <1>6, SpanPlace DEF TypeOK
  <2> QED
    BY <1>1, <2>1, SameInputs DEF SpansAt, HoldsAt
<1>14. ASSUME NEW q \in Packages, NEW j \in 1..Slots, j < stage'[q]
       PROVE  \E r \in Packages : stage'[r] = j /\ tags[r] \cap tags[q] # {}
  <2>1. CASE q = p
    <3>1. j \in 1..(i - 1)
      BY <1>7, <1>14, <2>1
    <3>2. PICK t \in stageTags[j] : t \in tags[p]
      BY <1>2, <3>1 DEF FirstFit, Clash
    <3>3. PICK r \in Packages : stage[r] = j /\ t \in tags[r]
      BY <1>6, <3>2 DEF SpansAt
    <3>4. r # p
      BY <1>6, <3>3
    <3> QED
      BY <1>7, <2>1, <3>2, <3>3, <3>4
  <2>2. CASE q # p
    <3>1. j < stage[q]
      BY <1>7, <1>14, <2>2
    <3>2. PICK r \in Packages : stage[r] = j /\ tags[r] \cap tags[q] # {}
      BY <3>1 DEF CopiesInv, StageInv
    <3>3. r # p
      BY <1>6, <3>2
    <3> QED
      BY <1>7, <3>2, <3>3
  <2> QED
    BY <2>1, <2>2
<1>15. StageInv'
  BY <1>1, <1>9, <1>10, <1>13, <1>14, SameInputs DEF StageInv
<1>16. BatchInv'
  BY <1>1, SameInputs DEF CopiesInv, BatchInv, SpansAt, HoldsAt, batchVars
<1> QED
  BY <1>12, <1>15, <1>16 DEF CopiesInv

LEMMA EndStagesCopies ==
  ASSUME TypeOK, CopiesInv, EndStages
  PROVE  CopiesInv'
<1>1. /\ loop = "stages" /\ loop' = "batches" /\ left = {} /\ left' = ReadyClaims'
      /\ UNCHANGED <<inputs, pickVars, launchVars, stageVars, batchVars>>
  BY DEF EndStages
<1>2. PICK S \in SUBSET Packages : ChosenBy(S)
  BY <1>1 DEF CopiesInv, ChosenInv
<1>3. Greedy(S)' /\ Trunc(S)' = Trunc(S) /\ Trunc(Launchable)' = Trunc(Launchable)
  BY <1>1, <1>2, SameInputs DEF ChosenBy, Greedy, Fits, Trunc, Several
<1>4. ChosenBy(S)'
  BY <1>1, <1>2, <1>3 DEF ChosenBy, pickVars, launchVars, stageVars
<1>5. LauncherInv' /\ ChosenInv'
  BY <1>1, <1>4 DEF LauncherInv, ChosenInv
<1>6. StageInv'
  BY <1>1, <1>3, SameInputs DEF CopiesInv, StageInv, SpansAt, HoldsAt, stageVars
<1>7. BatchInv'
  BY <1>1, SameInputs
  DEF CopiesInv, BatchInv, SpansAt, HoldsAt, stageVars, batchVars
<1> QED
  BY <1>5, <1>6, <1>7 DEF CopiesInv

(* A claim of the first stage comes to the first batch: those before it in *)
(* the order are of the first stage too, and do not clash with it.         *)
LEMMA FirstStageFirst ==
  ASSUME TypeOK, OverlapInv, CopiesInv, loop = "batches", NEW p \in left, stage[p] = 1,
         \A q \in left : q = p \/ ByStage(p, q),
         NEW i \in 1..Slots, FirstFit(batchTags, p, i)
  PROVE  i = 1
<1>1. p \in Packages /\ 1 \in 1..Slots /\ i \in Nat
  BY PackagesAssumption DEF TypeOK
<1>2. ASSUME NEW q \in Packages, batch[q] = 1
      PROVE  stage[q] = 1 /\ q # p
  <2>1. q \notin left /\ ByStage(q, p)
    BY <1>2 DEF CopiesInv, BatchInv
  <2>2. ClaimStage(q) <= 1
    BY <1>1, <2>1, StageAsymmetric DEF ClaimStage
  <2> QED
    BY <1>2, <2>1, <2>2, PackagesAssumption DEF ClaimStage, TypeOK
<1>3. ~Clash(batchTags[1], p)
  <2> SUFFICES ASSUME NEW t \in batchTags[1], t \in tags[p] PROVE FALSE
    BY DEF Clash
  <2>1. PICK q \in Packages : batch[q] = 1 /\ t \in tags[q]
    BY <1>1 DEF CopiesInv, BatchInv, SpansAt
  <2>2. tags[q] \cap tags[p] = {}
    BY <1>1, <1>2, <2>1 DEF OverlapInv, ApartAt, Apart
  <2> QED
    BY <2>1, <2>2
<1> QED
  BY <1>1, <1>3, PackagesAssumption DEF FirstFit

LEMMA BatchCopies ==
  ASSUME TypeOK, OverlapInv, CopiesInv, NEW p \in Packages, PlaceInBatch(p)
  PROVE  CopiesInv'
<1>1. /\ loop = "batches" /\ loop' = loop /\ p \in left /\ left' = left \ {p}
      /\ \A q \in left : q = p \/ ByStage(p, q)
      /\ UNCHANGED <<inputs, pickVars, launchVars, stageVars, held>>
  BY DEF PlaceInBatch
<1>2. PICK i \in 1..Slots : /\ FirstFit(batchTags, p, i)
                            /\ batch' = [batch EXCEPT ![p] = i]
                            /\ batchTags' = [batchTags EXCEPT ![i] = Take(@, p)]
  BY DEF PlaceInBatch
<1>3. /\ left \subseteq ReadyClaims /\ SpansAt(batch, batchTags)
      /\ \A q \in Packages : batch[q] # 0 <=> q \in ReadyClaims \ left
      /\ \A d \in ReadyClaims \ left : \A q \in left : ByStage(d, q)
      /\ \A q \in Packages : stage[q] = 1 => batch[q] \in {0, 1}
  BY <1>1 DEF CopiesInv, BatchInv
<1>4. i # 0 /\ batch[p] = 0 /\ \A q \in Packages : batch'[q] = IF q = p THEN i ELSE batch[q]
  BY <1>1, <1>2, <1>3, PackagesAssumption DEF TypeOK
<1>5. stage[p] = 1 => i = 1
  BY <1>1, <1>2, FirstStageFirst
<1>6. SpansAt(batch, batchTags)'
  <2>1. SpansAt(batch', batchTags')
    BY <1>2, <1>3, <1>4, SpanPlace DEF TypeOK
  <2> QED
    BY <1>1, <2>1, SameInputs DEF SpansAt, HoldsAt
<1>7. \A d, q : ByStage(d, q)' <=> ByStage(d, q)
  BY <1>1 DEF ByStage, ClaimStage, stageVars
<1>8. BatchInv'
  BY <1>1, <1>3, <1>4, <1>5, <1>6, <1>7, SameClaims DEF BatchInv, stageVars
<1>9. StageInv' /\ LauncherInv'
  BY <1>1, SameInputs
  DEF CopiesInv, StageInv, LauncherInv, SpansAt, HoldsAt, stageVars, Trunc, Several
<1>10. PICK S \in SUBSET Packages : ChosenBy(S)
  BY <1>1 DEF CopiesInv, ChosenInv
<1>11. Greedy(S)' /\ Trunc(S)' = Trunc(S) /\ Trunc(Launchable)' = Trunc(Launchable)
  BY <1>1, <1>10, SameInputs DEF ChosenBy, Greedy, Fits, Trunc, Several
<1>12. ChosenBy(S)'
  BY <1>1, <1>10, <1>11 DEF ChosenBy, pickVars, launchVars, stageVars
<1> QED
  BY <1>1, <1>8, <1>9, <1>12 DEF CopiesInv, ChosenInv

LEMMA OtherCopies ==
  ASSUME TypeOK, CopiesInv, EndBatches \/ UNCHANGED vars
  PROVE  CopiesInv'
<1>1. /\ UNCHANGED <<inputs, left, pickVars, launchVars, stageVars, held, batchVars>>
      /\ \/ loop = "batches" /\ loop' = "done" /\ left = {}
         \/ loop' = loop
  BY DEF EndBatches, vars
<1>2. /\ \A d, q : ByStage(d, q)' <=> ByStage(d, q)
      /\ \A S : Trunc(S)' = Trunc(S) /\ (Greedy(S)' <=> Greedy(S))
  BY <1>1, SameInputs DEF ByStage, ClaimStage, stageVars, Trunc, Several, Greedy, Fits
<1>3. Trunc(Launchable)' = Trunc(Launchable)
  BY <1>1, SameInputs DEF Trunc, Several
<1>4. LauncherInv'
  BY <1>1, <1>3, SameInputs
  DEF CopiesInv, LauncherInv, InOrder, Spans, Holds, Fits, pickVars, launchVars
<1>5. ChosenInv'
  <2>1. ASSUME NEW S \in SUBSET Packages, ChosenBy(S), loop # "launcher"
        PROVE  ChosenBy(S)'
    BY <1>1, <1>2, <1>3, <2>1, SameInputs
    DEF ChosenBy, InOrder, Spans, Holds, pickVars, launchVars, stageVars
  <2> QED
    BY <1>1, <2>1 DEF CopiesInv, ChosenInv
<1>6. StageInv'
  BY <1>1, <1>3, SameInputs DEF CopiesInv, StageInv, InOrder, SpansAt, HoldsAt, stageVars
<1>7. BatchInv'
  BY <1>1, <1>2, SameInputs, SameClaims
  DEF CopiesInv, BatchInv, SpansAt, HoldsAt, stageVars, batchVars
<1> QED
  BY <1>4, <1>5, <1>6, <1>7 DEF CopiesInv

(* The inductive invariant of the four loops: each has chosen the same       *)
(* packages so far.                                                          *)
THEOREM CopiesInvariant == Spec => []CopiesInv
<1>1. TypeOK /\ Init => CopiesInv
  <2> SUFFICES ASSUME TypeOK, Init PROVE CopiesInv
    OBVIOUS
  <2>1. left = Trunc(Launchable)
    BY DEF Init, Trunc
  <2>2. LauncherInv
    BY <2>1 DEF Init, LauncherInv, InOrder, Spans, Holds
  <2>3. StageInv /\ BatchInv
    BY PackagesAssumption DEF Init, StageInv, BatchInv, SpansAt, HoldsAt
  <2> QED
    BY <2>2, <2>3 DEF Init, CopiesInv, ChosenInv
<1>2. TypeOK /\ OverlapInv /\ CopiesInv /\ [Next]_vars => CopiesInv'
  BY PickCopies, EndLauncherCopies, MarkCopies, EndMembershipCopies, StageCopies,
     EndStagesCopies, BatchCopies, OtherCopies DEF Next
<1> QED
  BY <1>1, <1>2, InitTyped, TypeCorrect, OverlapInit, OverlapStep, PTL DEF Spec

(* The four copies of the greedy choice come to the same answer, for any   *)
(* packages, tags and scores.                                              *)
THEOREM CopiesSame == Spec => []CopiesAgree
<1>1. CopiesInv => CopiesAgree
  <2> SUFFICES ASSUME CopiesInv, loop \in {"batches", "done"} PROVE CopiesAgree
    BY DEF CopiesAgree
  <2>1. PICK S \in SUBSET Packages : ChosenBy(S)
    BY DEF CopiesInv, ChosenInv
  <2> DEFINE first == {p \in Packages : stage[p] = 1}
  <2>2. first = S \cap Trunc(Launchable) /\ S \subseteq Launchable
    BY <2>1 DEF ChosenBy, Greedy
  <2>3. Trunc(first) = Trunc(S)
    BY <2>2 DEF Trunc, Several
  <2>4. launched = picked /\ picked = Trunc(first)
    BY <2>1, <2>3 DEF ChosenBy
  <2>5. {p \in Packages : stage[p] # 0} = Trunc(Launchable)
    BY DEF CopiesInv, StageInv, Trunc, Launchable
  <2>6. ASSUME loop = "done"
        PROVE  /\ {p \in Launchable : batch[p] # 0} = picked \ held
               /\ \A p \in picked \ held : batch[p] = 1
               /\ \A p \in Packages \ held : kind[p] = "serial" => batch[p] # 0
    <3>1. \A p \in Packages : batch[p] # 0 <=> p \in ReadyClaims
      BY <2>6 DEF CopiesInv, BatchInv
    <3>2. ReadyClaims = (picked \cup {p \in Packages : kind[p] = "serial"}) \ held
      BY <2>4 DEF ReadyClaims, NotManual
    <3>3. picked \subseteq Launchable /\ Launchable \subseteq Packages
      BY <2>1 DEF ChosenBy, Greedy, Trunc, Launchable
    <3>4. \A p \in Launchable : kind[p] = "parallel"
      BY DEF Launchable
    <3>5. \A p \in picked \ held : batch[p] = 1
      BY <3>1, <3>2, <3>3, <3>4, ClaimsOfFirstStage DEF CopiesInv, BatchInv
    <3> QED
      BY <3>1, <3>2, <3>3, <3>4, <3>5
  <2> QED
    BY <2>4, <2>5, <2>6 DEF CopiesAgree, Trunc
<1> QED
  BY <1>1, CopiesInvariant, PTL

(* What PlanAssumption of ClaimDispatch takes for granted of a generated   *)
(* plan: launchable packages of one stage share no resource tag, also when *)
(* they have no stage at all.                                              *)
StagesKeepApart ==
  loop \in {"batches", "done"} =>
    \A p, q \in Launchable :
      p # q /\ stage[p] = stage[q] => tags[p] \cap tags[q] = {}

(* The plan of a wave is one a one-shot runner may start stage by stage.   *)
THEOREM PlanAsAssumed == Spec => []StagesKeepApart
<1>1. TypeOK /\ OverlapInv /\ CopiesInv => StagesKeepApart
  <2> SUFFICES ASSUME TypeOK, OverlapInv, CopiesInv, loop \in {"batches", "done"},
                      NEW p \in Launchable, NEW q \in Launchable,
                      p # q, stage[p] = stage[q]
               PROVE  tags[p] \cap tags[q] = {}
    BY DEF StagesKeepApart
  <2>1. p \in Packages /\ q \in Packages /\ p \in Trunc(Launchable)
    BY DEF Launchable, Trunc, Several
  <2>2. stage[p] \in 1 .. Slots
    BY <2>1, PackagesAssumption DEF CopiesInv, StageInv, TypeOK
  <2> QED
    BY <2>1, <2>2 DEF OverlapInv, ApartAt, Apart
<1> QED
  BY <1>1, InitTyped, TypeCorrect, CopiesInvariant, OverlapInit, OverlapStep, PTL DEF Spec

(* Nothing is held back without a cause: a launchable package that the     *)
(* parallel launcher leaves out shares a tag with one it starts and that   *)
(* comes first by impact, and a package in a later stage shares a tag with *)
(* some package of every stage before its own.                             *)
HeldBackForCause ==
  loop \in {"batches", "done"} =>
    /\ picked # {} =>
         \A p \in Launchable \ picked :
           \E q \in picked : ByImpact(q, p) /\ tags[q] \cap tags[p] # {}
    /\ \A p \in Packages : \A j \in 1 .. Slots :
         j < stage[p] =>
           \E q \in Packages : stage[q] = j /\ tags[q] \cap tags[p] # {}

(* The greedy choice leaves nothing out and delays nothing needlessly, for *)
(* any packages, tags and scores.                                          *)
THEOREM NothingHeldBack == Spec => []HeldBackForCause
<1>1. CopiesInv => HeldBackForCause
  <2> SUFFICES ASSUME CopiesInv, loop \in {"batches", "done"}
               PROVE  /\ picked # {} =>
                           \A p \in Launchable \ picked :
                             \E q \in picked : ByImpact(q, p) /\ tags[q] \cap tags[p] # {}
                      /\ \A p \in Packages : \A j \in 1 .. Slots :
                           j < stage[p] =>
                             \E q \in Packages : stage[q] = j /\ tags[q] \cap tags[p] # {}
    BY DEF HeldBackForCause
  <2>1. PICK S \in SUBSET Packages : Greedy(S) /\ picked = Trunc(S)
    BY DEF CopiesInv, ChosenInv, ChosenBy
  <2>2. ASSUME picked # {}, NEW p \in Launchable \ picked
        PROVE  \E q \in picked : ByImpact(q, p) /\ tags[q] \cap tags[p] # {}
    <3>1. picked = S /\ p \notin S
      BY <2>1, <2>2 DEF Trunc
    <3>2. ~ Fits(S, p)
      BY <2>1, <2>2, <3>1 DEF Greedy
    <3> QED
      BY <3>1, <3>2 DEF Fits
  <2> QED
    BY <2>2 DEF CopiesInv, StageInv
<1> QED
  BY <1>1, CopiesInvariant, PTL

=============================================================================
