------------------------- MODULE OwnedRuntimeProofs -------------------------
(***************************************************************************)
(* Theorems about OwnedRuntime, for any number of disturbances.            *)
(***************************************************************************)
EXTENDS OwnedRuntime, TLAPS

(* The steps actions are made of keep the types they are concerned with.   *)

HarnessTyped == ControlTyped /\ CleanupTyped

LEMMA RaiseTyped ==
  ASSUME TypeOK, Raise
  PROVE  HarnessTyped'
BY DEF TypeOK, HarnessTyped, ControlTyped, CleanupTyped, Raise, EnterCleanup,
       Pcs, CleanupPcs, Slots, Containers

LEMMA AdvanceTyped ==
  ASSUME TypeOK, NEW p \in Pcs, Advance(p)
  PROVE  HarnessTyped'
BY DEF TypeOK, HarnessTyped, ControlTyped, CleanupTyped, Advance, control, cleanup

LEMMA CreateTyped ==
  ASSUME TypeOK, NEW s \in Slots, NEW st \in States, Create(s, st)
  PROVE  DaemonTyped'
BY DEF TypeOK, DaemonTyped, Create, Objects

LEMMA DeferTyped ==
  ASSUME TypeOK, NEW s \in Slots, Defer(s)
  PROVE  DaemonTyped'
BY DEF TypeOK, DaemonTyped, Defer

LEMMA DaemonUnchangedTyped ==
  ASSUME TypeOK, UNCHANGED daemon
  PROVE  DaemonTyped'
BY DEF TypeOK, DaemonTyped, daemon

LEMMA QuietTyped ==
  ASSUME TypeOK, Quiet
  PROVE  DaemonTyped' /\ WorldTyped' /\ StatusTyped'
BY DEF TypeOK, DaemonTyped, WorldTyped, StatusTyped, Quiet, EnvUnchanged, daemon

LEMMA HarnessUnchangedTyped ==
  ASSUME TypeOK, UNCHANGED <<pc, control, cleanup>>
  PROVE  HarnessTyped'
BY DEF TypeOK, HarnessTyped, ControlTyped, CleanupTyped, control, cleanup

LEMMA SettleTyped ==
  ASSUME TypeOK, NEW r \in {"yes", "no"}, Settle(r), UNCHANGED control
  PROVE  HarnessTyped'
BY DEF TypeOK, HarnessTyped, ControlTyped, CleanupTyped, Settle, NextSlot,
       control, Pcs, CleanupPcs, Slots, Containers

LEMMA CleaningTyped ==
  ASSUME TypeOK, NEW p, Cleaning(p)
  PROVE  /\ WorldTyped' /\ StatusTyped'
         /\ held' \in [Slots -> Objects] => DaemonTyped'
BY DEF TypeOK, DaemonTyped, WorldTyped, StatusTyped, Cleaning, EnvUnchanged

LEMMA PcTyped ==
  /\ MainPcs \subseteq Pcs /\ CleanupPcs \subseteq Pcs /\ EndPcs \subseteq Pcs
  /\ {"pin", "preflight", "stage", "digest", "authority", "network_create",
      "network_inspect", "db_create", "db_inspect", "db_version", "ready",
      "createdb", "match_id", "match_name", "source", "roles", "bootstrap",
      "audit", "start_pre", "wait_pre", "verify_pre", "start_post",
      "wait_post", "verify_post"} \subseteq Pcs
  /\ {"by_name", "by_id", "remove", "gone_id", "gone_name", "report"} \subseteq Pcs
  /\ {"done", "killed"} \subseteq Pcs
BY DEF Pcs, MainPcs, PhasePcs, CleanupPcs, EndPcs

LEMMA InitTyped == Init => TypeOK
<1> SUFFICES ASSUME Init PROVE TypeOK
  OBVIOUS
<1>1. DaemonTyped
  BY DEF Init, DaemonTyped, Objects, Nothing, States
<1>2. WorldTyped
  BY DisturbanceAssumption DEF Init, WorldTyped, Sources
<1>3. ControlTyped /\ CleanupTyped /\ StatusTyped
  BY PcTyped DEF Init, ControlTyped, CleanupTyped, StatusTyped, Slots
<1> QED
  BY <1>1, <1>2, <1>3 DEF TypeOK

(* Preparing: images, names, the copy of the source, the resources.        *)
LEMMA PrepareTyped ==
  ASSUME TypeOK,
         \/ Pin \/ PreflightName \/ StageSource \/ CompareDigests \/ ReadAuthority
         \/ CreateNetwork \/ InspectNetwork \/ CreateDatabase \/ InspectDatabase
         \/ CheckVersions \/ ProbeReady \/ ReadinessTimeout \/ CreateTestDatabase
  PROVE  TypeOK'
<1>1. CASE Pin
  <2>1. DaemonTyped' /\ WorldTyped' /\ StatusTyped'
    BY <1>1, DaemonUnchangedTyped
    DEF Pin, TypeOK, WorldTyped, StatusTyped, EnvUnchanged
  <2>2. HarnessTyped'
    BY <1>1, PcTyped, AdvanceTyped DEF Pin
  <2> QED BY <2>1, <2>2 DEF TypeOK, HarnessTyped
<1>2. CASE PreflightName
  <2>1. HarnessTyped'
    <3>1. CASE Raise
      BY <3>1, RaiseTyped
    <3>2. CASE ~ Raise
      BY <3>2, <1>2, PcTyped
      DEF PreflightName, PreflightOrder, TypeOK, HarnessTyped, ControlTyped,
          CleanupTyped, control, Slots, Containers
    <3> QED BY <3>1, <3>2
  <2> QED BY <1>2, <2>1, QuietTyped DEF PreflightName, TypeOK, HarnessTyped
<1>3. CASE StageSource
  <2>1. HarnessTyped'
    BY <1>3, PcTyped, AdvanceTyped, RaiseTyped DEF StageSource
  <2>2. DaemonTyped' /\ WorldTyped' /\ StatusTyped'
    BY <1>3, DaemonUnchangedTyped
    DEF StageSource, TypeOK, WorldTyped, StatusTyped, EnvUnchanged
  <2> QED BY <2>1, <2>2 DEF TypeOK, HarnessTyped
<1>4. CASE CompareDigests
  <2>1. HarnessTyped'
    BY <1>4, PcTyped, AdvanceTyped, RaiseTyped DEF CompareDigests
  <2> QED BY <1>4, <2>1, QuietTyped DEF CompareDigests, TypeOK, HarnessTyped
<1>5. CASE ReadAuthority
  <2>1. HarnessTyped'
    BY <1>5, PcTyped, AdvanceTyped, RaiseTyped DEF ReadAuthority
  <2>2. DaemonTyped' /\ WorldTyped' /\ StatusTyped'
    BY <1>5, DaemonUnchangedTyped
    DEF ReadAuthority, TypeOK, WorldTyped, StatusTyped, EnvUnchanged
  <2> QED BY <2>1, <2>2 DEF TypeOK, HarnessTyped
<1>6. ASSUME NEW s \in Slots, NEW here \in Pcs, NEW next \in Pcs,
             CreateResource(s, "running", here, next)
      PROVE  TypeOK'
  <2>1. WorldTyped' /\ StatusTyped'
    BY <1>6 DEF CreateResource, TypeOK, WorldTyped, StatusTyped, EnvUnchanged
  <2>2. DaemonTyped'
    <3>1. "running" \in States /\ "created" \in States
      BY DEF States
    <3> QED
      BY <1>6, <3>1, CreateTyped, DeferTyped, DaemonUnchangedTyped DEF CreateResource
  <2>3. HarnessTyped'
    <3>1. CASE Raise
      BY <3>1, RaiseTyped
    <3>2. CASE ~ Raise
      BY <3>2, <1>6
      DEF CreateResource, TypeOK, HarnessTyped, ControlTyped, CleanupTyped,
          DaemonTyped, cleanup
    <3> QED BY <3>1, <3>2
  <2> QED BY <2>1, <2>2, <2>3 DEF TypeOK, HarnessTyped
<1>7. CASE CreateNetwork \/ CreateDatabase
  BY <1>6, <1>7, PcTyped DEF CreateNetwork, CreateDatabase, Slots, Containers
<1>8. CASE InspectNetwork \/ InspectDatabase
  <2>1. HarnessTyped' /\ Quiet
    BY <1>8, PcTyped, AdvanceTyped, RaiseTyped
    DEF InspectNetwork, InspectDatabase, InspectCreated
  <2> QED BY <2>1, QuietTyped DEF TypeOK, HarnessTyped
<1>9. CASE CheckVersions \/ CreateTestDatabase \/ ProbeReady \/ ReadinessTimeout
  <2>1. HarnessTyped' /\ Quiet
    BY <1>9, PcTyped, AdvanceTyped, RaiseTyped
    DEF CheckVersions, CreateTestDatabase, ExecInDatabase, ProbeReady,
        ReadinessTimeout
  <2> QED BY <2>1, QuietTyped DEF TypeOK, HarnessTyped
<1> QED
  BY <1>1, <1>2, <1>3, <1>4, <1>5, <1>7, <1>8, <1>9

(* The two phases, the checks around them and the audit.                   *)
LEMMA PhasesTyped ==
  ASSUME TypeOK,
         \/ MatchById \/ MatchByName \/ StartPre \/ WaitPre \/ VerifyPre
         \/ SourcePairMatches \/ CreateRoles \/ LoadAuthority
         \/ StartPost \/ WaitPost \/ VerifyPost \/ Audit
  PROVE  TypeOK'
<1>1. ASSUME EnterCleanup, UNCHANGED <<check, code, attached, rec>>,
             good' \in {"yes", "no"}, raised' \in {"yes", "no"}
      PROVE  HarnessTyped'
  BY <1>1, PcTyped
  DEF TypeOK, HarnessTyped, ControlTyped, CleanupTyped, EnterCleanup, Slots,
      Containers
<1>2. Mismatch => HarnessTyped'
  BY <1>1, RaiseTyped DEF Mismatch, TypeOK, ControlTyped
<1>3. CASE MatchById
  <2>1. HarnessTyped'
    BY <1>2, <1>3, PcTyped, AdvanceTyped DEF MatchById
  <2> QED BY <1>3, <2>1, QuietTyped DEF MatchById, TypeOK, HarnessTyped
<1>4. CASE MatchByName
  <2>1. AfterMatch => HarnessTyped'
    <3>1. check \in {"pre", "bootstrap", "post"}
      BY DEF TypeOK, ControlTyped
    <3> QED
      BY <3>1, <1>1, PcTyped, AdvanceTyped DEF AfterMatch, control, TypeOK, ControlTyped
  <2>2. HarnessTyped'
    BY <1>2, <1>4, <2>1 DEF MatchByName
  <2> QED BY <1>4, <2>2, QuietTyped DEF MatchByName, TypeOK, HarnessTyped
<1>5. ASSUME NEW s \in Slots, NEW here \in Pcs, NEW next \in Pcs,
             StartPhase(s, here, next)
      PROVE  TypeOK'
  <2>1. DaemonTyped'
    BY <1>5, CreateTyped, DeferTyped, DaemonUnchangedTyped DEF StartPhase, States
  <2>2. WorldTyped' /\ StatusTyped'
    BY <1>5 DEF StartPhase, TypeOK, WorldTyped, StatusTyped, EnvUnchanged
  <2>3. HarnessTyped'
    BY <1>5
    DEF StartPhase, TypeOK, HarnessTyped, ControlTyped, CleanupTyped,
        DaemonTyped, cleanup
  <2> QED BY <2>1, <2>2, <2>3 DEF TypeOK, HarnessTyped
<1>6. ASSUME NEW s \in Slots, NEW here \in Pcs, NEW next \in Pcs,
             WaitPhase(s, here, next)
      PROVE  TypeOK'
  <2>1. DaemonTyped'
    BY <1>6 DEF WaitPhase, TypeOK, DaemonTyped, Objects, States
  <2>2. WorldTyped' /\ StatusTyped'
    BY <1>6 DEF WaitPhase, TypeOK, WorldTyped, StatusTyped, EnvUnchanged
  <2>3. HarnessTyped'
    BY <1>6
    DEF WaitPhase, TypeOK, HarnessTyped, ControlTyped, CleanupTyped, cleanup
  <2> QED BY <2>1, <2>2, <2>3 DEF TypeOK, HarnessTyped
<1>7. ASSUME NEW s \in Slots, NEW here \in Pcs, NEW next \in Pcs,
             VerifyPhase(s, here, next)
      PROVE  TypeOK'
  <2>1. HarnessTyped'
    <3>1. CASE Raise
      BY <3>1, RaiseTyped
    <3>2. CASE ~ Raise
      <4>1. held[s].id \in Nat
        BY DEF TypeOK, DaemonTyped, Objects
      <4>2. rec' \in [Slots -> Nat]
        BY <3>2, <4>1, <1>7 DEF VerifyPhase, TypeOK, ControlTyped
      <4> QED
        BY <3>2, <4>2, <1>7, PcTyped
        DEF VerifyPhase, TypeOK, HarnessTyped, ControlTyped, CleanupTyped,
            cleanup, Slots, Containers
    <3> QED BY <3>1, <3>2
  <2> QED BY <1>7, <2>1, QuietTyped DEF VerifyPhase, TypeOK, HarnessTyped
<1>8. CASE StartPre \/ StartPost
  BY <1>5, <1>8, PcTyped DEF StartPre, StartPost, Slots, Containers
<1>9. CASE WaitPre \/ WaitPost
  BY <1>6, <1>9, PcTyped DEF WaitPre, WaitPost, Slots, Containers
<1>10. CASE VerifyPre \/ VerifyPost
  BY <1>7, <1>10, PcTyped DEF VerifyPre, VerifyPost, Slots, Containers
<1>11. CASE SourcePairMatches
  <2>1. HarnessTyped'
    <3>1. CASE Raise
      BY <3>1, RaiseTyped
    <3>2. CASE ~ Raise
      BY <3>2, <1>11, PcTyped
      DEF SourcePairMatches, AfterSource, TypeOK, HarnessTyped, ControlTyped,
          CleanupTyped, cleanup
    <3> QED BY <3>1, <3>2
  <2> QED BY <1>11, <2>1, QuietTyped DEF SourcePairMatches, TypeOK, HarnessTyped
<1>12. CASE CreateRoles \/ LoadAuthority
  <2>1. HarnessTyped' /\ Quiet
    BY <1>12, PcTyped, AdvanceTyped, RaiseTyped
    DEF CreateRoles, LoadAuthority, ExecInDatabase
  <2> QED BY <2>1, QuietTyped DEF TypeOK, HarnessTyped
<1>13. CASE Audit
  <2>1. HarnessTyped'
    <3>1. CASE Raise
      BY <3>1, RaiseTyped
    <3>2. CASE ~ Raise
      BY <3>2, <1>13, PcTyped
      DEF Audit, TypeOK, HarnessTyped, ControlTyped, CleanupTyped, cleanup
    <3> QED BY <3>1, <3>2
  <2> QED BY <1>13, <2>1, QuietTyped DEF Audit, TypeOK, HarnessTyped
<1> QED
  BY <1>3, <1>4, <1>8, <1>9, <1>10, <1>11, <1>12, <1>13

(* Cleanup and the report.                                                 *)
LEMMA CleanTyped ==
  ASSUME TypeOK, Clean
  PROVE  TypeOK'
<1>1. ASSUME NEW p, Cleaning(p), held' \in [Slots -> Objects], HarnessTyped'
      PROVE  TypeOK'
  BY <1>1, CleaningTyped DEF TypeOK, HarnessTyped
<1>2. CASE CleanByName
  <2>1. held[slot].id \in Nat
    BY DEF TypeOK, DaemonTyped, CleanupTyped, Objects
  <2>2. HarnessTyped'
    <3>1. CASE \E r \in {"yes", "no"} : Settle(r)
      BY <3>1, <1>2, SettleTyped DEF CleanByName, Cleaning
    <3>2. CASE ~ \E r \in {"yes", "no"} : Settle(r)
      BY <3>2, <1>2, <2>1, PcTyped
      DEF CleanByName, Cleaning, TypeOK, HarnessTyped, ControlTyped,
          CleanupTyped, control, cleanup
    <3> QED BY <3>1, <3>2
  <2> QED BY <1>1, <1>2, <2>2 DEF CleanByName, TypeOK, DaemonTyped
<1>3. CASE CleanById \/ CleanGoneById \/ CleanGoneByName
  <2>1. HarnessTyped'
    <3>1. CASE \E r \in {"yes", "no"} : Settle(r)
      BY <3>1, <1>3, SettleTyped
      DEF CleanById, CleanGoneById, CleanGoneByName, Cleaning
    <3>2. CASE ~ \E r \in {"yes", "no"} : Settle(r)
      BY <3>2, <1>3, PcTyped
      DEF CleanById, CleanGoneById, CleanGoneByName, Cleaning, TypeOK,
          HarnessTyped, ControlTyped, CleanupTyped, control, cleanup
    <3> QED BY <3>1, <3>2
  <2> QED
    BY <1>1, <1>3, <2>1
    DEF CleanById, CleanGoneById, CleanGoneByName, TypeOK, DaemonTyped
<1>4. CASE CleanRemove
  <2>1. HarnessTyped'
    <3>1. CASE \E r \in {"yes", "no"} : Settle(r)
      BY <3>1, <1>4, SettleTyped DEF CleanRemove, Cleaning
    <3>2. CASE ~ \E r \in {"yes", "no"} : Settle(r)
      BY <3>2, <1>4, PcTyped
      DEF CleanRemove, Cleaning, TypeOK, HarnessTyped, ControlTyped,
          CleanupTyped, control, cleanup
    <3> QED BY <3>1, <3>2
  <2>2. Nothing \in Objects
    BY DEF Nothing, Objects, States
  <2>3. held' \in [Slots -> Objects]
    BY <1>4, <2>2 DEF CleanRemove, Removed, TypeOK, DaemonTyped, CleanupTyped
  <2> QED BY <1>1, <1>4, <2>1, <2>3 DEF CleanRemove
<1>5. CASE Report
  <2>1. HarnessTyped'
    BY <1>5, PcTyped
    DEF Report, TypeOK, HarnessTyped, ControlTyped, CleanupTyped, control, cleanup
  <2>2. DaemonTyped'
    BY <1>5, DaemonUnchangedTyped DEF Report
  <2>3. WorldTyped' /\ StatusTyped'
    BY <1>5 DEF Report, TypeOK, WorldTyped, StatusTyped, EnvUnchanged, Sources
  <2> QED BY <2>1, <2>2, <2>3 DEF TypeOK, HarnessTyped
<1> QED
  BY <1>2, <1>3, <1>4, <1>5 DEF Clean

(* The daemon, the clock and the other users.                              *)
LEMMA EnvironmentTyped ==
  ASSUME TypeOK, Environment
  PROVE  TypeOK'
<1>1. CASE Kill
  <2>1. HarnessTyped'
    BY <1>1, PcTyped
    DEF Kill, TypeOK, HarnessTyped, ControlTyped, CleanupTyped, control, cleanup
  <2>2. DaemonTyped' /\ WorldTyped' /\ StatusTyped'
    BY <1>1, DaemonUnchangedTyped DEF Kill, TypeOK, WorldTyped, StatusTyped, source
  <2> QED BY <2>1, <2>2 DEF TypeOK, HarnessTyped
<1>2. CASE DeadlinePasses
  <2>1. HarnessTyped'
    BY <1>2, HarnessUnchangedTyped DEF DeadlinePasses
  <2>2. DaemonTyped' /\ WorldTyped' /\ StatusTyped'
    BY <1>2, DaemonUnchangedTyped
    DEF DeadlinePasses, TypeOK, WorldTyped, StatusTyped, source
  <2> QED BY <2>1, <2>2 DEF TypeOK, HarnessTyped
<1>3. CASE EditSource
  <2>1. HarnessTyped'
    BY <1>3, HarnessUnchangedTyped DEF EditSource
  <2>2. DaemonTyped' /\ WorldTyped' /\ StatusTyped'
    BY <1>3, DaemonUnchangedTyped
    DEF EditSource, TypeOK, WorldTyped, StatusTyped, Sources
  <2> QED BY <2>1, <2>2 DEF TypeOK, HarnessTyped
<1>4. ASSUME NEW s \in Slots, LateCreation(s) PROVE TypeOK'
  <2>1. HarnessTyped'
    BY <1>4, HarnessUnchangedTyped DEF LateCreation
  <2>2. DaemonTyped'
    BY <1>4 DEF LateCreation, TypeOK, DaemonTyped, Objects, States
  <2>3. WorldTyped' /\ StatusTyped'
    BY <1>4 DEF LateCreation, TypeOK, WorldTyped, StatusTyped, source
  <2> QED BY <2>1, <2>2, <2>3 DEF TypeOK, HarnessTyped
<1>5. ASSUME NEW s \in Slots, Disturb(s) PROVE TypeOK'
  <2>1. HarnessTyped'
    BY <1>5, HarnessUnchangedTyped DEF Disturb
  <2>2. DaemonTyped'
    BY <1>5 DEF Disturb, TypeOK, DaemonTyped, Objects, States, Nothing
  <2>3. WorldTyped' /\ StatusTyped'
    BY <1>5, DisturbanceAssumption
    DEF Disturb, TypeOK, WorldTyped, StatusTyped, source
  <2> QED BY <2>1, <2>2, <2>3 DEF TypeOK, HarnessTyped
<1> QED
  BY <1>1, <1>2, <1>3, <1>4, <1>5 DEF Environment

(* Type correctness: every variable of the harness and of the daemon keeps *)
(* its shape, for any number of disturbances.                              *)
THEOREM TypeCorrect == Spec => []TypeOK
<1>1. TypeOK /\ [Next]_vars => TypeOK'
  <2> SUFFICES ASSUME TypeOK, [Next]_vars
               PROVE  TypeOK'
    OBVIOUS
  <2>1. CASE Execute
    BY <2>1, PrepareTyped, PhasesTyped DEF Execute
  <2>2. CASE Clean
    BY <2>2, CleanTyped
  <2>3. CASE Environment
    BY <2>3, EnvironmentTyped
  <2>4. CASE UNCHANGED vars
    <3>1. HarnessTyped' /\ DaemonTyped'
      BY <2>4, HarnessUnchangedTyped, DaemonUnchangedTyped DEF vars
    <3>2. WorldTyped' /\ StatusTyped'
      BY <2>4 DEF vars, TypeOK, WorldTyped, StatusTyped, source
    <3> QED BY <3>1, <3>2 DEF TypeOK, HarnessTyped
  <2> QED
    BY <2>1, <2>2, <2>3, <2>4 DEF Next, Harness, Finished
<1> QED
  BY <1>1, InitTyped, PTL DEF Spec

-----------------------------------------------------------------------------
(* What a receipt with status pass means, from two inductive invariants.   *)


(* What a step before cleanup may do to the control state.                 *)
ToCleanup ==
  /\ pc' = "by_name" /\ slot' = "pre" /\ target' = rec'["pre"]
  /\ UNCHANGED outcome
Enters == ToCleanup /\ raised' = "yes"
Stays == pc' \in MainPcs /\ UNCHANGED <<outcome, raised>>

LEMMA PcKinds ==
  /\ MainPcs \cap CleanupPcs = {} /\ MainPcs \cap EndPcs = {}
  /\ CleanupPcs \cap EndPcs = {}
  /\ PhasePcs \subseteq MainPcs /\ Unused \subseteq MainPcs
  /\ "by_name" \in CleanupPcs /\ "report" \in CleanupPcs
BY DEF MainPcs, PhasePcs, CleanupPcs, EndPcs, Unused, Unstaged

(* Every step of the try block stays in it, raises, or (from the last      *)
(* identity check) enters cleanup without an exception; Pin may end it.    *)
LEMMA ExecuteShape ==
  ASSUME TypeOK, Execute
  PROVE  /\ pc \in MainPcs
         /\ \/ Stays
            \/ Enters
            \/ /\ ToCleanup /\ UNCHANGED raised
               /\ pc \in {"match_id", "match_name"} /\ check = "post"
               /\ UNCHANGED late
            \/ /\ pc = "pin" /\ pc' = "done"
               /\ UNCHANGED <<daemon, outcome, raised>>
         /\ pc' # "pin" /\ (pc' # "done" => UNCHANGED status)
         /\ status' = "pass" => status = "pass"
<1> USE DEF Stays, Enters, ToCleanup, EnterCleanup, Raise, Advance, control,
            cleanup, MainPcs, PhasePcs, Quiet
<1>1. CASE Pin
  BY <1>1 DEF Pin
<1>2. CASE PreflightName \/ StageSource \/ CompareDigests \/ ReadAuthority
  BY <1>2 DEF PreflightName, StageSource, CompareDigests, ReadAuthority
<1>3. CASE CreateNetwork \/ InspectNetwork \/ CreateDatabase \/ InspectDatabase
  BY <1>3 DEF CreateNetwork, InspectNetwork, CreateDatabase, InspectDatabase,
              CreateResource, InspectCreated
<1>4. CASE CheckVersions \/ ProbeReady \/ ReadinessTimeout \/ CreateTestDatabase
           \/ CreateRoles \/ LoadAuthority \/ Audit
  BY <1>4 DEF CheckVersions, ProbeReady, ReadinessTimeout, CreateTestDatabase,
              CreateRoles, LoadAuthority, Audit, ExecInDatabase
<1>5. CASE MatchById \/ MatchByName \/ SourcePairMatches
  <2>1. check \in {"pre", "bootstrap", "post"}
    BY DEF TypeOK, ControlTyped
  <2> QED
    BY <1>5, <2>1 DEF MatchById, MatchByName, Mismatch, AfterMatch, daemon,
                       SourcePairMatches, AfterSource
<1>6. CASE StartPre \/ WaitPre \/ StartPost \/ WaitPost
  BY <1>6 DEF StartPre, WaitPre, StartPost, WaitPost, StartPhase, WaitPhase
<1>7. CASE VerifyPre \/ VerifyPost
  BY <1>7 DEF VerifyPre, VerifyPost, VerifyPhase
<1> QED
  BY <1>1, <1>2, <1>3, <1>4, <1>5, <1>6, <1>7 DEF Execute

(* A creation becomes pending only on the way to an exception, and the     *)
(* verification of a phase that was not answered raises.                   *)
LEMMA ExecuteLate ==
  ASSUME TypeOK, LateMeansRaised, Execute
  PROVE  LateMeansRaised'
<1>1. \/ UNCHANGED <<pending, late>>
      \/ \E s \in Slots : Defer(s) /\ (Raise \/ StartPre \/ StartPost)
  <2>1. \/ Quiet
        \/ Pin \/ StageSource \/ ReadAuthority \/ CreateNetwork \/ CreateDatabase
        \/ StartPre \/ StartPost \/ WaitPre \/ WaitPost
    BY DEF Execute, PreflightName, CompareDigests, InspectNetwork,
           InspectDatabase, InspectCreated, CheckVersions, ProbeReady,
           ReadinessTimeout, CreateTestDatabase, CreateRoles, LoadAuthority,
           ExecInDatabase, MatchById, MatchByName, VerifyPre, VerifyPost,
           VerifyPhase, SourcePairMatches, Audit
  <2>2. CASE Quiet \/ Pin \/ StageSource \/ ReadAuthority
    BY <2>2 DEF Quiet, daemon, Pin, StageSource, ReadAuthority
  <2>3. CASE CreateNetwork \/ CreateDatabase
    BY <2>3 DEF CreateNetwork, CreateDatabase, CreateResource, Create, daemon,
                Slots, Containers
  <2>4. CASE StartPre \/ StartPost
    BY <2>4 DEF StartPre, StartPost, StartPhase, Create, daemon, Slots, Containers
  <2>5. CASE WaitPre \/ WaitPost
    BY <2>5 DEF WaitPre, WaitPost, WaitPhase
  <2> QED BY <2>1, <2>2, <2>3, <2>4, <2>5
<1>2. pending' \subseteq late'
  BY <1>1 DEF LateMeansRaised, Defer
<1>3. raised = "yes" => raised' = "yes"
  BY ExecuteShape DEF Stays, Enters
<1>4. CASE raised = "yes"
  BY <1>2, <1>3, <1>4 DEF LateMeansRaised
<1>5. CASE \E s \in Slots : Defer(s) /\ (Raise \/ StartPre \/ StartPost)
  <2>1. Raise => raised' = "yes"
    BY DEF Raise
  <2>2. ASSUME NEW s \in Slots, Defer(s), StartPre \/ StartPost
        PROVE  code' = "broken" /\ pc' \in {"wait_pre", "wait_post"}
    <3>1. ASSUME NEW x, NEW a, NEW b, StartPhase(x, a, b), code' # "broken"
          PROVE  UNCHANGED nextId => FALSE
      BY <3>1 DEF StartPhase, Create, TypeOK, DaemonTyped
    <3> QED
      BY <2>2, <3>1 DEF StartPre, StartPost, StartPhase, Defer
  <2> QED
    BY <1>2, <1>5, <2>1, <2>2 DEF LateMeansRaised, PhasePcs
<1>6. CASE raised # "yes" /\ UNCHANGED <<pending, late>> /\ late # {}
  <2>1. code = "broken" /\ pc \in PhasePcs \ {"start_pre", "start_post"}
    BY <1>6, ExecuteShape, PcKinds DEF LateMeansRaised, EndPcs
  <2>2. WaitPre \/ WaitPost \/ VerifyPre \/ VerifyPost
    BY <2>1
    DEF PhasePcs, Execute, Pin, PreflightName, StageSource, CompareDigests,
        ReadAuthority, CreateNetwork, CreateDatabase, CreateResource,
        InspectNetwork, InspectDatabase, InspectCreated, CheckVersions,
        ProbeReady, ReadinessTimeout, CreateTestDatabase, CreateRoles,
        LoadAuthority, ExecInDatabase, MatchById, MatchByName, StartPre,
        StartPost, StartPhase, SourcePairMatches, Audit
  <2>3. CASE WaitPre \/ WaitPost
    BY <1>2, <2>1, <2>3 DEF WaitPre, WaitPost, WaitPhase, LateMeansRaised, PhasePcs
  <2>4. CASE VerifyPre \/ VerifyPost
    <3>1. \A s \in Slots : held[s].state # "broken"
      BY DEF TypeOK, DaemonTyped, Objects, States
    <3>2. raised' = "yes"
      BY <2>1, <2>4, <3>1
      DEF VerifyPre, VerifyPost, VerifyPhase, Raise, Slots, Containers
    <3> QED BY <1>2, <3>2 DEF LateMeansRaised
  <2> QED BY <2>2, <2>3, <2>4
<1>7. CASE UNCHANGED <<pending, late>> /\ late = {}
  BY <1>2, <1>7 DEF LateMeansRaised
<1> QED
  BY <1>1, <1>4, <1>5, <1>6, <1>7

(* Outcomes are settled by cleanup alone.                                  *)
LEMMA ExecuteResidue ==
  ASSUME TypeOK, ResidueInv, Execute
  PROVE  ResidueInv'
<1>1. LateMeansRaised'
  BY ExecuteLate DEF ResidueInv
<1>2. pc \in MainPcs /\ pc \notin CleanupPcs /\ pc # "done"
  BY ExecuteShape, PcKinds DEF EndPcs
<1>3. outcome' = outcome /\ \A s \in Slots : outcome[s] = "unset"
  BY <1>2, ExecuteShape DEF Stays, Enters, ToCleanup, ResidueInv, SettledInOrder, Settled
<1>4. SettledInOrder'
  BY <1>3, ExecuteShape, PcKinds
  DEF Stays, Enters, ToCleanup, SettledInOrder, Settled, Remaining, EndPcs
<1>5. AbsentStaysAbsent'
  <2>1. status' # "pass"
    BY <1>2, ExecuteShape DEF ResidueInv, AbsentStaysAbsent
  <2>2. pc' = "done" => pc = "pin" /\ UNCHANGED daemon
    BY ExecuteShape, PcKinds DEF Stays, Enters, ToCleanup, EndPcs
  <2>3. pc' # "pin"
    BY ExecuteShape
  <2>4. \A s \in Slots : outcome'[s] # "yes"
    BY <1>3
  <2> QED
    BY <2>1, <2>2, <2>3, <2>4 DEF ResidueInv, AbsentStaysAbsent, daemon, Mine
<1> QED
  BY <1>1, <1>4, <1>5 DEF ResidueInv

(* A step of cleanup settles the slot it is at, moves on within it, or     *)
(* reports; it calls a slot absent only when nothing of ours is there.     *)
LEMMA CleanShape ==
  ASSUME TypeOK, Clean
  PROVE  /\ pc \in CleanupPcs
         /\ UNCHANGED <<pending, late, seen, control>>
         /\ \A s \in Slots : Mine(s)' => Mine(s)
         /\ \/ /\ pc # "report" /\ pc' \in CleanupPcs \ {"report"}
               /\ UNCHANGED <<slot, outcome, status>>
            \/ /\ pc # "report" /\ UNCHANGED status
               /\ \E r \in {"yes", "no"} : Settle(r) /\ (r = "yes" => held'[slot].owner # "mine")
            \/ Report
<1> USE DEF CleanupPcs, Cleaning, cleanup
<1>1. CASE CleanByName
  BY <1>1 DEF CleanByName, Mine, Present
<1>2. CASE CleanById
  BY <1>2 DEF CleanById, Mine
<1>3. CASE CleanRemove
  <2>1. \A s \in Slots : Mine(s)' => Mine(s)
    BY <1>3 DEF CleanRemove, Removed, Mine, Nothing, TypeOK, DaemonTyped, CleanupTyped
  <2> QED BY <1>3, <2>1 DEF CleanRemove
<1>4. CASE CleanGoneById \/ CleanGoneByName
  BY <1>4 DEF CleanGoneById, CleanGoneByName, Mine, Present, ByName
<1>5. CASE Report
  BY <1>5 DEF Report, daemon, Mine
<1> QED
  BY <1>1, <1>2, <1>3, <1>4, <1>5 DEF Clean

LEMMA CleanResidue ==
  ASSUME TypeOK, ResidueInv, Clean
  PROVE  ResidueInv'
<1> USE DEF ResidueInv
<1>1. pc \notin MainPcs /\ pc \notin EndPcs /\ pc \notin PhasePcs
  BY CleanShape, PcKinds
<1>2. LateMeansRaised'
  <2>1. pc' \notin PhasePcs \/ pc' = pc
    BY CleanShape, PcKinds DEF Settle, Report, CleanupPcs, PhasePcs
  <2> QED
    BY <1>1, CleanShape DEF LateMeansRaised, control, EndPcs
<1>3. CASE /\ pc # "report" /\ pc' \in CleanupPcs \ {"report"}
           /\ UNCHANGED <<slot, outcome, status>>
  <2>1. pc' \notin MainPcs /\ pc' \notin EndPcs /\ pc' # "pin"
    BY <1>3, PcKinds DEF MainPcs
  <2>2. SettledInOrder'
    BY <1>3, <2>1, CleanShape DEF SettledInOrder, Settled
  <2>3. AbsentStaysAbsent'
    BY <1>1, <1>3, <2>1, CleanShape DEF AbsentStaysAbsent, EndPcs, Verified
  <2> QED BY <1>2, <2>2, <2>3
<1>4. ASSUME pc # "report", UNCHANGED status,
             NEW r \in {"yes", "no"}, Settle(r), r = "yes" => held'[slot].owner # "mine"
      PROVE  ResidueInv'
  <2>1. /\ slot \in Slots
        /\ outcome' = [outcome EXCEPT ![slot] = r]
        /\ outcome \in [Slots -> {"unset", "yes", "no"}]
    BY <1>4 DEF Settle, TypeOK, CleanupTyped
  <2>2. \A s \in Slots : Settled(s) <=> s \notin Remaining[slot]
    BY <1>4, CleanShape DEF SettledInOrder
  <2>3. \A s \in Slots : Settled(s)' <=> Settled(s) \/ s = slot
    BY <2>1 DEF Settled
  <2>4. \/ pc' = "report" /\ slot = "net"
        \/ pc' = "by_name" /\ slot # "net" /\ slot' = NextSlot[slot]
    BY <1>4 DEF Settle
  <2>5. SettledInOrder'
    BY <2>1, <2>2, <2>3, <2>4, PcKinds
    DEF SettledInOrder, Remaining, NextSlot, Slots, Containers, MainPcs, PhasePcs
  <2>6. pc' \notin {"pin", "done"} /\ status' # "pass"
    BY <1>1, <1>4, <2>4 DEF AbsentStaysAbsent, EndPcs
  <2>7. AbsentStaysAbsent'
    BY <1>4, <2>1, <2>6, CleanShape DEF AbsentStaysAbsent, Mine
  <2> QED BY <1>2, <2>5, <2>7
<1>5. CASE Report
  <2>1. pc = "report" /\ pc' = "done" /\ UNCHANGED outcome /\ UNCHANGED held
    BY <1>5 DEF Report, cleanup, daemon
  <2>2. pc' \notin MainPcs /\ pc' \notin CleanupPcs
    BY <2>1, PcKinds DEF EndPcs
  <2>3. SettledInOrder'
    BY <2>1, <2>2 DEF SettledInOrder, CleanupPcs
  <2>4. status' = "pass" => late' = {} /\ Verified'
    BY <1>1, <1>5, <2>1, CleanShape DEF Report, LateMeansRaised, EndPcs, Verified
  <2>5. AbsentStaysAbsent'
    BY <2>1, <2>4, CleanShape DEF AbsentStaysAbsent, SettledInOrder, Settled
  <2> QED BY <1>2, <2>3, <2>5
<1> QED
  BY <1>3, <1>4, <1>5, CleanShape

(* The environment settles nothing, and adds an object of ours only where  *)
(* a creation was pending.                                                 *)
LEMMA EnvironmentResidue ==
  ASSUME TypeOK, ResidueInv, Environment
  PROVE  ResidueInv'
<1>1. /\ UNCHANGED <<late, control, cleanup, status>>
      /\ pc' = pc \/ (pc \notin EndPcs /\ pc' = "killed")
      /\ pending' \subseteq pending
  BY DEF Environment, Kill, DeadlinePasses, EditSource, LateCreation, Disturb,
         daemon, source
<1>2. \A s \in Slots : Mine(s)' => Mine(s) \/ s \in pending
  <2>1. CASE Kill \/ DeadlinePasses \/ EditSource
    BY <2>1 DEF Kill, DeadlinePasses, EditSource, daemon, Mine
  <2>2. ASSUME NEW x \in Slots, LateCreation(x)
        PROVE  \A s \in Slots : Mine(s)' => Mine(s) \/ s \in pending
    BY <2>2 DEF LateCreation, Mine, TypeOK, DaemonTyped
  <2>3. ASSUME NEW x \in Slots, Disturb(x)
        PROVE  \A s \in Slots : Mine(s)' => Mine(s)
    BY <2>3 DEF Disturb, Mine, TypeOK, DaemonTyped, Objects, Nothing
  <2> QED
    BY <2>1, <2>2, <2>3 DEF Environment
<1>3. "killed" \notin MainPcs /\ "killed" \notin CleanupPcs
  BY PcKinds DEF EndPcs
<1>4. LateMeansRaised'
  BY <1>1, <1>3, PcKinds DEF ResidueInv, LateMeansRaised, control
<1>5. SettledInOrder'
  BY <1>1, <1>3 DEF ResidueInv, SettledInOrder, Settled, cleanup, CleanupPcs
<1>6. AbsentStaysAbsent'
  <2>1. late = {} => pending = {}
    BY DEF ResidueInv, LateMeansRaised
  <2>2. status = "pass" => pc' = "done"
    BY <1>1 DEF ResidueInv, AbsentStaysAbsent, EndPcs
  <2> QED
    BY <1>1, <1>2, <2>1, <2>2
    DEF ResidueInv, LateMeansRaised, AbsentStaysAbsent, Settled, Verified, cleanup
<1> QED
  BY <1>4, <1>5, <1>6 DEF ResidueInv

THEOREM ResidueInvariant == Spec => []ResidueInv
<1>1. Init => ResidueInv
  BY PcKinds
  DEF Init, ResidueInv, LateMeansRaised, SettledInOrder, AbsentStaysAbsent,
      Settled, Mine, Nothing, CleanupPcs
<1>2. TypeOK /\ ResidueInv /\ [Next]_vars => ResidueInv'
  <2> SUFFICES ASSUME TypeOK, ResidueInv, [Next]_vars
               PROVE  ResidueInv'
    OBVIOUS
  <2>1. CASE Execute
    BY <2>1, ExecuteResidue
  <2>2. CASE Clean
    BY <2>2, CleanResidue
  <2>3. CASE Environment
    BY <2>3, EnvironmentResidue
  <2>4. CASE UNCHANGED vars
    BY <2>4
    DEF vars, daemon, control, cleanup, ResidueInv, LateMeansRaised,
        SettledInOrder, AbsentStaysAbsent, Settled, Mine, Verified
  <2> QED
    BY <2>1, <2>2, <2>3, <2>4 DEF Next, Harness, Finished
<1> QED
  BY <1>1, <1>2, TypeCorrect, PTL DEF Spec

(* A pass leaves nothing behind, and nothing can appear afterwards.        *)
THEOREM PassClean == Spec => []PassMeansClean
<1>1. TypeOK /\ ResidueInv => PassMeansClean
  BY DEF ResidueInv, LateMeansRaised, AbsentStaysAbsent, PassMeansClean,
         Residue, Verified
<1> QED
  BY <1>1, TypeCorrect, ResidueInvariant, PTL

(* What is left when the harness reports is in the outcome of its slot.    *)
THEOREM ResidueReported == Spec => []NoUnreportedResidue
<1>1. TypeOK /\ ResidueInv => NoUnreportedResidue
  BY DEF ResidueInv, AbsentStaysAbsent, NoUnreportedResidue, Settled, TypeOK,
         CleanupTyped
<1> QED
  BY <1>1, TypeCorrect, ResidueInvariant, PTL

-----------------------------------------------------------------------------
(* The source the phases ran on.                                           *)

LEMMA EnterSource ==
  ASSUME SourceInv, status # "pass", UNCHANGED <<seen, staged, status>>, Raise
  PROVE  SourceInv'
BY PcKinds
DEF SourceInv, Raise, EnterCleanup, MainPcs, PhasePcs, Unstaged, Unused

LEMMA ExecuteSource ==
  ASSUME TypeOK, SourceInv, Execute
  PROVE  SourceInv'
<1> USE DEF EnvUnchanged, Quiet, Unstaged, Unused, MainPcs, PhasePcs, CleanupPcs,
            control, cleanup, Advance
<1>1. pc \in MainPcs /\ status # "pass"
  BY ExecuteShape, PcKinds DEF SourceInv
<1>2. /\ check \in {"pre", "bootstrap", "post"} /\ staged \in Sources
      /\ seen \subseteq Sources /\ live \in {"recorded", "edited"}
  BY DEF TypeOK, ControlTyped, WorldTyped, Sources
<1>3. CASE Raise
  <2>1. UNCHANGED <<seen, staged>>
    BY <1>3
    DEF Raise, EnterCleanup, Execute, Pin, PreflightName, StageSource,
        CompareDigests, ReadAuthority, CreateNetwork, CreateDatabase,
        CreateResource, InspectNetwork, InspectDatabase, InspectCreated,
        CheckVersions, ProbeReady, ReadinessTimeout, CreateTestDatabase,
        CreateRoles, LoadAuthority, ExecInDatabase, MatchById, MatchByName,
        StartPre, StartPost, StartPhase, WaitPre, WaitPost, WaitPhase,
        VerifyPre, VerifyPost, VerifyPhase, SourcePairMatches, Audit
  <2>2. UNCHANGED status
    BY <1>3, ExecuteShape DEF Raise, EnterCleanup
  <2> QED BY <1>1, <1>3, <2>1, <2>2, EnterSource
<1>4. CASE ~ Raise /\ (Pin \/ PreflightName)
  BY <1>1, <1>4 DEF Pin, PreflightName, SourceInv
<1>5. CASE ~ Raise /\ (StageSource \/ CompareDigests)
  BY <1>1, <1>2, <1>5 DEF StageSource, CompareDigests, SourceInv
<1>6. CASE ~ Raise /\ ReadAuthority
  BY <1>1, <1>2, <1>6 DEF ReadAuthority, SourceInv, Sources
<1>7. CASE ~ Raise /\ (CreateNetwork \/ CreateDatabase \/ InspectNetwork \/ InspectDatabase)
  BY <1>1, <1>7
  DEF CreateNetwork, CreateDatabase, CreateResource, InspectNetwork,
      InspectDatabase, InspectCreated, SourceInv
<1>8. CASE ~ Raise /\ (\/ CheckVersions \/ ProbeReady \/ ReadinessTimeout
                       \/ CreateTestDatabase \/ CreateRoles \/ LoadAuthority)
  BY <1>1, <1>8
  DEF CheckVersions, ProbeReady, ReadinessTimeout, CreateTestDatabase,
      CreateRoles, LoadAuthority, ExecInDatabase, SourceInv
<1>9. CASE ~ Raise /\ (MatchById \/ MatchByName)
  BY <1>1, <1>2, <1>9
  DEF MatchById, MatchByName, Mismatch, AfterMatch, EnterCleanup, SourceInv
<1>10. CASE StartPre \/ StartPost \/ WaitPre \/ WaitPost
  BY <1>1, <1>2, <1>10
  DEF StartPre, StartPost, StartPhase, WaitPre, WaitPost, WaitPhase, SourceInv,
      Sources
<1>11. CASE ~ Raise /\ (VerifyPre \/ VerifyPost)
  BY <1>1, <1>11
  DEF VerifyPre, VerifyPost, VerifyPhase, SourceInv
<1>12. CASE ~ Raise /\ (SourcePairMatches \/ Audit)
  BY <1>1, <1>2, <1>12
  DEF SourcePairMatches, AfterSource, Audit, SourceInv, Sources
<1> QED
  BY <1>3, <1>4, <1>5, <1>6, <1>7, <1>8, <1>9, <1>10, <1>11, <1>12 DEF Execute

LEMMA OtherSource ==
  ASSUME TypeOK, SourceInv, Clean \/ Environment \/ UNCHANGED vars
  PROVE  SourceInv'
<1>1. CASE Clean
  <2>1. /\ pc \in CleanupPcs /\ UNCHANGED <<seen, good, raised>>
        /\ pc' \in CleanupPcs \/ Report
    BY <1>1, CleanShape DEF control, Settle, CleanupPcs
  <2>2. CASE ~ Report
    <3>1. /\ pc' \in CleanupPcs /\ pc' \notin MainPcs /\ pc' \notin Unused
          /\ pc' \notin Unstaged /\ pc' \notin {"match_id", "match_name"}
      BY <2>1, <2>2, PcKinds DEF MainPcs, Unused
    <3>2. UNCHANGED status /\ status # "pass"
      BY <2>1, <2>2, <1>1, CleanShape, PcKinds DEF SourceInv, EndPcs
    <3> QED BY <2>1, <3>1, <3>2 DEF SourceInv
  <2>3. CASE Report
    <3>1. /\ pc' = "done" /\ "done" \notin MainPcs /\ "done" \notin CleanupPcs
          /\ "done" \notin Unused /\ "done" \notin Unstaged
      BY <2>3, PcKinds DEF Report, EndPcs, Unused
    <3>2. status' = "pass" => raised = "no" /\ good = "yes"
      BY <2>3 DEF Report, TypeOK, ControlTyped
    <3> QED BY <2>1, <3>1, <3>2 DEF SourceInv
  <2> QED BY <2>2, <2>3
<1>2. CASE Environment
  <2>1. /\ UNCHANGED <<seen, control, status>>
        /\ pc' = pc \/ (pc \notin EndPcs /\ pc' = "killed")
    BY <1>2
    DEF Environment, Kill, DeadlinePasses, EditSource, LateCreation, Disturb, source
  <2>2. staged' = staged \/ (staged = "recorded" /\ staged' = "edited")
    BY <1>2
    DEF Environment, Kill, DeadlinePasses, EditSource, LateCreation, Disturb, source
  <2> QED
    BY <2>1, <2>2, PcKinds DEF SourceInv, control, EndPcs, Unused
<1>3. CASE UNCHANGED vars
  BY <1>3 DEF vars, source, control, SourceInv
<1> QED
  BY <1>1, <1>2, <1>3

(* A pass was earned on the recorded source alone.                         *)
THEOREM PassOnRecordedSource == Spec => []PassMeansRecordedSource
<1>1. Init => SourceInv
  BY PcKinds DEF Init, SourceInv, Unused, Unstaged, CleanupPcs
<1>2. TypeOK /\ SourceInv /\ [Next]_vars => SourceInv'
  BY ExecuteSource, OtherSource DEF Next, Harness, Finished
<1>3. SourceInv => PassMeansRecordedSource
  BY DEF SourceInv, PassMeansRecordedSource
<1> QED
  BY <1>1, <1>2, <1>3, TypeCorrect, PTL DEF Spec

-----------------------------------------------------------------------------
(* The steps of the invocation as steps of the abstract harness.           *)

Phase == CASE status = "pass" -> "pass"
           [] pc \in EndPcs /\ status # "pass" -> "other"
           [] pc \in CleanupPcs -> "releasing"
           [] OTHER -> "working"

(* The phase at each place of the harness.                                 *)
LEMMA PhaseOf ==
  /\ pc \in MainPcs /\ status # "pass" => Phase = "working"
  /\ pc \in CleanupPcs /\ status # "pass" => Phase = "releasing"
  /\ pc \in EndPcs /\ status # "pass" => Phase = "other"
  /\ pc \in EndPcs /\ status = "pass" => Phase = "pass"
<1>1. /\ pc \in MainPcs => pc \notin CleanupPcs /\ pc \notin EndPcs
      /\ pc \in CleanupPcs => pc \notin EndPcs
  BY PcKinds
<1>2. CASE status = "pass"
  BY <1>1, <1>2 DEF Phase
<1>3. CASE status # "pass"
  BY <1>1, <1>3 DEF Phase
<1> QED
  BY <1>2, <1>3

(* What a step before cleanup does on the daemon.                          *)
LEMMA ExecuteDaemon ==
  ASSUME TypeOK, Execute
  PROVE  \/ UNCHANGED daemon
         \/ \E s \in Slots : \E st \in States : Create(s, st)
         \/ \E s \in Slots : Defer(s)
         \/ WaitPre \/ WaitPost
<1>1. \/ Quiet
      \/ Pin \/ StageSource \/ ReadAuthority \/ CreateNetwork \/ CreateDatabase
      \/ StartPre \/ StartPost \/ WaitPre \/ WaitPost
  BY DEF Execute, PreflightName, CompareDigests, InspectNetwork,
         InspectDatabase, InspectCreated, CheckVersions, ProbeReady,
         ReadinessTimeout, CreateTestDatabase, CreateRoles, LoadAuthority,
         ExecInDatabase, MatchById, MatchByName, VerifyPre, VerifyPost,
         VerifyPhase, SourcePairMatches, Audit
<1>2. CASE Quiet \/ Pin \/ StageSource \/ ReadAuthority
  BY <1>2 DEF Quiet, Pin, StageSource, ReadAuthority
<1>3. CASE CreateNetwork \/ CreateDatabase
  BY <1>3 DEF CreateNetwork, CreateDatabase, CreateResource, Slots, Containers, States
<1>4. CASE StartPre \/ StartPost
  BY <1>4 DEF StartPre, StartPost, StartPhase, Slots, Containers, States
<1> QED
  BY <1>1, <1>2, <1>3, <1>4

(* Before cleanup, a step adds at most one resource and removes none.      *)
LEMMA ExecuteTakes ==
  ASSUME TypeOK, Execute
  PROVE  Residue' = Residue \/ \E s \in Slots : Residue' = Residue \cup {s}
<1>1. CASE UNCHANGED daemon
  BY <1>1 DEF daemon, Residue, Mine
<1>2. ASSUME NEW s \in Slots, NEW st \in States, Create(s, st)
      PROVE  Residue' = Residue \cup {s}
  BY <1>2 DEF Create, Residue, Mine, TypeOK, DaemonTyped
<1>3. ASSUME NEW s \in Slots, Defer(s)
      PROVE  Residue' = Residue \cup {s}
  BY <1>3 DEF Defer, Residue, Mine
<1>4. CASE WaitPre \/ WaitPost
  <2>1. pending' = pending /\ \A s \in Slots : Mine(s)' <=> Mine(s)
    BY <1>4 DEF WaitPre, WaitPost, WaitPhase, Mine, TypeOK, DaemonTyped, Objects, Slots,
                Containers
  <2> QED
    BY <2>1 DEF Residue
<1> QED
  BY <1>1, <1>2, <1>3, <1>4, ExecuteDaemon

(* Cleanup removes at most the resource it is at.                          *)
LEMMA CleanGives ==
  ASSUME TypeOK, Clean
  PROVE  \/ Residue' = Residue \/ Residue' = Residue \ {slot}
<1>1. held' = held \/ held' = [held EXCEPT ![slot] = Nothing]
  BY DEF Clean, CleanByName, CleanById, CleanRemove, CleanGoneById, CleanGoneByName,
         Report, Removed, daemon
<1>2. pending' = pending
  BY CleanShape
<1>3. CASE held' = held
  BY <1>2, <1>3 DEF Residue, Mine
<1>4. CASE held' = [held EXCEPT ![slot] = Nothing]
  <2>1. \A s \in Slots : Mine(s)' <=> Mine(s) /\ s # slot
    BY <1>4 DEF Mine, Nothing, TypeOK, DaemonTyped
  <2> QED
    BY <1>2, <2>1 DEF Residue
<1> QED
  BY <1>1, <1>3, <1>4

(* Others, and the daemon's late creations, add nothing that was not there *)
(* or pending, and take away at most one resource.                         *)
LEMMA EnvironmentGives ==
  ASSUME TypeOK, Environment
  PROVE  \/ Residue' = Residue
         \/ UNCHANGED <<pc, status>> /\ \E s \in Slots : Residue' = Residue \ {s}
<1>1. CASE Kill \/ DeadlinePasses \/ EditSource
  BY <1>1 DEF Kill, DeadlinePasses, EditSource, daemon, Residue, Mine
<1>2. ASSUME NEW s \in Slots, LateCreation(s)
      PROVE  /\ Residue' = Residue \/ Residue' = Residue \ {s}
             /\ UNCHANGED <<pc, status>>
  <2>1. \A t \in Slots : t # s => (Mine(t)' <=> Mine(t))
    BY <1>2 DEF LateCreation, Mine, TypeOK, DaemonTyped
  <2>2. s \in Residue /\ pending' = pending \ {s}
    BY <1>2 DEF LateCreation, Residue
  <2>3. \A t \in Slots : t # s => (t \in Residue' <=> t \in Residue)
    BY <2>1, <2>2 DEF Residue
  <2>4. Residue \subseteq Slots /\ Residue' \subseteq Slots
    BY <2>2 DEF Residue, TypeOK, DaemonTyped
  <2>5. CASE s \in Residue'
    BY <2>2, <2>3, <2>4, <2>5, <1>2 DEF LateCreation
  <2>6. CASE s \notin Residue'
    BY <2>2, <2>3, <2>4, <2>6, <1>2 DEF LateCreation
  <2> QED
    BY <2>5, <2>6
<1>3. ASSUME NEW s \in Slots, Disturb(s)
      PROVE  /\ Residue' = Residue \/ Residue' = Residue \ {s}
             /\ UNCHANGED <<pc, status>>
  <2>1. /\ \A t \in Slots : t # s => (Mine(t)' <=> Mine(t))
        /\ Mine(s)' => Mine(s)
    BY <1>3 DEF Disturb, Mine, Nothing, TypeOK, DaemonTyped, Objects
  <2>2. pending' = pending /\ UNCHANGED <<pc, status>>
    BY <1>3 DEF Disturb
  <2> QED
    BY <2>1, <2>2 DEF Residue
<1> QED
  BY <1>1, <1>2, <1>3 DEF Environment

(* The same facts about the phase after a step.                            *)
LEMMA PhaseNext ==
  /\ pc' \in MainPcs /\ status' # "pass" => Phase' = "working"
  /\ pc' \in CleanupPcs /\ status' # "pass" => Phase' = "releasing"
  /\ pc' \in EndPcs /\ status' # "pass" => Phase' = "other"
  /\ pc' \in EndPcs /\ status' = "pass" => Phase' = "pass"
<1>1. /\ pc' \in MainPcs => pc' \notin CleanupPcs /\ pc' \notin EndPcs
      /\ pc' \in CleanupPcs => pc' \notin EndPcs
  BY PcKinds
<1>2. CASE status' = "pass"
  BY <1>1, <1>2 DEF Phase
<1>3. CASE status' # "pass"
  BY <1>1, <1>3 DEF Phase
<1> QED
  BY <1>2, <1>3

(* What the steps of the harness and of the world do to the residue and    *)
(* the phase.                                                              *)
Takes == Residue' = Residue \/ \E s \in Slots : Residue' = Residue \cup {s}
Gives == Residue' = Residue \/ \E s \in Slots : Residue' = Residue \ {s}

MayStep ==
  \/ Phase' = Phase /\ Phase = "working" /\ Takes
  \/ Phase' = Phase /\ Gives
  \/ Phase = "working" /\ Phase' = "releasing" /\ Takes
  \/ Phase = "releasing" /\ Phase' = "pass" /\ Residue = {} /\ Residue' = Residue
  \/ Phase \in {"working", "releasing"} /\ Phase' = "other" /\ Residue' = Residue

LEMMA ExecuteMaps ==
  ASSUME TypeOK, ResidueInv, Execute
  PROVE  MayStep
<1>1. pc \in MainPcs /\ status # "pass" /\ status' # "pass"
  BY ExecuteShape, PcKinds DEF ResidueInv, AbsentStaysAbsent, EndPcs
<1>2. Phase = "working"
  BY <1>1, PhaseOf
<1>3. \/ pc' \in MainPcs \/ pc' \in CleanupPcs
      \/ pc' = "done" /\ UNCHANGED daemon
  BY ExecuteShape, PcKinds DEF Stays, Enters, ToCleanup
<1>4. Takes
  BY ExecuteTakes DEF Takes
<1>5. CASE pc' \in MainPcs \/ pc' \in CleanupPcs
  BY <1>1, <1>2, <1>4, <1>5, PhaseNext DEF MayStep
<1>6. CASE pc' = "done" /\ UNCHANGED daemon
  <2>1. Phase' = "other"
    BY <1>1, <1>6, PhaseNext DEF EndPcs
  <2>2. Residue' = Residue
    BY <1>6 DEF daemon, Residue, Mine
  <2> QED
    BY <1>2, <2>1, <2>2 DEF MayStep
<1> QED
  BY <1>3, <1>5, <1>6

LEMMA CleanMaps ==
  ASSUME TypeOK, ResidueInv, TypeOK', ResidueInv', Clean
  PROVE  MayStep
<1>1. pc \in CleanupPcs /\ status # "pass"
  BY CleanShape, PcKinds DEF ResidueInv, AbsentStaysAbsent, EndPcs
<1>2. Phase = "releasing"
  BY <1>1, PhaseOf
<1>3. Gives
  BY CleanGives DEF Gives, TypeOK, CleanupTyped
<1>4. CASE Report
  <2>1. Residue' = Residue /\ pc' = "done"
    BY <1>4 DEF Report, daemon, Residue, Mine
  <2>2. CASE status' = "pass"
    <3>1. Residue' = {}
      BY <2>2 DEF ResidueInv, LateMeansRaised, AbsentStaysAbsent, Residue, Verified
    <3> QED
      BY <1>2, <2>1, <2>2, <3>1, PhaseNext DEF MayStep, EndPcs
  <2>3. CASE status' # "pass"
    BY <1>2, <2>1, <2>3, PhaseNext DEF MayStep, EndPcs
  <2> QED
    BY <2>2, <2>3
<1>5. CASE ~Report
  <2>1. pc' \in CleanupPcs /\ status' # "pass"
    BY <1>1, <1>5, CleanShape DEF Settle, CleanupPcs
  <2> QED
    BY <1>2, <1>3, <2>1, PhaseNext DEF MayStep
<1> QED
  BY <1>4, <1>5

LEMMA EnvironmentMaps ==
  ASSUME TypeOK, ResidueInv, Environment
  PROVE  MayStep
<1>1. CASE UNCHANGED <<pc, status>>
  <2>1. Phase' = Phase
    BY <1>1 DEF Phase
  <2> QED
    BY <2>1, EnvironmentGives DEF MayStep, Gives
<1>2. CASE Kill
  <2>1. /\ pc \in MainPcs \cup CleanupPcs /\ pc' \in EndPcs
        /\ status # "pass" /\ status' = status /\ Residue' = Residue
    BY <1>2 DEF Kill, TypeOK, ControlTyped, Pcs, EndPcs, ResidueInv,
                AbsentStaysAbsent, daemon, Residue, Mine
  <2> QED
    BY <2>1, PhaseOf, PhaseNext DEF MayStep
<1> QED
  BY <1>1, <1>2 DEF Environment, DeadlinePasses, EditSource, LateCreation, Disturb

(* What these say of a step is a step of the abstract harness.             *)
LEMMA AbstractStep ==
  ASSUME MayStep
  PROVE  [Ephemeral!Next]_(Ephemeral!vars)
<1>1. CASE Phase' = Phase /\ Residue' = Residue
  BY <1>1 DEF Ephemeral!vars, Phase
<1>2. ASSUME NEW s \in Slots, Phase' = Phase, Phase = "working",
             Residue' = Residue \cup {s}
      PROVE  Ephemeral!Next
  BY <1>2 DEF Ephemeral!Next, Ephemeral!Acquire, Phase
<1>3. ASSUME NEW s \in Slots, Phase' = Phase, Residue' = Residue \ {s}
      PROVE  Ephemeral!Next
  BY <1>3 DEF Ephemeral!Next, Ephemeral!Release, Phase
<1>4. CASE Phase = "working" /\ Phase' = "releasing" /\ Takes
  BY <1>4 DEF Ephemeral!Next, Ephemeral!StopWorking, Takes, Phase
<1>5. CASE Phase = "releasing" /\ Phase' = "pass" /\ Residue = {} /\ Residue' = Residue
  BY <1>5 DEF Ephemeral!Next, Ephemeral!Pass, Phase
<1>6. CASE Phase \in {"working", "releasing"} /\ Phase' = "other" /\ Residue' = Residue
  BY <1>6 DEF Ephemeral!Next, Ephemeral!GiveUp, Phase
<1> QED
  BY <1>1, <1>2, <1>3, <1>4, <1>5, <1>6 DEF MayStep, Takes, Gives

(* The owned mode implements the abstract harness.                         *)
THEOREM Implements == Spec => IsEphemeral
<1>1. Init => Ephemeral!Init
  BY PcKinds DEF Init, Ephemeral!Init, Residue, Mine, Nothing, Slots, Containers, CleanupPcs, EndPcs
<1>2. TypeOK /\ ResidueInv /\ TypeOK' /\ ResidueInv' /\ [Next]_vars
        => [Ephemeral!Next]_(Ephemeral!vars)
  <2> SUFFICES ASSUME TypeOK, ResidueInv, TypeOK', ResidueInv', [Next]_vars
               PROVE  [Ephemeral!Next]_(Ephemeral!vars)
    OBVIOUS
  <2>1. CASE UNCHANGED vars
    BY <2>1 DEF vars, daemon, Ephemeral!vars, Residue, Mine
  <2>2. CASE Execute
    BY <2>2, ExecuteMaps, AbstractStep
  <2>3. CASE Clean
    BY <2>3, CleanMaps, AbstractStep
  <2>4. CASE Environment
    BY <2>4, EnvironmentMaps, AbstractStep
  <2> QED
    BY <2>1, <2>2, <2>3, <2>4 DEF Next, Harness, Finished
<1> QED
  BY <1>1, <1>2, TypeCorrect, ResidueInvariant, PTL
  DEF Spec, IsEphemeral, Ephemeral!Spec

-----------------------------------------------------------------------------
(* What the harness removes or changes on the daemon.                      *)

(* What is created is ours, and new.                                       *)
LEMMA CreatedIsOurs ==
  ASSUME TypeOK, NEW s \in Slots, NEW st \in States, Create(s, st)
  PROVE  /\ \A t \in Slots : t # s => held'[t] = held[t]
         /\ held'[s].owner = "mine" /\ held'[s].id = nextId /\ held'[s] # Nothing
         /\ held[s].owner = "none"
         /\ nextId' = nextId + 1 /\ nextId \in Nat /\ nextId # 0
BY DEF Create, TypeOK, DaemonTyped, Present, Nothing

(* A runner is waited for under the id its own docker run was given.       *)
LEMMA ExecuteWaits ==
  ASSUME TypeOK, Execute, code' = "none", pc' \in {"wait_pre", "wait_post"}
  PROVE  /\ attached' = nextId
         /\ \/ pc' = "wait_pre" /\ Create("pre", "running")
            \/ pc' = "wait_post" /\ Create("post", "running")
<1> USE DEF Raise, EnterCleanup, Advance, control
<1>1. StartPre \/ StartPost
  BY DEF Execute, Pin, PreflightName, StageSource, CompareDigests, ReadAuthority,
         CreateNetwork, CreateDatabase, CreateResource, InspectNetwork,
         InspectDatabase, InspectCreated, CheckVersions, ProbeReady,
         ReadinessTimeout, CreateTestDatabase, CreateRoles, LoadAuthority,
         ExecInDatabase, MatchById, MatchByName, Mismatch, AfterMatch, WaitPre,
         WaitPost, WaitPhase, VerifyPre, VerifyPost, VerifyPhase,
         SourcePairMatches, AfterSource, Audit, TypeOK, ControlTyped
<1> QED
  BY <1>1 DEF StartPre, StartPost, StartPhase

LEMMA ExecuteIds ==
  ASSUME TypeOK, IdInv, Execute
  PROVE  IdInv'
<1>1. nextId \in Nat \ {0} /\ held \in [Slots -> Objects] /\ held' \in [Slots -> Objects]
  <2>1. TypeOK'
    BY PrepareTyped, PhasesTyped DEF Execute
  <2> QED
    BY <2>1 DEF TypeOK, DaemonTyped
<1>2. \A s \in Slots : held'[s].id < nextId' /\ (Present(held'[s]) => held'[s].id # 0)
  <2>1. CASE \/ UNCHANGED daemon
             \/ \E s \in Slots : Defer(s)
    BY <2>1 DEF daemon, Defer, IdInv
  <2>2. ASSUME NEW s \in Slots, NEW st \in States, Create(s, st)
        PROVE  \A t \in Slots : held'[t].id < nextId' /\ (Present(held'[t]) => held'[t].id # 0)
    <3>1. ASSUME NEW t \in Slots
          PROVE  held'[t].id < nextId' /\ (Present(held'[t]) => held'[t].id # 0)
      <4>1. held[t].id \in Nat
        BY <1>1 DEF Objects
      <4> QED
        BY <2>2, <4>1, CreatedIsOurs DEF IdInv
    <3> QED
      BY <3>1
  <2>3. CASE WaitPre \/ WaitPost
    <3>1. /\ nextId' = nextId
          /\ \A s \in Slots : held'[s].id = held[s].id /\ held'[s].owner = held[s].owner
      BY <1>1, <2>3 DEF WaitPre, WaitPost, WaitPhase, Slots, Containers, Objects
    <3> QED
      BY <3>1 DEF IdInv, Present
  <2> QED
    BY <2>1, <2>2, <2>3, ExecuteDaemon
<1>3. /\ pc' = "wait_pre" /\ code' = "none" => AttachedIsOurs("pre")'
      /\ pc' = "wait_post" /\ code' = "none" => AttachedIsOurs("post")'
  <2>1. "running" \in States /\ "pre" \in Slots /\ "post" \in Slots
    BY DEF States, Slots, Containers
  <2> QED
    BY <1>1, <2>1, ExecuteWaits, CreatedIsOurs DEF AttachedIsOurs, Used
<1>4. /\ pc' \in CleanupPcs \ {"report"} => rec'[slot'] \in {0, target'}
      /\ pc' # "remove"
  BY ExecuteShape, PcKinds DEF Stays, Enters, ToCleanup, MainPcs, PhasePcs, EndPcs, CleanupPcs
<1> QED
  BY <1>2, <1>3, <1>4 DEF IdInv

(* Cleanup comes to removing only after it has seen our object under the   *)
(* id it goes by.                                                          *)
LEMMA CleanIds ==
  ASSUME TypeOK, IdInv, Clean
  PROVE  IdInv'
<1>1. /\ nextId' = nextId /\ nextId \in Nat \ {0} /\ slot \in Slots /\ target \in Nat
      /\ held \in [Slots -> Objects] /\ UNCHANGED <<rec, code, attached>>
  BY DEF Clean, CleanByName, CleanById, CleanRemove, CleanGoneById, CleanGoneByName,
         Report, Cleaning, TypeOK, DaemonTyped, CleanupTyped, daemon, control
<1>2. \A s \in Slots : held'[s] = held[s] \/ held'[s] = Nothing
  BY <1>1 DEF Clean, CleanByName, CleanById, CleanRemove, CleanGoneById,
              CleanGoneByName, Report, Removed, daemon
<1>3. \A s \in Slots : held'[s].id < nextId' /\ (Present(held'[s]) => held'[s].id # 0)
  BY <1>1, <1>2 DEF IdInv, Nothing, Present
<1>4. pc' \notin {"wait_pre", "wait_post"}
  BY CleanShape DEF Settle, CleanupPcs, Report
<1>5. pc \in CleanupPcs /\ (pc # "report" => rec[slot] \in {0, target})
  BY CleanShape DEF IdInv
<1>6. pc' \in CleanupPcs \ {"report"} => rec'[slot'] \in {0, target'}
  <2>1. CASE CleanByName
    BY <1>1, <1>5, <2>1 DEF CleanByName, Cleaning, Settle, Present, cleanup
  <2>2. CASE CleanById \/ CleanRemove \/ CleanGoneById \/ CleanGoneByName
    BY <1>1, <1>5, <2>2
    DEF CleanById, CleanRemove, CleanGoneById, CleanGoneByName, Cleaning, Settle, cleanup
  <2>3. CASE Report
    BY <2>3 DEF Report, CleanupPcs
  <2> QED
    BY <2>1, <2>2, <2>3 DEF Clean
<1>7. ASSUME pc' = "remove"
      PROVE  Used(target)' /\ (held'[slot'].id = target' => held'[slot'].owner # "foreign")
  <2>1. /\ CleanById /\ Present(ById(slot, target)) /\ UNCHANGED <<held, slot, target>>
        /\ ById(slot, target).owner \in {"mine", "none"}
    BY <1>7 DEF Clean, CleanByName, CleanById, CleanRemove, CleanGoneById,
                CleanGoneByName, Report, Cleaning, Settle, cleanup
  <2>2. held[slot].id = target /\ held[slot].owner = "mine"
    BY <2>1 DEF ById, Present, Nothing
  <2> QED
    BY <1>1, <2>1, <2>2 DEF IdInv, Used, Present
<1> QED
  BY <1>3, <1>4, <1>6, <1>7 DEF IdInv

(* What others bring under a name has an id of its own.                    *)
LEMMA EnvironmentIds ==
  ASSUME TypeOK, IdInv, Environment
  PROVE  IdInv'
<1>1. /\ UNCHANGED <<control, cleanup>>
      /\ pc' = pc \/ pc' = "killed"
      /\ nextId \in Nat \ {0} /\ nextId' \in Nat /\ nextId' >= nextId
      /\ held \in [Slots -> Objects] /\ target \in Nat /\ attached \in Nat /\ slot \in Slots
  <2>1. UNCHANGED <<control, cleanup>> /\ (pc' = pc \/ pc' = "killed")
    BY DEF Environment, Kill, DeadlinePasses, EditSource, LateCreation, Disturb
  <2>2. nextId' = nextId \/ nextId' = nextId + 1
    BY DEF Environment, Kill, DeadlinePasses, EditSource, LateCreation, Disturb, daemon
  <2>3. /\ nextId \in Nat \ {0} /\ held \in [Slots -> Objects]
        /\ target \in Nat /\ attached \in Nat /\ slot \in Slots
    BY DEF TypeOK, DaemonTyped, ControlTyped, CleanupTyped
  <2> QED
    BY <2>1, <2>2, <2>3
<1>2. \A s \in Slots :
        \/ held'[s].id = held[s].id /\ held'[s].owner = held[s].owner
        \/ held'[s] = Nothing
        \/ held'[s].id = nextId /\ nextId' = nextId + 1
  <2>1. CASE Kill \/ DeadlinePasses \/ EditSource
    BY <2>1 DEF Kill, DeadlinePasses, EditSource, daemon
  <2>2. ASSUME NEW x \in Slots, LateCreation(x) \/ Disturb(x), NEW s \in Slots
        PROVE  \/ held'[s].id = held[s].id /\ held'[s].owner = held[s].owner
               \/ held'[s] = Nothing
               \/ held'[s].id = nextId /\ nextId' = nextId + 1
    <3>1. CASE s # x
      BY <1>1, <2>2, <3>1 DEF LateCreation, Disturb
    <3>2. CASE s = x
      BY <1>1, <2>2, <3>2 DEF LateCreation, Disturb, Objects
    <3> QED
      BY <3>1, <3>2
  <2> QED
    BY <2>1, <2>2 DEF Environment
<1>3. \A s \in Slots : held'[s].id < nextId' /\ (Present(held'[s]) => held'[s].id # 0)
  <2>1. \A s \in Slots : held[s].id \in Nat
    BY <1>1 DEF Objects
  <2> QED
    BY <1>1, <1>2, <2>1 DEF IdInv, Nothing, Present
<1>4. ASSUME NEW s \in Slots, NEW i \in Nat, Used(i),
             held[s].id = i => held[s].owner # "foreign"
      PROVE  Used(i)' /\ (held'[s].id = i => held'[s].owner # "foreign")
  BY <1>1, <1>2, <1>4 DEF Used, Nothing
<1>5. "pre" \in Slots /\ "post" \in Slots /\ "killed" \notin CleanupPcs
  BY DEF Slots, Containers, CleanupPcs
<1>6. /\ pc' = "wait_pre" /\ code' = "none" => AttachedIsOurs("pre")'
      /\ pc' = "wait_post" /\ code' = "none" => AttachedIsOurs("post")'
  BY <1>1, <1>4, <1>5 DEF IdInv, AttachedIsOurs, control, Used
<1>7. /\ pc' \in CleanupPcs \ {"report"} => rec'[slot'] \in {0, target'}
      /\ pc' = "remove" => /\ Used(target)'
                           /\ held'[slot'].id = target' => held'[slot'].owner # "foreign"
  BY <1>1, <1>4, <1>5 DEF IdInv, control, cleanup, Used
<1> QED
  BY <1>3, <1>6, <1>7 DEF IdInv

(* The inductive invariant of the ids: every id in use was handed out, so    *)
(* that a new object is never taken for one that cleanup looked at.          *)
THEOREM IdInvariant == Spec => []IdInv
<1>1. Init => IdInv
  BY DEF Init, IdInv, Nothing, Present, CleanupPcs
<1>2. TypeOK /\ IdInv /\ [Next]_vars => IdInv'
  <2> SUFFICES ASSUME TypeOK, IdInv, [Next]_vars
               PROVE  IdInv'
    OBVIOUS
  <2>1. CASE UNCHANGED vars
    BY <2>1 DEF vars, daemon, control, cleanup, IdInv, AttachedIsOurs, Used
  <2> QED
    BY <2>1, ExecuteIds, CleanIds, EnvironmentIds DEF Next, Harness, Finished
<1> QED
  BY <1>1, <1>2, TypeCorrect, PTL DEF Spec

(* The harness leaves alone what is not its own.                           *)
THEOREM OthersUntouched == Spec => OnlyOwnRemoved
<1> DEFINE Untouched(s) ==
      /\ held[s].owner = "foreign" => held'[s] = held[s]
      /\ Mine(s) /\ held'[s] = Nothing /\ rec[s] # 0 => held[s].id = rec[s]
<1>1. ASSUME TypeOK, IdInv, Execute, NEW s \in Slots
      PROVE  Untouched(s)
  <2>1. CASE UNCHANGED daemon \/ \E t \in Slots : Defer(t)
    BY <2>1 DEF daemon, Defer, Mine, Nothing
  <2>2. ASSUME NEW t \in Slots, NEW st \in States, Create(t, st)
        PROVE  Untouched(s)
    BY <1>1, <2>2, CreatedIsOurs DEF Mine, Nothing
  <2>3. ASSUME NEW t \in {"pre", "post"}, NEW a, NEW b, WaitPhase(t, a, b),
               code = "none" => AttachedIsOurs(t)
        PROVE  Untouched(s)
    <3>1. CASE held' = held
      BY <3>1 DEF Mine, Nothing
    <3>2. CASE held' # held
      <4>1. held[t].owner # "foreign"
        BY <2>3, <3>2 DEF WaitPhase, AttachedIsOurs
      <4>2. held' = [held EXCEPT ![t].state = code']
        BY <2>3, <3>2 DEF WaitPhase
      <4>3. held \in [Slots -> Objects] /\ t \in Slots
        BY <1>1 DEF TypeOK, DaemonTyped, Slots, Containers
      <4>4. held'[s].owner = held[s].owner /\ (s # t => held'[s] = held[s])
        BY <4>2, <4>3 DEF Objects
      <4> QED
        BY <4>1, <4>4 DEF Mine, Nothing
    <3> QED
      BY <3>1, <3>2
  <2>4. CASE WaitPre \/ WaitPost
    BY <1>1, <2>3, <2>4 DEF WaitPre, WaitPost, WaitPhase, IdInv
  <2> QED
    BY <1>1, <2>1, <2>2, <2>4, ExecuteDaemon
<1>2. ASSUME TypeOK, IdInv, Clean, NEW s \in Slots
      PROVE  Untouched(s)
  <2>1. CASE held' = held
    BY <2>1 DEF Mine, Nothing
  <2>2. CASE held' # held
    <3>1. pc = "remove" /\ Present(ById(slot, target)) /\ held' = [held EXCEPT ![slot] = Nothing]
      BY <1>2, <2>2 DEF Clean, CleanByName, CleanById, CleanRemove, CleanGoneById,
                        CleanGoneByName, Report, Removed, Cleaning, daemon
    <3>2. held[slot].id = target /\ target # 0 /\ held[slot].owner # "foreign"
      BY <1>2, <3>1 DEF IdInv, Used, ById, Present, Nothing
    <3>3. rec[slot] \in {0, target}
      BY <1>2, <3>1 DEF IdInv, CleanupPcs
    <3>4. held \in [Slots -> Objects]
      BY <1>2 DEF TypeOK, DaemonTyped
    <3> QED
      BY <3>1, <3>2, <3>3, <3>4 DEF Mine, Nothing
  <2> QED
    BY <2>1, <2>2
<1>3. TypeOK /\ IdInv /\ [Next]_vars
        => [Harness => \A s \in Slots : Untouched(s)]_vars
  BY <1>1, <1>2 DEF Harness
<1> QED
  BY <1>3, TypeCorrect, IdInvariant, PTL DEF Spec, OnlyOwnRemoved
-----------------------------------------------------------------------------
(* The safety part of Reports. Steps of the harness that are left, at      *)
(* most, not counting readiness probes: of the cleanup, and of the rest.   *)
SlotsAfter == [pre |-> 3, post |-> 2, db |-> 1, net |-> 0]

CleanupLeft ==
  CASE pc = "by_name"   -> 5 * SlotsAfter[slot] + 6
    [] pc = "by_id"     -> 5 * SlotsAfter[slot] + 5
    [] pc = "remove"    -> 5 * SlotsAfter[slot] + 4
    [] pc = "gone_id"   -> 5 * SlotsAfter[slot] + 3
    [] pc = "gone_name" -> 5 * SlotsAfter[slot] + 2
    [] OTHER            -> 1

MainLeft ==
  CASE pc = "pin" -> 54
    [] pc = "preflight" -> 50 + (CASE slot = "net" -> 3 [] slot = "db" -> 2
                                   [] slot = "pre" -> 1 [] OTHER -> 0)
    [] pc = "stage" -> 49           [] pc = "digest" -> 48
    [] pc = "authority" -> 47       [] pc = "network_create" -> 46
    [] pc = "network_inspect" -> 45 [] pc = "db_create" -> 44
    [] pc = "db_inspect" -> 43      [] pc = "db_version" -> 42
    [] pc = "ready" -> 41           [] pc = "createdb" -> 40
    [] pc = "match_id" -> (CASE check = "pre" -> 39 [] check = "bootstrap" -> 30
                             [] OTHER -> 23)
    [] pc = "match_name" -> (CASE check = "pre" -> 38 [] check = "bootstrap" -> 29
                               [] OTHER -> 22)
    [] pc = "start_pre" -> 37       [] pc = "wait_pre" -> 36
    [] pc = "verify_pre" -> 35
    [] pc = "source" -> (CASE check = "pre" -> 34 [] check = "bootstrap" -> 31
                           [] OTHER -> 24)
    [] pc = "roles" -> 33           [] pc = "bootstrap" -> 32
    [] pc = "start_post" -> 28      [] pc = "wait_post" -> 27
    [] pc = "verify_post" -> 26     [] OTHER -> 25

StepsLeft ==
  IF pc \in EndPcs THEN 0 ELSE IF pc \in CleanupPcs THEN CleanupLeft ELSE MainLeft

(* The roles and the bootstrap come between the first phase and the second.*)
CheckInv == pc \in {"roles", "bootstrap"} => check = "bootstrap"

LEMMA MainLeftTyped ==
  /\ MainLeft \in 22 .. 54
  /\ MainLeft' \in 22 .. 54
<1>1. MainLeft \in 22 .. 54
  BY DEF MainLeft
<1>2. MainLeft' \in 22 .. 54
  BY DEF MainLeft
<1> QED
  BY <1>1, <1>2

LEMMA CleanupLeftTyped ==
  /\ TypeOK => CleanupLeft \in 1 .. 21
  /\ TypeOK' => CleanupLeft' \in 1 .. 21
<1>1. TypeOK => CleanupLeft \in 1 .. 21
  BY DEF CleanupLeft, SlotsAfter, TypeOK, CleanupTyped, Slots, Containers
<1>2. TypeOK' => CleanupLeft' \in 1 .. 21
  BY DEF CleanupLeft, SlotsAfter, TypeOK, CleanupTyped, Slots, Containers
<1> QED
  BY <1>1, <1>2

LEMMA StepsLeftTyped ==
  /\ TypeOK => StepsLeft \in 0 .. 54
  /\ TypeOK' => StepsLeft' \in 0 .. 54
<1>1. TypeOK => StepsLeft \in 0 .. 54
  BY MainLeftTyped, CleanupLeftTyped DEF StepsLeft
<1>2. TypeOK' => StepsLeft' \in 0 .. 54
  BY MainLeftTyped, CleanupLeftTyped DEF StepsLeft
<1> QED
  BY <1>1, <1>2

(* Each step of the try block goes on to a later place of it, and once     *)
(* around the readiness loop at most.                                      *)
LEMMA MainAdvances ==
  ASSUME TypeOK, CheckInv, Execute, pc' \in MainPcs
  PROVE  /\ CheckInv'
         /\ \/ MainLeft' < MainLeft
            \/ pc = "ready" /\ deadline = "ahead" /\ MainLeft' = MainLeft
<1> USE DEF MainLeft, CheckInv, EnterCleanup, Raise, Advance, control, cleanup, MainPcs,
            PhasePcs
<1>1. CASE Pin
  BY <1>1 DEF Pin
<1>2. CASE PreflightName
  <2>1. slot \in {"pre", "post", "db", "net"}
    BY DEF TypeOK, CleanupTyped, Slots, Containers
  <2> QED
    BY <1>2, <2>1 DEF PreflightName, PreflightOrder
<1>3. CASE StageSource \/ CompareDigests \/ ReadAuthority
  BY <1>3 DEF StageSource, CompareDigests, ReadAuthority
<1>4. CASE CreateNetwork \/ CreateDatabase
  BY <1>4 DEF CreateNetwork, CreateDatabase, CreateResource
<1>5. CASE InspectNetwork \/ InspectDatabase
  BY <1>5 DEF InspectNetwork, InspectDatabase, InspectCreated
<1>6. CASE CheckVersions \/ ProbeReady \/ ReadinessTimeout \/ CreateTestDatabase
  BY <1>6 DEF CheckVersions, ProbeReady, ReadinessTimeout, CreateTestDatabase,
              ExecInDatabase
<1>7. CASE MatchById \/ MatchByName
  <2>1. check \in {"pre", "bootstrap", "post"}
    BY DEF TypeOK, ControlTyped
  <2>2. \/ pc = "match_id" /\ pc' = "match_name"
        \/ pc = "match_name" /\ check = "pre" /\ pc' = "start_pre"
        \/ pc = "match_name" /\ check = "bootstrap" /\ pc' = "start_post"
    BY <1>7, <2>1 DEF MatchById, MatchByName, Mismatch, AfterMatch
  <2>3. check' = check
    BY <1>7, <2>1 DEF MatchById, MatchByName, Mismatch, AfterMatch
  <2> QED
    BY <2>1, <2>2, <2>3
<1>8. CASE SourcePairMatches
  <2>1. check \in {"pre", "bootstrap", "post"}
    BY DEF TypeOK, ControlTyped
  <2>2. /\ pc = "source"
        /\ \/ check = "pre" /\ pc' = "roles" /\ check' = "bootstrap"
           \/ check \in {"bootstrap", "post"} /\ pc' = "match_id" /\ check' = check
    BY <1>8, <2>1 DEF SourcePairMatches, AfterSource
  <2> QED
    BY <2>2
<1>9. CASE StartPre \/ WaitPre \/ StartPost \/ WaitPost
  BY <1>9 DEF StartPre, WaitPre, StartPost, WaitPost, StartPhase, WaitPhase
<1>10. CASE VerifyPre \/ VerifyPost
  BY <1>10 DEF VerifyPre, VerifyPost, VerifyPhase
<1>11. CASE CreateRoles \/ LoadAuthority \/ Audit
  BY <1>11 DEF CreateRoles, LoadAuthority, Audit, ExecInDatabase
<1> QED
  BY <1>1, <1>2, <1>3, <1>4, <1>5, <1>6, <1>7, <1>8, <1>9, <1>10, <1>11 DEF Execute

(* Each step of the cleanup goes on, with this resource or the next.       *)
LEMMA CleanAdvances ==
  ASSUME TypeOK, Clean
  PROVE  StepsLeft' < StepsLeft
<1> USE DEF CleanupPcs, EndPcs, MainPcs, PhasePcs, cleanup
<1>1. slot \in {"pre", "post", "db", "net"}
  BY DEF TypeOK, CleanupTyped, Slots, Containers
<1>2. ASSUME NEW result, Settle(result),
             pc \in {"by_name", "by_id", "remove", "gone_id", "gone_name"}
      PROVE  StepsLeft' < StepsLeft
  BY <1>1, <1>2 DEF Settle, NextSlot, StepsLeft, CleanupLeft, SlotsAfter
<1>3. ASSUME slot' = slot,
             \/ pc = "by_name" /\ pc' = "by_id"
             \/ pc = "by_id" /\ pc' \in {"remove", "gone_id"}
             \/ pc = "remove" /\ pc' = "gone_id"
             \/ pc = "gone_id" /\ pc' = "gone_name"
      PROVE  StepsLeft' < StepsLeft
  <2>1. SlotsAfter[slot] \in 0 .. 3 /\ SlotsAfter'[slot'] = SlotsAfter[slot]
    BY <1>1, <1>3 DEF SlotsAfter
  <2> QED
    BY <1>3, <2>1 DEF StepsLeft, CleanupLeft
<1>4. CASE CleanByName
  BY <1>2, <1>3, <1>4 DEF CleanByName, Cleaning
<1>5. CASE CleanById
  BY <1>2, <1>3, <1>5 DEF CleanById, Cleaning
<1>6. CASE CleanRemove
  BY <1>2, <1>3, <1>6 DEF CleanRemove, Cleaning
<1>7. CASE CleanGoneById
  BY <1>2, <1>3, <1>7 DEF CleanGoneById, Cleaning
<1>8. CASE CleanGoneByName
  BY <1>2, <1>8 DEF CleanGoneByName, Cleaning
<1>9. CASE Report
  BY <1>9 DEF Report, StepsLeft, CleanupLeft
<1> QED
  BY <1>4, <1>5, <1>6, <1>7, <1>8, <1>9 DEF Clean

(* So does every step of the try block, wherever it leads.                 *)
LEMMA ExecuteAdvances ==
  ASSUME TypeOK, TypeOK', CheckInv, Execute
  PROVE  /\ CheckInv'
         /\ StepsLeft' < StepsLeft \/ (pc = "ready" /\ deadline = "ahead")
         /\ StepsLeft' <= StepsLeft
<1>1. pc \in MainPcs /\ StepsLeft = MainLeft /\ StepsLeft \in 22 .. 54
  BY ExecuteShape, PcKinds, MainLeftTyped DEF StepsLeft
<1>2. CASE pc' \in MainPcs
  <2>1. StepsLeft' = MainLeft' /\ StepsLeft' \in 22 .. 54
    BY <1>2, PcKinds, MainLeftTyped DEF StepsLeft
  <2> QED
    BY <1>1, <1>2, <2>1, MainAdvances
<1>3. CASE pc' \in {"by_name", "done"}
  <2>1. StepsLeft' \in 0 .. 21 /\ CheckInv'
    BY <1>3, CleanupLeftTyped DEF StepsLeft, CheckInv, CleanupPcs, EndPcs
  <2> QED
    BY <1>1, <2>1
<1> QED
  BY <1>2, <1>3, ExecuteShape DEF Stays, Enters, ToCleanup

(* The environment takes no step back: a kill ends the run, and nothing    *)
(* else it does moves the harness.                                         *)
LEMMA EnvironmentAdvances ==
  ASSUME TypeOK, CheckInv, Environment
  PROVE  CheckInv' /\ StepsLeft' <= StepsLeft
<1>1. CASE Kill
  <2>1. StepsLeft' = 0 /\ StepsLeft \in Nat
    BY <1>1, StepsLeftTyped DEF Kill, StepsLeft, EndPcs
  <2> QED
    BY <1>1, <2>1 DEF Kill, CheckInv
<1>2. CASE ~ Kill
  <2>1. UNCHANGED <<pc, slot, check>>
    BY <1>2 DEF Environment, DeadlinePasses, EditSource, LateCreation, Disturb, control,
                cleanup
  <2>2. StepsLeft' = StepsLeft /\ CheckInv'
    BY <2>1 DEF StepsLeft, MainLeft, CleanupLeft, CheckInv
  <2> QED
    BY <2>2, StepsLeftTyped
<1> QED
  BY <1>1, <1>2

(* An invocation is at most 54 steps long, but for its readiness probes:   *)
(* each step of it brings it nearer to its report, except the probe that   *)
(* goes on probing, and that one only while the deadline is ahead; nothing *)
(* the daemon and its other users do sets it back.                         *)
THEOREM NearsItsEnd ==
  Spec => [][/\ StepsLeft \in 0 .. 54 /\ StepsLeft' \in 0 .. StepsLeft
             /\ Harness => \/ StepsLeft' < StepsLeft
                           \/ pc = "ready" /\ deadline = "ahead"]_vars
<1> DEFINE Nears == /\ StepsLeft \in 0 .. 54 /\ StepsLeft' \in 0 .. StepsLeft
                    /\ Harness => \/ StepsLeft' < StepsLeft
                                  \/ pc = "ready" /\ deadline = "ahead"
<1>1. Init => CheckInv
  BY DEF Init, CheckInv
<1>2. TypeOK /\ CheckInv /\ [Next]_vars => CheckInv'
  <2> SUFFICES ASSUME TypeOK, CheckInv, [Next]_vars PROVE CheckInv'
    OBVIOUS
  <2>1. CASE Clean
    BY <2>1 DEF CheckInv, Clean, CleanByName, CleanById, CleanRemove, CleanGoneById,
       CleanGoneByName, Report, Cleaning, Settle
  <2>2. CASE UNCHANGED vars
    BY <2>2 DEF CheckInv, vars, control
  <2>3. CASE Execute
    <3>1. CASE pc' \in MainPcs
      BY <2>3, <3>1, MainAdvances
    <3>2. CASE pc' \notin MainPcs
      BY <3>2 DEF CheckInv, MainPcs
    <3> QED
      BY <3>1, <3>2
  <2> QED
    BY <2>1, <2>2, <2>3, EnvironmentAdvances DEF Next, Harness, Finished
<1>3. TypeOK /\ TypeOK' /\ CheckInv /\ [Next]_vars => [Nears]_vars
  <2> SUFFICES ASSUME TypeOK, TypeOK', CheckInv, Next PROVE Nears \/ UNCHANGED vars
    OBVIOUS
  <2>1. StepsLeft \in 0 .. 54 /\ StepsLeft' \in 0 .. 54
    BY StepsLeftTyped
  <2>2. CASE Clean
    BY <2>1, <2>2, CleanAdvances
  <2>3. CASE Execute
    BY <2>1, <2>3, ExecuteAdvances
  <2>4. CASE Environment /\ ~ Harness
    BY <2>1, <2>4, EnvironmentAdvances
  <2> QED
    BY <2>2, <2>3, <2>4 DEF Next, Harness, Finished
<1> QED
  BY <1>1, <1>2, <1>3, TypeCorrect, PTL DEF Spec

=============================================================================
