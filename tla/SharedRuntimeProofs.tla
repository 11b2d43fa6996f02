---- MODULE SharedRuntimeProofs ----
(* Theorems about SharedRuntime, for any number of disturbances, among them
   that it implements EphemeralHarness.                                      *)
EXTENDS SharedRuntime, TLAPS

(* What the steps of the world are allowed to do to the harness: nothing.  *)
LEMMA WorldFrame ==
  ASSUME World
  PROVE  UNCHANGED <<pc, locals, outcome, status>>
BY DEF World, SendCreate, CreateDatabase, MarkDatabase, EndScript, LateRunner,
       LateStart, LateDatabase, Disturb

LEMMA OrphanTyped ==
  ASSUME WorldOK, Orphan
  PROVE  pending' \in SUBSET Requests /\ late' \in SUBSET Requests
BY DEF WorldOK, Orphan, Requests

LEMMA WorldTyped ==
  ASSUME WorldOK, World
  PROVE  WorldOK'
<1> USE DEF WorldOK
<1>1. CASE SendCreate
  BY <1>1 DEF SendCreate, ScriptGoes
<1>2. CASE CreateDatabase
  BY <1>2 DEF CreateDatabase, ScriptGoes
<1>3. CASE MarkDatabase
  BY <1>3 DEF MarkDatabase, ScriptGoes
<1>4. CASE EndScript
  BY <1>4, OrphanTyped DEF EndScript, Ours, Runners
<1>5. CASE LateRunner
  BY <1>5 DEF LateRunner, Ours, Runners
<1>6. CASE LateStart
  BY <1>6 DEF LateStart, Ours, Runners
<1>7. CASE LateDatabase
  BY <1>7 DEF LateDatabase, docker
<1>8. CASE Disturb
  <2>1. disturbed' \in 0..MaxDisturbances
    BY <1>8, DisturbanceAssumption DEF Disturb
  <2>2. runner' \in Runners
    BY <1>8 DEF Disturb, Free, Theirs, Runners
  <2>3. pending' \in SUBSET Requests /\ late' \in SUBSET Requests
    BY <1>8, OrphanTyped DEF Disturb
  <2> QED
    BY <1>8, <2>1, <2>2, <2>3 DEF Disturb
<1> QED
  BY <1>1, <1>2, <1>3, <1>4, <1>5, <1>6, <1>7, <1>8 DEF World

(* Steps of the harness that only look, or end the work.                   *)
Looks == \/ Pin \/ InspectDatabase \/ CheckName \/ CheckAbsent \/ StageSource
         \/ AwaitRunner \/ InspectFinished \/ ReadMarker
         \/ InspectById \/ InspectGone \/ InspectByName \/ InspectMarker
         \/ VerifyAbsent \/ Report \/ Kill

LEMMA LooksFrame ==
  ASSUME Looks
  PROVE  UNCHANGED <<world, disturbed>>
BY DEF Looks, Pin, InspectDatabase, CheckName, CheckAbsent, StageSource,
       AwaitRunner, InspectFinished, ReadMarker, InspectById, InspectGone,
       InspectByName, InspectMarker, VerifyAbsent, Report, Kill, Look

LEMMA NextCases ==
  ASSUME [Next]_vars
  PROVE  \/ World \/ Looks \/ StartRunner \/ RemoveRunner \/ DropDatabase
         \/ UNCHANGED vars
BY DEF Next, Harness, Looks, Stopped

LEMMA LooksTyped ==
  ASSUME TypeOK, Looks
  PROVE  ControlOK' /\ StatusOK'
<1> USE DEF TypeOK, ControlOK, StatusOK, Answers, MainPcs, CleanupPcs, locals, outcome,
            Goto, EnterCleanup, RaiseWith, Raise, Returned, CleanupRaises,
            RunnerLooked, Look
<1>1. CASE Pin
  BY <1>1 DEF Pin
<1>2. CASE InspectDatabase
  BY <1>2 DEF InspectDatabase
<1>3. CASE CheckName
  BY <1>3 DEF CheckName
<1>4. CASE CheckAbsent
  BY <1>4 DEF CheckAbsent
<1>5. CASE StageSource
  BY <1>5 DEF StageSource
<1>6. CASE AwaitRunner
  BY <1>6 DEF AwaitRunner, Ours
<1>7. CASE InspectFinished
  BY <1>7 DEF InspectFinished
<1>8. CASE ReadMarker
  BY <1>8 DEF ReadMarker
<1>9. CASE InspectById
  BY <1>9 DEF InspectById
<1>10. CASE InspectGone
  BY <1>10 DEF InspectGone
<1>11. CASE InspectByName
  BY <1>11 DEF InspectByName
<1>12. CASE InspectMarker
  BY <1>12 DEF InspectMarker
<1>13. CASE VerifyAbsent
  BY <1>13 DEF VerifyAbsent
<1>14. CASE Report
  BY <1>14 DEF Report, Conclusion
<1>15. CASE Kill
  BY <1>15 DEF Kill
<1> QED
  BY <1>1, <1>2, <1>3, <1>4, <1>5, <1>6, <1>7, <1>8, <1>9, <1>10, <1>11, <1>12,
     <1>13, <1>14, <1>15 DEF Looks

LEMMA ActsTyped ==
  ASSUME TypeOK, StartRunner \/ RemoveRunner \/ DropDatabase
  PROVE  TypeOK'
<1>1. runner' \in Runners
  <2>1. runner \in Runners
    BY DEF TypeOK, WorldOK
  <2>2. runner' \in {runner, Free, Ours("created"), Ours("running")}
    BY DEF StartRunner, RemoveRunner, DropDatabase, docker
  <2> QED
    BY <2>1, <2>2 DEF Runners, Free, Ours
<1>2. pending' \in SUBSET Requests /\ late' \in SUBSET Requests
  <2>1. WorldOK
    BY DEF TypeOK
  <2>2. CASE StartRunner
    BY <2>1, <2>2 DEF StartRunner, WorldOK, Requests
  <2>3. CASE RemoveRunner
    BY <2>1, <2>3, OrphanTyped DEF RemoveRunner, WorldOK
  <2>4. CASE DropDatabase
    BY <2>1, <2>4 DEF DropDatabase, WorldOK
  <2> QED
    BY <2>2, <2>3, <2>4
<1>3. /\ script' = script /\ db' \in {db, "none"} /\ disturbed' = disturbed
      /\ status' = status
  BY DEF StartRunner, RemoveRunner, DropDatabase, docker
<1>4. ControlOK'
  BY DEF StartRunner, RemoveRunner, DropDatabase, TypeOK, ControlOK, Answers, MainPcs,
         CleanupPcs, locals, outcome, Goto, Returned, CleanupRaises
<1> QED
  BY <1>1, <1>2, <1>3, <1>4 DEF TypeOK, WorldOK, StatusOK

(* Every reachable state is well typed.                                    *)
THEOREM TypeCorrect == Spec => []TypeOK
<1>1. Init => TypeOK
  BY DisturbanceAssumption
  DEF Init, TypeOK, WorldOK, ControlOK, StatusOK, Runners, Requests, Answers, Free, MainPcs
<1>2. TypeOK /\ [Next]_vars => TypeOK'
  <2> SUFFICES ASSUME TypeOK, [Next]_vars PROVE TypeOK'
    OBVIOUS
  <2>1. CASE World
    BY <2>1, WorldTyped, WorldFrame DEF TypeOK, ControlOK, StatusOK, locals, outcome
  <2>2. CASE Looks
    BY <2>2, LooksTyped, LooksFrame DEF TypeOK, WorldOK, world, docker
  <2>3. CASE UNCHANGED vars
    BY <2>3 DEF vars, world, docker, locals, outcome, TypeOK, WorldOK, ControlOK, StatusOK
  <2> QED
    BY <2>1, <2>2, <2>3, ActsTyped, NextCases
<1> QED
  BY <1>1, <1>2, PTL DEF Spec
(* How a runner of ours, and a database, can have come to be: nothing is    *)
(* there or asked for before docker run, the script goes through its parts *)
(* only once, and a client that got the code of a finished runner has not  *)
(* lost sight of it.                                                       *)
Before == {"pin", "database", "name", "absent", "stage", "start"}

OriginInv ==
  /\ pc \in Before => late = {} /\ script = "boot" /\ runner.owner # "ours"
  /\ pc \in Before \cup {"wait"} => code = "none"
  /\ pending \subseteq late
  /\ "runner" \in late => code = "broken"
  /\ "runner" \in pending => script = "boot" /\ runner.owner # "ours"
  /\ "database" \in late => script = "create" /\ ~Running
  /\ runner = Ours("created") => script = "boot"
  /\ runner = Ours("ok") => script = "test"
  /\ code = "ok" => script = "test" /\ late = {}
  /\ passed = "yes" => code = "ok"

(* What cleanup has looked at stays as it was seen, since the runner is    *)
(* looked at first, and only a late request brings anything back.          *)
CleanInv ==
  /\ pc \in MainPcs => runnerAbsent = "no" /\ verified = "no"
  /\ runnerAbsent = "yes" /\ runner.owner = "ours" => "runner" \in late
  /\ verified = "yes" => runnerAbsent = "yes" /\ pc \in {"report", "done", "killed"}
  /\ verified = "yes" /\ db # "none" => late # {}
  /\ status = "pass" => pc = "done"

LEMMA OriginWorld ==
  ASSUME TypeOK, OriginInv, World
  PROVE  OriginInv'
<1>0. UNCHANGED <<pc, code, passed>>
  BY WorldFrame DEF locals
<1> USE <1>0 DEF OriginInv, Running, Ours
<1>1. CASE SendCreate
  BY <1>1 DEF SendCreate, ScriptGoes
<1>2. CASE CreateDatabase
  BY <1>2 DEF CreateDatabase, ScriptGoes
<1>3. CASE MarkDatabase
  BY <1>3 DEF MarkDatabase, ScriptGoes
<1>4. CASE EndScript
  BY <1>4 DEF EndScript, Orphan
<1>5. CASE LateRunner
  BY <1>5 DEF LateRunner, Free
<1>6. CASE LateStart
  BY <1>6 DEF LateStart
<1>7. CASE LateDatabase
  BY <1>7 DEF LateDatabase, docker
<1>8. CASE Disturb
  BY <1>8 DEF Disturb, Orphan, Free, Theirs
<1> QED
  BY <1>1, <1>2, <1>3, <1>4, <1>5, <1>6, <1>7, <1>8 DEF World

LEMMA OriginLooks ==
  ASSUME TypeOK, OriginInv, Looks
  PROVE  OriginInv'
<1>0. UNCHANGED <<runner, script, db, pending, late>>
  BY LooksFrame DEF world, docker
<1>1. \/ code' = code
      \/ pc = "wait" /\ pc' = "finished" /\ (code' = "broken" \/ runner = Ours(code'))
  BY DEF Looks, Pin, InspectDatabase, CheckName, CheckAbsent, StageSource,
         AwaitRunner, InspectFinished, ReadMarker, InspectById, InspectGone,
         InspectByName, InspectMarker, VerifyAbsent, Report, Kill, Look, Goto,
         EnterCleanup, RaiseWith, Raise, Returned, CleanupRaises, RunnerLooked,
         locals, outcome, Ours
<1>2. \/ passed' = passed
      \/ pc = "marker" /\ code' = code /\ (passed' = "yes" => code = "ok")
  BY DEF Looks, Pin, InspectDatabase, CheckName, CheckAbsent, StageSource,
         AwaitRunner, InspectFinished, ReadMarker, InspectById, InspectGone,
         InspectByName, InspectMarker, VerifyAbsent, Report, Kill, Look, Goto,
         EnterCleanup, RaiseWith, Raise, Returned, CleanupRaises, RunnerLooked,
         locals, outcome
<1>3. /\ pc' \in Before => pc \in Before
      /\ pc' = "wait" => pc \in Before \cup {"wait"}
  BY DEF Looks, Pin, InspectDatabase, CheckName, CheckAbsent, StageSource,
         AwaitRunner, InspectFinished, ReadMarker, InspectById, InspectGone,
         InspectByName, InspectMarker, VerifyAbsent, Report, Kill, Look, Goto,
         EnterCleanup, RaiseWith, Raise, Returned, CleanupRaises, RunnerLooked, Before
<1>4. pc = "wait" => "runner" \notin late
  BY DEF OriginInv
<1>5. ASSUME pc = "wait", runner = Ours("ok")
      PROVE  script = "test" /\ late = {}
  <2>1. "database" \notin late
    BY <1>5 DEF OriginInv
  <2> QED
    BY <1>4, <1>5, <2>1 DEF OriginInv, TypeOK, WorldOK, Requests
<1>6. code' = "ok" => script = "test" /\ late = {}
  BY <1>1, <1>5 DEF OriginInv
<1>7. "runner" \in late => code' = "broken"
  BY <1>1, <1>4 DEF OriginInv
<1>8. passed' = "yes" => code' = "ok"
  BY <1>1, <1>2 DEF OriginInv
<1>9. pc' \in Before \cup {"wait"} => code' = "none"
  BY <1>1, <1>3 DEF OriginInv, Before
<1> QED
  BY <1>0, <1>3, <1>6, <1>7, <1>8, <1>9 DEF OriginInv, Running, Ours

LEMMA OriginActs ==
  ASSUME TypeOK, OriginInv, StartRunner \/ RemoveRunner \/ DropDatabase
  PROVE  OriginInv'
<1>1. CASE StartRunner
  <2>1. /\ pc = "start" /\ late = {} /\ pending = {} /\ script = "boot" /\ passed # "yes"
        /\ runner.owner # "ours" /\ script' = script /\ passed' = passed
        /\ runner # Ours("ok") /\ runner # Ours("created")
    BY <1>1 DEF StartRunner, OriginInv, Before, Goto, Returned, locals, Ours
  <2>2. CASE runner' = Ours("running") /\ pc' = "wait" /\ code' = "none"
             /\ late' = {} /\ pending' = {}
    BY <2>1, <2>2 DEF OriginInv, Before, Ours
  <2>3. CASE /\ runner' \in {runner, Ours("created"), Ours("running")}
             /\ pc' = "finished" /\ code' = "broken" /\ late' = {} /\ pending' = {}
    BY <2>1, <2>3 DEF OriginInv, Before, Ours
  <2>4. CASE /\ runner' = runner /\ pc' = "finished" /\ code' = "broken"
             /\ late' = {"runner"} /\ pending' = {"runner"}
    BY <2>1, <2>4 DEF OriginInv, Before, Ours
  <2> QED
    BY <1>1, <2>1, <2>2, <2>3, <2>4 DEF StartRunner, Goto, Returned, OriginInv, Before, locals
<1>2. CASE RemoveRunner
  <2>1. /\ pc' \notin Before \cup {"wait"} /\ code' = code /\ passed' = passed
        /\ script' = script
    BY <1>2 DEF RemoveRunner, Goto, CleanupRaises, locals, Before
  <2>2. \/ runner' = Free /\ Orphan
        \/ UNCHANGED <<runner, pending, late>>
    BY <1>2 DEF RemoveRunner
  <2> QED
    BY <2>1, <2>2 DEF OriginInv, Orphan, Running, Free, Ours
<1>3. CASE DropDatabase
  BY <1>3 DEF DropDatabase, Goto, CleanupRaises, locals, docker, OriginInv, Before,
              Running, Ours
<1> QED
  BY <1>1, <1>2, <1>3

(* Every state satisfies the first invariant ...                           *)
THEOREM OriginInvariant == Spec => []OriginInv
<1>1. Init => OriginInv
  BY DEF Init, OriginInv, Before, Free, Ours, Running
<1>2. TypeOK /\ OriginInv /\ [Next]_vars => OriginInv'
  <2> SUFFICES ASSUME TypeOK, OriginInv, [Next]_vars PROVE OriginInv'
    OBVIOUS
  <2>1. CASE UNCHANGED vars
    BY <2>1 DEF vars, world, docker, locals, OriginInv, Running, Ours
  <2> QED
    BY <2>1, NextCases, OriginWorld, OriginLooks, OriginActs
<1> QED
  BY <1>1, <1>2, TypeCorrect, PTL DEF Spec

LEMMA CleanWorld ==
  ASSUME TypeOK, OriginInv, CleanInv, World
  PROVE  CleanInv'
<1>0. UNCHANGED <<pc, runnerAbsent, verified, status>>
  BY WorldFrame DEF outcome
<1>1. late \subseteq late'
  BY DEF World, SendCreate, CreateDatabase, MarkDatabase, EndScript, LateRunner,
         LateStart, LateDatabase, Disturb, Orphan
<1>2. runner'.owner = "ours" => runner.owner = "ours" \/ "runner" \in late
  BY DEF World, SendCreate, CreateDatabase, MarkDatabase, EndScript, LateRunner,
         LateStart, LateDatabase, Disturb, Free, Theirs, Ours, OriginInv, Running, docker
<1>3. db' # "none" => db # "none" \/ runner.owner = "ours" \/ late # {}
  BY DEF World, SendCreate, CreateDatabase, MarkDatabase, EndScript, LateRunner,
         LateStart, LateDatabase, Disturb, ScriptGoes, Ours, OriginInv, Running
<1> QED
  BY <1>0, <1>1, <1>2, <1>3 DEF CleanInv

LEMMA CleanLooks ==
  ASSUME TypeOK, CleanInv, Looks
  PROVE  CleanInv'
<1>0. UNCHANGED <<runner, script, db, pending, late>>
  BY LooksFrame DEF world, docker
<1> USE <1>0 DEF CleanInv, MainPcs, CleanupPcs, locals, outcome,
            Goto, EnterCleanup, RaiseWith, Raise, Returned, CleanupRaises,
            RunnerLooked, Look
<1>1. CASE Pin
  BY <1>1 DEF Pin
<1>2. CASE InspectDatabase \/ CheckName \/ CheckAbsent \/ StageSource \/ AwaitRunner
  BY <1>2 DEF InspectDatabase, CheckName, CheckAbsent, StageSource, AwaitRunner
<1>3. CASE InspectFinished \/ ReadMarker
  BY <1>3 DEF InspectFinished, ReadMarker
<1>4. CASE InspectById
  BY <1>4 DEF InspectById
<1>5. CASE InspectGone
  BY <1>5 DEF InspectGone
<1>6. CASE InspectByName
  BY <1>6 DEF InspectByName, Free
<1>7. CASE InspectMarker
  BY <1>7 DEF InspectMarker
<1>8. CASE VerifyAbsent
  BY <1>8 DEF VerifyAbsent
<1>9. CASE Report
  BY <1>9 DEF Report
<1>10. CASE Kill
  BY <1>10 DEF Kill
<1> QED
  BY <1>1, <1>2, <1>3, <1>4, <1>5, <1>6, <1>7, <1>8, <1>9, <1>10 DEF Looks

LEMMA CleanActs ==
  ASSUME TypeOK, OriginInv, CleanInv, StartRunner \/ RemoveRunner \/ DropDatabase
  PROVE  CleanInv'
<1> USE DEF CleanInv, MainPcs, CleanupPcs, locals, outcome, Goto, Returned, CleanupRaises
<1>1. CASE StartRunner
  BY <1>1 DEF StartRunner
<1>2. CASE RemoveRunner
  BY <1>2 DEF RemoveRunner, Free
<1>3. CASE DropDatabase
  BY <1>3 DEF DropDatabase, docker
<1> QED
  BY <1>1, <1>2, <1>3

(* ... and the second.                                                     *)
THEOREM CleanInvariant == Spec => []CleanInv
<1>1. Init => CleanInv
  BY DEF Init, CleanInv
<1>2. TypeOK /\ OriginInv /\ CleanInv /\ [Next]_vars => CleanInv'
  <2> SUFFICES ASSUME TypeOK, OriginInv, CleanInv, [Next]_vars PROVE CleanInv'
    OBVIOUS
  <2>1. CASE UNCHANGED vars
    BY <2>1 DEF vars, world, docker, outcome, CleanInv
  <2> QED
    BY <2>1, NextCases, CleanWorld, CleanLooks, CleanActs
<1> QED
  BY <1>1, <1>2, TypeCorrect, OriginInvariant, PTL DEF Spec

(* A verified cleanup has left nothing, whatever exception it ran under,   *)
(* unless something a lost client had asked for came afterwards.           *)
THEOREM VerifiedGone == Spec => []VerifiedMeansGone
<1>1. CleanInv => VerifiedMeansGone
  BY DEF CleanInv, VerifiedMeansGone
<1> QED
  BY <1>1, CleanInvariant, PTL

(* A receipt with the word pass: nothing is left, and nothing can come.    *)
LEMMA PassIsClean ==
  ASSUME OriginInv, CleanInv, passed = "yes", verified = "yes"
  PROVE  ~Left
<1>1. late = {}
  BY DEF OriginInv
<1> QED
  BY <1>1 DEF OriginInv, CleanInv, Left

Phase == CASE status = "pass" -> "pass"
           [] pc \in {"done", "killed"} -> "other"
           [] pc \in CleanupPcs -> "releasing"
           [] OTHER -> "working"

(* Others, the script and postgres leave the phase, and make nothing out   *)
(* of nothing.                                                             *)
LEMMA WorldMaps ==
  ASSUME TypeOK, OriginInv, World
  PROVE  Phase' = Phase /\ (Left' => Left)
<1>1. Phase' = Phase
  BY WorldFrame DEF Phase
<1>2. pending' \subseteq pending \cup {"database"}
  BY DEF World, SendCreate, CreateDatabase, MarkDatabase, EndScript, LateRunner,
         LateStart, LateDatabase, Disturb, Orphan
<1>3. CASE runner.owner = "ours" \/ pending # {} \/ db # "none"
  BY <1>1, <1>3 DEF Left
<1>4. CASE runner.owner # "ours" /\ pending = {} /\ db = "none"
  BY <1>1, <1>4 DEF World, SendCreate, CreateDatabase, MarkDatabase, EndScript,
         LateRunner, LateStart, LateDatabase, Disturb, ScriptGoes, Running, Orphan,
         Ours, Free, Theirs, Left, docker
<1> QED
  BY <1>3, <1>4

LEMMA LooksMaps ==
  ASSUME TypeOK, OriginInv, CleanInv, Looks
  PROVE  /\ Left' = Left
         /\ \/ Phase' = Phase
            \/ Phase = "working" /\ Phase' = "releasing"
            \/ Phase \in {"working", "releasing"} /\ Phase' = "other"
            \/ Phase = "releasing" /\ Phase' = "pass" /\ ~Left
<1>1. Left' = Left
  BY LooksFrame DEF world, docker, Left
<1>2. CASE Report
  <2>1. pc = "report" /\ pc' = "done" /\ status # "pass" /\ Phase = "releasing"
    BY <1>2 DEF Report, CleanInv, Phase, CleanupPcs
  <2>2. CASE status' = "pass"
    <3>1. passed = "yes" /\ verified = "yes"
      BY <1>2, <2>2 DEF Report, Conclusion
    <3> QED
      BY <1>1, <2>1, <2>2, <3>1, PassIsClean DEF Phase
  <2>3. CASE status' # "pass"
    BY <1>1, <2>1, <2>3 DEF Phase
  <2> QED
    BY <2>2, <2>3
<1>3. CASE ~Report
  <2>1. /\ status' # "pass" /\ status # "pass"
        /\ pc \in MainPcs \cup CleanupPcs
        /\ \/ pc' \in {"done", "killed"}
           \/ pc' \in CleanupPcs
           \/ pc \in MainPcs /\ pc' \in MainPcs
    BY <1>3 DEF Looks, Pin, InspectDatabase, CheckName, CheckAbsent, StageSource,
         AwaitRunner, InspectFinished, ReadMarker, InspectById, InspectGone,
         InspectByName, InspectMarker, VerifyAbsent, Kill, Look, Goto,
         EnterCleanup, RaiseWith, Raise, Returned, CleanupRaises, RunnerLooked,
         MainPcs, CleanupPcs, CleanInv
  <2> QED
    BY <1>1, <2>1 DEF Phase, MainPcs, CleanupPcs
<1> QED
  BY <1>2, <1>3

LEMMA ActsMap ==
  ASSUME TypeOK, OriginInv, CleanInv, StartRunner \/ RemoveRunner \/ DropDatabase
  PROVE  Phase' = Phase /\ (Left' => Left \/ Phase = "working")
<1>1. CASE StartRunner
  BY <1>1 DEF StartRunner, Goto, Returned, Phase, CleanInv, CleanupPcs
<1>2. CASE RemoveRunner
  BY <1>2 DEF RemoveRunner, Goto, CleanupRaises, Phase, CleanInv, CleanupPcs, Left, Orphan, Running
<1>3. CASE DropDatabase
  BY <1>3 DEF DropDatabase, Goto, CleanupRaises, Phase, CleanInv, CleanupPcs, Left, docker
<1> QED
  BY <1>1, <1>2, <1>3

(* What these three say of a step is a step of the abstract harness.       *)
LEMMA AbstractStep ==
  ASSUME \/ Phase' = Phase /\ (Left' => Left \/ Phase = "working")
         \/ /\ Left' = Left
            /\ \/ Phase = "working" /\ Phase' = "releasing"
               \/ Phase \in {"working", "releasing"} /\ Phase' = "other"
               \/ Phase = "releasing" /\ Phase' = "pass" /\ ~Left
  PROVE  [Abstract!Next]_(Abstract!vars)
<1>0. Left \in BOOLEAN /\ Left' \in BOOLEAN
  BY DEF Left
<1>1. CASE Phase' = Phase /\ Left' = Left
  BY <1>1 DEF Abstract!vars, Phase
<1>2. CASE Phase' = Phase /\ Left' /\ ~Left /\ Phase = "working"
  BY <1>2 DEF Abstract!Next, Abstract!Acquire, Phase
<1>3. CASE Phase' = Phase /\ ~Left' /\ Left
  BY <1>3 DEF Abstract!Next, Abstract!Release, Phase
<1>4. CASE Left' = Left /\ Phase = "working" /\ Phase' = "releasing"
  BY <1>4 DEF Abstract!Next, Abstract!StopWorking, Phase
<1>5. CASE Left' = Left /\ Phase \in {"working", "releasing"} /\ Phase' = "other"
  BY <1>5 DEF Abstract!Next, Abstract!GiveUp, Phase
<1>6. CASE Left' = Left /\ Phase = "releasing" /\ Phase' = "pass" /\ ~Left
  BY <1>6 DEF Abstract!Next, Abstract!Pass, Phase
<1> QED
  BY <1>0, <1>1, <1>2, <1>3, <1>4, <1>5, <1>6

(* The shared mode implements the abstract harness.                        *)
THEOREM Implements == Spec => IsEphemeral
<1>1. Init => Abstract!Init
  BY DEF Init, Abstract!Init, Left, Free, CleanupPcs
<1>2. TypeOK /\ OriginInv /\ CleanInv /\ [Next]_vars => [Abstract!Next]_(Abstract!vars)
  <2> SUFFICES ASSUME TypeOK, OriginInv, CleanInv, [Next]_vars
               PROVE  [Abstract!Next]_(Abstract!vars)
    OBVIOUS
  <2>1. CASE UNCHANGED vars
    BY <2>1 DEF vars, world, docker, Abstract!vars, Left
  <2>2. CASE World
    BY <2>2, WorldMaps, AbstractStep
  <2>3. CASE Looks
    BY <2>3, LooksMaps, AbstractStep
  <2>4. CASE StartRunner \/ RemoveRunner \/ DropDatabase
    BY <2>4, ActsMap, AbstractStep
  <2> QED
    BY <2>1, <2>2, <2>3, <2>4, NextCases
<1> QED
  BY <1>1, <1>2, TypeCorrect, OriginInvariant, CleanInvariant, PTL
  DEF Spec, IsEphemeral, Abstract!Spec

----------------------------------------------------------------------------
(* A runner ends well only at the end of its tests, and the harness keeps  *)
(* that answer until the receipt.                                          *)
TestedInv ==
  /\ runner = Ours("ok") \/ code = "ok" => script = "test"
  /\ passed = "yes" => code = "ok"
  /\ pc \in {"pin", "database", "name", "absent", "stage", "start", "wait"} => passed = "no"
  /\ status = "pass" => passed = "yes" /\ verified = "yes" /\ pc \in {"done", "killed"}

(* A receipt with the word pass says that the script has come through      *)
(* creation and marking of its database to the tests, that the runner has  *)
(* ended with their success, and that its removal was verified.            *)
PassMeansTested ==
  status = "pass" => script = "test" /\ code = "ok" /\ verified = "yes"

LEMMA TestedWorld ==
  ASSUME TestedInv, World
  PROVE  TestedInv'
<1>1. UNCHANGED <<pc, locals, outcome, status>>
  BY WorldFrame
<1>2. runner' = Ours("ok") \/ code = "ok" => script' = "test"
  <2> USE DEF TestedInv, Ours, ScriptGoes
  <2>1. CASE SendCreate \/ CreateDatabase \/ MarkDatabase
    BY <2>1 DEF SendCreate, CreateDatabase, MarkDatabase, Running
  <2>2. CASE EndScript
    BY <2>2 DEF EndScript
  <2>3. CASE LateRunner \/ LateStart \/ LateDatabase
    BY <2>3 DEF LateRunner, LateStart, LateDatabase, docker
  <2>4. CASE Disturb
    BY <2>4 DEF Disturb, Free, Theirs
  <2> QED
    BY <2>1, <2>2, <2>3, <2>4 DEF World
<1> QED
  BY <1>1, <1>2 DEF TestedInv, locals, outcome

LEMMA TestedLooks ==
  ASSUME TestedInv, Looks
  PROVE  TestedInv'
<1>1. runner' = runner /\ script' = script
  BY LooksFrame DEF world, docker
<1> USE DEF TestedInv, locals, outcome, Goto, EnterCleanup, RaiseWith, Raise, Returned,
            CleanupRaises, RunnerLooked, Look, Ours
<1>2. CASE Pin \/ InspectDatabase \/ CheckName \/ CheckAbsent \/ StageSource
  BY <1>1, <1>2 DEF Pin, InspectDatabase, CheckName, CheckAbsent, StageSource
<1>3. CASE AwaitRunner
  BY <1>1, <1>3 DEF AwaitRunner
<1>4. CASE InspectFinished
  BY <1>1, <1>4 DEF InspectFinished
<1>5. CASE ReadMarker
  BY <1>1, <1>5 DEF ReadMarker
<1>6. CASE InspectById \/ InspectGone \/ InspectByName \/ InspectMarker
  BY <1>1, <1>6 DEF InspectById, InspectGone, InspectByName, InspectMarker
<1>7. CASE VerifyAbsent
  BY <1>1, <1>7 DEF VerifyAbsent
<1>8. CASE Report
  BY <1>1, <1>8 DEF Report, Conclusion
<1>9. CASE Kill
  BY <1>1, <1>9 DEF Kill, MainPcs, CleanupPcs
<1> QED
  BY <1>2, <1>3, <1>4, <1>5, <1>6, <1>7, <1>8, <1>9 DEF Looks

LEMMA TestedActs ==
  ASSUME TestedInv, StartRunner \/ RemoveRunner \/ DropDatabase
  PROVE  TestedInv'
<1> USE DEF TestedInv, locals, outcome, docker, Goto, Returned, CleanupRaises, Ours, Free
<1>1. CASE StartRunner
  BY <1>1 DEF StartRunner
<1>2. CASE RemoveRunner
  BY <1>2 DEF RemoveRunner
<1>3. CASE DropDatabase
  BY <1>3 DEF DropDatabase
<1> QED
  BY <1>1, <1>2, <1>3

(* No pass without tests, whatever others do to runner and database.       *)
THEOREM PassIsTested == Spec => []PassMeansTested
<1>1. Init => TestedInv
  BY DEF Init, TestedInv, Free, Ours
<1>2. TestedInv /\ [Next]_vars => TestedInv'
  <2> SUFFICES ASSUME TestedInv, [Next]_vars PROVE TestedInv'
    OBVIOUS
  <2>1. CASE UNCHANGED vars
    BY <2>1 DEF vars, world, docker, locals, outcome, TestedInv
  <2> QED
    BY <2>1, TestedWorld, TestedLooks, TestedActs, NextCases
<1>3. TestedInv => PassMeansTested
  BY DEF TestedInv, PassMeansTested
<1> QED
  BY <1>1, <1>2, <1>3, PTL DEF Spec

----------------------------------------------------------------------------
(* The steps an invocation may still take, cleanup and report included.    *)
StepsLeft ==
  CASE pc = "pin" -> 16 [] pc = "database" -> 15 [] pc = "name" -> 14
    [] pc = "absent" -> 13 [] pc = "stage" -> 12 [] pc = "start" -> 11
    [] pc = "wait" -> 10 [] pc = "finished" -> 9 [] pc = "marker" -> 8
    [] pc = "by_id" -> 7 [] pc = "remove" -> 6
    [] pc \in {"gone", "by_name"} -> 5
    [] pc = "drop_marker" -> 4 [] pc = "drop" -> 3 [] pc = "verify" -> 2
    [] pc = "report" -> 1
    [] OTHER -> 0

LEMMA HarnessAdvances ==
  ASSUME TypeOK, Harness
  PROVE  StepsLeft' < StepsLeft
<1> USE DEF StepsLeft, Goto, EnterCleanup, RaiseWith, Raise, Returned, CleanupRaises,
            RunnerLooked, Look
<1>1. CASE Pin \/ InspectDatabase \/ CheckName \/ CheckAbsent \/ StageSource
  BY <1>1 DEF Pin, InspectDatabase, CheckName, CheckAbsent, StageSource
<1>2. CASE StartRunner \/ AwaitRunner
  BY <1>2 DEF StartRunner, AwaitRunner
<1>3. CASE InspectFinished \/ ReadMarker
  BY <1>3 DEF InspectFinished, ReadMarker
<1>4. CASE InspectById \/ RemoveRunner \/ InspectGone \/ InspectByName
  BY <1>4 DEF InspectById, RemoveRunner, InspectGone, InspectByName
<1>5. CASE InspectMarker \/ DropDatabase \/ VerifyAbsent \/ Report
  BY <1>5 DEF InspectMarker, DropDatabase, VerifyAbsent, Report
<1> QED
  BY <1>1, <1>2, <1>3, <1>4, <1>5 DEF Harness

(* An invocation is at most 16 steps long: each step brings it nearer to   *)
(* its report, whatever cleanup raises, and nothing the runner, postgres   *)
(* or other users do sets it back.                                         *)
THEOREM NearsItsEnd ==
  Spec => [][/\ StepsLeft \in 0 .. 16 /\ StepsLeft' \in 0 .. StepsLeft
             /\ Harness => StepsLeft' < StepsLeft]_vars
<1> DEFINE Nears == /\ StepsLeft \in 0 .. 16 /\ StepsLeft' \in 0 .. StepsLeft
                    /\ Harness => StepsLeft' < StepsLeft
<1>1. StepsLeft \in 0 .. 16 /\ StepsLeft' \in 0 .. 16
  <2>1. StepsLeft \in 0 .. 16
    BY DEF StepsLeft
  <2>2. StepsLeft' \in 0 .. 16
    BY DEF StepsLeft
  <2> QED
    BY <2>1, <2>2
<1>2. TypeOK /\ [Next]_vars => [Nears]_vars
  <2> SUFFICES ASSUME TypeOK, Next PROVE Nears
    OBVIOUS
  <2>1. CASE Harness
    BY <1>1, <2>1, HarnessAdvances
  <2>2. CASE Kill
    <3>1. StepsLeft' = 0
      BY <2>2 DEF Kill, StepsLeft
    <3> QED
      BY <1>1, <2>2, <3>1, HarnessAdvances
  <2>3. CASE World \/ Stopped
    <3>1. StepsLeft' = StepsLeft
      BY <2>3, WorldFrame DEF Stopped, vars, StepsLeft
    <3> QED
      BY <1>1, <2>3, <3>1, HarnessAdvances
  <2> QED
    BY <2>1, <2>2, <2>3 DEF Next
<1> QED
  BY <1>2, TypeCorrect, PTL DEF Spec
====
