------------------------- MODULE ClaimDispatchProofs -------------------------
(***************************************************************************)
(* Proofs about ClaimDispatch, for any manifest, any agents and any bounds.*)
(* A step is a step of one process, the reset of a lock, or a step of the  *)
(* runner; what each kind can change is stated once (ProcessFrame,         *)
(* RunnerFrame) and the invariants are proved from that.                   *)
(***************************************************************************)
EXTENDS ClaimDispatch, SequenceTheorems, WellFoundedInduction, TLAPS

ProcTypeOK ==
  /\ pc \in [Procs -> Places]
  /\ target \in [Procs -> Packages]
  /\ way \in [Procs -> {"job", "direct", "prompted", "claimed"}]
  /\ acquired \in [Procs -> {"yes", "no"}]
  /\ code \in [Procs -> {"zero", "nonzero"}]
  /\ left \in [Procs -> Int]

LockTypeOK ==
  /\ lock \in [Packages -> Procs \cup {"free"}]
  /\ reset \in [Packages -> {"never", "after", "during"}] /\ resets \in Nat

FileTypeOK ==
  /\ outputs \in [Packages -> Seq(Profiles \X Gates)]
  /\ status \in [Packages -> {"none", "pass", "fail", "blocked"}]
  /\ declared \in [Packages -> Nat] /\ cleared \in [Packages -> {"yes", "no"}]

RunnerTypeOK ==
  /\ phase \in {"idle", "wave", "batches", "promote", "ended"}
  /\ wave \in Nat
  /\ todo \subseteq Packages /\ batch \subseteq Packages
  /\ failed \subseteq Nat /\ skipped \subseteq Nat /\ dispatches \in Nat

ResultTypeOK ==
  /\ unread \subseteq Packages /\ reading \subseteq Packages
  /\ listed \in [Packages -> Nat]
  /\ results \in [Packages -> {"none", "pass", "notpass"}]

LEMMA TypeParts ==
  TypeOK <=> ProcTypeOK /\ LockTypeOK /\ FileTypeOK /\ RunnerTypeOK /\ ResultTypeOK
  BY DEF TypeOK, ProcTypeOK, LockTypeOK, FileTypeOK, RunnerTypeOK, ResultTypeOK

LEMMA TypePartsPrimed ==
  TypeOK' <=> ProcTypeOK' /\ LockTypeOK' /\ FileTypeOK' /\ RunnerTypeOK' /\ ResultTypeOK'
  BY DEF TypeOK, ProcTypeOK, LockTypeOK, FileTypeOK, RunnerTypeOK, ResultTypeOK

LEMMA InitTyped == Init => TypeOK
<1> SUFFICES ASSUME Init PROVE TypeOK
  OBVIOUS
<1>1. ProcTypeOK
  <2>1. PICK work \in [Agents -> AgentWork] :
          /\ target = [q \in Procs |-> IF q \in Packages THEN q ELSE work[q][2]]
          /\ way = [q \in Procs |-> IF q \in Packages THEN "job" ELSE work[q][1]]
    BY DEF Init
  <2>2. ASSUME NEW q \in Agents
        PROVE  work[q][1] \in {"direct", "prompted", "claimed"} /\ work[q][2] \in Packages
    BY WorkAssumption
  <2>3. target \in [Procs -> Packages]
    BY <2>1, <2>2 DEF Procs
  <2>4. way \in [Procs -> {"job", "direct", "prompted", "claimed"}]
    BY <2>1, <2>2 DEF Procs
  <2> QED
    BY <2>3, <2>4 DEF Init, ProcTypeOK, Places
<1>2. LockTypeOK
  BY DEF Init, LockTypeOK
<1>3. FileTypeOK
  <2>1. <<>> \in Seq(Profiles \X Gates)
    OBVIOUS
  <2> QED
    BY <2>1 DEF Init, FileTypeOK
<1>4. RunnerTypeOK /\ ResultTypeOK
  BY DEF Init, RunnerTypeOK, ResultTypeOK
<1> QED
  BY <1>1, <1>2, <1>3, <1>4, TypeParts

-----------------------------------------------------------------------------
ProcessStep(q) == \/ q \in Agents /\ StartAgent(q)
                  \/ ScriptStep(q)
                  \/ Kill(q)

LEMMA ProcessSteps ==
  ASSUME Next
  PROVE  \/ \E q \in Procs : ProcessStep(q)
         \/ \E p \in Packages : ResetLock(p)
         \/ StartDispatch \/ DispatchStep
  BY DEF Next, ProcessStep, Procs

(* What a process changes of itself.                                       *)
LEMMA ProcessProc ==
  ASSUME TypeOK, NEW q \in Procs, ProcessStep(q)
  PROVE  ProcTypeOK'
<1> USE DEF ProcTypeOK, Places
<1>0. ProcTypeOK
  BY TypeParts
<1>1. CASE q \in Agents /\ StartAgent(q)
  BY <1>0, <1>1 DEF StartAgent, Goto
<1>2. CASE TestLock(q)
  BY <1>0, <1>2 DEF TestLock, Exit, Goto
<1>7. CASE LoseLock(q) \/ Kill(q)
  BY <1>0, <1>7 DEF LoseLock, Kill, Exit, Goto
<1>8. CASE LackEnv(q)
  BY <1>0, <1>8 DEF LackEnv, Exit, Goto
<1>3. CASE TakeLock(q)
  BY <1>0, <1>3 DEF TakeLock, Goto
<1>4. CASE EnterScript(q)
  <2>1. Commands[target[q]] \in Int
    BY <1>0, BoundsAssumption
  <2> QED
    BY <1>0, <1>4, <2>1 DEF EnterScript, Goto
<1>5. CASE RunCommand(q)
  <2>1. left' \in [Procs -> Int]
    BY <1>0, <1>5 DEF RunCommand
  <2> QED
    BY <1>0, <1>5, <2>1 DEF RunCommand, Goto
<1>6. CASE ReportStatus(q)
  <2>1. code[q] \in {"zero", "nonzero"}
    BY <1>0
  <2> QED
    BY <1>0, <1>6, <2>1 DEF ReportStatus, Exit, Goto
<1> QED
  BY <1>1, <1>2, <1>3, <1>4, <1>5, <1>6, <1>7, <1>8 DEF ProcessStep, ScriptStep

LEMMA ProcessLock ==
  ASSUME TypeOK, NEW q \in Procs, ProcessStep(q)
  PROVE  /\ LockTypeOK'
         /\ UNCHANGED <<target, way, reset, resets, runnerVars, resultVars>>
         /\ \/ lock' = lock
            \/ /\ TakeLock(q) /\ lock[target[q]] = "free"
               /\ lock' = [lock EXCEPT ![target[q]] = q]
<1> USE DEF LockTypeOK, lockVars
<1>0. LockTypeOK
  BY TypeParts
<1>1. CASE q \in Agents /\ StartAgent(q)
  BY <1>0, <1>1 DEF StartAgent
<1>2. CASE TestLock(q) \/ LoseLock(q) \/ LackEnv(q) \/ Kill(q)
  BY <1>0, <1>2 DEF TestLock, LoseLock, LackEnv, Kill
<1>3. CASE TakeLock(q)
  BY <1>0, <1>3 DEF TakeLock
<1>4. CASE EnterScript(q) \/ RunCommand(q) \/ ReportStatus(q)
  BY <1>0, <1>4 DEF EnterScript, RunCommand, ReportStatus
<1> QED
  BY <1>1, <1>2, <1>3, <1>4 DEF ProcessStep, ScriptStep

(* A process writes the output directory and the status of its package     *)
(* alone, and the output only from a command.                              *)
LEMMA ProcessOutputs ==
  ASSUME TypeOK, NEW q \in Procs, ProcessStep(q)
  PROVE  \/ outputs' = outputs
         \/ /\ RunCommand(q)
            /\ \E o \in Profiles \X Gates :
                 outputs' = [outputs EXCEPT ![target[q]] = Append(@, o)]
<1>1. CASE q \in Agents /\ StartAgent(q)
  BY <1>1 DEF StartAgent
<1>2. CASE TestLock(q) \/ LoseLock(q) \/ LackEnv(q) \/ Kill(q)
  BY <1>2 DEF TestLock, LoseLock, LackEnv, Kill
<1>3. CASE TakeLock(q) \/ EnterScript(q) \/ ReportStatus(q)
  BY <1>3 DEF TakeLock, EnterScript, ReportStatus
<1>4. CASE RunCommand(q)
  <2>1. CASE UNCHANGED outputs
    BY <2>1
  <2>2. ASSUME NEW f \in Profiles, NEW g \in Gates,
               outputs' = [outputs EXCEPT ![target[q]] = Append(@, <<f, g>>)]
        PROVE  \E o \in Profiles \X Gates :
                 outputs' = [outputs EXCEPT ![target[q]] = Append(@, o)]
    <3>1. <<f, g>> \in Profiles \X Gates
      OBVIOUS
    <3> QED
      BY <2>2, <3>1
  <2> QED
    BY <1>4, <2>1, <2>2 DEF RunCommand
<1> QED
  BY <1>1, <1>2, <1>3, <1>4 DEF ProcessStep, ScriptStep

LEMMA ProcessStatus ==
  ASSUME TypeOK, NEW q \in Procs, ProcessStep(q)
  PROVE  \/ UNCHANGED statusVars
         \/ \E v \in {"pass", "fail", "blocked"}, c \in {"yes", "no"} :
              /\ WriteStatus(target[q], v, Len(outputs[target[q]]), c)
              /\ ReportStatus(q) \/ v = "blocked"
<1>1. CASE q \in Agents /\ StartAgent(q)
  BY <1>1 DEF StartAgent
<1>2. CASE TestLock(q) \/ LoseLock(q) \/ Kill(q)
  BY <1>2 DEF TestLock, LoseLock, Kill
<1>3. CASE TakeLock(q) \/ EnterScript(q) \/ RunCommand(q)
  BY <1>3 DEF TakeLock, EnterScript, RunCommand
<1>4. CASE ReportStatus(q)
  <2>1. PICK v \in {"pass", "fail"}, c \in {"yes", "no"} :
          WriteStatus(target[q], v, Len(outputs[target[q]]), c)
    BY <1>4 DEF ReportStatus
  <2> QED
    BY <1>4, <2>1
<1>5. CASE LackEnv(q)
  BY <1>5 DEF LackEnv
<1> QED
  BY <1>1, <1>2, <1>3, <1>4, <1>5 DEF ProcessStep, ScriptStep

LEMMA ProcessFile ==
  ASSUME TypeOK, NEW q \in Procs, ProcessStep(q)
  PROVE  FileTypeOK'
<1>0. FileTypeOK /\ target[q] \in Packages
  BY TypeParts DEF ProcTypeOK
<1>1. outputs' \in [Packages -> Seq(Profiles \X Gates)]
  <2>1. CASE outputs' = outputs
    BY <1>0, <2>1 DEF FileTypeOK
  <2>2. ASSUME NEW o \in Profiles \X Gates,
               outputs' = [outputs EXCEPT ![target[q]] = Append(@, o)]
        PROVE  outputs' \in [Packages -> Seq(Profiles \X Gates)]
    <3>1. Append(outputs[target[q]], o) \in Seq(Profiles \X Gates)
      BY <1>0 DEF FileTypeOK
    <3> QED
      BY <1>0, <2>2, <3>1 DEF FileTypeOK
  <2> QED
    BY <2>1, <2>2, ProcessOutputs
<1>2. Len(outputs[target[q]]) \in Nat
  BY <1>0 DEF FileTypeOK
<1>3. /\ status' \in [Packages -> {"none", "pass", "fail", "blocked"}]
      /\ declared' \in [Packages -> Nat] /\ cleared' \in [Packages -> {"yes", "no"}]
  <2>1. CASE UNCHANGED statusVars
    BY <1>0, <2>1 DEF FileTypeOK, statusVars
  <2>2. ASSUME NEW v \in {"pass", "fail", "blocked"}, NEW c \in {"yes", "no"},
               WriteStatus(target[q], v, Len(outputs[target[q]]), c)
        PROVE  /\ status' \in [Packages -> {"none", "pass", "fail", "blocked"}]
               /\ declared' \in [Packages -> Nat]
               /\ cleared' \in [Packages -> {"yes", "no"}]
    BY <1>0, <1>2, <2>2 DEF FileTypeOK, WriteStatus
  <2> QED
    BY <2>1, <2>2, ProcessStatus
<1> QED
  BY <1>1, <1>3 DEF FileTypeOK

LEMMA ProcessTyped ==
  ASSUME TypeOK, NEW q \in Procs, ProcessStep(q)
  PROVE  TypeOK'
<1>1. RunnerTypeOK /\ ResultTypeOK
  BY TypeParts
<1>2. UNCHANGED <<runnerVars, resultVars>>
  BY ProcessLock
<1>3. RunnerTypeOK' /\ ResultTypeOK'
  BY <1>1, <1>2 DEF RunnerTypeOK, ResultTypeOK, runnerVars, resultVars
<1> QED
  BY <1>3, ProcessProc, ProcessLock, ProcessFile, TypePartsPrimed

LEMMA ResetTyped ==
  ASSUME TypeOK, NEW p \in Packages, ResetLock(p)
  PROVE  TypeOK'
<1> USE DEF LockTypeOK
<1>1. LockTypeOK'
  BY TypeParts DEF ResetLock
<1>2. ProcTypeOK' /\ FileTypeOK' /\ RunnerTypeOK' /\ ResultTypeOK'
  BY TypeParts DEF ResetLock, ProcTypeOK, FileTypeOK, RunnerTypeOK, ResultTypeOK,
                   procVars, statusVars, runnerVars, resultVars
<1> QED
  BY <1>1, <1>2, TypePartsPrimed

(* The runner has no hand in locks and outputs, and of the processes it    *)
(* only starts jobs.                                                       *)
LEMMA RunnerFrame ==
  ASSUME StartDispatch \/ DispatchStep
  PROVE  /\ UNCHANGED <<target, way, acquired, left, lock, reset, resets, outputs>>
         /\ StartDispatch \/ StartBatch \/ UNCHANGED <<pc, code>>
         /\ SkipWave \/ UNCHANGED statusVars
<1> USE DEF procVars, lockVars
<1>1. CASE StartDispatch \/ StartBatch
  BY <1>1 DEF StartDispatch, StartBatch
<1>2. CASE OpenWave \/ SkipWave \/ WaitBatch
  BY <1>2 DEF OpenWave, SkipWave, WaitBatch
<1>3. CASE CloseWave \/ StartPromotion \/ EndDispatch
  BY <1>3 DEF CloseWave, StartPromotion, EndDispatch
<1>4. ASSUME NEW p \in Packages, ListArtifacts(p) \/ JudgePackage(p)
      PROVE  /\ UNCHANGED <<target, way, acquired, left, lock, reset, resets, outputs>>
             /\ UNCHANGED <<pc, code>>
             /\ UNCHANGED statusVars
  BY <1>4 DEF ListArtifacts, JudgePackage
<1> QED
  BY <1>1, <1>2, <1>3, <1>4 DEF DispatchStep

LEMMA RunnerProc ==
  ASSUME TypeOK, StartDispatch \/ DispatchStep
  PROVE  ProcTypeOK' /\ LockTypeOK' /\ FileTypeOK'
<1>0. ProcTypeOK /\ LockTypeOK /\ FileTypeOK
  BY TypeParts
<1>1. LockTypeOK'
  BY <1>0, RunnerFrame DEF LockTypeOK
<1>2. pc' \in [Procs -> Places] /\ code' \in [Procs -> {"zero", "nonzero"}]
  <2>1. CASE StartDispatch
    BY <1>0, <2>1 DEF StartDispatch, ProcTypeOK, Places
  <2>2. CASE StartBatch
    BY <1>0, <2>2 DEF StartBatch, ProcTypeOK, Places
  <2> QED
    BY <1>0, <2>1, <2>2, RunnerFrame DEF ProcTypeOK
<1>3. /\ status' \in [Packages -> {"none", "pass", "fail", "blocked"}]
      /\ declared' \in [Packages -> Nat] /\ cleared' \in [Packages -> {"yes", "no"}]
  <2>1. CASE SkipWave
    BY <1>0, <2>1 DEF SkipWave, FileTypeOK
  <2> QED
    BY <1>0, <2>1, RunnerFrame DEF FileTypeOK, statusVars
<1> QED
  BY <1>0, <1>1, <1>2, <1>3, RunnerFrame DEF ProcTypeOK, FileTypeOK

LEMMA RunnerOwn ==
  ASSUME TypeOK, StartDispatch \/ DispatchStep
  PROVE  RunnerTypeOK' /\ ResultTypeOK'
<1> USE DEF RunnerTypeOK, ResultTypeOK
<1>0. RunnerTypeOK /\ ResultTypeOK /\ FileTypeOK
  BY TypeParts
<1>1. CASE StartDispatch
  BY <1>0, <1>1 DEF StartDispatch, resultVars
<1>2. CASE OpenWave
  BY <1>0, <1>2 DEF OpenWave, resultVars, Selected, Launchable, WavePackages
<1>3. CASE SkipWave
  <2>1. /\ failed' = failed \cup {wave} /\ skipped' = skipped \cup {wave}
        /\ wave' = wave + 1
        /\ UNCHANGED <<phase, todo, batch, dispatches, resultVars>>
    BY <1>3 DEF SkipWave
  <2>2. failed' \subseteq Nat /\ skipped' \subseteq Nat /\ wave' \in Nat
    BY <1>0, <2>1
  <2> QED
    BY <1>0, <2>1, <2>2 DEF resultVars
<1>4. CASE StartBatch
  <2>1. PICK b \in NextBatches : batch' = b /\ todo' = todo \ b
    BY <1>4 DEF StartBatch
  <2>2. b \subseteq todo
    BY <2>1 DEF NextBatches, FirstOf
  <2> QED
    BY <1>0, <1>4, <2>1, <2>2 DEF StartBatch, resultVars
<1>5. CASE WaitBatch
  BY <1>0, <1>5 DEF WaitBatch, resultVars
<1>6. CASE CloseWave
  BY <1>0, <1>6 DEF CloseWave, resultVars
<1>7. CASE StartPromotion
  BY <1>0, <1>7 DEF StartPromotion
<1>8. CASE EndDispatch
  BY <1>0, <1>8 DEF EndDispatch, resultVars
<1>9. ASSUME NEW p \in Packages, ListArtifacts(p) PROVE RunnerTypeOK' /\ ResultTypeOK'
  <2>1. Len(outputs[p]) \in Nat
    BY <1>0 DEF FileTypeOK
  <2> QED
    BY <1>0, <1>9, <2>1 DEF ListArtifacts, runnerVars
<1>10. ASSUME NEW p \in Packages, JudgePackage(p) PROVE RunnerTypeOK' /\ ResultTypeOK'
  BY <1>0, <1>10 DEF JudgePackage, runnerVars
<1> QED
  BY <1>1, <1>2, <1>3, <1>4, <1>5, <1>6, <1>7, <1>8, <1>9, <1>10 DEF DispatchStep

LEMMA RunnerTyped ==
  ASSUME TypeOK, StartDispatch \/ DispatchStep
  PROVE  TypeOK'
  BY RunnerOwn, RunnerProc, TypePartsPrimed

(* Every reachable state is well typed.                                    *)
THEOREM TypeCorrect == Spec => []TypeOK
<1>1. TypeOK /\ [Next]_vars => TypeOK'
  <2> SUFFICES ASSUME TypeOK, [Next]_vars PROVE TypeOK'
    OBVIOUS
  <2>1. CASE Next
    BY <2>1, ProcessSteps, ProcessTyped, ResetTyped, RunnerTyped
  <2>2. CASE UNCHANGED vars
    BY <2>2 DEF TypeOK, vars, procVars, lockVars, statusVars, runnerVars, resultVars
  <2> QED
    BY <2>1, <2>2
<1> QED
  BY <1>1, InitTyped, PTL DEF Spec

-----------------------------------------------------------------------------
(* A process that runs commands, or may do so without asking for the lock. *)
Relies(q) == \/ Working(q)
             \/ pc[q] = "script" /\ acquired[q] = "yes"

AcquiredInv == \A q \in Procs : acquired[q] = "yes" => pc[q] \in {"script", "command", "report"}

(* A step of a process moves this process alone.                           *)
LEMMA ProcessFrame ==
  ASSUME TypeOK, AcquiredInv, NEW q \in Procs, ProcessStep(q)
  PROVE  /\ \A r \in Procs : r # q => pc'[r] = pc[r] /\ acquired'[r] = acquired[r]
         /\ pc[q] # "over" /\ pc'[q] # "idle"
         /\ pc[q] = "idle" => q \in Agents
         /\ acquired'[q] = "yes" => pc'[q] \in {"script", "command", "report"}
         /\ Relies(q)' => \/ Relies(q)
                          \/ lock[target[q]] = "free" /\ lock'[target[q]] = q
<1> USE DEF Relies, Working, Active, Goto, Exit
<1>0. /\ pc \in [Procs -> Places] /\ acquired \in [Procs -> {"yes", "no"}]
      /\ target[q] \in Packages /\ lock \in [Packages -> Procs \cup {"free"}]
  BY DEF TypeOK
<1>1. CASE q \in Agents /\ StartAgent(q)
  <2>1. acquired[q] # "yes"
    BY <1>1 DEF StartAgent, AcquiredInv
  <2> QED
    BY <1>0, <1>1, <2>1 DEF StartAgent
<1>2. CASE TestLock(q)
  <2>1. acquired[q] # "yes"
    BY <1>2 DEF TestLock, AcquiredInv
  <2>2. CASE lock[target[q]] # "free"
    BY <1>0, <1>2, <2>2 DEF TestLock
  <2>3. CASE lock[target[q]] = "free"
    BY <1>0, <1>2, <2>1, <2>3 DEF TestLock
  <2> QED
    BY <2>2, <2>3
<1>3. CASE LoseLock(q)
  BY <1>0, <1>3 DEF LoseLock
<1>4. CASE TakeLock(q)
  BY <1>0, <1>4 DEF TakeLock
<1>5. CASE LackEnv(q)
  BY <1>0, <1>5 DEF LackEnv
<1>6. CASE EnterScript(q)
  BY <1>0, <1>6 DEF EnterScript
<1>7. CASE RunCommand(q)
  <2>1. /\ pc[q] = "command" /\ acquired' = acquired
        /\ pc' = [pc EXCEPT ![q] = "command"] \/ pc' = [pc EXCEPT ![q] = "report"]
    BY <1>7 DEF RunCommand
  <2> QED
    BY <1>0, <2>1
<1>8. CASE ReportStatus(q)
  BY <1>0, <1>8 DEF ReportStatus
<1>9. CASE Kill(q)
  BY <1>0, <1>9 DEF Kill
<1> QED
  BY <1>1, <1>2, <1>3, <1>4, <1>5, <1>6, <1>7, <1>8, <1>9 DEF ProcessStep, ScriptStep

(* The jobs of the runner are those of its batch, and a batch holds        *)
(* packages of one stage.                                                  *)
JobsInv ==
  /\ \A p \in Packages : target[p] = p
  /\ \A p \in Packages : Active(p) => p \in batch
  /\ batch # {} => phase = "batches"
  /\ phase = "batches" => todo \cup batch \subseteq WavePackages(wave)
  /\ phase = "batches" /\ Selected(wave) # {} => todo \subseteq Selected(wave)
  /\ \A p, q \in batch : p # q => <<p, q>> \notin Conflict

LEMMA PackagesAreProcs == Packages \subseteq Procs /\ Packages \cap Agents = {}
  BY ProcsDisjoint DEF Procs

(* The packages of a stage, or the one package of a step, do not conflict. *)
LEMMA BatchApart ==
  ASSUME TypeOK, JobsInv, phase = "batches", NEW b \in NextBatches
  PROVE  /\ b \subseteq todo
         /\ \A p, q \in b : p # q => <<p, q>> \notin Conflict
<1>1. b \subseteq todo
  BY DEF NextBatches, FirstOf
<1>2. CASE Selected(wave) # {}
  <2>1. SUFFICES ASSUME NEW p \in b, NEW q \in b, p # q
                 PROVE  <<p, q>> \notin Conflict
    BY <1>1
  <2>2. p \in Selected(wave) /\ q \in Selected(wave)
    BY <1>1, <1>2, <2>1 DEF JobsInv
  <2>3. /\ p \in Parallelizable \cap EnvReady /\ q \in Parallelizable \cap EnvReady
        /\ Wave[p] = Wave[q] /\ DependsOn[p] = {} /\ DependsOn[q] = {}
    BY <2>2 DEF Selected, Launchable, LaunchReady, WavePackages
  <2>4. b = {r \in todo : \A s \in todo : Stage[r] <= Stage[s]}
    BY <1>2 DEF NextBatches
  <2>5. Stage[p] <= Stage[q] /\ Stage[q] <= Stage[p]
    BY <2>1, <2>4
  <2>6. Stage[p] \in Nat /\ Stage[q] \in Nat
    BY <2>3, PlanAssumption
  <2>7. Stage[p] = Stage[q]
    BY <2>5, <2>6
  <2> QED
    BY <2>1, <2>3, <2>7, PlanAssumption
<1>3. CASE Selected(wave) = {}
  BY <1>1, <1>3 DEF NextBatches
<1> QED
  BY <1>1, <1>2, <1>3

LEMMA JobsInit == Init => JobsInv /\ AcquiredInv
<1> SUFFICES ASSUME Init PROVE JobsInv /\ AcquiredInv
  OBVIOUS
<1>1. \A p \in Packages : target[p] = p
  BY PackagesAreProcs DEF Init
<1> QED
  BY <1>1, PackagesAreProcs DEF Init, JobsInv, AcquiredInv, Active

LEMMA JobsProcess ==
  ASSUME TypeOK, AcquiredInv, JobsInv, NEW q \in Procs, ProcessStep(q)
  PROVE  AcquiredInv' /\ JobsInv'
<1>1. UNCHANGED <<target, phase, wave, todo, batch>>
  BY ProcessLock DEF runnerVars
<1>2. AcquiredInv'
  BY ProcessFrame DEF AcquiredInv
<1>3. ASSUME NEW p \in Packages, Active(p)' PROVE p \in batch
  <2>1. CASE p = q
    BY <1>3, <2>1, ProcessFrame, PackagesAreProcs DEF Active, JobsInv
  <2>2. CASE p # q
    BY <1>3, <2>2, ProcessFrame, PackagesAreProcs DEF Active, JobsInv
  <2> QED
    BY <2>1, <2>2
<1> QED
  BY <1>1, <1>2, <1>3 DEF JobsInv, Active, WavePackages, Selected, Launchable, LaunchReady

LEMMA JobsRunner ==
  ASSUME TypeOK, AcquiredInv, JobsInv, StartDispatch \/ DispatchStep
  PROVE  AcquiredInv' /\ JobsInv'
<1> USE DEF WavePackages
<1>0. \A p \in Packages : p \in Procs /\ acquired[p] \in {"yes", "no"}
  BY PackagesAreProcs DEF TypeOK
<1>1. CASE StartDispatch
  <2>1. \A p \in Packages : ~Active(p)
    BY <1>1 DEF StartDispatch, JobsInv
  <2>2. \A p \in Packages : acquired[p] # "yes"
    BY <1>0, <2>1 DEF AcquiredInv, Active
  <2>3. AcquiredInv'
    BY <1>1, <2>2, RunnerFrame DEF StartDispatch, AcquiredInv
  <2>4. \A p \in Packages : ~Active(p)'
    BY <1>0, <1>1 DEF StartDispatch, Active
  <2> QED
    BY <1>1, <2>3, <2>4, RunnerFrame DEF StartDispatch, JobsInv
<1>2. CASE StartBatch
  <2>1. PICK b \in NextBatches :
          /\ batch' = b /\ todo' = todo \ b
          /\ pc' = [q \in Procs |-> IF q \in b THEN "helper" ELSE pc[q]]
    BY <1>2 DEF StartBatch
  <2>2. /\ phase = "batches" /\ batch = {} /\ UNCHANGED <<target, phase, wave>>
        /\ UNCHANGED acquired
    BY <1>2, RunnerFrame DEF StartBatch
  <2>3. b \subseteq todo /\ \A p, q \in b : p # q => <<p, q>> \notin Conflict
    BY <2>2, BatchApart
  <2>4. \A p \in Packages : ~Active(p) /\ acquired[p] # "yes"
    BY <1>0, <2>2 DEF JobsInv, AcquiredInv, Active
  <2>5. b \subseteq Packages
    BY <2>3 DEF TypeOK
  <2>6. AcquiredInv'
    BY <2>1, <2>2, <2>4, <2>5 DEF AcquiredInv
  <2>7. \A p \in Packages : Active(p)' => p \in b
    BY <1>0, <2>1, <2>4 DEF Active
  <2> QED
    BY <2>1, <2>2, <2>3, <2>6, <2>7 DEF JobsInv
<1>3. CASE OpenWave
  <2>1. /\ UNCHANGED <<target, pc, acquired, wave, batch>> /\ phase # "batches"
        /\ phase' = "batches"
        /\ todo' = IF Selected(wave) # {} THEN Selected(wave) ELSE WavePackages(wave)
    BY <1>3 DEF OpenWave, procVars
  <2>2. batch = {} /\ Selected(wave) \subseteq WavePackages(wave)
    BY <2>1 DEF JobsInv, Selected, Launchable
  <2> QED
    BY <2>1, <2>2 DEF JobsInv, AcquiredInv, Active
<1>4. CASE WaitBatch
  <2>1. /\ UNCHANGED <<target, pc, acquired, wave, phase, todo>> /\ batch' = {}
        /\ \A p \in batch : pc[p] = "over"
    BY <1>4 DEF WaitBatch, BatchOver, procVars
  <2>2. \A p \in Packages : ~Active(p)
    BY <2>1 DEF JobsInv, Active
  <2> QED
    BY <2>1, <2>2 DEF JobsInv, AcquiredInv, Active
<1>5. CASE CloseWave
  BY <1>5 DEF CloseWave, procVars, JobsInv, AcquiredInv, Active
<1>6. CASE SkipWave
  <2>1. UNCHANGED <<target, pc, acquired, phase, todo, batch>> /\ phase # "batches"
    BY <1>6 DEF SkipWave, procVars
  <2> QED
    BY <2>1 DEF JobsInv, AcquiredInv, Active
<1>7. CASE StartPromotion \/ EndDispatch
  BY <1>7 DEF StartPromotion, EndDispatch, procVars, JobsInv, AcquiredInv, Active
<1>8. ASSUME NEW p \in Packages, ListArtifacts(p) \/ JudgePackage(p)
      PROVE  AcquiredInv' /\ JobsInv'
  BY <1>8 DEF ListArtifacts, JudgePackage, procVars, runnerVars, JobsInv, AcquiredInv, Active
<1> QED
  BY <1>1, <1>2, <1>3, <1>4, <1>5, <1>6, <1>7, <1>8 DEF DispatchStep

LEMMA JobsInvariant == Spec => [](JobsInv /\ AcquiredInv)
<1>1. TypeOK /\ AcquiredInv /\ JobsInv /\ [Next]_vars => AcquiredInv' /\ JobsInv'
  <2> SUFFICES ASSUME TypeOK, AcquiredInv, JobsInv, [Next]_vars
               PROVE  AcquiredInv' /\ JobsInv'
    OBVIOUS
  <2>1. ASSUME NEW p \in Packages, ResetLock(p) PROVE AcquiredInv' /\ JobsInv'
    BY <2>1 DEF ResetLock, procVars, runnerVars, JobsInv, AcquiredInv, Active
  <2>2. CASE UNCHANGED vars
    BY <2>2 DEF vars, procVars, runnerVars, JobsInv, AcquiredInv, Active
  <2> QED
    BY <2>1, <2>2, ProcessSteps, JobsProcess, JobsRunner
<1> QED
  BY <1>1, JobsInit, TypeCorrect, PTL DEF Spec

(* Packages with a resource tag in common are never run side by side by    *)
(* the one-shot runner.                                                    *)
THEOREM OverlapsAreSerialized == Spec => []OverlapsSerialized
<1>1. JobsInv => OverlapsSerialized
  BY DEF JobsInv, OverlapsSerialized
<1> QED
  BY <1>1, JobsInvariant, PTL

-----------------------------------------------------------------------------
(* Who relies on a lock holds it, unless it was reset in between.          *)
LockInv ==
  \A q \in Procs : Relies(q) => \/ lock[target[q]] = q
                                \/ reset[target[q]] = "during"

LEMMA RunnerRelies ==
  ASSUME TypeOK, StartDispatch \/ DispatchStep, NEW q \in Procs, Relies(q)'
  PROVE  Relies(q)
<1>1. pc[q] = pc'[q] \/ pc'[q] \in {"idle", "helper"}
  <2>1. CASE StartDispatch
    BY <2>1 DEF StartDispatch
  <2>2. CASE StartBatch
    BY <2>2 DEF StartBatch
  <2> QED
    BY <2>1, <2>2, RunnerFrame
<1> QED
  BY <1>1, RunnerFrame DEF Relies, Working

LEMMA LockProcess ==
  ASSUME TypeOK, AcquiredInv, LockInv, NEW q \in Procs, ProcessStep(q)
  PROVE  LockInv'
<1> SUFFICES ASSUME NEW r \in Procs, Relies(r)'
             PROVE  lock'[target[r]] = r \/ reset[target[r]] = "during"
  BY ProcessLock DEF LockInv
<1>0. target[r] \in Packages /\ target[q] \in Packages /\ r # "free"
  BY ProcsDisjoint DEF TypeOK, Procs
<1>1. lock \in [Packages -> Procs \cup {"free"}]
  BY DEF TypeOK
<1>2. CASE r = q
  <2>1. CASE Relies(q)
    BY <1>0, <1>1, <1>2, <2>1, ProcessLock DEF LockInv
  <2> QED
    BY <1>2, <2>1, ProcessFrame
<1>3. CASE r # q
  <2>1. Relies(r)
    BY <1>3, ProcessFrame DEF Relies, Working
  <2> QED
    BY <1>0, <1>1, <2>1, ProcessLock DEF LockInv
<1> QED
  BY <1>2, <1>3

LEMMA LockReset ==
  ASSUME TypeOK, LockInv, NEW p \in Packages, ResetLock(p)
  PROVE  LockInv'
<1> SUFFICES ASSUME NEW r \in Procs, Relies(r)'
             PROVE  lock'[target[r]] = r \/ reset'[target[r]] = "during"
  BY DEF LockInv, ResetLock, procVars
<1>1. Relies(r) /\ Active(r) /\ target[r] \in Packages
  BY DEF ResetLock, procVars, Relies, Working, Active, TypeOK
<1>2. /\ lock' = [lock EXCEPT ![p] = "free"]
      /\ reset' = [reset EXCEPT ![p] =
                     IF reset[p] = "during" \/ Active(lock[p]) THEN "during" ELSE "after"]
  BY DEF ResetLock
<1>3. CASE target[r] = p
  BY <1>1, <1>2, <1>3 DEF LockInv, TypeOK
<1>4. CASE target[r] # p
  BY <1>1, <1>2, <1>4 DEF LockInv, TypeOK
<1> QED
  BY <1>3, <1>4

LEMMA LockInvariant == Spec => []LockInv
<1>1. Init => LockInv
  BY DEF Init, LockInv, Relies, Working
<1>2. TypeOK /\ AcquiredInv /\ LockInv /\ [Next]_vars => LockInv'
  <2> SUFFICES ASSUME TypeOK, AcquiredInv, LockInv, [Next]_vars PROVE LockInv'
    OBVIOUS
  <2>1. CASE StartDispatch \/ DispatchStep
    BY <2>1, RunnerRelies, RunnerFrame DEF LockInv
  <2>2. CASE UNCHANGED vars
    BY <2>2 DEF vars, procVars, lockVars, LockInv, Relies, Working
  <2> QED
    BY <2>1, <2>2, ProcessSteps, LockProcess, LockReset
<1> QED
  BY <1>1, <1>2, TypeCorrect, JobsInvariant, PTL DEF Spec

(* No two processes run the commands of one package, whatever the order in *)
(* which they test and create its lock, unless the lock was reset.         *)
THEOREM OneAtATime == Spec => []OneRunner
<1>1. LockInv => OneRunner
  BY DEF LockInv, OneRunner, Relies
<1> QED
  BY <1>1, LockInvariant, PTL

-----------------------------------------------------------------------------
(* Outputs are only appended, so what passes goes on passing.              *)
LEMMA OutputsGrow ==
  ASSUME TypeOK, NEW q \in Procs, ProcessStep(q), NEW p \in Packages
  PROVE  /\ Len(outputs[p]) \in Nat /\ Len(outputs'[p]) \in Nat
         /\ Len(outputs[p]) <= Len(outputs'[p])
         /\ \A i \in 1..Len(outputs[p]) : outputs'[p][i] = outputs[p][i]
<1>1. outputs \in [Packages -> Seq(Profiles \X Gates)]
  BY DEF TypeOK
<1>2. CASE outputs' = outputs
  BY <1>1, <1>2
<1>3. ASSUME NEW o \in Profiles \X Gates,
             outputs' = [outputs EXCEPT ![target[q]] = Append(@, o)]
      PROVE  /\ Len(outputs[p]) \in Nat /\ Len(outputs'[p]) \in Nat
             /\ Len(outputs[p]) <= Len(outputs'[p])
             /\ \A i \in 1..Len(outputs[p]) : outputs'[p][i] = outputs[p][i]
  <2>1. outputs'[p] = outputs[p] \/ outputs'[p] = Append(outputs[p], o)
    BY <1>1, <1>3 DEF TypeOK
  <2>2. outputs[p] \in Seq(Profiles \X Gates)
    BY <1>1
  <2>3. CASE outputs'[p] = Append(outputs[p], o)
    BY <2>2, <2>3
  <2> QED
    BY <2>1, <2>2, <2>3
<1> QED
  BY <1>2, <1>3, ProcessOutputs

LEMMA EvidenceGrows ==
  ASSUME TypeOK, NEW q \in Procs, ProcessStep(q), NEW d, EvidenceOf(d)
  PROVE  EvidenceOf(d)'
<1>1. ASSUME NEW p \in Selected(d), Green(p) PROVE Green(p)'
  <2>1. p \in Packages
    BY DEF Selected, Launchable, WavePackages
  <2>2. ASSUME NEW f \in Profiles PROVE Passes(p, f, Len(outputs[p]))'
    <3>1. PICK i \in 1..Len(outputs[p]) : outputs[p][i] = <<f, "pass">>
      BY <1>1 DEF Green, Passes
    <3>2. i \in 1..Len(outputs'[p]) /\ outputs'[p][i] = <<f, "pass">>
      BY <2>1, <3>1, OutputsGrow
    <3> QED
      BY <3>2 DEF Passes
  <2>3. Len(outputs'[p]) > 0
    BY <1>1, <2>1, OutputsGrow DEF Green
  <2> QED
    BY <2>2, <2>3 DEF Green
<1> QED
  BY <1>1 DEF EvidenceOf, Selected, Launchable, LaunchReady, WavePackages

LEMMA EvidenceStays ==
  ASSUME UNCHANGED outputs, NEW d
  PROVE  EvidenceOf(d)' <=> EvidenceOf(d)
<1>1. \A p : Green(p)' <=> Green(p)
  BY DEF Green, Passes
<1> QED
  BY <1>1 DEF EvidenceOf

DepsMet(d) == d \notin failed /\ EvidenceOf(d)

(* A wave was opened on the evidence of its dependencies, and a job keeps  *)
(* that until the next dispatch.                                           *)
EvidenceInv ==
  /\ phase = "batches" => \A d \in WaveDeps(wave) : DepsMet(d)
  /\ \A p \in Packages : pc[p] # "idle" =>
       /\ Wave[p] <= wave /\ (phase # "batches" => Wave[p] < wave)
       /\ \A d \in DependsOn[p] : DepsMet(d)

LEMMA WaveTyped ==
  /\ LastWave \in Nat
  /\ \A p \in Packages : /\ Wave[p] \in Nat
                         /\ \A d \in DependsOn[p] : d \in Nat /\ d < Wave[p]
  /\ \A w : \A d \in WaveDeps(w) : d \in Nat /\ d < w
  BY WavesAssumption DEF WaveDeps, WavePackages

LEMMA EvidenceProcess ==
  ASSUME TypeOK, AcquiredInv, EvidenceInv, NEW q \in Procs, ProcessStep(q)
  PROVE  EvidenceInv'
<1>1. UNCHANGED <<phase, wave, failed>>
  BY ProcessLock DEF runnerVars
<1>2. ASSUME NEW d, DepsMet(d) PROVE DepsMet(d)'
  BY <1>1, <1>2, EvidenceGrows DEF DepsMet
<1>3. ASSUME NEW p \in Packages, pc'[p] # "idle" PROVE pc[p] # "idle"
  BY <1>3, ProcessFrame, PackagesAreProcs
<1> QED
  BY <1>1, <1>2, <1>3 DEF EvidenceInv, WaveDeps, WavePackages

LEMMA EvidenceRunner ==
  ASSUME TypeOK, JobsInv, EvidenceInv, StartDispatch \/ DispatchStep
  PROVE  EvidenceInv'
<1> USE DEF WaveDeps, WavePackages
<1>0. /\ wave \in Nat
      /\ \A d : EvidenceOf(d)' <=> EvidenceOf(d)
  BY RunnerFrame, EvidenceStays DEF TypeOK
<1>1. CASE StartDispatch
  <2>1. \A p \in Packages : pc'[p] = "idle"
    BY <1>1, PackagesAreProcs DEF StartDispatch
  <2> QED
    BY <1>1, <2>1 DEF StartDispatch, EvidenceInv
<1>2. CASE StartBatch
  <2>1. PICK b \in NextBatches :
          pc' = [q \in Procs |-> IF q \in b THEN "helper" ELSE pc[q]]
    BY <1>2 DEF StartBatch
  <2>2. phase = "batches" /\ UNCHANGED <<phase, wave, failed>>
    BY <1>2 DEF StartBatch
  <2>3. b \subseteq todo
    BY <2>2, BatchApart
  <2>4. ASSUME NEW p \in b PROVE p \in Packages /\ Wave[p] = wave
    BY <2>2, <2>3 DEF JobsInv
  <2>5. ASSUME NEW p \in b, NEW d \in DependsOn[p] PROVE DepsMet(d)
    BY <2>2, <2>4 DEF EvidenceInv
  <2> QED
    BY <1>0, <2>1, <2>2, <2>4, <2>5, PackagesAreProcs DEF EvidenceInv, DepsMet
<1>3. CASE OpenWave
  <2>1. /\ phase' = "batches" /\ UNCHANGED <<pc, wave, failed>> /\ DependenciesHold(wave)
        /\ phase # "batches"
    BY <1>3 DEF OpenWave, procVars
  <2> QED
    BY <1>0, <2>1, WaveTyped DEF EvidenceInv, DepsMet, DependenciesHold
<1>4. CASE WaitBatch
  <2>1. /\ phase = "batches" /\ UNCHANGED <<pc, wave, phase>>
        /\ failed' \subseteq failed \cup {wave}
    BY <1>4 DEF WaitBatch, procVars
  <2>2. \A d \in WaveDeps(wave) : d # wave
    BY <1>0, WaveTyped
  <2>3. ASSUME NEW p \in Packages, NEW d \in DependsOn[p], pc[p] # "idle" PROVE d # wave
    BY <1>0, <2>3, WaveTyped DEF EvidenceInv
  <2> QED
    BY <1>0, <2>1, <2>2, <2>3 DEF EvidenceInv, DepsMet
<1>5. CASE SkipWave
  <2>1. /\ phase = "wave" /\ UNCHANGED <<pc, phase>> /\ wave' = wave + 1
        /\ failed' = failed \cup {wave}
    BY <1>5 DEF SkipWave, procVars
  <2>2. ASSUME NEW p \in Packages, pc[p] # "idle"
        PROVE  Wave[p] < wave' /\ \A d \in DependsOn[p] : d # wave
    BY <1>0, <2>1, <2>2, WaveTyped DEF EvidenceInv
  <2>3. ASSUME NEW p \in Packages, pc[p] # "idle" PROVE Wave[p] <= wave'
    BY <1>0, <2>1, <2>2, <2>3, WaveTyped
  <2> QED
    BY <1>0, <2>1, <2>2, <2>3 DEF EvidenceInv, DepsMet
<1>6. CASE CloseWave
  <2>1. phase' = "wave" /\ UNCHANGED <<pc, failed>> /\ wave' = wave + 1
    BY <1>6 DEF CloseWave, procVars
  <2>2. ASSUME NEW p \in Packages, pc[p] # "idle" PROVE Wave[p] < wave' /\ Wave[p] <= wave'
    BY <1>0, <2>1, <2>2, WaveTyped DEF EvidenceInv
  <2> QED
    BY <1>0, <2>1, <2>2 DEF EvidenceInv, DepsMet
<1>7. CASE StartPromotion \/ EndDispatch
  BY <1>0, <1>7 DEF StartPromotion, EndDispatch, procVars, EvidenceInv, DepsMet
<1>8. ASSUME NEW p \in Packages, ListArtifacts(p) \/ JudgePackage(p) PROVE EvidenceInv'
  BY <1>0, <1>8 DEF ListArtifacts, JudgePackage, procVars, runnerVars, EvidenceInv, DepsMet
<1> QED
  BY <1>1, <1>2, <1>3, <1>4, <1>5, <1>6, <1>7, <1>8 DEF DispatchStep

LEMMA EvidenceInvariant == Spec => []EvidenceInv
<1>1. Init => EvidenceInv
  BY PackagesAreProcs DEF Init, EvidenceInv
<1>2. TypeOK /\ AcquiredInv /\ JobsInv /\ EvidenceInv /\ [Next]_vars => EvidenceInv'
  <2> SUFFICES ASSUME TypeOK, AcquiredInv, JobsInv, EvidenceInv, [Next]_vars
               PROVE  EvidenceInv'
    OBVIOUS
  <2>1. ASSUME NEW p \in Packages, ResetLock(p) PROVE EvidenceInv'
    BY <2>1, EvidenceStays DEF ResetLock, procVars, runnerVars, EvidenceInv, DepsMet
  <2>2. CASE UNCHANGED vars
    BY <2>2, EvidenceStays DEF vars, procVars, runnerVars, EvidenceInv, DepsMet
  <2> QED
    BY <2>1, <2>2, ProcessSteps, EvidenceProcess, EvidenceRunner
<1> QED
  BY <1>1, <1>2, TypeCorrect, JobsInvariant, PTL DEF Spec

(* A job of a dependent wave runs on the evidence of finished waves.       *)
THEOREM DependentsHaveEvidence == Spec => []DependentsAfterEvidence
<1>1. TypeOK /\ JobsInv /\ EvidenceInv => DependentsAfterEvidence
  <2> SUFFICES ASSUME TypeOK, JobsInv, EvidenceInv,
                      NEW p \in Packages, pc[p] # "idle", NEW d \in DependsOn[p]
               PROVE  /\ d \notin failed /\ EvidenceOf(d)
                      /\ \A r \in WavePackages(d) : ~Active(r)
    BY DEF DependentsAfterEvidence
  <2>1. d \notin failed /\ EvidenceOf(d)
    BY DEF EvidenceInv, DepsMet
  <2>2. ASSUME NEW r \in WavePackages(d), Active(r) PROVE FALSE
    <3>1. r \in Packages /\ Wave[r] = d
      BY DEF WavePackages
    <3>2. Wave[r] = wave
      BY <2>2, <3>1 DEF JobsInv, WavePackages
    <3>3. d \in Nat /\ Wave[p] \in Nat /\ d < Wave[p] /\ Wave[p] <= wave /\ wave \in Nat
      BY WaveTyped DEF EvidenceInv, TypeOK
    <3> QED
      BY <3>1, <3>2, <3>3
  <2> QED
    BY <2>1, <2>2
<1> QED
  BY <1>1, TypeCorrect, JobsInvariant, EvidenceInvariant, PTL

-----------------------------------------------------------------------------
(* A package whose lock is taken for good: nobody is at work on it, and    *)
(* without a reset nobody will be.                                         *)
Settled(p) == /\ lock[p] # "free"
              /\ \A q \in Procs : target[q] = p => ~Relies(q)

StatusInv ==
  \A p \in Packages : reset[p] = "never" =>
    /\ status[p] = "pass" => Settled(p) /\ declared[p] = Len(outputs[p])
    /\ results[p] = "pass" =>
         Settled(p) /\ \A f \in Profiles : LatestPasses(p, f, Len(outputs[p]))

LEMMA SettledStays ==
  ASSUME TypeOK, AcquiredInv, NEW q \in Procs, ProcessStep(q),
         NEW p \in Packages, Settled(p)
  PROVE  Settled(p)' /\ outputs'[p] = outputs[p]
<1>0. /\ target[q] \in Packages /\ lock \in [Packages -> Procs \cup {"free"}]
      /\ outputs \in [Packages -> Seq(Profiles \X Gates)] /\ target' = target
  BY ProcessLock DEF TypeOK
<1>1. lock'[p] = lock[p]
  <2>1. CASE target[q] = p
    BY <2>1, ProcessLock DEF Settled
  <2>2. CASE target[q] # p
    BY <1>0, <2>2, ProcessLock
  <2> QED
    BY <2>1, <2>2
<1>2. ASSUME NEW r \in Procs, target[r] = p, Relies(r)' PROVE FALSE
  <2>1. CASE r = q
    BY <1>2, <2>1, ProcessFrame DEF Settled
  <2>2. CASE r # q
    BY <1>2, <2>2, ProcessFrame DEF Settled, Relies, Working
  <2> QED
    BY <2>1, <2>2
<1>3. outputs'[p] = outputs[p]
  <2>1. CASE target[q] = p
    <3>1. ~RunCommand(q)
      BY <2>1 DEF Settled, Relies, Working, RunCommand
    <3> QED
      BY <3>1, ProcessOutputs
  <2>2. CASE target[q] # p
    BY <1>0, <2>2, ProcessOutputs
  <2> QED
    BY <2>1, <2>2
<1> QED
  BY <1>0, <1>1, <1>2, <1>3 DEF Settled

LEMMA SettledSame ==
  ASSUME UNCHANGED <<pc, acquired, target>>, NEW p, lock'[p] = lock[p]
  PROVE  Settled(p) => Settled(p)'
  BY DEF Settled, Relies, Working

LEMMA LatestSame ==
  ASSUME UNCHANGED outputs, NEW p, NEW f
  PROVE  LatestPasses(p, f, Len(outputs[p])) => LatestPasses(p, f, Len(outputs[p]))'
  BY DEF LatestPasses

(* A process that reports held the lock, and leaves its package settled.   *)
LEMMA ReportSettles ==
  ASSUME TypeOK, AcquiredInv, LockInv, NEW q \in Procs, ReportStatus(q),
         NEW p, p = target[q], reset[p] = "never"
  PROVE  Settled(p)' /\ declared'[p] = Len(outputs'[p])
<1>0. /\ p \in Packages /\ q # "free"
      /\ pc \in [Procs -> Places] /\ declared \in [Packages -> Nat]
  BY ProcsDisjoint DEF TypeOK, Procs
<1>1. lock[p] = q
  BY <1>0 DEF ReportStatus, LockInv, Relies, Working
<1>2. ProcessStep(q)
  BY DEF ProcessStep, ScriptStep
<1>3. UNCHANGED <<lock, target, outputs>>
  BY DEF ReportStatus, lockVars
<1>4. ASSUME NEW r \in Procs, target[r] = p, Relies(r)' PROVE FALSE
  <2>1. CASE r = q
    <3>1. pc'[q] = "over"
      BY <1>0 DEF ReportStatus, Exit, Goto
    <3> QED
      BY <1>4, <2>1, <3>1 DEF Relies, Working
  <2>2. CASE r # q
    <3>1. Relies(r)
      BY <1>2, <1>4, <2>2, ProcessFrame DEF Relies, Working
    <3>2. lock[target[r]] = r
      BY <1>4, <3>1 DEF LockInv
    <3> QED
      BY <1>1, <1>4, <2>2, <3>2
  <2> QED
    BY <2>1, <2>2
<1>5. declared'[p] = Len(outputs[p])
  BY <1>0 DEF ReportStatus, WriteStatus
<1> QED
  BY <1>0, <1>1, <1>3, <1>4, <1>5 DEF Settled

LEMMA StatusProcess ==
  ASSUME TypeOK, AcquiredInv, LockInv, StatusInv, NEW q \in Procs, ProcessStep(q)
  PROVE  StatusInv'
<1> SUFFICES ASSUME NEW p \in Packages, reset[p] = "never"
             PROVE  /\ status'[p] = "pass" =>
                         Settled(p)' /\ declared'[p] = Len(outputs'[p])
                    /\ results[p] = "pass" =>
                         /\ Settled(p)'
                         /\ \A f \in Profiles : LatestPasses(p, f, Len(outputs[p]))'
  <2>1. UNCHANGED <<reset, results>>
    BY ProcessLock DEF resultVars
  <2> QED
    BY <2>1 DEF StatusInv
<1>0. /\ target[q] \in Packages
      /\ status \in [Packages -> {"none", "pass", "fail", "blocked"}]
      /\ declared \in [Packages -> Nat]
  BY DEF TypeOK
<1>1. ASSUME results[p] = "pass"
      PROVE  Settled(p)' /\ \A f \in Profiles : LatestPasses(p, f, Len(outputs[p]))'
  <2>1. Settled(p) /\ \A f \in Profiles : LatestPasses(p, f, Len(outputs[p]))
    BY <1>1 DEF StatusInv
  <2>2. Settled(p)' /\ outputs'[p] = outputs[p]
    BY <2>1, SettledStays
  <2> QED
    BY <2>1, <2>2 DEF LatestPasses
<1>2. ASSUME status'[p] = "pass"
      PROVE  Settled(p)' /\ declared'[p] = Len(outputs'[p])
  <2>1. CASE status'[p] = status[p] /\ declared'[p] = declared[p]
    BY <1>2, <2>1, SettledStays DEF StatusInv
  <2>2. CASE ReportStatus(q) /\ target[q] = p
    BY <2>2, ReportSettles
  <2>3. \/ status'[p] = status[p] /\ declared'[p] = declared[p]
        \/ ReportStatus(q) /\ target[q] = p
    <3>1. CASE UNCHANGED statusVars
      BY <3>1 DEF statusVars
    <3>2. ASSUME NEW v \in {"pass", "fail", "blocked"}, NEW c \in {"yes", "no"},
                 WriteStatus(target[q], v, Len(outputs[target[q]]), c),
                 ReportStatus(q) \/ v = "blocked"
          PROVE  \/ status'[p] = status[p] /\ declared'[p] = declared[p]
                 \/ ReportStatus(q) /\ target[q] = p
      BY <1>0, <1>2, <3>2 DEF WriteStatus
    <3> QED
      BY <3>1, <3>2, ProcessStatus
  <2> QED
    BY <2>1, <2>2, <2>3
<1> QED
  BY <1>1, <1>2

LEMMA StatusRunner ==
  ASSUME TypeOK, StatusInv, StartDispatch \/ DispatchStep
  PROVE  StatusInv'
<1>0. /\ UNCHANGED <<reset, lock, target, outputs>>
      /\ status \in [Packages -> {"none", "pass", "fail", "blocked"}]
      /\ declared \in [Packages -> Nat]
      /\ results \in [Packages -> {"none", "pass", "notpass"}]
  BY RunnerFrame DEF TypeOK
<1>1. \A p \in Packages : Settled(p) => Settled(p)'
  BY <1>0, RunnerRelies DEF Settled
<1>2. \A p \in Packages, f \in Profiles :
        LatestPasses(p, f, Len(outputs[p])) => LatestPasses(p, f, Len(outputs[p]))'
  BY <1>0 DEF LatestPasses
<1>3. ASSUME NEW p \in Packages, status'[p] = "pass"
      PROVE  status[p] = "pass" /\ declared'[p] = declared[p]
  <2>1. CASE SkipWave
    BY <1>0, <1>3, <2>1 DEF SkipWave
  <2> QED
    BY <1>3, <2>1, RunnerFrame DEF statusVars
<1>4. CASE UNCHANGED results
  BY <1>0, <1>1, <1>2, <1>3, <1>4 DEF StatusInv
<1>5. ASSUME NEW p \in Packages, JudgePackage(p) PROVE StatusInv'
  <2>1. ASSUME NEW r \in Packages, reset[r] = "never", results'[r] = "pass"
        PROVE  Settled(r) /\ \A f \in Profiles : LatestPasses(r, f, Len(outputs[r]))
    <3>1. CASE results[r] = "pass"
      BY <2>1, <3>1 DEF StatusInv
    <3>2. CASE results[r] # "pass"
      <4>1. r = p /\ PackagePassed(p)
        BY <1>0, <1>5, <2>1, <3>2 DEF JudgePackage
      <4>2. Settled(p) /\ listed[p] = Len(outputs[p])
        BY <2>1, <4>1 DEF PackagePassed, StatusInv
      <4> QED
        BY <4>1, <4>2 DEF PackagePassed
    <3> QED
      BY <3>1, <3>2
  <2> QED
    BY <1>0, <1>1, <1>2, <1>3, <2>1 DEF StatusInv
<1>6. UNCHANGED results \/ \E p \in Packages : JudgePackage(p)
  BY DEF DispatchStep, StartDispatch, OpenWave, SkipWave, StartBatch, WaitBatch, CloseWave,
         StartPromotion, EndDispatch, ListArtifacts, resultVars
<1> QED
  BY <1>4, <1>5, <1>6

LEMMA StatusInvariant == Spec => []StatusInv
<1>1. Init => StatusInv
  BY DEF Init, StatusInv
<1>2. TypeOK /\ AcquiredInv /\ LockInv /\ StatusInv /\ [Next]_vars => StatusInv'
  <2> SUFFICES ASSUME TypeOK, AcquiredInv, LockInv, StatusInv, [Next]_vars
               PROVE  StatusInv'
    OBVIOUS
  <2>1. ASSUME NEW p \in Packages, ResetLock(p) PROVE StatusInv'
    <3>1. ASSUME NEW r \in Packages, reset'[r] = "never"
          PROVE  reset[r] = "never" /\ lock'[r] = lock[r]
      BY <2>1, <3>1 DEF ResetLock, TypeOK
    <3> QED
      BY <2>1, <3>1, SettledSame, LatestSame
         DEF ResetLock, procVars, statusVars, resultVars, StatusInv
  <2>2. CASE UNCHANGED vars
    BY <2>2, SettledSame, LatestSame
       DEF vars, procVars, lockVars, statusVars, resultVars, StatusInv
  <2> QED
    BY <2>1, <2>2, ProcessSteps, StatusProcess, StatusRunner
<1> QED
  BY <1>1, <1>2, TypeCorrect, JobsInvariant, LockInvariant, PTL DEF Spec

(* A pass the promotion has given is still true of the outputs as they     *)
(* are, unless the package's lock was reset.                               *)
THEOREM PassIsCurrent == Spec => []ResultsPassIsCurrent
<1>1. StatusInv => ResultsPassIsCurrent
  BY DEF StatusInv, Settled, Relies, ResultsPassIsCurrent
<1> QED
  BY <1>1, StatusInvariant, PTL

-----------------------------------------------------------------------------
(* A lock was taken by a process that runs its package.                    *)
HolderInv == \A p \in Packages : lock[p] # "free" => target[lock[p]] = p

LEMMA HolderInvariant == Spec => []HolderInv
<1>1. Init => HolderInv
  BY DEF Init, HolderInv
<1>2. TypeOK /\ HolderInv /\ [Next]_vars => HolderInv'
  <2> SUFFICES ASSUME TypeOK, HolderInv, [Next]_vars PROVE HolderInv'
    OBVIOUS
  <2>0. lock \in [Packages -> Procs \cup {"free"}] /\ target \in [Procs -> Packages]
    BY DEF TypeOK
  <2>1. ASSUME NEW q \in Procs, ProcessStep(q) PROVE HolderInv'
    BY <2>0, <2>1, ProcessLock DEF HolderInv
  <2>2. ASSUME NEW p \in Packages, ResetLock(p) PROVE HolderInv'
    BY <2>0, <2>2 DEF ResetLock, procVars, HolderInv
  <2>3. CASE StartDispatch \/ DispatchStep
    BY <2>3, RunnerFrame DEF HolderInv
  <2>4. CASE UNCHANGED vars
    BY <2>4 DEF vars, procVars, lockVars, HolderInv
  <2> QED
    BY <2>1, <2>2, <2>3, <2>4, ProcessSteps
<1> QED
  BY <1>1, <1>2, TypeCorrect, PTL DEF Spec

LEMMA UnusedMeans ==
  ASSUME TypeOK, NEW p \in Packages
  PROVE  p \in Unused <=> lock[p] # "free" /\ AboutTo(lock[p])
<1>1. lock[p] \in Procs \cup {"free"} /\ "free" \notin Procs
  BY ProcsDisjoint DEF TypeOK, Procs
<1> QED
  BY <1>1 DEF Unused, AboutTo

(* What a process that leaves its lock alone does: it ends, or gives up,   *)
(* or begins its run, or changes nothing of its lease.                     *)
LEMMA LeaseMoves ==
  ASSUME TypeOK, AcquiredInv, NEW q \in Procs, ProcessStep(q), lock' = lock
  PROVE  \/ Working(q) /\ Working(q)'
         \/ Working(q) /\ ~ Working(q)' /\ ~ AboutTo(q)'
         \/ AboutTo(q) /\ Working(q)' /\ ~ Working(q)
         \/ ~ Working(q) /\ ~ Working(q)' /\ ~ AboutTo(q)'
<1>0. /\ pc \in [Procs -> Places] /\ target[q] \in Packages
      /\ lock \in [Packages -> Procs \cup {"free"}] /\ q # "free"
  BY ProcsDisjoint DEF TypeOK, Procs
<1>1. Relies(q)' => Relies(q)
  BY <1>0, ProcessFrame
<1>2. ~ AboutTo(q)'
  <2>1. CASE q \in Agents /\ StartAgent(q)
    BY <1>0, <2>1 DEF StartAgent, Goto, AcquiredInv, AboutTo
  <2>2. CASE TestLock(q)
    BY <1>0, <2>2 DEF TestLock, Goto, Exit, AboutTo
  <2>3. CASE LoseLock(q) \/ LackEnv(q) \/ Kill(q) \/ ReportStatus(q)
    BY <1>0, <2>3 DEF LoseLock, LackEnv, Kill, ReportStatus, Exit, Goto, AboutTo
  <2>4. CASE TakeLock(q)
    BY <1>0, <2>4 DEF TakeLock
  <2>5. CASE EnterScript(q)
    BY <1>0, <2>5 DEF EnterScript, Goto, AboutTo
  <2>6. CASE RunCommand(q)
    <3>1. pc' = [pc EXCEPT ![q] = "command"] \/ pc' = [pc EXCEPT ![q] = "report"]
      BY <2>6 DEF RunCommand, Goto
    <3> QED
      BY <1>0, <3>1 DEF AboutTo
  <2> QED
    BY <2>1, <2>2, <2>3, <2>4, <2>5, <2>6 DEF ProcessStep, ScriptStep
<1> QED
  BY <1>1, <1>2 DEF Relies, AboutTo

(* Only the lease of its own package is touched by a process.              *)
LEMMA LeaseFrame ==
  ASSUME TypeOK, AcquiredInv, HolderInv, NEW q \in Procs, ProcessStep(q)
  PROVE  /\ \A p \in Packages : p # target[q] => (p \in Unused' <=> p \in Unused)
         /\ Working(q)' => RunBy' = [RunBy EXCEPT ![target[q]] = @ \cup {q}]
         /\ ~ Working(q)' => RunBy' = [RunBy EXCEPT ![target[q]] = @ \ {q}]
         /\ (Working(q)' <=> Working(q)) => RunBy' = RunBy
         /\ Broken' = Broken
<1>0. /\ lock \in [Packages -> Procs \cup {"free"}] /\ target \in [Procs -> Packages]
      /\ "free" \notin Procs
  BY ProcsDisjoint DEF TypeOK, Procs
<1>1. target' = target /\ reset' = reset
  BY ProcessLock
<1>2. \A r \in Procs : r # q => (Working(r)' <=> Working(r))
  BY ProcessFrame DEF Working
<1>3. ASSUME NEW p \in Packages, p # target[q]
      PROVE  p \in Unused' <=> p \in Unused
  <2>1. lock'[p] = lock[p]
    BY <1>0, <1>3, ProcessLock
  <2>2. lock[p] # q
    BY <1>0, <1>3 DEF HolderInv
  <2>3. \A r \in Procs : r # q => pc'[r] = pc[r] /\ acquired'[r] = acquired[r]
    BY ProcessFrame
  <2> QED
    BY <2>1, <2>2, <2>3 DEF Unused, AboutTo
<1>4. Broken' = Broken
  BY <1>1 DEF Broken
<1>5. Working(q)' => RunBy' = [RunBy EXCEPT ![target[q]] = @ \cup {q}]
  BY <1>0, <1>1, <1>2 DEF RunBy
<1>6. ~ Working(q)' => RunBy' = [RunBy EXCEPT ![target[q]] = @ \ {q}]
  BY <1>0, <1>1, <1>2 DEF RunBy
<1>7. (Working(q)' <=> Working(q)) => RunBy' = RunBy
  BY <1>1, <1>2 DEF RunBy
<1> QED
  BY <1>3, <1>4, <1>5, <1>6, <1>7

LEMMA LeaseVars ==
  /\ Lease!vars = <<lock, Unused, RunBy, Broken>>
  /\ Lease!vars' = <<lock', Unused', RunBy', Broken'>>
  BY DEF Lease!vars

(* A step of a process is a step of the lease of its package.              *)
LEMMA LeaseProcess ==
  ASSUME TypeOK, AcquiredInv, LockInv, HolderInv, NEW q \in Procs, ProcessStep(q)
  PROVE  Lease!Next \/ UNCHANGED Lease!vars
<1> DEFINE p == target[q]
<1>0. /\ p \in Packages /\ q # "free" /\ lock \in [Packages -> Procs \cup {"free"}]
      /\ Unused \subseteq Packages /\ Unused' \subseteq Packages
      /\ Lease!Next <=> \E c \in Packages :
           \/ Lease!Forfeit(c) \/ Lease!Reset(c)
           \/ \E r \in Procs : Lease!Take(c, r) \/ Lease!Begin(c, r) \/ Lease!End(c, r)
  BY ProcsDisjoint DEF TypeOK, Procs, Unused, Lease!Next
<1>1. \A c \in Packages : c # p => (c \in Unused' <=> c \in Unused)
  BY LeaseFrame
<1>2. CASE TakeLock(q)
  <2>1. /\ lock[p] = "free" /\ lock' = [lock EXCEPT ![p] = q]
        /\ ~ Working(q) /\ p \notin Unused
    BY <1>0, <1>2, UnusedMeans DEF TakeLock, Working
  <2>2. Broken' = Broken
    BY LeaseFrame
  <2>3. CASE ~ Working(q)'
    <3>1. RunBy' = RunBy
      BY <2>1, <2>3, LeaseFrame
    <3>2. Unused' = Unused \ {p} \/ Unused' = Unused \cup {p}
      BY <1>0, <1>1, <2>1
    <3>3. Lease!Take(p, q)
      BY <2>1, <2>2, <3>1, <3>2 DEF Lease!Take
    <3> QED
      BY <1>0, <3>3
  <2>4. CASE Working(q)'
    <3>1. RunBy' = [RunBy EXCEPT ![p] = @ \cup {q}]
      BY <2>4, LeaseFrame
    <3>2. p \notin Unused'
      BY <1>0, <2>1, <2>4 DEF Unused, AboutTo, Working
    <3>3. Unused' = Unused \ {p}
      BY <1>0, <1>1, <3>2
    <3>4. Lease!Take(p, q)
      BY <2>1, <2>2, <3>1, <3>3 DEF Lease!Take
    <3> QED
      BY <1>0, <3>4
  <2> QED
    BY <2>3, <2>4
<1>3. CASE lock' = lock
  <2>0. Broken' = Broken /\ \A r \in Procs : r # q => (AboutTo(r)' <=> AboutTo(r))
    BY LeaseFrame, ProcessFrame DEF AboutTo
  <2>1. /\ lock[p] # q => (p \in Unused' <=> p \in Unused)
        /\ lock[p] = q => /\ p \in Unused <=> AboutTo(q)
                          /\ p \in Unused' <=> AboutTo(q)'
    BY <1>0, <1>3, <2>0, ProcsDisjoint DEF Unused, AboutTo, Procs
  <2>2. CASE Working(q) /\ Working(q)'
    <3>1. ~ AboutTo(q) /\ ~ AboutTo(q)'
      BY <2>2 DEF Working, AboutTo
    <3>2. Unused' = Unused
      BY <1>0, <1>1, <2>1, <3>1
    <3>3. RunBy' = RunBy
      BY <2>2, LeaseFrame
    <3> QED
      BY <1>3, <2>0, <3>2, <3>3, LeaseVars
  <2>3. CASE Working(q) /\ ~ Working(q)' /\ ~ AboutTo(q)'
    <3>1. ~ AboutTo(q)
      BY <2>3 DEF Working, AboutTo
    <3>2. Unused' = Unused
      BY <1>0, <1>1, <2>1, <2>3, <3>1
    <3>3. RunBy' = [RunBy EXCEPT ![p] = @ \ {q}]
      BY <2>3, LeaseFrame
    <3>4. q \in RunBy[p]
      BY <1>0, <2>3 DEF RunBy
    <3>5. Lease!End(p, q)
      BY <1>3, <2>0, <3>2, <3>3, <3>4 DEF Lease!End
    <3> QED
      BY <1>0, <3>5
  <2>4. CASE AboutTo(q) /\ Working(q)' /\ ~ Working(q)
    <3>1. lock[p] = q \/ p \in Broken
      BY <1>0, <2>4 DEF LockInv, Relies, AboutTo, Broken
    <3>2. ~ AboutTo(q)'
      BY <2>4 DEF Working, AboutTo
    <3>3. Unused' = IF lock[p] = q THEN Unused \ {p} ELSE Unused
      BY <1>0, <1>1, <2>1, <3>2
    <3>4. RunBy' = [RunBy EXCEPT ![p] = @ \cup {q}]
      BY <2>4, LeaseFrame
    <3>5. Lease!Begin(p, q)
      BY <1>3, <2>0, <2>1, <2>4, <3>1, <3>3, <3>4
      DEF Lease!Begin
    <3> QED
      BY <1>0, <3>5
  <2>5. CASE ~ Working(q) /\ ~ Working(q)' /\ ~ AboutTo(q)'
    <3>1. RunBy' = RunBy
      BY <2>5, LeaseFrame
    <3>2. Unused' = Unused \/ (Unused' = Unused \ {p} /\ p \in Unused)
      BY <1>0, <1>1, <2>1, <2>5
    <3>3. CASE Unused' = Unused
      BY <1>3, <2>0, <3>1, <3>3, LeaseVars
    <3>4. CASE Unused' = Unused \ {p} /\ p \in Unused
      <4>1. Lease!Forfeit(p)
        BY <1>3, <2>0, <3>1, <3>4 DEF Lease!Forfeit
      <4> QED
        BY <1>0, <4>1
    <3> QED
      BY <3>2, <3>3, <3>4
  <2> QED
    BY <1>3, <2>2, <2>3, <2>4, <2>5, LeaseMoves
<1> QED
  BY <1>2, <1>3, ProcessLock

LEMMA LeaseReset ==
  ASSUME TypeOK, LockInv, HolderInv, NEW p \in Packages, ResetLock(p)
  PROVE  Lease!Next
<1>0. lock \in [Packages -> Procs \cup {"free"}] /\ "free" \notin Procs
  BY ProcsDisjoint DEF TypeOK, Procs
<1>1. /\ lock[p] # "free" /\ lock' = [lock EXCEPT ![p] = "free"]
      /\ reset' = [reset EXCEPT ![p] =
                     IF reset[p] = "during" \/ Active(lock[p]) THEN "during" ELSE "after"]
      /\ UNCHANGED <<pc, target, acquired>>
  BY DEF ResetLock, procVars
<1>2. Unused' = Unused \ {p}
  BY <1>0, <1>1 DEF Unused, AboutTo
<1>3. RunBy' = RunBy
  BY <1>1 DEF RunBy, Working
<1>4. reset \in [Packages -> {"never", "after", "during"}]
  BY DEF TypeOK
<1>5. Broken' = Broken \/ Broken' = Broken \cup {p}
  BY <1>1, <1>4 DEF Broken
<1>6. p \in Broken' <=> reset[p] = "during" \/ Active(lock[p])
  BY <1>1, <1>4 DEF Broken
<1>7. RunBy[p] # {} => p \in Broken'
  <2>1. SUFFICES ASSUME NEW r \in Procs, target[r] = p, Working(r)
                 PROVE  reset[p] = "during" \/ Active(lock[p])
    BY <1>6 DEF RunBy
  <2> QED
    BY <2>1 DEF LockInv, Relies, Working, Active
<1>8. p \in Unused => p \in Broken'
  BY <1>6 DEF Unused, AboutTo, Active
<1>9. Lease!Reset(p)
  BY <1>1, <1>2, <1>3, <1>5, <1>7, <1>8 DEF Lease!Reset
<1> QED
  BY <1>9 DEF Lease!Next

(* Starting jobs is no matter of the leases: nobody who runs or is about   *)
(* to is started again.                                                    *)
LEMMA LeaseRunner ==
  ASSUME TypeOK, JobsInv, StartDispatch \/ DispatchStep
  PROVE  UNCHANGED Lease!vars
<1>1. ASSUME NEW q \in Procs
      PROVE  (Working(q)' <=> Working(q)) /\ (AboutTo(q)' <=> AboutTo(q))
  <2>0. acquired' = acquired
    BY RunnerFrame
  <2>1. CASE StartDispatch
    <3>1. q \in Packages => ~ Active(q)
      BY <2>1 DEF StartDispatch, JobsInv
    <3>2. pc'[q] = IF q \in Packages THEN "idle" ELSE pc[q]
      BY <2>1 DEF StartDispatch
    <3> QED
      BY <2>0, <3>1, <3>2 DEF Working, AboutTo, Active
  <2>2. CASE StartBatch
    <3>1. PICK b \in NextBatches :
            pc' = [r \in Procs |-> IF r \in b THEN "helper" ELSE pc[r]]
      BY <2>2 DEF StartBatch
    <3>2. q \in b => q \in Packages /\ ~ Active(q)
      BY <2>2 DEF StartBatch, JobsInv, NextBatches, FirstOf, TypeOK
    <3> QED
      BY <2>0, <3>1, <3>2 DEF Working, AboutTo, Active
  <2>3. CASE UNCHANGED pc
    BY <2>0, <2>3 DEF Working, AboutTo
  <2> QED
    BY <2>1, <2>2, <2>3, RunnerFrame
<1>2. UNCHANGED <<lock, target, reset>>
  BY RunnerFrame
<1>3. Unused' = Unused /\ RunBy' = RunBy /\ Broken' = Broken
  BY <1>1, <1>2 DEF Unused, RunBy, Broken, AboutTo
<1> QED
  BY <1>2, <1>3, LeaseVars

(* The claim locks implement ClaimLease: whatever processes meet, a lock   *)
(* is good for one run by the process that took it, and only a reset under *)
(* a process that relies on it breaks this.                                *)
THEOREM LocksAreLeases == Spec => IsLease
<1>1. Init => Lease!Init
  <2> SUFFICES ASSUME Init PROVE Lease!Init
    OBVIOUS
  <2>1. \A q \in Procs : ~ Working(q) /\ ~ AboutTo(q)
    BY DEF Init, Working, AboutTo
  <2>2. Unused = {} /\ RunBy = [p \in Packages |-> {}]
    BY <2>1 DEF Unused, RunBy
  <2>3. Broken = {}
    BY DEF Init, Broken
  <2>4. lock = [p \in Packages |-> "free"]
    BY DEF Init
  <2> QED
    BY <2>2, <2>3, <2>4 DEF Lease!Init
<1>2. TypeOK /\ AcquiredInv /\ JobsInv /\ LockInv /\ HolderInv /\ [Next]_vars
        => [Lease!Next]_(Lease!vars)
  <2> SUFFICES ASSUME TypeOK, AcquiredInv, JobsInv, LockInv, HolderInv, [Next]_vars
               PROVE  Lease!Next \/ UNCHANGED Lease!vars
    OBVIOUS
  <2>1. CASE UNCHANGED vars
    BY <2>1, LeaseVars DEF vars, procVars, lockVars, Unused, RunBy, Broken, Working, AboutTo
  <2> QED
    BY <2>1, ProcessSteps, LeaseProcess, LeaseReset, LeaseRunner
<1> QED
  BY <1>1, <1>2, TypeCorrect, JobsInvariant, LockInvariant, HolderInvariant, PTL
  DEF Spec, IsLease, Lease!Spec

-----------------------------------------------------------------------------
(* An agent that has followed its prompt and taken the lock is stopped by  *)
(* it, unless the lock was reset.                                          *)
PromptInv ==
  \A q \in Procs : way[q] = "prompted" =>
    /\ pc[q] = "script" => acquired[q] = "no"
    /\ pc[q] \in {"script", "innerHelper"} =>
         lock[target[q]] = q \/ reset[target[q]] # "never"
    /\ pc[q] \in {"innerCreate", "command", "report"} => reset[target[q]] # "never"

(* An agent that takes the lock first, as its prompt says, runs no command *)
(* of the package, unless an operator resets the lock.                     *)
PromptedNeverWorks ==
  \A q \in Procs : way[q] = "prompted" /\ Working(q) => reset[target[q]] # "never"

LEMMA PromptProcess ==
  ASSUME TypeOK, AcquiredInv, PromptInv, NEW q \in Procs, ProcessStep(q)
  PROVE  PromptInv'
<1>0. /\ pc \in [Procs -> Places] /\ acquired \in [Procs -> {"yes", "no"}]
      /\ target \in [Procs -> Packages] /\ lock \in [Packages -> Procs \cup {"free"}]
      /\ "free" \notin Procs
  BY ProcsDisjoint DEF TypeOK, Procs
<1>1. UNCHANGED <<target, way, reset>>
  BY ProcessLock
<1>2. ASSUME NEW r \in Procs, r # q, way[r] = "prompted"
      PROVE  /\ pc'[r] = "script" => acquired'[r] = "no"
             /\ pc'[r] \in {"script", "innerHelper"} =>
                  lock'[target[r]] = r \/ reset[target[r]] # "never"
             /\ pc'[r] \in {"innerCreate", "command", "report"} =>
                  reset[target[r]] # "never"
  <2>1. pc'[r] = pc[r] /\ acquired'[r] = acquired[r]
    BY <1>2, ProcessFrame
  <2>2. lock[target[r]] = r => lock'[target[r]] = r
    BY <1>0, ProcessLock
  <2> QED
    BY <1>2, <2>1, <2>2 DEF PromptInv
<1>3. ASSUME way[q] = "prompted"
      PROVE  /\ pc'[q] = "script" => acquired'[q] = "no"
             /\ pc'[q] \in {"script", "innerHelper"} =>
                  lock'[target[q]] = q \/ reset[target[q]] # "never"
             /\ pc'[q] \in {"innerCreate", "command", "report"} =>
                  reset[target[q]] # "never"
  <2> USE DEF Goto, Exit
  <2>1. CASE q \in Agents /\ StartAgent(q)
    BY <1>0, <1>3, <2>1 DEF StartAgent
  <2>2. CASE TestLock(q)
    <3>1. CASE lock[target[q]] # "free"
      BY <1>0, <2>2, <3>1 DEF TestLock
    <3>2. CASE lock[target[q]] = "free"
      BY <1>0, <1>3, <2>2, <3>2 DEF TestLock, PromptInv
    <3> QED
      BY <3>1, <3>2
  <2>3. CASE LoseLock(q) \/ LackEnv(q) \/ Kill(q) \/ ReportStatus(q)
    BY <1>0, <2>3 DEF LoseLock, LackEnv, Kill, ReportStatus
  <2>4. CASE TakeLock(q)
    <3>1. CASE pc[q] = "create"
      BY <1>0, <1>3, <2>4, <3>1 DEF TakeLock
    <3>2. CASE pc[q] = "innerCreate"
      <4>1. reset[target[q]] # "never" /\ pc'[q] = "command"
        BY <1>0, <1>3, <2>4, <3>2 DEF TakeLock, PromptInv
      <4> QED
        BY <4>1
    <3> QED
      BY <2>4, <3>1, <3>2 DEF TakeLock
  <2>5. CASE EnterScript(q)
    <3>1. /\ acquired[q] = "no"
          /\ lock[target[q]] = q \/ reset[target[q]] # "never"
      BY <1>3, <2>5 DEF EnterScript, PromptInv
    <3>2. pc'[q] = "innerHelper" /\ lock' = lock
      BY <1>0, <2>5, <3>1 DEF EnterScript, lockVars
    <3> QED
      BY <3>1, <3>2
  <2>6. CASE RunCommand(q)
    <3>1. /\ pc[q] = "command"
          /\ pc' = [pc EXCEPT ![q] = "command"] \/ pc' = [pc EXCEPT ![q] = "report"]
      BY <2>6 DEF RunCommand
    <3> QED
      BY <1>0, <1>3, <3>1 DEF PromptInv
  <2> QED
    BY <2>1, <2>2, <2>3, <2>4, <2>5, <2>6 DEF ProcessStep, ScriptStep
<1> QED
  BY <1>1, <1>2, <1>3 DEF PromptInv

LEMMA PromptReset ==
  ASSUME TypeOK, PromptInv, NEW p \in Packages, ResetLock(p)
  PROVE  PromptInv'
<1>1. /\ lock' = [lock EXCEPT ![p] = "free"]
      /\ reset' = [reset EXCEPT ![p] =
                     IF reset[p] = "during" \/ Active(lock[p]) THEN "during" ELSE "after"]
      /\ UNCHANGED <<pc, acquired, target, way>>
  BY DEF ResetLock, procVars
<1>2. /\ target \in [Procs -> Packages] /\ lock \in [Packages -> Procs \cup {"free"}]
      /\ reset \in [Packages -> {"never", "after", "during"}]
  BY DEF TypeOK
<1>3. /\ reset'[p] # "never"
      /\ \A c \in Packages : c # p => lock'[c] = lock[c] /\ reset'[c] = reset[c]
  BY <1>1, <1>2
<1> QED
  BY <1>1, <1>2, <1>3 DEF PromptInv

LEMMA PromptRunner ==
  ASSUME TypeOK, PromptInv, StartDispatch \/ DispatchStep
  PROVE  PromptInv'
<1>1. \A q \in Procs : pc'[q] = pc[q] \/ pc'[q] \in {"idle", "helper"}
  <2>1. CASE StartDispatch
    BY <2>1 DEF StartDispatch
  <2>2. CASE StartBatch
    BY <2>2 DEF StartBatch
  <2> QED
    BY <2>1, <2>2, RunnerFrame
<1> QED
  BY <1>1, RunnerFrame DEF PromptInv

(* The prompt of an agent and the script it is told to run are at odds for *)
(* every package and whatever else happens: the agent works only after a   *)
(* reset.                                                                  *)
THEOREM PromptedAreRefused == Spec => []PromptedNeverWorks
<1>1. Init => PromptInv
  BY DEF Init, PromptInv
<1>2. TypeOK /\ AcquiredInv /\ PromptInv /\ [Next]_vars => PromptInv'
  <2> SUFFICES ASSUME TypeOK, AcquiredInv, PromptInv, [Next]_vars PROVE PromptInv'
    OBVIOUS
  <2>1. CASE UNCHANGED vars
    BY <2>1 DEF vars, procVars, lockVars, PromptInv
  <2> QED
    BY <2>1, ProcessSteps, PromptProcess, PromptReset, PromptRunner
<1>3. PromptInv => PromptedNeverWorks
  BY DEF PromptInv, PromptedNeverWorks, Working
<1> QED
  BY <1>1, <1>2, <1>3, TypeCorrect, JobsInvariant, PTL DEF Spec

-----------------------------------------------------------------------------
(* A wave that depends on a wave with no package of the launchers: it was  *)
(* never opened, and passed over when its turn came.                       *)
ChainInv ==
  /\ phase = "batches" => \A d \in WaveDeps(wave) : Selected(d) # {}
  /\ phase # "idle" => wave \in Nat \ {0}
  /\ \A w \in 1 .. LastWave :
       w < wave /\ (\E d \in WaveDeps(w) : Selected(d) = {}) => w \in skipped

(* A wave that depends on a wave of dependent packages is always skipped,  *)
(* however green their evidence is.                                        *)
ChainsAreSkipped ==
  \A w \in 1 .. LastWave :
    /\ w < wave
    /\ \E d \in WaveDeps(w) : \A p \in WavePackages(d) : DependsOn[p] # {}
    => w \in skipped

LEMMA ChainStep ==
  ASSUME TypeOK, ChainInv, StartDispatch \/ DispatchStep
  PROVE  ChainInv'
<1>0. wave \in Nat /\ LastWave \in Nat
  BY WavesAssumption DEF TypeOK
<1>1. CASE StartDispatch
  BY <1>0, <1>1 DEF StartDispatch, ChainInv
<1>2. CASE OpenWave
  BY <1>2 DEF OpenWave, DependenciesHold, EvidenceOf, ChainInv
<1>3. CASE SkipWave
  <2>1. /\ phase' = "wave" /\ wave' = wave + 1 /\ skipped' = skipped \cup {wave}
        /\ phase = "wave"
    BY <1>3 DEF SkipWave
  <2>2. \A w \in 1 .. LastWave : w < wave' => w < wave \/ w = wave
    BY <1>0, <2>1
  <2> QED
    BY <1>0, <2>1, <2>2 DEF ChainInv
<1>4. CASE StartBatch \/ WaitBatch
  BY <1>4 DEF StartBatch, WaitBatch, ChainInv
<1>5. CASE CloseWave
  <2>1. phase' = "wave" /\ wave' = wave + 1 /\ skipped' = skipped /\ phase = "batches"
    BY <1>5 DEF CloseWave
  <2>2. \A w \in 1 .. LastWave : w < wave' => w < wave \/ w = wave
    BY <1>0, <2>1
  <2> QED
    BY <1>0, <2>1, <2>2 DEF ChainInv
<1>6. CASE StartPromotion \/ EndDispatch
  BY <1>6 DEF StartPromotion, EndDispatch, ChainInv
<1>7. ASSUME NEW p \in Packages, ListArtifacts(p) \/ JudgePackage(p) PROVE ChainInv'
  BY <1>7 DEF ListArtifacts, JudgePackage, runnerVars, ChainInv
<1> QED
  BY <1>1, <1>2, <1>3, <1>4, <1>5, <1>6, <1>7 DEF DispatchStep

(* For every manifest: no dispatch ever launches the third wave of a chain *)
(* of dependent waves.                                                     *)
THEOREM ChainsSkipped == Spec => []ChainsAreSkipped
<1>1. Init => ChainInv
  BY WavesAssumption DEF Init, ChainInv
<1>2. TypeOK /\ ChainInv /\ [Next]_vars => ChainInv'
  <2> SUFFICES ASSUME TypeOK, ChainInv, [Next]_vars PROVE ChainInv'
    OBVIOUS
  <2>1. ASSUME UNCHANGED runnerVars PROVE ChainInv'
    BY <2>1 DEF runnerVars, ChainInv
  <2>2. ASSUME NEW q \in Procs, ProcessStep(q) PROVE UNCHANGED runnerVars
    BY <2>2, ProcessLock
  <2>3. ASSUME NEW p \in Packages, ResetLock(p) PROVE UNCHANGED runnerVars
    BY <2>3 DEF ResetLock
  <2>4. CASE UNCHANGED vars
    BY <2>1, <2>4 DEF vars
  <2> QED
    BY <2>1, <2>2, <2>3, <2>4, ProcessSteps, ChainStep
<1>3. ChainInv => ChainsAreSkipped
  <2>1. \A d : (\A p \in WavePackages(d) : DependsOn[p] # {}) => Selected(d) = {}
    BY DEF Selected, Launchable, LaunchReady
  <2> QED
    BY <2>1 DEF ChainInv, ChainsAreSkipped
<1> QED
  BY <1>1, <1>2, <1>3, TypeCorrect, PTL DEF Spec

-----------------------------------------------------------------------------
(* How far a dispatch has come.  Every wave is opened or skipped once, its *)
(* packages leave todo for a batch, a batch is waited for, and the results *)
(* are read one by one.                                                    *)
PhasesLeft ==
  CASE phase = "wave" -> 3 [] phase = "batches" -> 2 [] phase = "promote" -> 1
    [] OTHER -> 0

Nearer ==
  \/ wave < wave' /\ wave' <= LastWave + 1
  \/ wave' = wave /\ PhasesLeft' < PhasesLeft
  \/ /\ UNCHANGED <<wave, phase>>
     /\ \/ todo' \subseteq todo /\ todo' # todo
        \/ UNCHANGED todo /\ batch # {} /\ batch' = {}
        \/ /\ UNCHANGED <<todo, batch>> /\ unread' \subseteq unread
           /\ unread' # unread \/ (reading = {} /\ reading' # {})

(* The steps a process may still take: at most seven beside its commands.  *)
StepsLeft(q) ==
  LET n == Commands[target[q]] IN
  CASE pc[q] = "idle" -> n + 7
    [] pc[q] = "helper" -> n + 6
    [] pc[q] = "create" -> n + 5
    [] pc[q] = "script" -> n + 4
    [] pc[q] = "innerHelper" -> n + 3
    [] pc[q] = "innerCreate" -> n + 2
    [] pc[q] = "command" -> left[q] + 1
    [] pc[q] = "report" -> 1
    [] OTHER -> 0

(* A job is started once in a dispatch, the promotion reads what it has    *)
(* listed, and a script has its commands before it.                        *)
OnceInv ==
  /\ wave <= LastWave + 1 /\ (phase = "batches" => wave <= LastWave)
  /\ phase = "wave" => \A p \in Packages : Wave[p] >= wave => pc[p] = "idle"
  /\ phase = "batches" =>
       \A p \in Packages : p \in todo \/ Wave[p] > wave => pc[p] = "idle"
  /\ \A p \in batch : pc[p] # "idle"
  /\ reading \subseteq unread

LeftInv ==
  \A q \in Procs :
    /\ pc[q] \in {"innerHelper", "innerCreate"} => left[q] = Commands[target[q]]
    /\ pc[q] = "command" => left[q] \in 1 .. Commands[target[q]]

LEMMA CommandsTyped ==
  ASSUME TypeOK, NEW q \in Procs
  PROVE  Commands[target[q]] \in Nat /\ Commands[target[q]] > 0
<1>1. target[q] \in Packages
  BY DEF TypeOK
<1> QED
  BY <1>1, BoundsAssumption

LEMMA StepsLeftTyped ==
  ASSUME TypeOK, LeftInv, NEW q \in Procs
  PROVE  StepsLeft(q) \in 0 .. Commands[target[q]] + 7
<1>1. Commands[target[q]] \in Nat /\ pc[q] \in Places
  BY CommandsTyped DEF TypeOK
<1>2. pc[q] = "command" => left[q] \in 1 .. Commands[target[q]]
  BY DEF LeftInv
<1> QED
  BY <1>1, <1>2 DEF StepsLeft, Places

LEMMA StepsLeftInt ==
  ASSUME TypeOK', LeftInv', NEW q \in Procs
  PROVE  StepsLeft(q)' \in Int
<1>1. Commands[target'[q]] \in Nat
  <2>1. target'[q] \in Packages
    BY DEF TypeOK
  <2> QED
    BY <2>1, BoundsAssumption
<1>2. pc'[q] = "command" => left'[q] \in Int
  BY <1>1 DEF LeftInv
<1> QED
  BY <1>1, <1>2 DEF StepsLeft

(* Every step of a process brings it nearer to its end, and no other.      *)
LEMMA ProcessNearer ==
  ASSUME TypeOK, LeftInv, NEW q \in Procs, ProcessStep(q)
  PROVE  /\ LeftInv' /\ StepsLeft(q)' < StepsLeft(q)
         /\ \A r \in Procs : r # q => StepsLeft(r)' = StepsLeft(r)
<1> DEFINE n == Commands[target[q]]
<1>0. /\ pc \in [Procs -> Places] /\ left \in [Procs -> Int] /\ target' = target
      /\ n \in Nat /\ n > 0 /\ pc[q] \in Places
  BY CommandsTyped, ProcessLock DEF TypeOK
<1>1. /\ pc[q] \in {"innerHelper", "innerCreate"} => left[q] = n
      /\ pc[q] = "command" => left[q] \in 1 .. n
  BY DEF LeftInv
<1> HIDE DEF n
<1> DEFINE Moved ==
      /\ \A r \in Procs : r # q => pc'[r] = pc[r] /\ left'[r] = left[r]
      /\ pc'[q] \in {"innerHelper", "innerCreate"} => left'[q] = n
      /\ pc'[q] = "command" => left'[q] \in 1 .. n
      /\ \/ pc'[q] = "over" /\ pc[q] # "over"
         \/ pc[q] = "idle" /\ pc'[q] \in {"script", "helper"}
         \/ pc[q] = "helper" /\ pc'[q] = "create"
         \/ pc[q] = "create" /\ pc'[q] = "script"
         \/ pc[q] = "script" /\ pc'[q] \in {"innerHelper", "command"}
         \/ pc[q] = "innerHelper" /\ pc'[q] = "innerCreate"
         \/ pc[q] = "innerCreate" /\ pc'[q] = "command"
         \/ pc[q] = "command" /\ pc'[q] = "command" /\ left'[q] = left[q] - 1
         \/ pc[q] = "command" /\ pc'[q] = "report"
<1>2. Moved
  <2> USE DEF Goto, Exit, Active
  <2>1. CASE q \in Agents /\ StartAgent(q)
    BY <1>0, <1>1, <2>1 DEF StartAgent
  <2>2. CASE TestLock(q)
    BY <1>0, <1>1, <2>2 DEF TestLock
  <2>3. CASE LoseLock(q)
    BY <1>0, <1>1, <2>3 DEF LoseLock
  <2>4. CASE LackEnv(q)
    BY <1>0, <1>1, <2>4 DEF LackEnv
  <2>5. CASE TakeLock(q)
    BY <1>0, <1>1, <2>5 DEF TakeLock
  <2>6. CASE EnterScript(q)
    BY <1>0, <1>1, <2>6 DEF EnterScript, n
  <2>7. CASE RunCommand(q)
    <3>1. /\ pc[q] = "command" /\ left' = [left EXCEPT ![q] = left[q] - 1]
          /\ \/ pc' = [pc EXCEPT ![q] = "command"] /\ left[q] > 1
             \/ pc' = [pc EXCEPT ![q] = "report"]
      BY <2>7 DEF RunCommand
    <3> QED
      BY <1>0, <1>1, <3>1
  <2>8. CASE ReportStatus(q)
    BY <1>0, <1>1, <2>8 DEF ReportStatus
  <2>9. CASE Kill(q)
    BY <1>0, <1>1, <2>9 DEF Kill
  <2> QED
    BY <2>1, <2>2, <2>3, <2>4, <2>5, <2>6, <2>7, <2>8, <2>9 DEF ProcessStep, ScriptStep
<1>3. LeftInv'
  <2> SUFFICES ASSUME NEW r \in Procs
               PROVE  /\ pc'[r] \in {"innerHelper", "innerCreate"} =>
                           left'[r] = Commands[target'[r]]
                      /\ pc'[r] = "command" => left'[r] \in 1 .. Commands[target'[r]]
    BY DEF LeftInv
  <2>1. CASE r = q
    BY <1>0, <1>2, <2>1 DEF n
  <2>2. CASE r # q
    BY <1>0, <1>2, <2>2 DEF LeftInv
  <2> QED
    BY <2>1, <2>2
<1>4. StepsLeft(q)' < StepsLeft(q)
  BY <1>0, <1>1, <1>2 DEF StepsLeft, n, Places
<1>5. \A r \in Procs : r # q => StepsLeft(r)' = StepsLeft(r)
  BY <1>0, <1>2 DEF StepsLeft
<1> QED
  BY <1>3, <1>4, <1>5

(* A set of packages that is not empty has one of the least stage, and one *)
(* that comes first in the manifest.                                       *)
LEMMA LeastOf ==
  ASSUME NEW S, NEW f, S # {}, \A x \in S : f[x] \in Nat
  PROVE  \E x \in S : \A y \in S : f[x] <= f[y]
<1> DEFINE R == OpToRel(<, Nat)
           T == {f[x] : x \in S}
<1>1. T \subseteq Nat /\ T # {}
  OBVIOUS
<1>2. IsWellFoundedOn(R, Nat)
  BY NatLessThanWellFounded
<1>3. PICK m \in T : \A n \in T : ~ (<<n, m>> \in R)
  <2> HIDE DEF R, T
  <2> QED
    BY <1>1, <1>2, WFMin
<1>4. \A n \in Nat, k \in Nat : <<n, k>> \in R <=> n < k
  BY DEF OpToRel
<1>5. \A n \in T : m <= n
  <2> HIDE DEF R, T
  <2> TAKE n \in T
  <2>1. n \in Nat /\ m \in Nat /\ ~ (n < m)
    BY <1>1, <1>3, <1>4
  <2> QED
    BY <2>1
<1> QED
  BY <1>5

LEMMA FirstIsThere ==
  ASSUME NEW S \in SUBSET Packages, S # {}
  PROVE  FirstOf(S) # {}
<1>1. \A x \in S : Order[x] \in Nat
  BY WavesAssumption
<1> QED
  BY <1>1, LeastOf DEF FirstOf

LEMMA BatchIsThere ==
  ASSUME TypeOK, todo # {}
  PROVE  NextBatches # {} /\ \A b \in NextBatches : b # {} /\ b \subseteq todo
<1>1. CASE Selected(wave) # {}
  <2>1. \A x \in todo : Stage[x] \in Nat
    BY PlanAssumption DEF TypeOK
  <2>2. {p \in todo : \A r \in todo : Stage[p] <= Stage[r]} # {}
    BY <2>1, LeastOf
  <2> QED
    BY <1>1, <2>2 DEF NextBatches
<1>2. CASE Selected(wave) = {}
  <2>1. FirstOf(todo) # {} /\ FirstOf(todo) \subseteq todo
    BY FirstIsThere DEF TypeOK, FirstOf
  <2> QED
    BY <1>2, <2>1 DEF NextBatches
<1> QED
  BY <1>1, <1>2

LEMMA OnceProcess ==
  ASSUME TypeOK, AcquiredInv, JobsInv, OnceInv, NEW q \in Procs, ProcessStep(q)
  PROVE  OnceInv'
<1>1. UNCHANGED <<phase, wave, todo, batch, unread, reading>>
  BY ProcessLock DEF runnerVars, resultVars
<1>2. \A p \in Packages : (pc[p] = "idle") => pc'[p] = "idle"
  BY ProcessFrame, PackagesAreProcs
<1>3. \A p \in batch : pc'[p] # "idle"
  <2> TAKE p \in batch
  <2>1. p \in Procs
    BY PackagesAreProcs DEF TypeOK
  <2> QED
    BY <2>1, ProcessFrame DEF OnceInv
<1> QED
  BY <1>1, <1>2, <1>3 DEF OnceInv

(* Every step of the runner brings the dispatch nearer to its end, and the *)
(* jobs it starts as well.                                                 *)
LEMMA RunnerNearer ==
  ASSUME TypeOK, JobsInv, OnceInv, LeftInv, DispatchStep
  PROVE  /\ OnceInv' /\ LeftInv' /\ Nearer
         /\ \A q \in Procs : StepsLeft(q)' <= StepsLeft(q)
<1>0. /\ UNCHANGED <<target, left>>
      /\ wave \in Nat /\ LastWave \in Nat /\ Wave \in [Packages -> 1 .. LastWave]
      /\ pc \in [Procs -> Places] /\ todo \subseteq Packages /\ Packages \subseteq Procs
      /\ wave <= LastWave + 1
  BY RunnerFrame, WavesAssumption, PackagesAreProcs DEF TypeOK, OnceInv
<1>1. ASSUME UNCHANGED pc
      PROVE  LeftInv' /\ \A q \in Procs : StepsLeft(q)' <= StepsLeft(q)
  <2>1. LeftInv'
    BY <1>0, <1>1 DEF LeftInv
  <2>2. ASSUME NEW q \in Procs PROVE StepsLeft(q)' <= StepsLeft(q)
    <3>1. StepsLeft(q)' = StepsLeft(q)
      BY <1>0, <1>1 DEF StepsLeft
    <3>2. StepsLeft(q) \in Int
      BY StepsLeftTyped, CommandsTyped
    <3> QED
      BY <3>1, <3>2
  <2> QED
    BY <2>1, <2>2
<1>2. CASE OpenWave
  <2>1. /\ phase = "wave" /\ phase' = "batches" /\ wave <= LastWave
        /\ UNCHANGED <<pc, wave, batch, unread, reading>>
        /\ todo' = IF Selected(wave) # {} THEN Selected(wave) ELSE WavePackages(wave)
    BY <1>2 DEF OpenWave, procVars, resultVars
  <2>2. \A p \in todo' : Wave[p] = wave
    BY <2>1 DEF Selected, Launchable, WavePackages
  <2>3. \A p \in Packages : Wave[p] \in Nat
    BY <1>0
  <2>4. OnceInv'
    BY <1>0, <2>1, <2>2, <2>3 DEF OnceInv
  <2>5. Nearer
    BY <2>1 DEF Nearer, PhasesLeft
  <2> QED
    BY <1>1, <2>1, <2>4, <2>5
<1>3. CASE SkipWave
  <2>1. /\ phase = "wave" /\ wave <= LastWave /\ wave' = wave + 1
        /\ UNCHANGED <<pc, phase, todo, batch, unread, reading>>
    BY <1>3 DEF SkipWave, procVars, resultVars
  <2>2. \A p \in Packages : Wave[p] \in Nat /\ (Wave[p] >= wave + 1 => Wave[p] >= wave)
    BY <1>0
  <2>3. OnceInv'
    BY <1>0, <2>1, <2>2 DEF OnceInv
  <2>4. Nearer
    BY <1>0, <2>1 DEF Nearer
  <2> QED
    BY <1>1, <2>1, <2>3, <2>4
<1>4. CASE StartBatch
  <2>1. PICK b \in NextBatches :
          /\ batch' = b /\ todo' = todo \ b
          /\ pc' = [q \in Procs |-> IF q \in b THEN "helper" ELSE pc[q]]
    BY <1>4 DEF StartBatch
  <2>2. /\ phase = "batches" /\ todo # {} /\ UNCHANGED <<phase, wave, unread, reading>>
    BY <1>4 DEF StartBatch, resultVars
  <2>3. b # {} /\ b \subseteq todo
    BY <2>2, BatchIsThere
  <2>4. \A p \in b : pc[p] = "idle" /\ p \in Procs
    BY <1>0, <2>2, <2>3 DEF OnceInv
  <2>5. Nearer
    BY <2>1, <2>2, <2>3 DEF Nearer
  <2>6. OnceInv'
    <3>1. \A p \in b : Wave[p] = wave
      BY <2>2, <2>3 DEF JobsInv, WavePackages
    <3>2. \A p \in Packages : p \in todo' \/ Wave[p] > wave => p \notin b
      BY <1>0, <2>1, <3>1
    <3>3. \A p \in Packages : p \in todo' \/ Wave[p] > wave => pc'[p] = "idle"
      BY <1>0, <2>1, <2>2, <3>2 DEF OnceInv
    <3>4. \A p \in batch' : pc'[p] # "idle"
      BY <2>1, <2>4
    <3> QED
      BY <2>2, <3>3, <3>4 DEF OnceInv
  <2>7. LeftInv'
    BY <1>0, <2>1 DEF LeftInv
  <2>8. ASSUME NEW q \in Procs PROVE StepsLeft(q)' <= StepsLeft(q)
    <3>1. Commands[target[q]] \in Nat /\ StepsLeft(q) \in Int
      BY CommandsTyped, StepsLeftTyped
    <3>2. CASE q \in b
      BY <1>0, <2>1, <2>4, <3>1, <3>2 DEF StepsLeft
    <3>3. CASE q \notin b
      <4>1. StepsLeft(q)' = StepsLeft(q)
        BY <1>0, <2>1, <3>3 DEF StepsLeft
      <4> QED
        BY <3>1, <4>1
    <3> QED
      BY <3>2, <3>3
  <2> QED
    BY <2>5, <2>6, <2>7, <2>8
<1>5. CASE WaitBatch
  <2>1. /\ phase = "batches" /\ batch # {} /\ batch' = {}
        /\ UNCHANGED <<pc, phase, wave, todo, unread, reading>>
    BY <1>5 DEF WaitBatch, procVars, resultVars
  <2> QED
    BY <1>1, <2>1 DEF OnceInv, Nearer
<1>6. CASE CloseWave
  <2>1. /\ phase = "batches" /\ phase' = "wave" /\ wave' = wave + 1
        /\ UNCHANGED <<pc, todo, batch, unread, reading>>
    BY <1>6 DEF CloseWave, procVars, resultVars
  <2>2. \A p \in Packages : Wave[p] \in Nat /\ (Wave[p] >= wave + 1 => Wave[p] > wave)
    BY <1>0
  <2>3. wave <= LastWave
    BY <2>1 DEF OnceInv
  <2>4. OnceInv'
    BY <1>0, <2>1, <2>2, <2>3 DEF OnceInv
  <2>5. Nearer
    BY <1>0, <2>1, <2>3 DEF Nearer
  <2> QED
    BY <1>1, <2>1, <2>4, <2>5
<1>7. CASE StartPromotion
  <2>1. /\ phase = "wave" /\ phase' = "promote" /\ unread' = Packages
        /\ UNCHANGED <<pc, wave, todo, batch, reading>>
    BY <1>7 DEF StartPromotion, procVars
  <2>2. reading \subseteq Packages
    BY DEF TypeOK
  <2>3. OnceInv' /\ Nearer
    BY <2>1, <2>2 DEF OnceInv, Nearer, PhasesLeft
  <2> QED
    BY <1>1, <2>1, <2>3
<1>8. CASE EndDispatch
  <2>1. /\ phase = "promote" /\ phase' = "ended"
        /\ UNCHANGED <<pc, wave, todo, batch, unread, reading>>
    BY <1>8 DEF EndDispatch, procVars, resultVars
  <2>2. OnceInv' /\ Nearer
    BY <2>1 DEF OnceInv, Nearer, PhasesLeft
  <2> QED
    BY <1>1, <2>1, <2>2
<1>9. ASSUME NEW p \in Packages, ListArtifacts(p)
      PROVE  OnceInv' /\ Nearer /\ UNCHANGED pc
  <2>1. /\ reading = {} /\ reading' = {p} /\ p \in unread
        /\ UNCHANGED <<pc, phase, wave, todo, batch, unread>>
    BY <1>9 DEF ListArtifacts, procVars, runnerVars, FirstOf
  <2> QED
    BY <2>1 DEF OnceInv, Nearer
<1>10. ASSUME NEW p \in Packages, JudgePackage(p)
       PROVE  OnceInv' /\ Nearer /\ UNCHANGED pc
  <2>1. /\ p \in reading /\ reading' = {} /\ unread' = unread \ {p}
        /\ UNCHANGED <<pc, phase, wave, todo, batch>>
    BY <1>10 DEF JudgePackage, procVars, runnerVars
  <2>2. p \in unread
    BY <2>1 DEF OnceInv
  <2> QED
    BY <2>1, <2>2 DEF OnceInv, Nearer
<1> QED
  BY <1>1, <1>2, <1>3, <1>4, <1>5, <1>6, <1>7, <1>8, <1>9, <1>10 DEF DispatchStep

LEMMA DispatchStarts ==
  ASSUME TypeOK, JobsInv, OnceInv, LeftInv, StartDispatch
  PROVE  OnceInv' /\ LeftInv'
<1>0. /\ UNCHANGED <<target, left, unread, reading>>
      /\ phase' = "wave" /\ wave' = 1 /\ todo' = {} /\ batch' = {}
      /\ pc' = [q \in Procs |-> IF q \in Packages THEN "idle" ELSE pc[q]]
  BY RunnerFrame DEF StartDispatch, resultVars
<1>1. LastWave \in Nat /\ Packages \subseteq Procs
  BY WavesAssumption, PackagesAreProcs
<1>2. LeftInv'
  BY <1>0 DEF LeftInv
<1>3. OnceInv'
  BY <1>0, <1>1 DEF OnceInv
<1> QED
  BY <1>2, <1>3

LEMMA OnceInvariant == Spec => [](OnceInv /\ LeftInv)
<1>1. Init => OnceInv /\ LeftInv
  <2> SUFFICES ASSUME Init PROVE OnceInv /\ LeftInv
    OBVIOUS
  <2>1. \A q \in Procs : pc[q] = "idle"
    BY DEF Init
  <2>2. 0 <= LastWave + 1
    BY WavesAssumption
  <2> QED
    BY <2>1, <2>2 DEF Init, OnceInv, LeftInv
<1>2. TypeOK /\ AcquiredInv /\ JobsInv /\ OnceInv /\ LeftInv /\ [Next]_vars
        => OnceInv' /\ LeftInv'
  <2> SUFFICES ASSUME TypeOK, AcquiredInv, JobsInv, OnceInv, LeftInv, [Next]_vars
               PROVE  OnceInv' /\ LeftInv'
    OBVIOUS
  <2>1. ASSUME NEW p \in Packages, ResetLock(p) PROVE OnceInv' /\ LeftInv'
    BY <2>1 DEF ResetLock, procVars, runnerVars, resultVars, OnceInv, LeftInv
  <2>2. CASE UNCHANGED vars
    BY <2>2 DEF vars, procVars, runnerVars, resultVars, OnceInv, LeftInv
  <2> QED
    BY <2>1, <2>2, ProcessSteps, ProcessNearer, OnceProcess, RunnerNearer, DispatchStarts
<1> QED
  BY <1>1, <1>2, TypeCorrect, JobsInvariant, PTL DEF Spec

(* While a dispatch is on, no step adds to what a process or the runner    *)
(* has left, and a step of one of them takes something away: at most       *)
(* Commands + 7 steps of a process, and of the runner one step for each    *)
(* wave, batch and result and a few between them (Packages being finite).  *)
(* Kills, resets and agents do not set the runner back.                    *)
THEOREM NearsItsEnd ==
  Spec => [][/\ \A q \in Procs : StepsLeft(q) \in 0 .. Commands[target[q]] + 7
             /\ \/ StartDispatch
                \/ /\ \A q \in Procs : StepsLeft(q)' <= StepsLeft(q)
                   /\ \A q \in Procs : ScriptStep(q) => StepsLeft(q)' < StepsLeft(q)
                   /\ \/ DispatchStep /\ Nearer
                      \/ UNCHANGED <<phase, wave, todo, batch, unread, reading>>]_vars
<1> DEFINE Nears ==
      /\ \A q \in Procs : StepsLeft(q) \in 0 .. Commands[target[q]] + 7
      /\ \/ StartDispatch
         \/ /\ \A q \in Procs : StepsLeft(q)' <= StepsLeft(q)
            /\ \A q \in Procs : ScriptStep(q) => StepsLeft(q)' < StepsLeft(q)
            /\ \/ DispatchStep /\ Nearer
               \/ UNCHANGED <<phase, wave, todo, batch, unread, reading>>
<1>1. TypeOK /\ JobsInv /\ OnceInv /\ LeftInv /\ [Next]_vars => [Nears]_vars
  <2> SUFFICES ASSUME TypeOK, JobsInv, OnceInv, LeftInv, Next
               PROVE  Nears
    OBVIOUS
  <2>1. \A q \in Procs : StepsLeft(q) \in 0 .. Commands[target[q]] + 7
    BY StepsLeftTyped
  <2>2. \A q \in Procs : ScriptStep(q) => StepsLeft(q)' < StepsLeft(q)
    BY ProcessNearer DEF ProcessStep
  <2>3. \A q \in Procs : StepsLeft(q) <= StepsLeft(q)
    BY <2>1, CommandsTyped
  <2>4. ASSUME NEW r \in Procs, ProcessStep(r)
        PROVE  /\ \A q \in Procs : StepsLeft(q)' <= StepsLeft(q)
               /\ UNCHANGED <<phase, wave, todo, batch, unread, reading>>
    <3>1. StepsLeft(r)' <= StepsLeft(r)
      <4>1. StepsLeft(r)' < StepsLeft(r) /\ StepsLeft(r) \in Int /\ LeftInv' /\ TypeOK'
        BY <2>1, <2>4, CommandsTyped, ProcessNearer, ProcessTyped
      <4>2. StepsLeft(r)' \in Int
        BY <4>1, StepsLeftInt
      <4> QED
        BY <4>1, <4>2
    <3>2. \A q \in Procs : q # r => StepsLeft(q)' <= StepsLeft(q)
      BY <2>3, <2>4, ProcessNearer
    <3> QED
      BY <2>4, <3>1, <3>2, ProcessLock DEF runnerVars, resultVars
  <2>5. ASSUME NEW p \in Packages, ResetLock(p)
        PROVE  /\ \A q \in Procs : StepsLeft(q)' <= StepsLeft(q)
               /\ UNCHANGED <<phase, wave, todo, batch, unread, reading>>
    <3>1. UNCHANGED <<pc, target, left, runnerVars, resultVars>>
      BY <2>5 DEF ResetLock, procVars
    <3>2. \A q \in Procs : StepsLeft(q)' = StepsLeft(q)
      BY <3>1 DEF StepsLeft
    <3> QED
      BY <2>3, <3>1, <3>2 DEF runnerVars, resultVars
  <2>6. ASSUME DispatchStep
        PROVE  Nearer /\ \A q \in Procs : StepsLeft(q)' <= StepsLeft(q)
    BY <2>6, RunnerNearer
  <2>7. CASE \E r \in Procs : ProcessStep(r)
    BY <2>1, <2>2, <2>4, <2>7
  <2>8. CASE \E p \in Packages : ResetLock(p)
    BY <2>1, <2>2, <2>5, <2>8
  <2>9. CASE DispatchStep
    BY <2>1, <2>2, <2>6, <2>9
  <2>10. CASE StartDispatch
    BY <2>1, <2>10
  <2> QED
    BY <2>7, <2>8, <2>9, <2>10, ProcessSteps
<1> QED
  BY <1>1, TypeCorrect, JobsInvariant, OnceInvariant, PTL DEF Spec

(* While a dispatch is on, the runner has a step to take or waits for a    *)
(* job of its batch that is in its script: it never waits for a package    *)
(* that was not started, for a stage with nobody in it, or for a result    *)
(* nobody has listed.                                                      *)
RunnerWaits ==
  phase \notin {"idle", "ended"} =>
    \/ phase = "wave"
    \/ phase = "batches" /\ batch = {} /\ (todo = {} \/ \E b \in NextBatches : b # {})
    \/ phase = "batches" /\ batch # {} /\ (BatchOver \/ \E p \in batch : Active(p))
    \/ phase = "promote" /\ (unread = {} \/ (reading = {} /\ FirstOf(unread) # {})
                                         \/ (reading # {} /\ reading \subseteq unread))

(* With NearsItsEnd this is what Ends rests on besides fairness.           *)
THEOREM WaitsForJobsOnly == Spec => []RunnerWaits
<1>1. TypeOK /\ OnceInv => RunnerWaits
  <2> SUFFICES ASSUME TypeOK, OnceInv, phase \in {"batches", "promote"}
               PROVE  RunnerWaits
    BY DEF TypeOK, RunnerWaits
  <2>1. CASE phase = "batches" /\ batch = {}
    BY <2>1, BatchIsThere DEF RunnerWaits
  <2>2. CASE phase = "batches" /\ batch # {}
    BY <2>2 DEF RunnerWaits, OnceInv, BatchOver, Active
  <2>3. CASE phase = "promote"
    BY <2>3, FirstIsThere DEF RunnerWaits, OnceInv, TypeOK
  <2> QED
    BY <2>1, <2>2, <2>3
<1> QED
  BY <1>1, TypeCorrect, OnceInvariant, PTL

=============================================================================
