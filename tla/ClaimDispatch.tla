---- MODULE ClaimDispatch ----
(* One dispatch of preflight work packages (run_preflight_work_package.py):
   the one-shot runner walks the waves and starts a job for every package it
   launches, while agents run packages on their own.  They meet in three
   places on disk: the claim lock of a package, its output directory and its
   agent_status.json.  A job is named by its package.                        *)
EXTENDS Integers, Sequences

CONSTANTS
  Packages,        \* the work packages of the manifest
  Agents,          \* processes that run a package outside the dispatcher
  AgentWork,       \* pairs <<way, package>>: what agents may be told to run
  Profiles,        \* the profiles whose evidence a package has to produce
  LastWave,        \* waves are numbered from 1
  Order,           \* the place of a package in the manifest
  Wave,            \* the wave of a package
  DependsOn,       \* the waves a package depends on
  Parallelizable,  \* packages with parallelizable_in_wave
  NeedsEnv,        \* packages with an effective environment to check
  EnvReady,        \* packages that lacked no variable when the scripts were written
  Stage,           \* the stage of a package in the staged launcher of its wave
  Conflict,        \* pairs of packages with a resource tag in common
  Commands,        \* the number of safe_commands of a package
  ContinueOnFailure,
  MaxOutputs,      \* bound: outputs of each package
  MaxResets,       \* bound: forced lock resets
  MaxDispatches    \* bound: runs of the one-shot runner

ASSUME ProcsDisjoint == Packages \cap Agents = {}
                        /\ "free" \notin Packages \cup Agents
ASSUME WavesAssumption ==
  /\ LastWave \in Nat
  /\ Order \in [Packages -> Nat]
  /\ \A p, q \in Packages : Order[p] = Order[q] => p = q
  /\ Wave \in [Packages -> 1..LastWave]
  /\ DependsOn \in [Packages -> SUBSET Nat]
  /\ \A p \in Packages : \A d \in DependsOn[p] : 1 <= d /\ d < Wave[p]
ASSUME PlanAssumption ==
  /\ Parallelizable \subseteq Packages /\ ContinueOnFailure \subseteq Packages
  /\ NeedsEnv \subseteq Packages
  /\ Packages \ NeedsEnv \subseteq EnvReady /\ EnvReady \subseteq Packages
  /\ Stage \in [Packages -> Nat]
  /\ Conflict \subseteq Packages \X Packages
  /\ \A p, q \in {r \in Parallelizable \cap EnvReady : DependsOn[r] = {}} :
       p # q /\ Wave[p] = Wave[q] /\ Stage[p] = Stage[q] => <<p, q>> \notin Conflict
ASSUME WorkAssumption ==
  /\ AgentWork \subseteq {"direct", "prompted", "claimed"} \X Packages
  /\ \A u \in AgentWork : u[1] = "claimed" =>
       u[2] \in EnvReady /\ DependsOn[u[2]] = {}
ASSUME BoundsAssumption ==
  /\ Commands \in [Packages -> Nat \ {0}]
  /\ MaxOutputs \in [Packages -> Nat] /\ MaxResets \in Nat /\ MaxDispatches \in Nat

Procs == Packages \cup Agents
Gates == {"pass", "fail"}

VARIABLES
  pc,        \* where a process is in the lock helper or the package script
  target,    \* the package it runs
  way,       \* how it came to run it
  acquired,  \* its TAMANDUA_CLAIM_LOCK_ACQUIRED
  code,      \* its exit code
  left,      \* commands it still has to run
  lock,      \* the creator of a package's claim lock, or "free"
  reset,     \* whether a lock was reset, and whether its creator was still at work
  resets,
  outputs,   \* the JSON outputs of a package, oldest first
  status, declared, cleared,   \* agent_status.json of a package
  phase, wave, todo, batch, failed, skipped, dispatches,   \* the one-shot runner
  unread, reading, listed, results       \* the promotion of the results

procVars == <<pc, target, way, acquired, code, left>>
lockVars == <<lock, reset, resets>>
statusVars == <<status, declared, cleared>>
runnerVars == <<phase, wave, todo, batch, failed, skipped, dispatches>>
resultVars == <<unread, reading, listed, results>>
vars == <<procVars, lockVars, outputs, statusVars, runnerVars, resultVars>>

Places == {"idle", "helper", "create", "script", "innerHelper", "innerCreate",
           "command", "report", "over"}
Active(q) == pc[q] \notin {"idle", "over"}
Working(q) == pc[q] \in {"command", "report"}

----------------------------------------------------------------------------
(* What the launchers were generated from.                                   *)

WavePackages(w) == {p \in Packages : Wave[p] = w}
WaveDeps(w) == UNION {DependsOn[p] : p \in WavePackages(w)}

LaunchReady == {p \in EnvReady : DependsOn[p] = {}}

Launchable(w) == WavePackages(w) \cap Parallelizable \cap LaunchReady

\* A launcher is written for two packages at least.
Selected(w) == {p \in Launchable(w) : \E q \in Launchable(w) : q # p}

Passes(p, f, n) == \E i \in 1..n : outputs[p][i] = <<f, "pass">>

\* The newest of the first n outputs of a profile passes.
LatestPasses(p, f, n) ==
  \E i \in 1..n : /\ outputs[p][i] = <<f, "pass">>
                  /\ \A j \in (i + 1)..n : outputs[p][j][1] # f

Green(p) == /\ Len(outputs[p]) > 0
            /\ \A f \in Profiles : Passes(p, f, Len(outputs[p]))

EvidenceOf(d) == Selected(d) # {} /\ \A p \in Selected(d) : Green(p)

----------------------------------------------------------------------------
Init ==
  /\ pc = [q \in Procs |-> "idle"]
  /\ \E work \in [Agents -> AgentWork] :
       /\ target = [q \in Procs |-> IF q \in Packages THEN q ELSE work[q][2]]
       /\ way = [q \in Procs |-> IF q \in Packages THEN "job" ELSE work[q][1]]
  /\ acquired = [q \in Procs |-> "no"]
  /\ code = [q \in Procs |-> "zero"]
  /\ left = [q \in Procs |-> 0]
  /\ lock = [p \in Packages |-> "free"]
  /\ reset = [p \in Packages |-> "never"]
  /\ resets = 0
  /\ outputs = [p \in Packages |-> <<>>]
  /\ status = [p \in Packages |-> "none"]
  /\ declared = [p \in Packages |-> 0]
  /\ cleared = [p \in Packages |-> "no"]
  /\ phase = "idle" /\ wave = 0 /\ todo = {} /\ batch = {}
  /\ failed = {} /\ skipped = {} /\ dispatches = 0
  /\ unread = {} /\ reading = {}
  /\ listed = [p \in Packages |-> 0]
  /\ results = [p \in Packages |-> "none"]

----------------------------------------------------------------------------
(* A process: the lock helper, then the package script.                      *)

Goto(q, place) == pc' = [pc EXCEPT ![q] = place]

\* What a process had in its environment and was about to do ends with it.
Exit(q, c) == /\ Goto(q, "over")
              /\ code' = [code EXCEPT ![q] = c]
              /\ acquired' = [acquired EXCEPT ![q] = "no"]
              /\ left' = [left EXCEPT ![q] = 0]

WriteStatus(p, value, n, clear) ==
  /\ status' = [status EXCEPT ![p] = value]
  /\ declared' = [declared EXCEPT ![p] = n]
  /\ cleared' = [cleared EXCEPT ![p] = clear]

StartAgent(a) ==
  /\ pc[a] = "idle"
  /\ Goto(a, IF way[a] = "direct" THEN "script" ELSE "helper")
  /\ UNCHANGED <<target, way, acquired, code, left, lockVars, outputs,
                 statusVars, runnerVars, resultVars>>

\* Test-Path: a lock that is there is refused with exit 3, and a script that
\* is refused exits with the helper's code, without a status.
TestLock(q) ==
  /\ pc[q] \in {"helper", "innerHelper"}
  /\ \/ /\ lock[target[q]] # "free"
        /\ Exit(q, "nonzero")
     \/ /\ lock[target[q]] = "free"
        /\ Goto(q, IF pc[q] = "helper" THEN "create" ELSE "innerCreate")
        /\ UNCHANGED <<code, acquired, left>>
  /\ UNCHANGED <<target, way, lockVars, outputs, statusVars,
                 runnerVars, resultVars>>

\* A lock that appeared since Test-Path makes FileMode.CreateNew fail.
LoseLock(q) ==
  /\ pc[q] \in {"create", "innerCreate"}
  /\ lock[target[q]] # "free"
  /\ Exit(q, "nonzero")
  /\ UNCHANGED <<target, way, lockVars, outputs, statusVars,
                 runnerVars, resultVars>>

\* Mutant of TakeLock: FileMode.Create, which replaces a lock that is there.
TakeLockReplaces(q) ==
  /\ pc[q] \in {"create", "innerCreate"}
  /\ lock' = [lock EXCEPT ![target[q]] = q]
  /\ acquired' = [acquired EXCEPT ![q] =
                    IF pc[q] = "create" /\ way[q] = "prompted" THEN "no" ELSE "yes"]
  /\ Goto(q, IF pc[q] = "create" THEN "script" ELSE "command")
  /\ UNCHANGED <<target, way, code, left, reset, resets, outputs, statusVars,
                 runnerVars, resultVars>>

TakeLock(q) ==
  /\ pc[q] \in {"create", "innerCreate"}
  /\ lock[target[q]] = "free"
  /\ lock' = [lock EXCEPT ![target[q]] = q]
  /\ acquired' = [acquired EXCEPT ![q] =
                    IF pc[q] = "create" /\ way[q] = "prompted" THEN "no" ELSE "yes"]
  /\ Goto(q, IF pc[q] = "create" THEN "script" ELSE "command")
  /\ UNCHANGED <<target, way, code, left, reset, resets, outputs, statusVars,
                 runnerVars, resultVars>>

\* The check of the effective environment comes before the lock, and a script
\* that lacks a variable writes its status whoever holds the lock.
LackEnv(q) ==
  /\ pc[q] = "script" /\ target[q] \in NeedsEnv
  /\ WriteStatus(target[q], "blocked", Len(outputs[target[q]]), "no")
  /\ Exit(q, "nonzero")
  /\ UNCHANGED <<target, way, lockVars, outputs, runnerVars,
                 resultVars>>

\* Mutant of EnterScript: the script leaves the lock to its callers.
EnterScriptUnlocked(q) ==
  /\ pc[q] = "script"
  /\ Goto(q, "command")
  /\ left' = [left EXCEPT ![q] = Commands[target[q]]]
  /\ UNCHANGED <<target, way, acquired, code, lockVars, outputs, statusVars,
                 runnerVars, resultVars>>

EnterScript(q) ==
  /\ pc[q] = "script"
  /\ Goto(q, IF acquired[q] = "yes" THEN "command" ELSE "innerHelper")
  /\ left' = [left EXCEPT ![q] = Commands[target[q]]]
  /\ UNCHANGED <<target, way, acquired, code, lockVars, outputs, statusVars,
                 runnerVars, resultVars>>

\* One safe command: it may write one output, and its exit code decides
\* whether the script goes on.
RunCommand(q) ==
  LET p == target[q] IN
  /\ pc[q] = "command"
  /\ \/ UNCHANGED outputs
     \/ /\ Len(outputs[p]) < MaxOutputs[p]
        /\ \E f \in Profiles, g \in Gates :
             outputs' = [outputs EXCEPT ![p] = Append(@, <<f, g>>)]
  /\ left' = [left EXCEPT ![q] = @ - 1]
  /\ \/ /\ Goto(q, IF left[q] > 1 THEN "command" ELSE "report")
        /\ UNCHANGED code
     \/ /\ code' = [code EXCEPT ![q] = "nonzero"]
        /\ Goto(q, IF p \in ContinueOnFailure /\ left[q] > 1
                   THEN "command" ELSE "report")
  /\ UNCHANGED <<target, way, acquired, lockVars, statusVars,
                 runnerVars, resultVars>>

\* Write-AgentStatus at the end of the script, in the branch of a failed
\* command or in the trap: it declares every output there is, old ones too.
ReportStatus(q) ==
  LET p == target[q]
      ok == code[q] = "zero"
      clear == ok /\ \A f \in Profiles : Passes(p, f, Len(outputs[p]))
  IN
  /\ pc[q] = "report"
  /\ WriteStatus(p, IF ok THEN "pass" ELSE "fail", Len(outputs[p]),
                 IF clear THEN "yes" ELSE "no")
  /\ Exit(q, code[q])
  /\ UNCHANGED <<target, way, lockVars, outputs, runnerVars, resultVars>>

\* A process can be killed anywhere: nothing releases its lock.
Kill(q) ==
  /\ Active(q)
  /\ Exit(q, "nonzero")
  /\ UNCHANGED <<target, way, lockVars, outputs, statusVars,
                 runnerVars, resultVars>>

\* claim_lock_helper.ps1 -ResetClaimId <id> -Force.
ResetLock(p) ==
  /\ resets < MaxResets
  /\ lock[p] # "free"
  /\ lock' = [lock EXCEPT ![p] = "free"]
  /\ resets' = resets + 1
  /\ reset' = [reset EXCEPT ![p] =
                 IF reset[p] = "during" \/ Active(lock[p]) THEN "during" ELSE "after"]
  /\ UNCHANGED <<procVars, outputs, statusVars, runnerVars, resultVars>>

----------------------------------------------------------------------------
(* The one-shot runner.                                                      *)

StartDispatch ==
  /\ phase \in {"idle", "ended"}
  /\ dispatches < MaxDispatches
  /\ dispatches' = dispatches + 1
  /\ phase' = "wave" /\ wave' = 1
  /\ todo' = {} /\ batch' = {} /\ failed' = {} /\ skipped' = {}
  /\ pc' = [q \in Procs |-> IF q \in Packages THEN "idle" ELSE pc[q]]
  /\ code' = [q \in Procs |-> IF q \in Packages THEN "zero" ELSE code[q]]
  /\ UNCHANGED <<target, way, acquired, left, lockVars, outputs, statusVars,
                 resultVars>>

\* Test-DispatchWaveDependencies: no dependency failed in this dispatch, and
\* the packages of each that a launcher selected have evidence.
\* Mutant of DependenciesHold: that no dependency failed is enough.
DependenciesDidNotFail(w) == WaveDeps(w) \cap failed = {}

DependenciesHold(w) ==
  \A d \in WaveDeps(w) : d \notin failed /\ EvidenceOf(d)

OpenWave ==
  /\ phase = "wave" /\ wave <= LastWave
  /\ DependenciesHold(wave)
  /\ phase' = "batches"
  /\ todo' = IF Selected(wave) # {} THEN Selected(wave) ELSE WavePackages(wave)
  /\ UNCHANGED <<procVars, lockVars, outputs, statusVars, wave, batch, failed,
                 skipped, dispatches, resultVars>>

\* Write-DispatchBlockedWaveStatuses overwrites whatever status is there.
SkipWave ==
  /\ phase = "wave" /\ wave <= LastWave
  /\ ~DependenciesHold(wave)
  /\ LET blocked == WavePackages(wave)
         Fill(f, v) == [p \in Packages |-> IF p \in blocked THEN v ELSE f[p]]
     IN /\ status' = Fill(status, "blocked")
        /\ declared' = Fill(declared, 0)
        /\ cleared' = Fill(cleared, "no")
  /\ failed' = failed \cup {wave}
  /\ skipped' = skipped \cup {wave}
  /\ wave' = wave + 1
  /\ UNCHANGED <<procVars, lockVars, outputs, phase, todo, batch, dispatches,
                 resultVars>>

FirstOf(S) == {p \in S : \A r \in S : Order[p] <= Order[r]}

\* The next stage of the staged launcher, or the next package of a wave
\* that has no launcher.
NextBatches ==
  IF Selected(wave) # {}
  THEN {{p \in todo : \A r \in todo : Stage[p] <= Stage[r]}}
  ELSE {{p} : p \in FirstOf(todo)}

StartBatch ==
  /\ phase = "batches" /\ batch = {} /\ todo # {}
  /\ \E b \in NextBatches :
       /\ batch' = b
       /\ todo' = todo \ b
       /\ pc' = [q \in Procs |-> IF q \in b THEN "helper" ELSE pc[q]]
  /\ UNCHANGED <<target, way, acquired, code, left, lockVars, outputs,
                 statusVars, phase, wave, failed, skipped, dispatches, resultVars>>

\* Mutant of BatchOver: the next stage starts without Wait-Job.
BatchStarted == batch \subseteq Packages

\* Mutant of BatchOver: only jobs that succeeded count as ended.
BatchSucceeded == \A p \in batch : pc[p] = "over" /\ code[p] = "zero"

BatchOver == \A p \in batch : pc[p] = "over"

\* Wait-Job, or the end of Invoke-DispatchStep.  Whether PowerShell calls a
\* job that ended by `exit n` Completed is not the repository's to say.
WaitBatch ==
  /\ phase = "batches" /\ batch # {}
  /\ BatchOver
  /\ batch' = {}
  /\ \/ /\ \E p \in batch : code[p] = "nonzero"
        /\ failed' = failed \cup {wave}
     \/ /\ (\A p \in batch : code[p] = "zero") \/ Selected(wave) # {}
        /\ failed' = failed
  /\ UNCHANGED <<procVars, lockVars, outputs, statusVars, phase, wave, todo,
                 skipped, dispatches, resultVars>>

CloseWave ==
  /\ phase = "batches" /\ batch = {} /\ todo = {}
  /\ phase' = "wave"
  /\ wave' = wave + 1
  /\ UNCHANGED <<procVars, lockVars, outputs, statusVars, todo, batch, failed,
                 skipped, dispatches, resultVars>>

StartPromotion ==
  /\ phase = "wave" /\ wave > LastWave
  /\ phase' = "promote"
  /\ unread' = Packages
  /\ UNCHANGED <<procVars, lockVars, outputs, statusVars, wave, todo, batch,
                 failed, skipped, dispatches, reading, listed, results>>

\* build_dispatch_results lists the outputs of a package first ...
ListArtifacts(p) ==
  /\ phase = "promote" /\ reading = {} /\ p \in FirstOf(unread)
  /\ reading' = {p}
  /\ listed' = [listed EXCEPT ![p] = Len(outputs[p])]
  /\ UNCHANGED <<procVars, lockVars, outputs, statusVars, runnerVars, unread,
                 results>>

\* ... and reads its status afterwards: the status has to pass, to be cleared
\* and to declare exactly what was listed, and the newest output of every
\* profile has to pass.
PackagePassed(p) ==
  /\ \A f \in Profiles : LatestPasses(p, f, listed[p])
  /\ status[p] = "pass" /\ cleared[p] = "yes"
  /\ declared[p] = listed[p]

\* Mutant of JudgePackage: the result repeats the agent's own word.
JudgePackageByStatus(p) ==
  /\ phase = "promote" /\ p \in reading
  /\ results' = [results EXCEPT ![p] = status[p]]
  /\ reading' = {}
  /\ unread' = unread \ {p}
  /\ UNCHANGED <<procVars, lockVars, outputs, statusVars, runnerVars, listed>>

JudgePackage(p) ==
  /\ phase = "promote" /\ p \in reading
  /\ results' = [results EXCEPT ![p] = IF PackagePassed(p) THEN "pass" ELSE "notpass"]
  /\ reading' = {}
  /\ unread' = unread \ {p}
  /\ UNCHANGED <<procVars, lockVars, outputs, statusVars, runnerVars, listed>>

EndDispatch ==
  /\ phase = "promote" /\ unread = {}
  /\ phase' = "ended"
  /\ UNCHANGED <<procVars, lockVars, outputs, statusVars, wave, todo, batch,
                 failed, skipped, dispatches, resultVars>>

----------------------------------------------------------------------------
ScriptStep(q) ==
  \/ TestLock(q) \/ LoseLock(q) \/ TakeLock(q) \/ LackEnv(q) \/ EnterScript(q)
  \/ RunCommand(q) \/ ReportStatus(q)

DispatchStep ==
  \/ OpenWave \/ SkipWave \/ StartBatch \/ WaitBatch \/ CloseWave
  \/ StartPromotion \/ EndDispatch
  \/ \E p \in Packages : ListArtifacts(p) \/ JudgePackage(p)

Next ==
  \/ \E a \in Agents : StartAgent(a)
  \/ \E q \in Procs : ScriptStep(q) \/ Kill(q)
  \/ \E p \in Packages : ResetLock(p)
  \/ StartDispatch
  \/ DispatchStep

Spec == Init /\ [][Next]_vars

\* The runner and its jobs go on; commands end.  Nothing is assumed of the
\* agents, of kills or of resets.
FairSpec == /\ Spec
            /\ WF_vars(DispatchStep)
            /\ \A p \in Packages : WF_vars(ScriptStep(p))

----------------------------------------------------------------------------
TypeOK ==
  /\ pc \in [Procs -> Places]
  /\ target \in [Procs -> Packages]
  /\ way \in [Procs -> {"job", "direct", "prompted", "claimed"}]
  /\ acquired \in [Procs -> {"yes", "no"}]
  /\ code \in [Procs -> {"zero", "nonzero"}]
  /\ left \in [Procs -> Int]
  /\ lock \in [Packages -> Procs \cup {"free"}]
  /\ reset \in [Packages -> {"never", "after", "during"}] /\ resets \in Nat
  /\ outputs \in [Packages -> Seq(Profiles \X Gates)]
  /\ status \in [Packages -> {"none", "pass", "fail", "blocked"}]
  /\ declared \in [Packages -> Nat] /\ cleared \in [Packages -> {"yes", "no"}]
  /\ phase \in {"idle", "wave", "batches", "promote", "ended"}
  /\ wave \in Nat
  /\ todo \subseteq Packages /\ batch \subseteq Packages
  /\ failed \subseteq Nat /\ skipped \subseteq Nat /\ dispatches \in Nat
  /\ unread \subseteq Packages /\ reading \subseteq Packages
  /\ listed \in [Packages -> Nat]
  /\ results \in [Packages -> {"none", "pass", "notpass"}]

\* However jobs and agents meet, no two processes are at the commands of one
\* package, unless an operator reset the lock under a process at work: the
\* hazard of render_claim_lock_helper's test before its creation.
OneRunner ==
  \A q, r \in Procs :
    q # r /\ target[q] = target[r] /\ Working(q) /\ Working(r)
      => reset[target[q]] = "during"

\* The claim lock of a package is a lease as in ClaimLease: it is taken when it
\* is free, is good for one run of the package by the process that took it, and
\* is given back by nobody but an operator.  A process about to run is past the
\* lock and has not started the commands.
AboutTo(q) == pc[q] = "script" /\ acquired[q] = "yes"
Unused == {p \in Packages : \E q \in Procs : lock[p] = q /\ AboutTo(q)}
RunBy == [p \in Packages |-> {q \in Procs : target[q] = p /\ Working(q)}]
Broken == {p \in Packages : reset[p] = "during"}
Lease == INSTANCE ClaimLease WITH
  holder <- lock, unused <- Unused, running <- RunBy, broken <- Broken
IsLease == Lease!Spec

\* A package that the promotion calls passed, and whose lock was never reset,
\* is at rest and its newest evidence still passes: no run slipped in between
\* the outputs that were listed, the status that was read and now.
ResultsPassIsCurrent ==
  \A p \in Packages :
    results[p] = "pass" /\ reset[p] = "never" =>
      /\ \A q \in Procs : target[q] = p => ~Working(q)
      /\ \A f \in Profiles : LatestPasses(p, f, Len(outputs[p]))

\* Jobs whose packages share a resource tag are never alive together: "resource
\* overlaps are serialized automatically".
OverlapsSerialized ==
  \A p, q \in Packages :
    p # q /\ <<p, q>> \in Conflict => ~(Active(p) /\ Active(q))

\* Once a job of a dependent wave has started, every wave it depends on is
\* over, did not fail in this dispatch and has evidence.
DependentsAfterEvidence ==
  \A p \in Packages : pc[p] # "idle" =>
    \A d \in DependsOn[p] : /\ d \notin failed /\ EvidenceOf(d)
                           /\ \A r \in WavePackages(d) : ~Active(r)

\* A dispatch that has started ends, whatever is killed, locked or lacking.
Ends == phase # "idle" ~> phase = "ended"

\* "Requires waves ... evidence to be green before launch": a wave is skipped
\* only when some package it depends on is not green, or its wave failed.
GreenWavesGoOn ==
  [][skipped' # skipped =>
       \E d \in WaveDeps(wave) : \/ d \in failed
                                \/ \E p \in WavePackages(d) : ~Green(p)]_vars

\* "Acquire the claim lock with the claim lock command above before running
\* the package script": a script is not refused by the lock its own runner
\* was told to take.
NotRefusedByOwnLock ==
  \A q \in Procs : pc[q] = "innerHelper" => lock[target[q]] # q
====
