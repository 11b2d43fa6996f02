---------------------------- MODULE OwnedRuntime ----------------------------
(***************************************************************************)
(* The owned mode of scripts/run_elixir_postgres_runtime_validation.py:    *)
(* one invocation of the harness, the container daemon it drives through   *)
(* the docker command line, and the things other users of the same daemon  *)
(* and the same worktree may do in between.                                *)
(*                                                                         *)
(* The invocation owns four names, made unique by a random suffix: two     *)
(* runner containers, a database container and a network.  Every docker    *)
(* command is one step; a command that times out may leave its effect      *)
(* undone, done, or still to be done by the daemon (pending).              *)
(***************************************************************************)
EXTENDS Naturals, FiniteSets

CONSTANTS
  MaxDisturbances,  \* bound: how often other users of the daemon interfere
  Editing           \* whether the worktree and its copy may be edited

ASSUME DisturbanceAssumption == MaxDisturbances \in Nat
ASSUME EditingAssumption == Editing \in BOOLEAN

Containers == {"pre", "post", "db"}
Slots == Containers \cup {"net"}

(***************************************************************************)
(* What a name stands for.  owner is the invocation label as the harness   *)
(* reads it back; ids are never reused, and 0 is no id.                    *)
(***************************************************************************)
States == {"none", "created", "running", "ok", "failed"}
Objects == [owner : {"none", "mine", "foreign"}, id : Nat, state : States]
Nothing == [owner |-> "none", id |-> 0, state |-> "none"]

VARIABLES
  held,       \* [Slots -> Objects]: the daemon's object under each name
  pending,    \* slots whose creation timed out and may still be completed
  late,       \* slots that were ever pending (history)
  nextId,     \* the daemon's next fresh id
  disturbed,  \* number of disturbances so far
  live,       \* the worktree's source: "recorded", or "edited" since
  staged,     \* the staged copy of it: "absent", "recorded" or "edited"
  seen,       \* the versions the phases and the bootstrap used (history)
  deadline,   \* the readiness deadline: "ahead" or "expired"
  pc,         \* where the harness is
  check,      \* which of the three identity or source checks is next
  code,       \* return code of the phase that ran last
  attached,   \* the container the docker run client waits for
  rec,        \* [Slots -> Nat]: *_id variables of owned_execute, 0 for None
  good,       \* "yes" while every check that does not raise has held
  slot,       \* the resource cleanup is at
  target,     \* resource_id inside remove_container, 0 for None
  outcome,    \* [Slots -> {"unset", "yes", "no"}]: the *_absent outcomes
  raised,     \* "yes" while an exception is propagating
  status      \* receipt["status"]

daemon  == <<held, pending, late, nextId>>
source  == <<live, staged, seen>>
control == <<check, code, attached, rec, good, raised>>
cleanup == <<slot, target, outcome>>
vars == <<daemon, disturbed, source, deadline, pc, control, cleanup, status>>

PhasePcs == {"start_pre", "wait_pre", "verify_pre",
             "start_post", "wait_post", "verify_post"}
MainPcs == PhasePcs \cup
  {"pin", "preflight", "stage", "digest", "authority", "network_create",
   "network_inspect", "db_create", "db_inspect", "db_version", "ready",
   "createdb", "match_id", "match_name", "source", "roles", "bootstrap",
   "audit"}
CleanupPcs == {"by_name", "by_id", "remove", "gone_id", "gone_name", "report"}
EndPcs == {"done", "killed"}

Pcs == MainPcs \cup CleanupPcs \cup EndPcs
Sources == {"absent", "recorded", "edited"}

DaemonTyped ==
  /\ held \in [Slots -> Objects]
  /\ pending \in SUBSET Slots
  /\ late \in SUBSET Slots
  /\ nextId \in Nat \ {0}

WorldTyped ==
  /\ disturbed \in 0 .. MaxDisturbances
  /\ live \in Sources \ {"absent"}
  /\ staged \in Sources
  /\ seen \in SUBSET Sources
  /\ deadline \in {"ahead", "expired"}

ControlTyped ==
  /\ pc \in Pcs
  /\ check \in {"pre", "bootstrap", "post"}
  /\ code \in {"none", "ok", "failed", "broken"}
  /\ attached \in Nat
  /\ rec \in [Slots -> Nat]
  /\ good \in {"yes", "no"}
  /\ raised \in {"yes", "no"}

CleanupTyped ==
  /\ slot \in Slots
  /\ target \in Nat
  /\ outcome \in [Slots -> {"unset", "yes", "no"}]

StatusTyped ==
  status \in {"blocked", "blocked_preflight", "blocked_error", "pass", "fail"}

TypeOK == DaemonTyped /\ WorldTyped /\ ControlTyped /\ CleanupTyped /\ StatusTyped

Init ==
  /\ held = [s \in Slots |-> Nothing]
  /\ pending = {} /\ late = {} /\ nextId = 1 /\ disturbed = 0
  /\ live = "recorded" /\ staged = "absent" /\ seen = {}
  /\ deadline = "ahead"
  /\ pc = "pin" /\ check = "pre" /\ code = "none" /\ attached = 0
  /\ rec = [s \in Slots |-> 0]
  /\ good = "yes" /\ raised = "no"
  /\ slot = "net" /\ target = 0
  /\ outcome = [s \in Slots |-> "unset"]
  /\ status = "blocked"

-----------------------------------------------------------------------------
(* What an inspect command finds: by name, or by id.                       *)
ByName(s) == held[s]
ById(s, i) == IF held[s].id = i THEN held[s] ELSE Nothing
Present(o) == o.owner # "none"
Mine(s) == held[s].owner = "mine"

(* Leaving the try block of owned_execute: cleanup begins with the first   *)
(* runner, with the id the try block had recorded for it.                  *)
EnterCleanup ==
  /\ pc' = "by_name"
  /\ slot' = "pre"
  /\ target' = rec["pre"]
  /\ UNCHANGED outcome

Raise ==
  /\ EnterCleanup
  /\ raised' = "yes"
  /\ UNCHANGED <<check, code, attached, rec, good>>

(* A command whose success only moves the harness on, and whose failure,   *)
(* timeout or unusable answer raises.                                      *)
Advance(p) ==
  /\ pc' = p
  /\ UNCHANGED <<control, cleanup>>

(* The daemon creates an object of ours under a free name.                 *)
Create(s, st) ==
  /\ ~ Present(held[s])
  /\ held' = [held EXCEPT ![s] = [owner |-> "mine", id |-> nextId, state |-> st]]
  /\ nextId' = nextId + 1
  /\ UNCHANGED <<pending, late>>

(* The client gives up (30 s) before the daemon has created anything.      *)
Defer(s) ==
  /\ pending' = pending \cup {s}
  /\ late' = late \cup {s}
  /\ UNCHANGED <<held, nextId>>

EnvUnchanged == UNCHANGED <<disturbed, live>>
Quiet == EnvUnchanged /\ UNCHANGED <<daemon, staged, seen, deadline, status>>

-----------------------------------------------------------------------------
(* run: owned_pin_and_check inspects both images before anything else.     *)
Pin ==
  /\ pc = "pin"
  /\ EnvUnchanged
  /\ UNCHANGED <<daemon, staged, seen, deadline>>
  /\ \/ /\ Advance("preflight")
        /\ UNCHANGED status
     \/ /\ Advance("done")                  \* ids differ, or inspect raised
        /\ \E st \in {"blocked_preflight", "blocked_error"} : status' = st

(* The four generated names must be free: network, database, runners.      *)
PreflightOrder(s) ==
  CASE s = "net" -> "db" [] s = "db" -> "pre" [] OTHER -> "post"

PreflightName ==
  /\ pc = "preflight"
  /\ Quiet
  /\ \/ Raise
     \/ /\ ~ Present(ByName(slot))
        /\ IF slot = "post"
             THEN /\ pc' = "stage"
                  /\ UNCHANGED slot
             ELSE /\ pc' = "preflight"
                  /\ slot' = PreflightOrder(slot)
        /\ UNCHANGED <<control, target, outcome>>

(* stage_source copies the worktree, which may be edited under its hands.  *)
StageSource ==
  /\ pc = "stage"
  /\ EnvUnchanged
  /\ UNCHANGED <<daemon, seen, deadline, status>>
  /\ \/ Advance("digest") /\ staged' = live
     \/ Raise /\ UNCHANGED staged

(* staged_digest = source_digest = source_after                            *)
CompareDigests ==
  /\ pc = "digest"
  /\ Quiet
  /\ IF staged = "recorded" /\ live = "recorded"
       THEN Advance("authority")
       ELSE Raise

(* The authority bootstrap is read from the copy, and must equal the one   *)
(* of the worktree; its bytes are kept until they are loaded.  An edit may *)
(* or may not have touched this one file.                                  *)
ReadAuthority ==
  /\ pc = "authority"
  /\ EnvUnchanged
  /\ UNCHANGED <<daemon, staged, deadline, status>>
  /\ \/ Advance("network_create") /\ seen' = seen \cup {staged}
     \/ "edited" \in {staged, live} /\ Raise /\ UNCHANGED seen

(* docker network create, and docker run --detach for the database: the    *)
(* id is recorded only if the command answers in time, with success and a  *)
(* well formed id.                                                         *)
CreateResource(s, st, here, next) ==
  /\ pc = here
  /\ EnvUnchanged
  /\ UNCHANGED <<staged, seen, deadline, status>>
  /\ \/ /\ Create(s, st)
        /\ rec' = [rec EXCEPT ![s] = nextId]
        /\ pc' = next
        /\ UNCHANGED <<check, code, attached, good, raised, cleanup>>
     \/ /\ \E left \in {"created", st} : Create(s, left)
        /\ Raise
     \/ Defer(s) /\ Raise
     \/ Raise /\ UNCHANGED daemon

CreateNetwork ==
  CreateResource("net", "running", "network_create", "network_inspect")

CreateDatabase ==
  CreateResource("db", "running", "db_create", "db_inspect")

(* Inspect by the recorded id: missing, or not as created, raises.         *)
InspectCreated(s, here, next) ==
  /\ pc = here
  /\ Quiet
  /\ \/ ById(s, rec[s]).owner = "mine" /\ Advance(next)
     \/ Raise

InspectNetwork == InspectCreated("net", "network_inspect", "db_create")
InspectDatabase == InspectCreated("db", "db_inspect", "db_version")

(* docker exec in the recorded database container.                         *)
DatabaseRuns == ById("db", rec["db"]).state = "running"

ExecInDatabase(here, next) ==
  /\ pc = here
  /\ Quiet
  /\ \/ DatabaseRuns /\ Advance(next)
     \/ Raise

CheckVersions == ExecInDatabase("db_version", "ready")

(* The readiness loop: probe, sleep, until the deadline.                   *)
ProbeReady ==
  /\ pc = "ready"
  /\ deadline = "ahead"
  /\ Quiet
  /\ \/ DatabaseRuns /\ Advance("createdb")
     \/ Advance("ready")

(* Mutant of ReadinessTimeout: the loop never looks at its deadline.       *)
ReadinessIgnoresDeadline ==
  /\ pc = "ready"
  /\ deadline = "expired"
  /\ Quiet
  /\ Advance("ready")

ReadinessTimeout ==
  /\ pc = "ready"
  /\ deadline = "expired"
  /\ Quiet
  /\ Raise

CreateTestDatabase == ExecInDatabase("createdb", "match_id")

(* owned_database_matches: by id, then by name; what cannot be inspected   *)
(* does not match.  Two of its three uses raise when it says no; the last  *)
(* one is remembered.                                                      *)
Mismatch ==
  IF check = "post"
    THEN /\ EnterCleanup
         /\ good' = "no"
         /\ UNCHANGED <<check, code, attached, rec, raised>>
    ELSE Raise

MatchById ==
  /\ pc = "match_id"
  /\ Quiet
  /\ \/ /\ ById("db", rec["db"]).owner = "mine"
        /\ DatabaseRuns
        /\ Advance("match_name")
     \/ Mismatch

AfterMatch ==
  CASE check = "pre"       -> Advance("start_pre")
    [] check = "bootstrap" -> Advance("start_post")
    [] check = "post"      -> EnterCleanup /\ UNCHANGED control

MatchByName ==
  /\ pc = "match_name"
  /\ Quiet
  /\ \/ ByName("db").id = rec["db"] /\ AfterMatch
     \/ Mismatch

-----------------------------------------------------------------------------
(* run_owned_phase: docker run in the foreground, then inspect by name.    *)
StartPhase(s, here, next) ==
  /\ pc = here
  /\ EnvUnchanged
  /\ UNCHANGED <<staged, deadline, status, check, rec, good, raised, cleanup>>
  /\ pc' = next
  /\ attached' = nextId
  /\ \/ Create(s, "running") /\ code' = "none" /\ seen' = seen \cup {staged}
     \/ Create(s, "created") /\ code' = "broken" /\ UNCHANGED seen
     \/ Defer(s) /\ code' = "broken" /\ UNCHANGED seen
     \/ UNCHANGED <<daemon, seen>> /\ code' = "broken"

(* The runner ends, or the client gives up on it (it runs on).             *)
WaitPhase(s, here, next) ==
  /\ pc = here
  /\ EnvUnchanged
  /\ UNCHANGED <<pending, late, nextId, staged, deadline, status,
                 check, attached, rec, good, raised, cleanup>>
  /\ pc' = next
  /\ \/ /\ code = "none"
        /\ held[s].id = attached
        /\ \E c \in {"ok", "failed"} :
             /\ held[s].state \in {"running", c}
             /\ code' = c
             /\ held' = [held EXCEPT ![s].state = c]
        /\ seen' = seen \cup {staged}
     \/ code' = "broken" /\ UNCHANGED <<held, seen>>

(* Missing, not ours, not exited or with another exit code: raise, and the *)
(* runner's id is not recorded.  A phase that failed raises after that.    *)
VerifyPhase(s, here, next) ==
  /\ pc = here
  /\ Quiet
  /\ \/ /\ Mine(s)
        /\ held[s].state = code
        /\ rec' = [rec EXCEPT ![s] = held[s].id]
        /\ UNCHANGED <<check, code, attached, good>>
        /\ IF code = "ok"
             THEN pc' = next /\ UNCHANGED <<raised, cleanup>>
             ELSE /\ pc' = "by_name" /\ slot' = "pre" /\ target' = rec'["pre"]
                  /\ raised' = "yes"
                  /\ UNCHANGED outcome
     \/ Raise

StartPre == StartPhase("pre", "start_pre", "wait_pre")
WaitPre == WaitPhase("pre", "wait_pre", "verify_pre")
VerifyPre == VerifyPhase("pre", "verify_pre", "source")
StartPost == StartPhase("post", "start_post", "wait_post")
WaitPost == WaitPhase("post", "wait_post", "verify_post")
VerifyPost == VerifyPhase("post", "verify_post", "audit")

(* source_pair_matches: after the first phase, after the bootstrap (both   *)
(* raise), and after the second phase (remembered).                        *)
AfterSource ==
  CASE check = "pre"       -> pc' = "roles" /\ check' = "bootstrap"
    [] check = "bootstrap" -> pc' = "match_id" /\ UNCHANGED check
    [] check = "post"      -> pc' = "match_id" /\ UNCHANGED check

(* Mutant of SourcePairMatches: the copy is not compared again.            *)
SourceComparesWorktree ==
  /\ pc = "source"
  /\ Quiet
  /\ IF live = "recorded" \/ check = "post"
       THEN /\ AfterSource
            /\ good' = IF live = "recorded" THEN good ELSE "no"
            /\ UNCHANGED <<code, attached, rec, raised, cleanup>>
       ELSE Raise

SourcePairMatches ==
  /\ pc = "source"
  /\ Quiet
  /\ LET same == live = "recorded" /\ staged = "recorded"
     IN IF same \/ check = "post"
          THEN /\ AfterSource
               /\ good' = IF same THEN good ELSE "no"
               /\ UNCHANGED <<code, attached, rec, raised, cleanup>>
          ELSE Raise

(* psql_stdin: the degraded roles, the authority bootstrap, the audits.    *)
CreateRoles == ExecInDatabase("roles", "bootstrap")
LoadAuthority == ExecInDatabase("bootstrap", "source")

(* The audits of migrations, roles and tests: malformed rows raise, a      *)
(* failed, skipped or excluded test only denies the pass.                  *)
Audit ==
  /\ pc = "audit"
  /\ Quiet
  /\ \/ /\ DatabaseRuns
        /\ pc' = "source"
        /\ check' = "post"
        /\ good' \in {good, "no"}
        /\ UNCHANGED <<code, attached, rec, raised, cleanup>>
     \/ Raise

-----------------------------------------------------------------------------
(* owned_cleanup: runners, database, network, each in the same way.        *)
NextSlot == [pre |-> "post", post |-> "db", db |-> "net", net |-> "net"]

Settle(result) ==
  /\ outcome' = [outcome EXCEPT ![slot] = result]
  /\ slot' = NextSlot[slot]
  /\ target' = rec[NextSlot[slot]]
  /\ pc' = IF slot = "net" THEN "report" ELSE "by_name"

Cleaning(here) ==
  /\ pc = here
  /\ EnvUnchanged
  /\ UNCHANGED <<pending, late, nextId, staged, seen, deadline, control, status>>

(* Mutant of CleanByName: an inspect command that failed counts as absent. *)
CleanByNameTrustsFailure ==
  /\ Cleaning("by_name")
  /\ UNCHANGED held
  /\ \/ /\ Mine(slot)
        /\ target \in {0, held[slot].id}
        /\ target' = held[slot].id
        /\ pc' = "by_id"
        /\ UNCHANGED <<slot, outcome>>
     \/ Settle("yes")

CleanByName ==
  /\ Cleaning("by_name")
  /\ UNCHANGED held
  /\ \/ /\ Mine(slot)
        /\ target \in {0, held[slot].id}
        /\ target' = held[slot].id
        /\ pc' = "by_id"
        /\ UNCHANGED <<slot, outcome>>
     \/ /\ Mine(slot) /\ target \notin {0, held[slot].id}
        /\ Settle("no")
     \/ held[slot].owner = "foreign" /\ Settle("no")
     \/ /\ ~ Present(held[slot])
        /\ IF target = 0
             THEN Settle("yes")
             ELSE pc' = "by_id" /\ UNCHANGED cleanup
     \/ Settle("no")                         \* the inspect command failed

CleanById ==
  /\ Cleaning("by_id")
  /\ UNCHANGED held
  /\ \/ /\ ById(slot, target).owner \in {"mine", "none"}
        /\ pc' = IF Present(ById(slot, target)) THEN "remove" ELSE "gone_id"
        /\ UNCHANGED cleanup
     \/ ById(slot, target).owner = "foreign" /\ Settle("no")
     \/ Settle("no")

(* A network with a running container on it is not removed.                *)
Removable == slot = "net" => \A c \in Containers : held[c].state # "running"

(* Mutant of Removed: the resource is removed by its name.                 *)
RemovedByName == [held EXCEPT ![slot] = Nothing]

Removed ==
  IF Present(ById(slot, target)) THEN [held EXCEPT ![slot] = Nothing] ELSE held

(* docker rm -f: an error or a timeout may have removed all the same.      *)
CleanRemove ==
  /\ Cleaning("remove")
  /\ \/ Removable /\ held' = Removed /\ pc' = "gone_id" /\ UNCHANGED cleanup
     \/ Removable /\ held' = Removed /\ Settle("no")
     \/ UNCHANGED held /\ Settle("no")

CleanGoneById ==
  /\ Cleaning("gone_id")
  /\ UNCHANGED held
  /\ \/ /\ ~ Present(ById(slot, target))
        /\ pc' = "gone_name"
        /\ UNCHANGED cleanup
     \/ Settle("no")

CleanGoneByName ==
  /\ Cleaning("gone_name")
  /\ UNCHANGED held
  /\ \/ ~ Present(ByName(slot)) /\ Settle("yes")
     \/ Settle("no")

(* Mutant of Verified: the network's outcome is forgotten.                 *)
VerifiedContainers == \A s \in Containers : outcome[s] = "yes"

(* The receipt: verified is zero_residue, the conjunction of the outcomes. *)
Verified == \A s \in Slots : outcome[s] = "yes"

(* Mutants of Report: the verification of the cleanup is not asked for; or *)
(* the word written is not one of the receipt's.                           *)
ReportIgnoresCleanup ==
  /\ pc = "report"
  /\ EnvUnchanged
  /\ UNCHANGED <<daemon, seen, deadline, control, cleanup>>
  /\ staged' = "absent"
  /\ pc' = "done"
  /\ status' = IF raised = "yes" THEN "blocked_error"
               ELSE IF good = "yes" THEN "pass" ELSE "fail"

ReportOtherWord ==
  /\ pc = "report"
  /\ EnvUnchanged
  /\ UNCHANGED <<daemon, seen, deadline, control, cleanup>>
  /\ staged' = "absent"
  /\ pc' = "done"
  /\ status' = IF raised = "yes" THEN "error" ELSE "fail"

Report ==
  /\ pc = "report"
  /\ EnvUnchanged
  /\ UNCHANGED <<daemon, seen, deadline, control, cleanup>>
  /\ staged' = "absent"
  /\ pc' = "done"
  /\ status' = IF raised = "yes" THEN "blocked_error"
               ELSE IF good = "yes" /\ Verified THEN "pass" ELSE "fail"

-----------------------------------------------------------------------------
(* The rest of the world.                                                  *)
Kill ==
  /\ pc \notin EndPcs
  /\ pc' = "killed"
  /\ UNCHANGED <<daemon, disturbed, source, deadline, control, cleanup, status>>

DeadlinePasses ==
  /\ pc \in {"db_create", "db_inspect", "db_version", "ready"}
  /\ deadline = "ahead"
  /\ deadline' = "expired"
  /\ UNCHANGED <<daemon, disturbed, source, pc, control, cleanup, status>>

(* The daemon comes back to a creation its client no longer waits for.     *)
LateCreation(s) ==
  /\ s \in pending
  /\ pending' = pending \ {s}
  /\ \/ /\ ~ Present(held[s])
        /\ held' = [held EXCEPT ![s] =
             [owner |-> "mine", id |-> nextId, state |-> "created"]]
        /\ nextId' = nextId + 1
     \/ UNCHANGED <<held, nextId>>
  /\ UNCHANGED <<late, disturbed, source, deadline, pc, control, cleanup, status>>

(* Other users: remove, stop, recreate with the same labels, or take a     *)
(* name, free or freed by them.                                            *)
Disturb(s) ==
  /\ disturbed < MaxDisturbances
  /\ disturbed' = disturbed + 1
  /\ \/ /\ Present(held[s])
        /\ held' = [held EXCEPT ![s] = Nothing]
        /\ UNCHANGED nextId
     \/ /\ held[s].state = "running"
        /\ held' = [held EXCEPT ![s].state = "failed"]
        /\ UNCHANGED nextId
     \/ /\ Mine(s)
        /\ held' = [held EXCEPT ![s].id = nextId, ![s].state = "running"]
        /\ nextId' = nextId + 1
     \/ /\ held' = [held EXCEPT ![s] =
             [owner |-> "foreign", id |-> nextId, state |-> "running"]]
        /\ nextId' = nextId + 1
  /\ UNCHANGED <<pending, late, source, deadline, pc, control, cleanup, status>>

(* The worktree is dirty and may be edited, and edited back; the private   *)
(* copy may be damaged, not repaired.                                      *)
EditSource ==
  /\ Editing
  /\ pc \notin EndPcs
  /\ \/ /\ live' = IF live = "recorded" THEN "edited" ELSE "recorded"
        /\ UNCHANGED staged
     \/ /\ staged = "recorded"
        /\ staged' = "edited"
        /\ UNCHANGED live
  /\ UNCHANGED <<daemon, disturbed, seen, deadline, pc, control, cleanup, status>>

-----------------------------------------------------------------------------
Execute ==
  \/ Pin \/ PreflightName \/ StageSource \/ CompareDigests \/ ReadAuthority
  \/ CreateNetwork \/ InspectNetwork \/ CreateDatabase \/ InspectDatabase
  \/ CheckVersions \/ ProbeReady \/ ReadinessTimeout \/ CreateTestDatabase
  \/ MatchById \/ MatchByName \/ StartPre \/ WaitPre \/ VerifyPre
  \/ SourcePairMatches \/ CreateRoles \/ LoadAuthority
  \/ StartPost \/ WaitPost \/ VerifyPost \/ Audit
Clean ==
  \/ CleanByName \/ CleanById \/ CleanRemove \/ CleanGoneById
  \/ CleanGoneByName \/ Report
Harness == Execute \/ Clean

Environment ==
  \/ Kill \/ DeadlinePasses \/ EditSource
  \/ \E s \in Slots : LateCreation(s) \/ Disturb(s)

Finished == pc \in EndPcs /\ UNCHANGED vars

Next == Harness \/ Environment \/ Finished

Spec == Init /\ [][Next]_vars

(* Every docker command has a timeout, so the harness keeps taking steps,  *)
(* and time passes.                                                        *)
Fairness == WF_vars(Harness) /\ WF_vars(DeadlinePasses)
FairSpec == Spec /\ Fairness

-----------------------------------------------------------------------------
(* What is ours on the daemon, or may still become so.                     *)
Residue == {s \in Slots : Mine(s)} \cup pending

(* A receipt with status pass means that nothing this invocation created   *)
(* is left behind, and that nothing of it can still appear: no creation is *)
(* waiting in the daemon either, then or at any later time.                *)
PassMeansClean == status = "pass" => Residue = {}

(* Whatever is left of this invocation when it reports, other than what a  *)
(* timed out creation may have added behind its back, is reported by the   *)
(* outcome of its own slot: the failure to remove one resource neither     *)
(* hides nor prevents the removal of the others.                           *)
NoUnreportedResidue ==
  pc = "done" =>
    \A s \in Slots : Mine(s) /\ s \notin late => outcome[s] = "no"

(* A pass was earned on the recorded source: each phase ran on it from     *)
(* start to end and the authority bootstrap was read from it, whatever was *)
(* edited in the worktree or damaged in the copy in the meantime.          *)
PassMeansRecordedSource == status = "pass" => seen = {"recorded"}

(* No step of the harness removes or changes an object that does not carry *)
(* this invocation's label, even when it sits under one of our names, and  *)
(* what it removes is the very object it created or found there: one that  *)
(* somebody else recreated under a new id is left alone once the old id is *)
(* on record.                                                              *)
OnlyOwnRemoved ==
  [][Harness => \A s \in Slots :
       /\ held[s].owner = "foreign" => held'[s] = held[s]
       /\ Mine(s) /\ held'[s] = Nothing /\ rec[s] # 0 => held[s].id = rec[s]]_vars

(* An invocation that is not killed comes to its report: every loop and    *)
(* every wait is bounded.                                                  *)
Reports == <>(pc \in EndPcs)

(* The invocation is an ephemeral harness: a resource is left over while   *)
(* it exists under our label or a timed out creation of it is pending.     *)
Ephemeral == INSTANCE EphemeralHarness WITH
  Resources <- Slots,
  residue <- Residue,
  phase <- CASE status = "pass" -> "pass"
             [] pc \in EndPcs /\ status # "pass" -> "other"
             [] pc \in CleanupPcs -> "releasing"
             [] OTHER -> "working"

IsEphemeral == Ephemeral!Spec

-----------------------------------------------------------------------------
(* Why PassMeansClean and NoUnreportedResidue hold: late creations come    *)
(* with an exception, outcomes are settled in the order of cleanup, and    *)
(* what was found absent is not created again.                             *)
Settled(s) == outcome[s] # "unset"
Remaining == [pre  |-> Slots, post |-> {"post", "db", "net"},
              db   |-> {"db", "net"}, net |-> {"net"}]

LateMeansRaised ==
  /\ pending \subseteq late
  /\ late # {} => \/ raised = "yes" \/ pc = "killed"
                  \/ code = "broken" /\ pc \in PhasePcs \ {"start_pre", "start_post"}

SettledInOrder ==
  /\ pc \in MainPcs => \A s \in Slots : ~ Settled(s)
  /\ pc \in CleanupPcs \ {"report"} =>
       \A s \in Slots : Settled(s) <=> s \notin Remaining[slot]
  /\ pc = "report" => \A s \in Slots : Settled(s)

AbsentStaysAbsent ==
  /\ \A s \in Slots : outcome[s] = "yes" /\ Mine(s) => s \in late
  /\ pc = "pin" => late = {} /\ \A s \in Slots : ~ Mine(s)
  /\ pc = "done" => \/ \A s \in Slots : Settled(s)
                    \/ late = {} /\ \A s \in Slots : ~ Mine(s)
  /\ status = "pass" => pc = "done" /\ late = {} /\ Verified

ResidueInv == LateMeansRaised /\ SettledInOrder /\ AbsentStaysAbsent

(* Why PassMeansRecordedSource holds: the copy only ever goes from         *)
(* recorded to edited, so one look at it after the last use speaks for all *)
(* the earlier uses.                                                       *)
Unstaged == {"pin", "preflight", "stage"}
Unused == Unstaged \cup {"digest", "authority"}

SourceInv ==
  /\ "absent" \notin seen
  /\ pc \in Unstaged => staged = "absent"
  /\ pc \in MainPcs \ Unstaged => staged # "absent"
  /\ pc \in Unused => seen = {}
  /\ pc \in MainPcs \ Unused => seen # {}
  /\ pc \in MainPcs /\ "edited" \in seen => staged = "edited"
  /\ pc \in MainPcs /\ check = "post" => pc \in {"source", "match_id", "match_name"}
  /\ pc \in {"match_id", "match_name"} /\ check = "post" /\ good = "yes" =>
       seen = {"recorded"}
  /\ pc \in CleanupPcs /\ raised = "no" /\ good = "yes" => seen = {"recorded"}
  /\ status = "pass" => pc = "done" /\ seen = {"recorded"}

(* Why OnlyOwnRemoved holds: ids are fresh, so an object that takes a name *)
(* later is never mistaken for the one that was looked at, and the id that *)
(* cleanup goes by is the recorded one wherever one is on record.          *)
Used(i) == i # 0 /\ i < nextId

AttachedIsOurs(s) ==
  Used(attached) /\ (held[s].id = attached => held[s].owner # "foreign")

IdInv ==
  /\ \A s \in Slots : /\ held[s].id < nextId
                      /\ Present(held[s]) => held[s].id # 0
  /\ pc = "wait_pre" /\ code = "none" => AttachedIsOurs("pre")
  /\ pc = "wait_post" /\ code = "none" => AttachedIsOurs("post")
  /\ pc \in CleanupPcs \ {"report"} => rec[slot] \in {0, target}
  /\ pc = "remove" => /\ Used(target)
                      /\ held[slot].id = target => held[slot].owner # "foreign"

=============================================================================
