---- MODULE SharedRuntime ----
(* The shared mode of scripts/run_elixir_postgres_runtime_validation.py: one
   invocation runs its tests in a container of its own against the database
   container of somebody else.  The script inside the runner creates, marks and
   drops the test database; the harness only looks at both from outside, and
   removes what the runner has left.                                          *)
EXTENDS Naturals

CONSTANT MaxDisturbances   \* bound: how often other users of docker interfere

ASSUME DisturbanceAssumption == MaxDisturbances \in Nat

VARIABLES
  runner,      \* what is under runner_name: its owner and its state
  script,      \* how far the script in our runner has come
  db,          \* the test database: "none", "unmarked" or "marked"
  pending,     \* what a client that is gone has asked for and may still come
  late,        \* what was ever pending (history)
  disturbed,
  pc,
  code,        \* result.returncode: of the runner, or "broken" of its client
  runnerId,    \* whether runner_id is set
  owned,       \* database_owned
  runnerAbsent,
  verified,    \* receipt["cleanup"]["verified"]
  passed,
  raised,      \* whether an exception is on its way
  status

docker == <<runner, script>>
world == <<docker, db, pending, late>>
locals == <<code, runnerId, owned, passed, raised>>
outcome == <<runnerAbsent, verified>>
vars == <<world, disturbed, pc, locals, outcome, status>>

MainPcs == {"pin", "database", "name", "absent", "stage", "start", "wait",
            "finished", "marker"}
CleanupPcs == {"by_id", "remove", "gone", "by_name", "drop_marker", "drop",
               "verify", "report"}

Free == [owner |-> "none", state |-> "none"]
Ours(state) == [owner |-> "ours", state |-> state]
Theirs == [owner |-> "theirs", state |-> "running"]

Init ==
  /\ runner = Free /\ script = "boot" /\ db = "none"
  /\ pending = {} /\ late = {} /\ disturbed = 0
  /\ pc = "pin"
  /\ code = "none" /\ runnerId = "no" /\ owned = "no" /\ passed = "no" /\ raised = "no"
  /\ runnerAbsent = "no" /\ verified = "no"
  /\ status = "blocked"

----------------------------------------------------------------------------
(* The script in the runner, and postgres.                                   *)

Running == runner = Ours("running")

\* CREATE DATABASE goes on in postgres when the process that sent it is gone.
Orphan == IF Running /\ script = "create"
          THEN \/ pending' = pending \cup {"database"} /\ late' = late \cup {"database"}
               \/ UNCHANGED <<pending, late>>
          ELSE UNCHANGED <<pending, late>>

ScriptGoes(from, to) == Running /\ script = from /\ script' = to

SendCreate ==
  /\ ScriptGoes("boot", "create")
  /\ UNCHANGED <<runner, db, pending, late, disturbed, pc, locals, outcome, status>>

\* mix ecto.create
CreateDatabase ==
  /\ ScriptGoes("create", "comment")
  /\ db' = "unmarked"
  /\ UNCHANGED <<runner, pending, late, disturbed, pc, locals, outcome, status>>

\* COMMENT ON DATABASE
MarkDatabase ==
  /\ db = "unmarked" /\ ScriptGoes("comment", "test")
  /\ db' = "marked"
  /\ UNCHANGED <<runner, pending, late, disturbed, pc, locals, outcome, status>>

\* The script ends, or is stopped by somebody.  Its trap drops the database,
\* `|| true`, and keeps the exit code.
EndScript ==
  /\ Running
  /\ \/ script = "test" /\ runner' = Ours("ok")
     \/ runner' = Ours("failed")
  /\ db' \in {db, "none"}
  /\ Orphan
  /\ UNCHANGED <<script, disturbed, pc, locals, outcome, status>>

\* What a client had asked the daemon for before it was killed.
LateRunner ==
  /\ "runner" \in pending /\ runner = Free
  /\ runner' = Ours("created")
  /\ pending' = pending \ {"runner"}
  /\ UNCHANGED <<script, db, late, disturbed, pc, locals, outcome, status>>

LateStart ==
  /\ runner = Ours("created")
  /\ runner' = Ours("running")
  /\ UNCHANGED <<script, db, pending, late, disturbed, pc, locals, outcome, status>>

LateDatabase ==
  /\ "database" \in pending
  /\ db' = IF db = "none" THEN "unmarked" ELSE db
  /\ pending' = pending \ {"database"}
  /\ UNCHANGED <<docker, late, disturbed, pc, locals, outcome, status>>

\* Others remove the runner, take or free its name, or lose the database.
Disturb ==
  /\ disturbed < MaxDisturbances
  /\ disturbed' = disturbed + 1
  /\ \/ /\ runner # Free /\ runner' = Free
        /\ Orphan
        /\ UNCHANGED db
     \/ /\ runner = Free /\ runner' = Theirs
        /\ UNCHANGED <<db, pending, late>>
     \/ /\ db # "none" /\ db' = "none"
        /\ UNCHANGED <<runner, pending, late>>
  /\ UNCHANGED <<script, pc, locals, outcome, status>>

----------------------------------------------------------------------------
(* execute: every docker command may fail or time out.                       *)

Goto(place) == pc' = place /\ UNCHANGED <<locals, outcome>>

\* The finally clause, with the runner_id that is known.
EnterCleanup(id) == /\ runnerId' = id
                    /\ pc' = IF id = "yes" THEN "by_id" ELSE "by_name"

RaiseWith(id) == /\ EnterCleanup(id)
                 /\ raised' = "yes"
                 /\ UNCHANGED <<code, owned, passed, outcome>>

Raise == RaiseWith(runnerId)

\* pin_and_check, and the password in the environment.
Pin ==
  /\ pc = "pin"
  /\ \/ Goto("database") /\ UNCHANGED status
     \/ /\ Goto("done")
        /\ status' \in {"blocked_preflight", "blocked_missing_password_env", "blocked_error"}
  /\ UNCHANGED <<world, disturbed>>

InspectDatabase ==
  /\ pc = "database"
  /\ Goto("name") \/ Raise
  /\ UNCHANGED <<world, disturbed, status>>

CheckName ==
  /\ pc = "name"
  /\ (runner = Free /\ Goto("absent")) \/ Raise
  /\ UNCHANGED <<world, disturbed, status>>

CheckAbsent ==
  /\ pc = "absent"
  /\ (db = "none" /\ Goto("stage")) \/ Raise
  /\ UNCHANGED <<world, disturbed, status>>

StageSource ==
  /\ pc = "stage"
  /\ Goto("start") \/ Raise
  /\ UNCHANGED <<world, disturbed, status>>

Returned(c) == /\ pc' = "finished" /\ code' = c
               /\ UNCHANGED <<runnerId, owned, passed, raised, outcome>>

\* docker run: the client waits, or fails or gives up with the runner created,
\* started, still to be created, or refused.
StartRunner ==
  /\ pc = "start"
  /\ \/ /\ runner = Free /\ runner' = Ours("running")
        /\ Goto("wait")
        /\ UNCHANGED <<pending, late>>
     \/ /\ runner = Free /\ runner' \in {Ours("created"), Ours("running")}
        /\ Returned("broken")
        /\ UNCHANGED <<pending, late>>
     \/ /\ pending' = pending \cup {"runner"} /\ late' = late \cup {"runner"}
        /\ Returned("broken")
        /\ UNCHANGED runner
     \/ Returned("broken") /\ UNCHANGED <<runner, pending, late>>
  /\ UNCHANGED <<script, db, disturbed, status>>

\* ... until the runner has ended, or args.timeout is over.
AwaitRunner ==
  /\ pc = "wait"
  /\ \/ runner \in {Ours("ok"), Ours("failed")} /\ Returned(runner.state)
     \/ Returned("broken")
  /\ UNCHANGED <<world, disturbed, status>>

\* Once the label is ours, runner_id is known, whatever the state.
InspectFinished ==
  /\ pc = "finished"
  /\ \/ Raise
     \/ /\ runner = Ours(code)
        /\ pc' = "marker" /\ runnerId' = "yes"
        /\ UNCHANGED <<code, owned, passed, raised, outcome>>
     \/ runner.owner = "ours" /\ runner.state # code /\ RaiseWith("yes")
  /\ UNCHANGED <<world, disturbed, status>>

\* database_marker, then the audit of what the runner has printed.
ReadMarker ==
  /\ pc = "marker"
  /\ \/ Raise
     \/ /\ owned' = IF db = "marked" THEN "yes" ELSE "no"
        /\ \/ code = "ok" /\ passed' = "yes" /\ raised' = "no"
           \/ passed' = "no" /\ raised' \in (IF code = "ok" THEN {"no", "yes"} ELSE {"no"})
        /\ EnterCleanup(runnerId)
        /\ UNCHANGED <<code, outcome>>
  /\ UNCHANGED <<world, disturbed, status>>

----------------------------------------------------------------------------
(* cleanup: whatever raises ends it without a record.                        *)

CleanupRaises == /\ pc' = "report" /\ raised' = "yes"
                 /\ UNCHANGED <<code, runnerId, owned, passed, outcome>>

Look(place) ==
  /\ pc = place
  /\ UNCHANGED <<world, disturbed, status>>

InspectById ==
  /\ Look("by_id")
  /\ \/ CleanupRaises
     \/ Goto(IF runner.owner = "ours" THEN "remove" ELSE "gone")

RemoveRunner ==
  /\ pc = "remove"
  /\ \/ /\ runner.owner = "ours" /\ runner' = Free /\ Orphan
        /\ Goto("gone") \/ CleanupRaises
     \/ CleanupRaises /\ UNCHANGED <<runner, pending, late>>
  /\ UNCHANGED <<script, db, disturbed, status>>

RunnerLooked(absent) ==
  /\ runnerAbsent' = IF absent THEN "yes" ELSE "no"
  /\ pc' = IF owned = "yes" THEN "drop_marker" ELSE "verify"
  /\ UNCHANGED <<locals, verified>>

InspectGone ==
  /\ Look("gone")
  /\ CleanupRaises \/ RunnerLooked(runner.owner # "ours")

\* Mutant of InspectByName: an answer that is an error counts as absence.
InspectByNameTrustsFailure ==
  /\ Look("by_name")
  /\ RunnerLooked(TRUE) \/ RunnerLooked(runner = Free)

\* Without runner_id the name alone is looked at, and nothing is removed.
InspectByName ==
  /\ Look("by_name")
  /\ CleanupRaises \/ RunnerLooked(runner = Free)

InspectMarker ==
  /\ Look("drop_marker")
  /\ \/ CleanupRaises
     \/ db = "none" /\ Goto("verify")
     \/ db = "marked" /\ Goto("drop")

DropDatabase ==
  /\ pc = "drop"
  /\ \/ db # "none" /\ db' = "none" /\ (Goto("verify") \/ CleanupRaises)
     \/ db' = db /\ CleanupRaises
  /\ UNCHANGED <<docker, pending, late, disturbed, status>>

VerifyAbsent ==
  /\ Look("verify")
  /\ \/ CleanupRaises
     \/ /\ verified' = IF runnerAbsent = "yes" /\ db = "none" THEN "yes" ELSE "no"
        /\ pc' = "report"
        /\ UNCHANGED <<locals, runnerAbsent>>

\* Mutant of Conclusion: the receipt gets the word of the tests.
ConclusionOtherWord == IF passed = "yes" /\ verified = "yes" THEN "passed" ELSE "failed"

Conclusion == IF passed = "yes" /\ verified = "yes" THEN "pass" ELSE "fail"

\* Mutant of Report: the tests decide, whatever has become of the cleanup.
ReportIgnoresCleanup ==
  /\ pc = "report"
  /\ pc' = "done"
  /\ status' = IF passed = "yes" THEN "pass" ELSE "fail"
  /\ UNCHANGED <<world, disturbed, locals, outcome>>

\* The identity of the database container is looked at once more, and run
\* turns an exception into blocked_error.
Report ==
  /\ pc = "report"
  /\ pc' = "done"
  /\ \/ status' = "blocked_error"
     \/ raised = "no" /\ status' \in {Conclusion, "fail"}
  /\ UNCHANGED <<world, disturbed, locals, outcome>>

\* A kill runs no finally.
Kill ==
  /\ pc \in MainPcs \cup CleanupPcs
  /\ pc' = "killed"
  /\ UNCHANGED <<world, disturbed, locals, outcome, status>>

Harness ==
  \/ Pin \/ InspectDatabase \/ CheckName \/ CheckAbsent \/ StageSource
  \/ StartRunner \/ AwaitRunner \/ InspectFinished \/ ReadMarker
  \/ InspectById \/ RemoveRunner \/ InspectGone \/ InspectByName
  \/ InspectMarker \/ DropDatabase \/ VerifyAbsent \/ Report

World == \/ SendCreate \/ CreateDatabase \/ MarkDatabase \/ EndScript
         \/ LateRunner \/ LateStart \/ LateDatabase \/ Disturb

Stopped == pc \in {"done", "killed"} /\ UNCHANGED vars

Next == Harness \/ World \/ Kill \/ Stopped

Spec == Init /\ [][Next]_vars

----------------------------------------------------------------------------
(* Every variable has its type, parts named for the proofs.                  *)
Answers == {"yes", "no"}
Runners == [owner : {"none", "ours", "theirs"},
            state : {"none", "created", "running", "ok", "failed"}]
Requests == {"runner", "database"}

WorldOK ==
  /\ runner \in Runners
  /\ script \in {"boot", "create", "comment", "test"}
  /\ db \in {"none", "unmarked", "marked"}
  /\ pending \in SUBSET Requests /\ late \in SUBSET Requests
  /\ disturbed \in 0..MaxDisturbances

ControlOK ==
  /\ pc \in MainPcs \cup CleanupPcs \cup {"done", "killed"}
  /\ code \in {"none", "ok", "failed", "broken"}
  /\ runnerId \in Answers /\ owned \in Answers
  /\ passed \in Answers /\ raised \in Answers
  /\ runnerAbsent \in Answers /\ verified \in Answers

StatusOK ==
  status \in {"blocked", "blocked_preflight", "blocked_missing_password_env",
             "blocked_error", "pass", "fail"}

TypeOK == WorldOK /\ ControlOK /\ StatusOK

\* A cleanup that is recorded as verified has left neither a runner nor a
\* database of the invocation, whatever the exception it ran under, unless
\* something a lost client had asked for came afterwards.
VerifiedMeansGone ==
  verified = "yes" => /\ runner.owner = "ours" => "runner" \in late
                      /\ db # "none" => late # {}

\* The shared mode, too, is an ephemeral harness: the invocation has something
\* from its first creation to its last removal, takes nothing up once it has
\* left its work, and passes with nothing left and nothing to come.
Left == runner.owner = "ours" \/ db # "none" \/ pending # {}
Abstract == INSTANCE EphemeralHarness WITH
  Resources <- {"invocation"},
  residue <- IF Left THEN {"invocation"} ELSE {},
  phase <- CASE status = "pass" -> "pass"
             [] pc \in {"done", "killed"} -> "other"
             [] pc \in CleanupPcs -> "releasing"
             [] OTHER -> "working"
IsEphemeral == Abstract!Spec
====
