--------------------------- MODULE ValidationRun ----------------------------
(***************************************************************************)
(* The execute path of scripts/tamandua_detection_validation.py (run): the *)
(* readiness gates, one pass of the test loop per selected test under its  *)
(* wall clock budget, the deferred Atomic cleanup, and the report.         *)
(*                                                                         *)
(* Calls that may raise outside a try block end the run without a report;  *)
(* the precondition and the execution are inside one.  Time is the state   *)
(* of two deadlines: the budget of the current test and the evidence wait. *)
(***************************************************************************)
EXTENDS Naturals, Sequences

CONSTANT N      \* bound: number of selected tests

ASSUME TestsAssumption == N \in Nat \ {0}

Tests == 1 .. N
Kinds == {"none", "command", "atomic", "caldera"}   \* what the test resolves to;
            \* an Atomic test names its technique, so it has a cleanup command
Statuses == {"skipped", "infra_blocked", "execution_failed", "scored",
             "transport_only", "no_evidence"}
Causes == {"none", "precondition", "wall_timeout", "command", "channel", "dropped",
           "gate"}
NoResult == [status |-> "none", cause |-> "none"]

VARIABLES
  kind,       \* [Tests -> Kinds]: executor and command of each test (input)
  server,     \* "yes" when evidence is read from a server (input)
  transport,  \* "qga", "ssh" or "ctl": how commands reach the endpoint (input)
  proxmox,    \* "yes" when there is a Proxmox host to run guest commands (input)
  persisted,  \* "yes" when the profile requires persisted events (input)
  cleaning,   \* "yes" under --atomic-cleanup (input)
  pc,
  cur,        \* the current test
  budget,     \* the deadline of the current test: "ahead" or "expired"
  wait,       \* the deadline of wait_for_expected_evidence
  execution,  \* outcome of the execution: cause of failure, "none" for exit 0
  launched,   \* tests whose command reached the endpoint
  measured,   \* tests whose evidence window has been closed
  entries,    \* report["tests"]: the order of its entries
  result,     \* [Tests -> status and cause] of those entries
  deferred,   \* deferred_cleanup
  cleaned,    \* tests whose cleanup command has been sent and answered
  report,     \* "none" or "written"
  exit        \* "none", "returned", "raised" (a remote call failed), or
              \* "broken" (a call on a host that does not exist)

input == <<kind, server, transport, proxmox, persisted, cleaning>>
book  == <<entries, result, deferred>>
guest == <<launched, measured, cleaned>>
vars  == <<input, pc, cur, budget, wait, execution, guest, book, report, exit>>

LoopPcs == {"live", "begin", "precondition", "driver_before", "execute", "post_clock",
            "verdict", "observe", "post_sleep", "wait", "nap", "end_clock",
            "summary", "samples", "collect"}
Pcs == LoopPcs \cup {"gate", "cleanup", "finish", "stopped"}

(* What run accepts: without a Proxmox host, a remote transport and a      *)
(* server, or the live response client alone; without a probe that finds   *)
(* Invoke-AtomicTest, no test resolves to Atomic Red Team.                 *)
Inputs ==
  /\ kind \in [Tests -> Kinds]
  /\ server \in {"yes", "no"} /\ persisted \in {"yes", "no"}
  /\ transport \in {"qga", "ssh", "ctl"} /\ proxmox \in {"yes", "no"}
  /\ cleaning \in {"yes", "no"}
  /\ proxmox = "no" =>
       transport = "ctl" \/ (transport = "ssh" /\ server = "yes")
  /\ (\E t \in Tests : kind[t] = "atomic") =>
       proxmox = "yes" \/ (transport = "ctl" /\ server = "yes")

TypeOK ==
  /\ Inputs
  /\ pc \in Pcs /\ cur \in Tests
  /\ budget \in {"ahead", "expired"} /\ wait \in {"ahead", "expired"}
  /\ execution \in Causes \ {"gate"}
  /\ launched \in SUBSET Tests /\ measured \in SUBSET Tests
  /\ cleaned \in SUBSET Tests
  /\ entries \in Seq(Tests) /\ deferred \in Seq(Tests)
  /\ result \in [Tests -> [status : Statuses \cup {"none"}, cause : Causes]]
  /\ report \in {"none", "written"}
  /\ exit \in {"none", "returned", "raised", "broken"}

Init ==
  /\ Inputs
  /\ pc = "gate" /\ cur = 1
  /\ budget = "ahead" /\ wait = "ahead"
  /\ execution = "none"
  /\ launched = {} /\ measured = {} /\ cleaned = {}
  /\ entries = <<>> /\ deferred = <<>>
  /\ result = [t \in Tests |-> NoResult]
  /\ report = "none" /\ exit = "none"

-----------------------------------------------------------------------------
At(here) == pc = here /\ UNCHANGED input

Goto(p) == pc' = p /\ UNCHANGED <<cur, budget, wait>>

(* An exception nothing in run catches: no report, whatever was measured.  *)
Propagate ==
  /\ pc' = "stopped"
  /\ exit' = "raised"
  /\ UNCHANGED <<cur, budget, wait, execution, guest, book, report>>

Running == UNCHANGED <<report, exit>>

(* Mutant of NextTest: the loop runs once too often.                       *)
NextTestOffByOne ==
  IF cur > N
    THEN pc' = (IF pc = "live" THEN "finish" ELSE "cleanup") /\ UNCHANGED cur
    ELSE pc' = (IF pc = "live" THEN "live" ELSE "begin") /\ cur' = cur + 1

(* report["tests"].append(item), then the next test or the cleanup.        *)
NextTest ==
  IF cur = N
    THEN /\ pc' = IF pc = "live" THEN "finish" ELSE "cleanup"
         /\ UNCHANGED cur
    ELSE /\ pc' = IF pc = "live" THEN "live" ELSE "begin"
         /\ cur' = cur + 1

Record(status, cause) ==
  /\ entries' = Append(entries, cur)
  /\ result' = [result EXCEPT ![cur] = [status |-> status, cause |-> cause]]

Finish(status, cause) ==
  /\ Record(status, cause)
  /\ NextTest
  /\ UNCHANGED <<budget, wait, execution, guest, deferred>>
  /\ Running

(* Mutants of Conclude: the cleanup is run at once, or only the last one   *)
(* is kept.                                                                *)
ConcludeAndClean(status) ==
  /\ Record(status, "none")
  /\ cleaned' = IF kind[cur] = "atomic" /\ cleaning = "yes"
                  THEN cleaned \cup {cur} ELSE cleaned
  /\ NextTest
  /\ UNCHANGED <<budget, wait, execution, launched, measured, deferred>>
  /\ Running

ConcludeKeepsLast(status) ==
  /\ Record(status, "none")
  /\ deferred' = IF kind[cur] = "atomic" /\ cleaning = "yes"
                   THEN <<cur>> ELSE deferred
  /\ NextTest
  /\ UNCHANGED <<budget, wait, execution, guest>>
  /\ Running

(* The end of the loop body, the only place where an Atomic test is queued *)
(* for its cleanup: every other end of a test is a "continue" before it.   *)
Conclude(status) ==
  /\ Record(status, "none")
  /\ deferred' = IF kind[cur] = "atomic" /\ cleaning = "yes"
                   THEN Append(deferred, cur) ELSE deferred
  /\ NextTest
  /\ UNCHANGED <<budget, wait, execution, guest>>
  /\ Running

Continue(p) ==
  /\ Goto(p)
  /\ Running
  /\ UNCHANGED <<execution, guest, book>>

(* Mutant of WithinBudget: the entry is appended, but no "continue".       *)
WithinBudgetFallsThrough(p) ==
  \/ /\ budget = "expired"
     /\ Record("infra_blocked", "wall_timeout")
     /\ Goto(p)
     /\ Running
     /\ UNCHANGED <<execution, guest, deferred>>
  \/ budget = "ahead" /\ Continue(p)

(* The checks "if deadline_expired(test_deadline)" between the steps.      *)
WithinBudget(p) ==
  \/ budget = "expired" /\ Finish("infra_blocked", "wall_timeout")
  \/ budget = "ahead" /\ Continue(p)

-----------------------------------------------------------------------------
(* Preflight, agent or telemetry not ready: every test is marked, and the  *)
(* report written.                                                         *)
LiveOnly == transport = "ctl" /\ proxmox = "no" /\ server = "no"

GateBlocks ==
  /\ At("gate")
  /\ ~ LiveOnly
  /\ entries' = [t \in Tests |-> t]
  /\ result' = [t \in Tests |-> [status |-> "infra_blocked", cause |-> "gate"]]
  /\ pc' = "stopped" /\ report' = "written" /\ exit' = "returned"
  /\ UNCHANGED <<cur, budget, wait, execution, guest, deferred>>

GatePasses ==
  /\ At("gate")
  /\ \/ Continue(IF LiveOnly THEN "live" ELSE "begin")
     \/ Propagate

(* Without Proxmox and server: execute through the live response client,   *)
(* whose failures all count as failures of the channel.                    *)
LiveTest ==
  /\ At("live")
  /\ UNCHANGED <<budget, wait, execution, measured, cleaned, deferred>>
  /\ Running
  /\ NextTest
  /\ \/ /\ kind[cur] = "none"
        /\ Record("skipped", "none")
        /\ UNCHANGED launched
     \/ /\ kind[cur] # "none"
        /\ Record("transport_only", "none")
        /\ launched' = launched \cup {cur}
     \/ /\ kind[cur] # "none"
        /\ Record("infra_blocked", "channel")
        /\ launched' \in {launched, launched \cup {cur}}

(* server_utc_now falls back to its last reading when the answer is not a  *)
(* time; it raises when it has none, or when the connection is gone.       *)
ServerFails == server = "yes" /\ Propagate

(* A new test: its budget starts; a test without a command is skipped, one *)
(* with a precondition_command goes through it.                            *)
Begin ==
  /\ At("begin")
  /\ \/ kind[cur] = "none" /\ Finish("skipped", "none")
     \/ /\ kind[cur] # "none"
        /\ pc' \in {"precondition", "driver_before"}
        /\ budget' = "ahead" /\ wait' = "ahead" /\ execution' = "none"
        /\ UNCHANGED <<cur, guest, book>>
        /\ Running
     \/ ServerFails

(* Any failure of the precondition blocks the test, whatever it was.       *)
Precondition ==
  /\ At("precondition")
  /\ \/ Finish("infra_blocked", "precondition")
     \/ budget = "ahead" /\ Continue("driver_before")

DriverBefore ==
  /\ At("driver_before")
  /\ Continue("execute") \/ ServerFails

(* Not started when the budget is gone; otherwise answered with an exit    *)
(* code, failed in the channel's own words ("timed out", "qga"), or lost   *)
(* with an exception of the connection, before or after it started.        *)
Execute ==
  /\ At("execute")
  /\ Goto("post_clock")
  /\ Running
  /\ UNCHANGED <<measured, cleaned, book>>
  /\ \/ /\ budget = "expired"
        /\ execution' = "wall_timeout"
        /\ UNCHANGED launched
     \/ /\ budget = "ahead"
        /\ execution' \in {"none", "command"}
        /\ launched' = launched \cup {cur}
     \/ /\ budget = "ahead"
        /\ execution' \in {"channel", "dropped"}
        /\ execution' = "dropped" => kind[cur] # "caldera" /\ transport # "ctl"
        /\ launched' \in {launched, launched \cup {cur}}

PostClock ==
  /\ At("post_clock")
  /\ Continue("verdict") \/ ServerFails

(* classify_execution_failure: an error that names CALDERA, the guest      *)
(* agent or a command that timed out, or that the live response client     *)
(* reported, is the infrastructure's; any other is the test's.             *)
ThroughClient == kind[cur] = "caldera" \/ transport = "ctl"

Classify(cause) ==
  IF cause = "channel" \/ (cause = "command" /\ ThroughClient)
    THEN "infra_blocked" ELSE "execution_failed"

LiveResponse == transport = "ctl" /\ kind[cur] # "caldera"

Verdict ==
  /\ At("verdict")
  /\ \/ execution # "none" /\ Finish(Classify(execution), execution)
     \/ /\ execution = "none" /\ LiveResponse /\ persisted = "no"
        /\ Finish("transport_only", "none")
     \/ /\ execution = "none" /\ (LiveResponse => persisted = "yes")
        /\ WithinBudget("observe")

(* The observation sleep; without a server there is nothing to measure.    *)
Observe ==
  /\ At("observe")
  /\ \/ server = "yes" /\ Continue("post_sleep")
     \/ /\ server = "no"
        /\ Conclude(IF LiveResponse THEN "transport_only" ELSE "no_evidence")

PostSleep ==
  /\ At("post_sleep")
  /\ WithinBudget("wait")

(* Mutant of PollEvidence: the deadline of the wait is not looked at.      *)
PollUntilReady ==
  /\ At("wait")
  /\ Continue("nap") \/ Continue("end_clock") \/ Propagate

(* wait_for_expected_evidence: poll, and sleep, until the evidence is      *)
(* there or the deadline of the wait has passed.                           *)
PollEvidence ==
  /\ At("wait")
  /\ \/ wait = "ahead" /\ Continue("nap")
     \/ Continue("end_clock")
     \/ Propagate

Nap == At("nap") /\ Continue("wait")

(* evidence_ended is read: the window of this test is closed.              *)
EndClock ==
  /\ At("end_clock")
  /\ \/ /\ Goto("summary")
        /\ Running
        /\ measured' = measured \cup {cur}
        /\ UNCHANGED <<execution, launched, cleaned, book>>
     \/ Propagate

EventSummary ==
  /\ At("summary")
  /\ WithinBudget("samples") \/ Propagate

EventSamples ==
  /\ At("samples")
  /\ WithinBudget("collect") \/ Propagate

(* Alerts, detections, driver health, logs: no budget check follows them.  *)
ScoreTest ==
  /\ At("collect")
  /\ Conclude("scored") \/ Propagate

-----------------------------------------------------------------------------
(* After the loop: the deferred cleanups in order, always through the      *)
(* Proxmox host, then the report.                                          *)
Cleanup ==
  /\ At("cleanup")
  /\ deferred # <<>>
  /\ \/ /\ proxmox = "yes"
        /\ cleaned' = cleaned \cup {Head(deferred)}
        /\ deferred' = Tail(deferred)
        /\ Running
        /\ UNCHANGED <<pc, cur, budget, wait, execution, launched,
                       measured, entries, result>>
     \/ proxmox = "yes" /\ Propagate
     \/ /\ proxmox = "no"                  \* guest_command(None, ...)
        /\ pc' = "stopped" /\ exit' = "broken"
        /\ UNCHANGED <<cur, budget, wait, execution, guest, book, report>>

CleanupDone ==
  /\ At("cleanup")
  /\ deferred = <<>>
  /\ Continue("finish") \/ ServerFails

WriteReport ==
  /\ At("finish")
  /\ pc' = "stopped" /\ report' = "written" /\ exit' = "returned"
  /\ UNCHANGED <<cur, budget, wait, execution, guest, book>>

-----------------------------------------------------------------------------
BudgetExpires ==
  /\ pc \in LoopPcs \ {"live", "begin"} /\ budget = "ahead"
  /\ budget' = "expired"
  /\ UNCHANGED <<input, pc, cur, wait, execution, guest, book, report, exit>>

WaitExpires ==
  /\ pc \in {"wait", "nap"} /\ wait = "ahead"
  /\ wait' = "expired"
  /\ UNCHANGED <<input, pc, cur, budget, execution, guest, book, report, exit>>

Stopped == pc = "stopped" /\ UNCHANGED vars

Runner ==
  \/ GateBlocks \/ GatePasses \/ LiveTest \/ Begin \/ Precondition
  \/ DriverBefore \/ Execute \/ PostClock \/ Verdict \/ Observe
  \/ PostSleep \/ PollEvidence \/ Nap \/ EndClock
  \/ EventSummary \/ EventSamples \/ ScoreTest
  \/ Cleanup \/ CleanupDone \/ WriteReport

Next == Runner \/ BudgetExpires \/ WaitExpires \/ Stopped

Spec == Init /\ [][Next]_vars

(* Every remote call has a timeout and every sleep an end; time passes.    *)
FairSpec == Spec /\ WF_vars(Runner) /\ WF_vars(WaitExpires)

-----------------------------------------------------------------------------
(* The report has one entry per selected test, in the order selected: no   *)
(* "continue" of the loop is missing, and none skips the entry.            *)
OneEntryPerTest == report = "written" => entries = [t \in Tests |-> t]

(* A scored test was executed, its execution succeeded, and its evidence   *)
(* window had been closed before the evidence was counted; a test that is  *)
(* not run because its budget or its precondition failed is never scored.  *)
ScoredWasMeasured ==
  \A t \in Tests : result[t].status = "scored" =>
    t \in launched \cap measured

(* The reason the report gives for deferring the cleanups: none of them    *)
(* runs before the window of every test of the run has been dealt with.    *)
CleanupAfterWindows ==
  cleaned # {} => \A t \in Tests : result[t] # NoResult

(* With --atomic-cleanup, every Atomic test whose result stands (scored,   *)
(* or executed with no server to ask) has had its cleanup command answered *)
(* when the report is written: what was measured is not left in place.     *)
MeasuredAreCleaned ==
  report = "written" /\ cleaning = "yes" =>
    \A t \in Tests :
      kind[t] = "atomic" /\ result[t].status \in {"scored", "no_evidence"} =>
        t \in cleaned

(* A run is a campaign as in Campaign: one test after the other, each      *)
(* result from what was launched and each score from a closed window, the  *)
(* cleanups when every test has its entry, and the report when none is     *)
(* owed; a run that ends early promises no report.                         *)
Due    == {t \in Tests : kind[t] = "atomic" /\ cleaning = "yes"}
Stands == {t \in Tests : result[t].status \in {"scored", "no_evidence"}}
Scored == {t \in Tests : result[t].status = "scored"}
Owed   == {deferred[i] : i \in 1 .. Len(deferred)}
Run == INSTANCE Campaign WITH
  due <- Due, closed <- measured, stands <- Stands, scored <- Scored, owed <- Owed
IsCampaign == Run!Spec

(* The run ends, whatever the tests do: no wait is unbounded.              *)
Ends == <>(pc = "stopped")

(* The help text of --atomic-cleanup: the cleanup is run after each        *)
(* upstream Atomic test; here, after each one that was launched.           *)
LaunchedAreCleaned ==
  report = "written" /\ cleaning = "yes" =>
    \A t \in launched : kind[t] = "atomic" => t \in cleaned

-----------------------------------------------------------------------------
(* Why these hold: the entries are those of the tests before the current   *)
(* one, the current test has gone through every step before this one, and  *)
(* what is to be cleaned up is queued until it is cleaned up.              *)
First(n) == [t \in 1 .. n |-> t]

EntriesInv ==
  /\ pc = "gate" => cur = 1 /\ entries = <<>>
  /\ pc \in LoopPcs => entries = First(cur - 1)
  /\ pc \in {"cleanup", "finish"} \/ report = "written" => entries = First(N)
  /\ report = "written" => pc = "stopped"

ProgressInv ==
  /\ pc \in {"post_clock", "verdict"} /\ execution = "none" => cur \in launched
  /\ pc \in {"observe", "post_sleep", "wait", "nap", "end_clock", "summary", "samples",
             "collect"} => cur \in launched
  /\ pc \in {"summary", "samples", "collect"} => cur \in measured
  /\ ScoredWasMeasured

OrderInv ==
  /\ pc = "gate" => launched = {}
  /\ pc \in LoopPcs \cup {"gate"} => \A t \in Tests : t >= cur => result[t] = NoResult
  /\ pc \in LoopPcs => \A i \in 1 .. Len(deferred) : deferred[i] < cur
  /\ \A i, j \in 1 .. Len(deferred) : i < j => deferred[i] < deferred[j]

Waiting(t) == \E i \in 1 .. Len(deferred) : deferred[i] = t

CleanupInv ==
  /\ pc = "gate" => cur = 1
  /\ pc \in LoopPcs \cup {"gate"} => cleaned = {}
  /\ pc \in LoopPcs => \A t \in 1 .. cur - 1 : result[t] # NoResult
  /\ pc \in {"cleanup", "finish"} => \A t \in Tests : result[t] # NoResult
  /\ pc \in {"gate", "live", "finish"} => deferred = <<>>
  /\ CleanupAfterWindows
  /\ \A t \in Tests : /\ kind[t] = "atomic" /\ cleaning = "yes"
                      /\ result[t].status \in {"scored", "no_evidence"}
                     => t \in cleaned \/ Waiting(t)
  /\ report = "written" =>
       pc = "stopped" /\ (deferred = <<>> \/ \A t \in Tests : result[t].cause = "gate")
  /\ \A t \in Tests : result[t].cause = "gate" => result[t].status = "infra_blocked"

=============================================================================
