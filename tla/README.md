# TLA+ verification of tamandua-detection-validation

The repository holds the programs that validate the Tamandua endpoint agent:
they drive lab machines and containers, execute tests on them, collect the
evidence a server has stored, and write receipts and reports about what was
observed. The value of such a report is that it says nothing that did not
happen, that nothing of a run is left behind in the lab, and that the run ends
with a report even when the lab fails. A further program writes launchers with
which jobs and agents work through packages of such runs side by side. These
specifications are about those promises. Paths are relative to the repository;
`H` stands for `scripts/run_elixir_postgres_runtime_validation.py`, `D` for
`scripts/tamandua_detection_validation.py`, `W` for
`scripts/elixir_check_locked_probe_worker_parent.py`, and `P` for
`scripts/run_preflight_work_package.py`.

## The system

| part | state | operations | interacts with |
|---|---|---|---|
| owned PostgreSQL runtime harness (`H`, owned mode) | ids of what it created, source digests, deadline, receipt | pin, preflight, stage, create network and database, wait ready, two phases, bootstrap, audits, cleanup, receipt | docker daemon, worktree |
| the same harness, shared mode (`H` 618-741) | runner id, ownership of the test database | preflight, stage, start the runner, wait for it, look at its marker, cleanup | docker daemon, a database container of somebody else, the script in the runner |
| validation run (`D` 6066-7000) | current test, its budget, entries of the report, deferred cleanups | gates, precondition, execution, observation, evidence, score, cleanup, report | endpoint (QGA, ssh, live response), evidence server, CALDERA |
| CALDERA operation client (`D` 1417-2086) | operation id, polls, kept answers, proof | agent preflight, create, poll, detail, stop, look again, conclude | CALDERA server and agent |
| evidence window and scoring (`D` 2292-4520) | cached server clock, window of a test, rows found | open the window, move it to a CALDERA proof, wait for evidence, close it, query, drop stale rows, score | evidence server, endpoint and CALDERA clocks |
| dispatch of preflight work packages (`P`, the PowerShell it generates) | claim locks, output directories, `agent_status.json`, waves that failed, results | take or reset a claim lock, run a package, report its status, walk the waves, start a stage and wait for it, promote the results | jobs of the one-shot runner, agents, the file system |
| launch plan (`P` 1226-1513, 2078-2170, 3020-3144) | tags taken so far | choose what a launcher, a stage or a batch starts together | the launchers written from it |
| check-locked probe: parent of a worker (`W`) | child process, a writer and two reader threads, events, combined limit, receipt | launch, contain, feed, drain, kill, join, judge, snapshot, validate the receipt | the worker and what it starts, pipes |
| check-locked probe: adapter, its parent, receipt | a second such boundary around the first | the same, nested | child processes |
| Proxmox and guest agent transports | guest-exec pid, attempts | start a command, poll its status, retry, power cycle | Proxmox API |
| archive of stale runs | files of a run, age | plan and move | file system |
| IOC authority multinode smoke | nodes, epochs | publish, advance, check | a cluster |
| runner image build, authority refresh, economy replay gate | staged context, manifest, ledger | build, regenerate, replay | docker, files |
| readiness probes, gates, scorecards, roadmaps, status consistency | documents | read, check, merge, write | files |
| profiles, schemas, fixtures, benchmark documents | data | | |

What is hard in this code is not its data but its order: a docker client that
gives up while the daemon goes on; four resources that are removed one after
the other while some removals fail; a dirty worktree that is edited during the
run; a test loop whose body has ten exits; a budget that may run out between
any two of its steps; an operation server that answers late, partially, or
never; threads that go on reading while the parent is already reporting; a clock that
answers from its cache while rows arrive late; jobs and agents that meet only in
files. The tests of the repository replace `Commands`, `caldera_request` and
the hosts by objects that answer at once and in order, so these interleavings
are what they do not reach. `PROJECT.json` lists them as hazards, each at its
line, with the properties that cover it, the module planned for it, or why no
property bears on it.

## Modules

`OwnedRuntime` is one invocation of the harness with `--execute
--owned-database`, the docker daemon, and everybody else who uses the daemon or
the worktree. Every docker command is one action. A command may fail or time
out with its effect done or not; a creation may also still be *pending* in the
daemon, and be completed at any later time, after cleanup too (`LateCreation`).
`held` says which object sits under each of the four generated names; an object
has an owner, read from the invocation label, and an id that is never used
again. `Disturb` lets another user remove, stop or recreate an object or take a
name, `MaxDisturbances` times. `EditSource` changes the worktree, also back
again, and damages the staged copy; it is enabled by the constant `Editing`.
`Kill` is a kill that runs no `finally`. The control state `pc` follows
`owned_execute` and `owned_cleanup` line by line: a failing step is `Raise`,
which enters cleanup with `raised = "yes"`.

`EphemeralHarness` is the abstract specification: a harness acquires resources
only while it works, afterwards only releases, and passes with nothing left and
nothing to come. Both modes implement it (`IsEphemeral`, a refinement
mapping that counts a pending creation as residue).

`SharedRuntime` is the same harness with `--execute` against a database
container of somebody else. Here the work is done inside the runner, by a script
that creates the test database, marks it with a comment, and drops it in a trap
(`SendCreate`, `CreateDatabase`, `MarkDatabase`, `EndScript`), while the harness
waits for its docker client and afterwards only looks from outside. `pc` follows
`execute` and `cleanup`. When the client is lost, the runner may be created
later (`LateRunner`), started later, or go on beside the cleanup; when the runner
is killed in the middle of `CREATE DATABASE`, postgres may still complete it
(`LateDatabase`). `Disturb` lets others remove the runner, take its name or lose
the database. The mapping to `EphemeralHarness` has one resource, the invocation
as a whole: its runner and its database are created one by the other.

`ValidationRun` is the execute path of `run`: the gates before the loop, both
loops (with and without Proxmox and server), the deferred Atomic cleanup and
the report. One action is one stretch of the loop body between two points where
it can leave: by `continue` with an entry (`Finish`), at the end of the body
(`Conclude`, the only place that queues a cleanup), or by an exception nothing
catches (`Propagate`). Which test has which executor, the transport, the hosts
and the options are chosen in `Init` among those `run` accepts. The budget of a
test and the deadline of the evidence wait are each `"ahead"` or `"expired"`,
and may expire at any moment.

`Campaign` is the abstract specification of such a run: tests are dealt with one
after the other, a result that stands comes from a command that was launched, a
score from a window that was closed, a cleanup that is owed waits for the last
test, and the report for the last cleanup. `ValidationRun` implements it
(`IsCampaign`); the exits of the loop body are its `Enter`, the end of the body
its `EnterComplete`.

`CalderaOperation` is `run_caldera_operation` together with the server and the
agent. Every answer is a snapshot of the operation at that moment, or nothing
usable; a request that changes the server may have had its effect without an
answer. Links go from queued to ok or failed at any time, while the operation
runs or after. A link without an ability id stands for the only links the code
ever counts as failed.

`WorkerBoundary` is the parent of an untrusted worker: `_run_worker` with its
writer thread and its two reader threads, on POSIX and on Windows, then the
judgement of the response, the snapshot after the run, and the receipt with the
state machine that validates it. Bytes are counted, not looked at. A reader's
loop is split where another thread can come in between: the read, the event
`stderr_seen`, the acceptance under `budget_lock`, the end or the error, and the
death of the thread after `finally`. The arguments of the failure are read in
three steps (`Report`), since threads that outlived the joins still set the
events they come from. The worker, whatever it has started, the pipes and the
clock are the environment; the clock is `"early"`, `"late"` from
`execution_deadline` on, and `"over"` from `total_deadline` on. Once
`_run_worker` has returned, nothing of the threads is read any more, and the
model stops them.

`ClaimDispatch` is the generated PowerShell as it runs. A job of the one-shot
runner is named by its package; an agent runs a package on its own, straight
from the script (`"direct"`), after a claim command (`"claimed"`), or as its
prompt says (`"prompted"`). Both go through the lock helper, whose test and
creation are two steps, the check of the environment, which comes before the
lock, the commands, each of which may write one output and may fail, and
`Write-AgentStatus`. The runner walks the waves, skips one whose dependencies do
not hold, starts the stages of the staged launcher (or package after package)
and promotes the results at the end, listing the outputs of a package in one
step and reading its status in the next. A process may be killed anywhere, and
an operator may reset a lock with `-Force`. What was decided when the launchers
were written, from tags to stages, is a constant; `PlanAssumption` says that
packages of one stage that a launcher may start have no tag in common.

`ClaimLease` is the abstract specification of the claim locks: a lock is taken
when it is free, is good for one run by the process that took it, and is given
back by an operator only; a reset under a process that relies on it breaks the
lease of that package. `ClaimDispatch` implements it (`IsLease`) with its test
and its creation in two steps, two ways to come to the script with a lock, and
kills anywhere.

`WavePlan` is where that comes from. The same greedy choice is written four
times, for the parallel launcher, for `launcher_selected`, for the stages of the
staged launcher and for the batches of ready claims; each is a loop over
packages in an order of its own. The last goes over other packages than the
first three: a claim is ready (`ReadyClaims`) when the owner launch plan names
nothing that blocks it (`P` 1957-1985), and an unselected package is left for a
manual launch there, so that only serial packages and those of the parallel
launcher are batched, less those `held` back: by a status of fail, blocked or
invalid, or because the next action that status reports lacks its environment.
`held` is chosen among the `HeldSets` as the claims are written. What the module
promises of a finished plan
(`StagesKeepApart`) is `PlanAssumption` of `ClaimDispatch`.

`EvidenceWindow` is what `ValidationRun` leaves abstract: the times. The
database's clock may be answered from the cache, the endpoint's and CALDERA's
clocks have skews, events are ingested any time after they happened. It follows
a test from `test_started` to its score: the window moved to a CALDERA proof
whose clock is near enough, polls of the evidence wait, the end of the window,
three queries at different moments, each of which may fail, and the filter for
stale rows. All tests expect the same event and rule, so that a row of one can
be taken for a row of another.

The `MC` modules instantiate these for TLC. `OwnedRuntimeProofs`,
`SharedRuntimeProofs`, `ValidationRunProofs`, `CalderaOperationProofs`,
`WorkerBoundaryProofs`, `ClaimDispatchProofs`, `WavePlanProofs` and
`EvidenceWindowProofs` hold the theorems. Operators named after a definition with a
suffix (`TakeLockReplaces`) are mutants: plausible bugs, used to see that each
property can be broken by the code.

## What is checked

| run | bounds | checks |
|---|---|---|
| `owned` | one disturbance, any number of edits; 705 078 states | types; a pass leaves nothing, now or later, and was earned on the recorded source; residue is reported by its own outcome; only what is recorded as the invocation's own is removed; always a receipt; implements `EphemeralHarness` |
| `shared` | two disturbances; 5 166 states | types; a verified cleanup has left neither runner nor database but those a lost client had asked for; implements `EphemeralHarness` |
| `validation` | two tests; 290 892 states | types; one entry per test in order; what was measured is cleaned; implements `Campaign`: a score rests on a launched command and a closed window, cleanups come after the last test, the report after the last cleanup; the run ends |
| `validation_cleanup` | one test | violated, see below |
| `caldera` | two abilities, one link without id; 1 596 455 states | types; success means every ability was dispatched; a known operation is not abandoned; the proof keeps its links; the client concludes |
| `caldera_queued` | the same | violated, see below |
| `worker` | limits of one byte, two bytes written, chunks and pipes of two; 939 517 states | types and the limit; what a receipt says is so, that stderr was empty included; an observation is whole; the category is real; only a late overflow is refused; the parent ends |
| `dispatch` | three packages in two waves, two of them overlapping, one agent that claims the first or runs the second directly, two outputs of the first and one of the others, one forced reset; 625 335 states | types; one runner per package; a promoted pass is current; overlapping packages are never alive together; a dependent wave starts after evidence; implements `ClaimLease`; the dispatch ends |
| `dispatch_chain` | three waves, the last on the others; no agents | violated, see below |
| `dispatch_own_lock` | as `dispatch`, the agent following its prompt | violated, see below |
| `plan` | four packages, three tags, four tag sets, two scores, at most one package serial or blocked, or two serial ones, at most one held back; 1 191 168 states | types; nothing that starts together overlaps; the four copies agree, the last one on what the parallel launcher starts |
| `evidence` | two tests, five minutes, clocks right, endpoint ahead, or endpoint behind and CALDERA ahead; 7 097 270 states | types; the window covers what the test provoked; what the wait found is found again; a test is covered by its own detection |

The bounds. One disturbance is enough to separate the two looks at a resource
in cleanup, and the proofs cover any number. Two tests
give a first, a last, and a test before and after another. Two abilities make
"some" differ from "every", and the third link brings failures. `polls` counts
modulo three, since only every third poll differs. The worker can write one
byte more than the limit, and than a response may have, on one stream or spread
over both, in one chunk or in two; more bytes repeat these cases, and the proofs
cover every number. In `dispatch` the first wave has two stages and a package
without its environment, so that a job can be blocked, refused by the agent's
lock, killed or wait for its stage; a second output of one package can change
its newest evidence; the proofs cover any number of packages, agents, waves, outputs,
resets and dispatches. In `plan` four packages over these tags make two to four
stages, in every order of impact and of ids; two serial packages, one before and
one after the others by id, can clash with each other and with the launcher's,
and a single one held back leaves the launcher's batch with one package or with
several. In `shared` two disturbances can
remove the runner and give its name to somebody else, or take the database as well. In `evidence` the seconds of the code are scaled: lookback and
tail one minute, staleness two, so that a row can be in the lookback, late, or
stale within the five minutes; the 5 and the 30 seconds added to the ends of windows are
zero, which is the harder case for a window that has to reach far enough. No
constraint cuts off states. Deadlock is checked in `owned`, `validation`,
`caldera`, `worker` and `shared`, where a stopped system stutters; it is not in the runs of `ClaimDispatch`,
`WavePlan` and `EvidenceWindow`, which simply stop when their work is done.

Four runs end in a violation; each one is a finding in `PROJECT.json`, with the
sentence of the repository it disagrees with.

- `validation_cleanup`: an Atomic test that failed or ran over its budget after
  it was launched is not cleaned up.
- `caldera_queued`: a queued link counts as executed.
- `dispatch_chain`: a wave that depends on a wave with dependencies of its own
  is skipped although all evidence is green: packages with dependencies are
  never selected by a launcher, and the check (`P` 7195) calls a wave without
  selected packages missing, although `P` 6898 promises that it waits for green.
  `ChainsSkipped` proves that this is so in every manifest.
- `dispatch_own_lock`: the prompt (`P` 1147) tells an agent to take the claim
  lock before the package script, and the script (`P` 733) takes it again and is
  refused by it. `PromptedAreRefused` proves that such an agent never gets to a
  command, unless somebody resets the lock in between.

Met while modelling, and visible in the models without a run of their own:

- `zero_residue` (`H` 819) is one look at each name; the daemon may complete a
  creation after it. Such a receipt is never a pass (`PassMeansClean`).
- A budget that is gone before the execution is recorded as `execution_failed`
  (`D` 6654), not as the gap the help text promises.
- The deferred cleanup always goes through Proxmox (`D` 6973), also in the
  accepted configuration without it; the report is lost.
- The evidence wait counts every detection of the window (`D` 3037), also those
  the score then drops as stale (`D` 4172, 2387): a late flush ends the wait
  promised by its help text (`D` 7168) and is then not counted.
- In the shared mode a runner that was lost leaves its database: ownership is
  only computed after its state was found right (`H` 714-718). The receipt says
  so.
- A kept detail answer of CALDERA is preferred to a newer poll (`D` 1893).
- An overflow found after `worker_timeout` was settled on is refused by the
  validator of the same module (`W` 552), and there is no receipt.
  `OnlyLateOverflowRefused` shows that this is the only way to lose one.

**Fairness.** Every subprocess, HTTP request and ssh command of this code has a
timeout, so the program always takes a next step: weak fairness of the
program's actions (`Harness`, `Runner`, `Client`, `Parent`). Time passes: weak
fairness of the deadlines a loop looks at. Nothing is assumed of the daemon, the
server, the agent, the worker or other users, and no fairness forces a command
to succeed. In `WorkerBoundary` only the parent's thread and the clock are fair:
a reader or the writer may be blocked for ever, and `Ends` holds all the same.
In `ClaimDispatch` the one-shot runner and its jobs are fair. Nothing in the
generated scripts bounds a command: that it ends is assumed of it, and for the
runs of `D` it is what `Ends` of `ValidationRun` says. Agents may stop anywhere;
kills and resets need not happen. `WavePlan` and `EvidenceWindow` have safety properties
only.

## What is proved

TLAPS proves, for every value of the constants (any number of disturbances,
edits allowed or not; any number of tests; any sets of abilities and links; any
sizes of limits, chunks, pipes and outputs; any packages, agents, waves, tags
and numbers of commands, resets and dispatches; any lookback, slacks and clock
errors):

- type correctness of all eight modules; for the worker's parent this says
  that no more is accepted than the combined limit, whatever the two readers
  take in turn;
- `PassMeansClean`, `NoUnreportedResidue` of the owned mode. They are not
  inductive: a pass is decided long after a creation was given up. `ResidueInv`
  adds that a pending creation always comes with a raised exception or a broken
  phase that is about to raise (`LateMeansRaised`), that outcomes are settled
  in the order of cleanup (`SettledInOrder`), and that a resource whose outcome
  is "absent" belongs to the invocation again only through a late creation
  (`AbsentStaysAbsent`);
- `PassMeansRecordedSource`, from `SourceInv`: the copy only goes from recorded
  to damaged, so the comparison after the last use speaks for all earlier uses,
  although the worktree itself may have been edited and edited back;
- the refinement `IsEphemeral` of the owned mode. `execute` only takes, `cleanup`,
  the daemon and other users only give or take away (`MayStep` says which in each
  phase), and the step that passes does so with the residue empty, by
  `ResidueInv`;
- `OnlyOwnRemoved`, from `IdInv`: ids in use have been handed out, so an object
  that takes a name later never has the id that cleanup looked at, and the id it
  is about to remove is not that of a foreign object;
- `VerifiedMeansGone` of the shared mode and, with it, the refinement
  `IsEphemeral`. `OriginInv` says what can still come: a runner only after its
  client was lost and before its script began, a database only while the script
  is at its creation, and nothing once the runner has ended well. `CleanInv` says
  that what cleanup has found absent is back only through such a request, because
  the runner is looked at before the database. The step simulation has one
  lemma for the world (`WorldMaps`), one for the steps that only look
  (`LooksMaps`), and one for those that act (`ActsMap`);
- `PassMeansTested` of the shared mode (`PassIsTested`): a receipt with the word
  pass comes from a script that got to its tests, though the harness only sees
  the exit code of a container that others can remove and recreate;
- `OneEntryPerTest`, from `EntriesInv` (the entries are those of the tests
  before the current one); `MeasuredAreCleaned`, from `CleanupInv` (what stands
  is cleaned or still in the queue, and the queue is emptied only after the
  loop). `ProgressInv` (a step is reached only through the ones before it)
  contains `ScoredWasMeasured`, and `CleanupInv` contains `CleanupAfterWindows`,
  both stated in `ValidationRun`;
- the refinement `IsCampaign` of the validation run (`RunIsCampaign`), from these
  and `OrderInv`: a test has no result before its turn, the queued cleanups are
  those of earlier tests, each once and in order, and a gate refuses the run
  before anything is launched. Each exit of the loop body maps to `Enter`, whichever of the ten it
  is, and only `Conclude` to `EnterComplete`;
- `SuccessMeansDispatched`, from `DispatchInv` (no kept answer shows a link the
  server does not have, and links do not vanish), and `NeverAbandoned`, from
  `StopInv` (the client leaves the operation without a stop only after the
  server said that it had ended); `ProofKeepsLinks` needs only `DispatchInv`;
- `ReportIsTrue` (with `EmptyMeansSilent`, its part on stderr), `ObservedIsWhole` and
  `OnlyLateOverflowRefused`, from `Inv`. `ReaderInv`
  says what the readers know: nothing taken is lost without an overflow, and
  what came from stderr has been seen, or will be before that reader does
  anything else. `ReportInv` says that what has been read stays true, because
  an observation is only believed of a reader that had ended before its events
  were read. `VerdictInv` says at each place of the parent which category can
  have been settled on; at the snapshot this gives `Settled`, from which each
  condition of the validator follows, except the one on a late overflow.
  `CauseIsReal` has an invariant of its own, `CauseInv`: the clock does not go
  back, the writer sets its event when it ends, and a failure to set up comes
  before any reader runs;
- `OverlapsSerialized` and `DependentsAfterEvidence` of the dispatch, from
  `JobsInv` (a job is alive only in the batch of the wave that is open, and no
  two packages of a batch overlap) and `EvidenceInv` (outputs are only appended, so
  evidence that was green when a wave was opened stays green);
- `OneRunner`, from `LockInv`: a process that relies on a lock is its creator,
  until a reset. A process relies on its lock at the commands, and already
  before them if its environment says that it has the lock, which is so only in
  the script (`AcquiredInv`);
- the refinement `IsLease` (`LocksAreLeases`), from `LockInv` and `HolderInv` (a
  lock that is taken was taken by a process that runs this package): a process
  begins to work only with a lock it took and has not used, whichever way it
  came, and the only step that breaks this is a reset under it;
- `PromptedAreRefused`, from `PromptInv` (a prompted process past the first
  helper holds the lock without knowing it), and `ChainsSkipped`, from `ChainInv`
  (a wave without packages to select never has evidence): the two findings of
  the dispatch, for every manifest and any interleaving;
- `ResultsPassIsCurrent`, from `StatusInv`: as long as the lock of a package was
  never reset, its creator ran to the end before a status of pass was written,
  nobody can run the package after it, and what the promotion listed is what
  there is;
- `NoOverlap` of the launch plan, from `OverlapInv`: the tags noted for a
  launcher, stage or batch are those of the packages in it. With
  it, `PlanAsAssumed`: the launchable packages of one stage of a finished plan
  have no tag in common, which is what `ClaimDispatch` assumes of its stages;
- `CopiesAgree`, from `CopiesInv`: all loops follow one greedy choice. The
  launcher and `launcher_selected` have chosen the same set as far as both have
  come, and a package clashes with every stage before its own. Of the ready
  claims those with a stage are of the first one, so that they are sorted before
  the serial packages and come to the first batch, whatever is held back: the
  ready claims start together what the parallel launcher starts. What that one
  leaves out (the later stages, a lone package) is in no batch at all, while the
  staged launcher starts it. The other half of the promise follows from it too:
  `NothingHeldBack`, a package is left out of a launcher, or put in a later
  stage, only because it clashes with what is started before it;
- `WindowCoversTest`, `ReadyStaysReady` and `CoveredIsOwn`, from `EvidenceInv`:
  what happened is past and belongs to the tests so far (`PastInv`), the start
  of a test that was read from the database is later than what earlier tests
  provoked (`WindowInv`), and a detection the wait has seen is inside the window
  as it is closed, because a reading of the clock never lies behind the one
  before, the cache included (`ReadyInv`);
- `NearsItsEnd`, in six modules: how many steps are left. `StepsLeft` counts
  down the places of the program that are still to come. Every step of the
  program makes it smaller and no step of anybody else makes it larger. The
  owned mode has at most 54 steps, but for readiness probes before the deadline;
  the shared mode 16; a validation run 16 N + 3, but for polls of the evidence
  wait before its deadline; the CALDERA client eight past its deadline, and the
  worker's parent fifteen past `execution_deadline`. A process of a dispatch has
  seven beside its commands, and the runner's part is not a number but an order:
  waves, phases, packages to start, the batch waited for, results unread.
  `WaitsForJobsOnly` adds that this runner always has a step, or a job in its
  script. These are the liveness properties `Reports`, `Ends` and `Concludes`
  without what only fairness gives, that a step which is possible is taken.

Each invariant was checked by TLC before it was proved. The assumptions are the
named `ASSUME`s of the modules: `MaxDisturbances` is a natural number,
`Editing` a Boolean, `N` a positive natural number, no link carries both an
expected ability and no id, and sizes are natural numbers, those of chunks and
pipes not zero. Of packages it is assumed that jobs and agents have different
names, that a wave depends on earlier waves only, that launchable packages of one stage do
not overlap (`PlanAssumption`, which `PlanAsAssumed` proves of `WavePlan`), that every package has a tag
(`package_resource_tags` never returns an empty list), and that a package has a
command. `Kinds` and `HeldSets` may be any sets of kinds and of packages held
back. Times are natural numbers, clock errors
are integers (`WindowAssumption`). Proofs follow one pattern: one step per action, with
lemmas for the ways an action can end (`Raise`, `Settle`, `Finish`, `Conclude`,
`Propagate`).

Model-checked only: the liveness properties `Reports`, `Ends` (of three modules)
and `Concludes`, since that a step is taken rests on fairness and ENABLED, which
are out of the prover's reach; `NearsItsEnd` is as much of them as can be
proved. All other properties of passing runs are theorems.

## Assumptions and what is left out

- A name holds one object, containers are not renamed, and ids are not reused.
  A resource carries the invocation label or does not; a copy of the label on a
  recreated container is possible (`Disturb`).
- The staged copy is private; it may be damaged, not repaired.
- `owned_pin_and_check` and the second inspection of the images in
  `owned_execute` are one step. Validation of sizes, UTF-8 and id formats is
  part of "the command failed". An `OSError` of a file operation is caught by
  neither `run` nor the model's `Report`; it still goes through cleanup.
- In `SharedRuntime` nobody else copies the label, restarts the runner or writes
  a marker. The checks of the database container's identity and endpoint, of the
  sources and of the audit are single outcomes. A `DROP DATABASE` that outlives
  its client is the loss of the database in `Disturb`. `shared` is also the mode
  of a run without `--execute`, which only inspects and is left out.
- An Atomic test names its technique (every profile of the repository does), so
  that it has a cleanup command; `cleaned` means that this command was answered.
- `dropped` is an exception of a connection whose text has none of the words
  `classify_execution_failure` looks for; a command that prints such a word is
  the cause `channel`.
- The report is written at the end only; a run that is killed leaves none, and
  is not modelled.
- `ValidationRun` takes an execution through CALDERA as one step with an
  outcome; `CalderaOperation` is that step.
- The worker boundary starts where the manifest and the request are built; the
  request always fits its limit. Killing a process group kills all of it that
  has not left its session, and process ids are not reused; a process that left
  may go on writing, which the model allows whatever was killed. A receipt
  satisfies its JSON schema.
- The output directory of a package is not below `docs/benchmarks/runs`, where
  the promotion would add artifacts the status declares (`P` 8427-8438), and the
  newest output of a profile is the last by its name. An agent writes its status
  only through the package script. The refresh of the manifest, launchers
  started by hand beside the one-shot runner, and a kill of that runner itself
  are left out. So is the promotion's refusal of a manifest whose preflight is
  not the latest (`validate_dispatch_manifest_source`, `P` 89-102, 9357), which
  ends it before it judges a package: the manifest of the model is the latest.
- `WavePlan` is one wave, planned once. The batches of claims that only wait for
  an environment (`env_bundle_ready_claims_payload`, `P` 4360-4378), which their
  own launcher and the spawn plan make with the same loop, are left out.
- `ClaimDispatch` allows both answers to what PowerShell calls a job that ended
  by `exit n`, since the repository does not say.
- In `EvidenceWindow` what a test provokes happens while it executes, and there
  is time between one execution and the next test. Tests given up on the budget
  are those of `ValidationRun`. The limit of samples is not reached, an agent id
  is given, and alerts, fields, driver health and logs are left out. No check of
  the budget follows the last queries (`D` 6888).
- Not modelled at all: the local target loop and the dry run of `D`, scores and
  quality gates, and the parts `PROJECT.json` lists as `not_modelled` with
  their reasons.

## Plan

Done: the eight components above, in order of what a wrong result would cost.
Next, in this order:

1. `AdapterBoundary`: the second boundary, around the first, whose parent
   writes before it watches the deadline; promise: it ends, with a receipt that
   its validator accepts.
2. `QgaExec` (`D` 464-608): guest-exec with retries; promise: how often a
   command starts.
3. `ArchiveStaleRuns`, `EconomyReplay`, `IocAuthority`: small sequential
   algorithms against reference definitions.

## Running

In this directory, `tlc -config MCOwnedRuntime.cfg MCOwnedRuntime` checks a run
(the eight passing runs take between a second and three and a half
minutes each), and `tlapm SharedRuntimeProofs.tla` checks the proofs of a module.
