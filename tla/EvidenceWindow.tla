---- MODULE EvidenceWindow ----
(* The evidence windows of consecutive tests in run
   (tamandua_detection_validation.py): which rows of the server's database
   count for a test.  Every test provokes at most one event, with a detection,
   and all tests expect the same event type and rule, so that a row of one
   test can be taken for a row of another.  Times are minutes of the
   database clock; the endpoint and CALDERA have clocks of their own.        *)
EXTENDS Integers

CONSTANTS
  N,           \* bound: number of tests
  MaxTime,     \* bound: the last minute
  Lookback,    \* --evidence-lookback-seconds
  EndSlack,    \* added to the clock for the end of a window
  ProofSlack,  \* added to the end of a CALDERA proof
  EventTail,   \* added to the end of the window in the event query
  StaleAfter,  \* a row older at its source than at its ingestion by this is stale
  Ahead,       \* a CALDERA proof may start this much after the execution ...
  Behind,      \* ... and this much before the test
  Skews        \* pairs <<lag, offset>>: how far the endpoint's clock may be
               \* behind, and CALDERA's ahead

ASSUME WindowAssumption ==
  /\ N \in Nat \ {0} /\ MaxTime \in Nat
  /\ Lookback \in Nat /\ EndSlack \in Nat /\ ProofSlack \in Nat /\ EventTail \in Nat
  /\ StaleAfter \in Nat /\ Ahead \in Nat /\ Behind \in Nat
  /\ Skews \subseteq Int \X Int

Tests == 1..N
Never == -1

VARIABLES
  kind,      \* of the tests: "command" or "caldera"       (input)
  lag,       \* of the endpoint's clock                     (input)
  offset,    \* of CALDERA's clock                          (input)
  now,
  happened, created,   \* when a test's event occurred and when it was ingested
  pc, cur,
  cache,     \* _SERVER_UTC_NOW_CACHE, or Never
  fallback,  \* whether test_started was taken from the cache
  started,   \* test_started
  opened,    \* when the execution began, and ...
  closed,    \* ... ended
  evidenceFrom, alertFrom, evidenceTo,   \* the effective window
  ready,     \* evidence_wait["ready"]
  linked,    \* whether the links of a CALDERA operation are evidence
  eventRows, sampleRows, detectionRows,   \* tests whose rows the last queries returned
  answered,  \* whether every query of the final collection was answered
  verdict    \* of the test just scored

inputs == <<kind, lag, offset>>
world == <<now, happened, created>>
clock == <<cache, fallback, started>>
window == <<opened, closed, evidenceFrom, alertFrom, evidenceTo>>
rows == <<eventRows, sampleRows, detectionRows, answered>>
vars == <<inputs, world, pc, cur, clock, window, ready, linked, rows, verdict>>

Init ==
  /\ kind \in [Tests -> {"command", "caldera"}]
  /\ \E s \in Skews : lag = s[1] /\ offset = s[2]
  /\ (offset = 0 \/ \E t \in Tests : kind[t] = "caldera")
  /\ now = 0
  /\ happened = [t \in Tests |-> Never] /\ created = [t \in Tests |-> Never]
  /\ pc = "begin" /\ cur = 1
  /\ cache = Never /\ fallback = "no" /\ started = 0
  /\ opened = 0 /\ closed = 0
  /\ evidenceFrom = 0 /\ alertFrom = 0 /\ evidenceTo = 0
  /\ ready = "no" /\ linked = "no"
  /\ eventRows = {} /\ sampleRows = {} /\ detectionRows = {} /\ answered = "yes"
  /\ verdict = "none"

----------------------------------------------------------------------------
(* The world: time passes, and what happened on the endpoint is ingested.    *)

Tick == /\ now < MaxTime /\ pc # "stopped"
        /\ now' = now + 1
        /\ UNCHANGED <<inputs, happened, created, pc, cur, clock, window, ready,
                       linked, rows, verdict>>

Ingest(t) ==
  /\ pc # "stopped" /\ happened[t] # Never /\ created[t] = Never
  /\ created' = [created EXCEPT ![t] = now]
  /\ UNCHANGED <<inputs, now, happened, pc, cur, clock, window, ready, linked,
                 rows, verdict>>

\* The event's own timestamp is set by the endpoint's clock.
Source(t) == happened[t] - lag

----------------------------------------------------------------------------
(* The queries.  A failed or unreadable answer gives no rows.                *)

EventsIn(from, to) ==
  {t \in Tests : created[t] # Never /\ from <= created[t] /\ created[t] <= to + EventTail}

DetectionsIn(from, to) ==
  {t \in Tests : created[t] # Never /\ from <= created[t] /\ created[t] <= to}

\* report_row_has_stale_source_timestamp, of rows that are grouped by rule, so
\* that the newest source is compared with the newest ingestion, or of one row.
Newest(S, s) == \A t \in S : Source(t) <= Source(s)

\* Mutant of Fresh: compared with the start of the evidence, lookback included.
FreshInWindow(S) ==
  \E s \in S : /\ Newest(S, s)
               /\ Source(s) >= evidenceFrom
               /\ \A t \in S : Source(s) >= created[t] - StaleAfter

Fresh(S) ==
  \E s \in S : /\ Newest(S, s)
               /\ Source(s) >= alertFrom
               /\ \A t \in S : Source(s) >= created[t] - StaleAfter

\* Mutant of ReadClock: only the first answer is remembered.
ReadClockKeepsFirst(v) ==
  \/ v = now /\ cache' = IF cache = Never THEN now ELSE cache
  \/ cache # Never /\ v = cache /\ UNCHANGED cache

\* server_utc_now: the database's clock, or the last answer it gave.
ReadClock(v) == \/ v = now /\ cache' = now
                \/ cache # Never /\ v = cache /\ UNCHANGED cache

----------------------------------------------------------------------------
(* The tests, one after the other.                                           *)

\* No answer and nothing in the cache: RunnerError ends the run.
LoseClock ==
  /\ pc = "begin" /\ cache = Never
  /\ pc' = "stopped"
  /\ UNCHANGED <<inputs, world, cur, clock, window, ready, linked, rows,
                 verdict>>

\* Remote calls lie between the end of one execution and the next test.
Begin ==
  /\ pc = "begin" /\ (cur > 1 => now > closed)
  /\ \E v \in 0..MaxTime :
       /\ ReadClock(v)
       /\ started' = v
       /\ fallback' = IF cache' = cache /\ v < now THEN "yes" ELSE "no"
       /\ evidenceFrom' = v - Lookback
       /\ alertFrom' = v
  /\ pc' = "launch"
  /\ verdict' = "none"
  /\ UNCHANGED <<inputs, world, cur, opened, closed, evidenceTo, ready, linked, rows>>

Launch ==
  /\ pc = "launch"
  /\ opened' = now
  /\ pc' = "execute"
  /\ UNCHANGED <<inputs, world, cur, clock, closed, evidenceFrom, alertFrom,
                 evidenceTo, ready, linked, rows, verdict>>

Provoke ==
  /\ pc = "execute" /\ happened[cur] = Never
  /\ happened' = [happened EXCEPT ![cur] = now]
  /\ UNCHANGED <<inputs, now, created, pc, cur, clock, window, ready, linked, rows,
                 verdict>>

\* caldera_operation_execution_evidence: the links of the operation, if any
\* match, are going to be rows of the test.
Return ==
  /\ pc = "execute"
  /\ closed' = now
  /\ linked' \in IF kind[cur] = "caldera" THEN {"yes", "no"} ELSE {"no"}
  /\ pc' = "post"
  /\ UNCHANGED <<inputs, world, cur, clock, opened, evidenceFrom, alertFrom,
                 evidenceTo, ready, rows, verdict>>

\* A CALDERA proof moves the window to the start it reports, when CALDERA's
\* clock is near enough to the database's.
ProofStart == opened + offset
ProofEnd == closed + offset
ProofUsable(post) == /\ ProofStart <= post + Ahead
                     /\ ProofStart >= started - Behind

\* Mutant of EvidenceFromProof: the lookback is forgotten.
EvidenceFromProofOnly == ProofStart

EvidenceFromProof == ProofStart - Lookback

AfterExecution ==
  /\ pc = "post"
  /\ \E v \in 0..MaxTime :
       /\ ReadClock(v)
       /\ IF kind[cur] = "caldera" /\ ProofUsable(v)
          THEN evidenceFrom' = EvidenceFromProof /\ alertFrom' = ProofStart
          ELSE UNCHANGED <<evidenceFrom, alertFrom>>
  /\ pc' = "wait"
  /\ UNCHANGED <<inputs, world, cur, fallback, started, opened, closed, evidenceTo,
                 ready, linked, rows, verdict>>

\* wait_for_expected_evidence: one poll.  Readiness asks for any event and any
\* detection in the window, however old at their source; a query may fail.
Poll ==
  /\ pc = "wait" /\ ready = "no"
  /\ \E v \in 0..MaxTime :
       /\ ReadClock(v)
       /\ \/ ready' = "no"
          \/ /\ EventsIn(evidenceFrom, v + EndSlack) # {}
             /\ DetectionsIn(evidenceFrom, v + EndSlack) # {}
             /\ ready' = "yes"
  /\ UNCHANGED <<inputs, world, pc, cur, fallback, started, window, linked, rows,
                 verdict>>

\* Ready, out of time, or --evidence-wait-seconds 0.
EndWait ==
  /\ pc = "wait"
  /\ pc' = "end"
  /\ UNCHANGED <<inputs, world, cur, clock, window, ready, linked, rows,
                 verdict>>

CloseWindow ==
  /\ pc = "end"
  /\ \E v \in 0..MaxTime :
       /\ ReadClock(v)
       /\ LET to == v + EndSlack IN
          evidenceTo' = IF /\ kind[cur] = "caldera"
                           /\ ProofEnd <= to + Ahead
                           /\ ProofEnd >= evidenceFrom - Behind
                           /\ ProofEnd + ProofSlack > to
                        THEN ProofEnd + ProofSlack ELSE to
  /\ pc' = "events"
  /\ UNCHANGED <<inputs, world, cur, fallback, started, opened, closed,
                 evidenceFrom, alertFrom, ready, linked, rows, verdict>>

CollectEvents ==
  /\ pc = "events"
  /\ \/ eventRows' = EventsIn(evidenceFrom, evidenceTo) /\ UNCHANGED answered
     \/ eventRows' = {} /\ answered' = "no"
  /\ pc' = "samples"
  /\ UNCHANGED <<inputs, world, cur, clock, window, ready, linked, sampleRows,
                 detectionRows, verdict>>

\* The samples carry the detections of their rows.  A query that fails, or is
\* skipped when the test is ready and out of budget, gives none.
CollectSamples ==
  /\ pc = "samples"
  /\ sampleRows' \in {EventsIn(evidenceFrom, evidenceTo), {}}
  /\ pc' = "detections"
  /\ UNCHANGED <<inputs, world, cur, clock, window, ready, linked, eventRows,
                 detectionRows, answered, verdict>>

CollectDetections ==
  /\ pc = "detections"
  /\ \/ detectionRows' = DetectionsIn(evidenceFrom, evidenceTo) /\ UNCHANGED answered
     \/ detectionRows' = {} /\ answered' = "no"
  /\ pc' = "score"
  /\ UNCHANGED <<inputs, world, cur, clock, window, ready, linked, eventRows,
                 sampleRows, verdict>>

\* score_test: the telemetry is any event of the window, the detections are
\* the groups and the samples that are fresh.  The links of an operation are
\* telemetry, and caldera_expected_detection_rows makes every detection that
\* is expected out of them.  What is local to a test ends with it.
Telemetry == eventRows # {} \/ linked = "yes"
Detected == \/ Fresh(detectionRows)
            \/ \E t \in sampleRows : Fresh({t})
            \/ linked = "yes"
Verdict == CASE Telemetry /\ Detected -> "covered"
             [] Telemetry /\ ~Detected -> "partial"
             [] OTHER -> "missed"

\* Mutant of NextTest: one test too many.
NextTestOffByOne == IF cur <= N THEN cur' = cur + 1 /\ pc' = "begin"
                                ELSE pc' = "stopped" /\ UNCHANGED cur

NextTest == IF cur < N THEN cur' = cur + 1 /\ pc' = "begin"
                       ELSE pc' = "stopped" /\ UNCHANGED cur

Score ==
  /\ pc = "score"
  /\ verdict' = Verdict
  /\ NextTest
  /\ started' = 0 /\ fallback' = "no" /\ ready' = "no" /\ linked' = "no"
  /\ opened' = 0 /\ evidenceFrom' = 0 /\ alertFrom' = 0 /\ evidenceTo' = 0
  /\ eventRows' = {} /\ sampleRows' = {} /\ detectionRows' = {} /\ answered' = "yes"
  /\ UNCHANGED <<inputs, world, cache, closed>>

RunnerStep ==
  \/ LoseClock \/ Begin \/ Launch \/ Return \/ AfterExecution \/ Poll \/ EndWait
  \/ CloseWindow \/ CollectEvents \/ CollectSamples \/ CollectDetections \/ Score

Next == \/ Tick \/ Provoke \/ RunnerStep
        \/ \E t \in Tests : Ingest(t)

Spec == Init /\ [][Next]_vars

----------------------------------------------------------------------------
TypeOK ==
  /\ kind \in [Tests -> {"command", "caldera"}] /\ <<lag, offset>> \in Skews
  /\ now \in 0..MaxTime /\ cur \in Tests
  /\ happened \in [Tests -> Int] /\ created \in [Tests -> Int]
  /\ pc \in {"begin", "launch", "execute", "post", "wait", "end", "events",
             "samples", "detections", "score", "stopped"}
  /\ cache \in Int /\ started \in Int /\ fallback \in {"yes", "no"}
  /\ opened \in Int /\ closed \in Int
  /\ evidenceFrom \in Int /\ alertFrom \in Int /\ evidenceTo \in Int
  /\ ready \in {"yes", "no"} /\ linked \in {"yes", "no"} /\ answered \in {"yes", "no"}
  /\ eventRows \subseteq Tests /\ sampleRows \subseteq Tests /\ detectionRows \subseteq Tests
  /\ verdict \in {"none", "covered", "partial", "missed"}

Collecting == pc \in {"end", "events", "samples", "detections", "score"}

\* The window of a test begins no later than what the test provoked, even when
\* its start was taken from the cache, unless CALDERA's clock is ahead by more
\* than the lookback.
WindowCoversTest ==
  Collecting /\ happened[cur] # Never
    /\ (kind[cur] = "command" \/ offset <= Lookback)
    => evidenceFrom <= happened[cur]

\* What the wait has found is found again by the final queries that are
\* answered: the end of the window never precedes the wait, although both
\* can be readings of the cache.
ReadyStaysReady ==
  pc = "score" /\ ready = "yes" /\ answered = "yes"
    => eventRows # {} /\ detectionRows # {}

\* A test is covered by its own detection, not by one an earlier test left in
\* the lookback, when its start was read from the database and no clock is
\* at odds in the harmful direction.
CoveredIsOwn ==
  [][ pc = "score" /\ verdict' = "covered" /\ fallback = "no" /\ lag >= 0
      /\ (kind[cur] = "command" \/ offset >= 0)
      => cur \in detectionRows \cup sampleRows \/ linked = "yes" ]_vars
====
