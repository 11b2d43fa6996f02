------------------------ MODULE EvidenceWindowProofs ------------------------
(***************************************************************************)
(* Proofs about EvidenceWindow, for any number of tests, any slacks and    *)
(* lookback, and clocks of any error: the window covers the test, what     *)
(* ended the wait is found again, and a test is covered by its own.        *)
(***************************************************************************)
EXTENDS EvidenceWindow, TLAPS

(* Where a test is on its way.                                             *)
Final == {"events", "samples", "detections", "score"}
Measured == {"post", "wait", "end"} \cup Final
Executed == {"execute"} \cup Measured
Running == {"launch"} \cup Executed

(* What happened lies in the past, and belongs to the tests so far; before *)
(* its execution a test has provoked nothing, and nothing after it.        *)
PastInv ==
  /\ cache = Never \/ cache \in 0..now
  /\ closed \in 0..now
  /\ \A t \in Tests :
       /\ happened[t] = Never \/ (happened[t] \in 0..now /\ t <= cur)
       /\ t < cur \/ (t = cur /\ pc \in Measured) => happened[t] <= closed
  /\ pc \in {"begin", "launch"} => happened[cur] = Never

(* The start of the test, and the window that follows from it.             *)
WindowInv ==
  /\ pc \in Running =>
       /\ started \in 0..now /\ verdict = "none"
       /\ fallback = "no" => \A t \in Tests : t < cur => happened[t] < started
       /\ evidenceFrom = alertFrom - Lookback
       /\ \/ alertFrom = started
          \/ kind[cur] = "caldera" /\ pc \in Executed /\ alertFrom = ProofStart
  /\ pc \in Executed =>
       /\ started <= opened /\ opened <= now
       /\ happened[cur] # Never => opened <= happened[cur]

(* The detection that ended the wait is inside the window, whose end comes *)
(* from a later reading of the clock or from a reading of the cache.       *)
ReadyInv ==
  /\ ready = "yes" /\ pc \in {"wait", "end"} =>
       cache # Never /\ DetectionsIn(evidenceFrom, cache + EndSlack) # {}
  /\ ready = "yes" /\ pc \in Final => DetectionsIn(evidenceFrom, evidenceTo) # {}
  /\ ready = "yes" => pc \in {"wait", "end"} \cup Final
  /\ ready = "yes" /\ answered = "yes" /\ pc \in Final \ {"events"} => eventRows # {}
  /\ ready = "yes" /\ answered = "yes" /\ pc = "score" => detectionRows # {}

EvidenceInv == PastInv /\ WindowInv /\ ReadyInv

(* A reading of the clock is at most the time, never behind the reading    *)
(* before it, and remembered.                                              *)
LEMMA Reading ==
  ASSUME TypeOK, PastInv, NEW v \in 0..MaxTime, ReadClock(v)
  PROVE  /\ v \in 0..now /\ cache' = v
         /\ cache # Never => cache <= v
BY WindowAssumption DEF TypeOK, PastInv, ReadClock, Never

LEMMA TypeInit == Init => TypeOK
<1> SUFFICES ASSUME Init PROVE TypeOK
  OBVIOUS
<1>1. <<lag, offset>> \in Skews
  BY WindowAssumption DEF Init
<1>2. 0 \in 0..MaxTime /\ 1 \in Tests /\ Never \in Int
  BY WindowAssumption DEF Tests, Never
<1> QED
  BY <1>1, <1>2 DEF Init, TypeOK

(* Every reachable state is well typed.                                    *)
THEOREM TypeCorrect == Spec => []TypeOK
<1>1. TypeOK /\ [Next]_vars => TypeOK'
  <2> SUFFICES ASSUME TypeOK, [Next]_vars PROVE TypeOK'
    OBVIOUS
  <2> USE WindowAssumption DEF TypeOK, inputs, world, clock, window, rows
  <2>0. /\ Lookback \in Int /\ EndSlack \in Int /\ ProofSlack \in Int /\ offset \in Int
        /\ 0 \in Int /\ now \in Int /\ 0..MaxTime \subseteq Int /\ Never \in Int
        /\ cur + 1 \in Int
    BY DEF Tests, Never
  <2>1. CASE Tick
    BY <2>0, <2>1 DEF Tick
  <2>2. CASE Provoke
    BY <2>0, <2>2 DEF Provoke
  <2>3. ASSUME NEW t \in Tests, Ingest(t) PROVE TypeOK'
    BY <2>0, <2>3 DEF Ingest
  <2>4. CASE LoseClock
    BY <2>4 DEF LoseClock
  <2>5. CASE Begin
    <3>1. PICK v \in 0..MaxTime :
            /\ ReadClock(v) /\ started' = v /\ fallback' \in {"yes", "no"}
            /\ evidenceFrom' = v - Lookback /\ alertFrom' = v
      BY <2>5 DEF Begin
    <3> QED
      BY <2>0, <2>5, <3>1 DEF Begin, ReadClock
  <2>6. CASE Launch
    BY <2>0, <2>6 DEF Launch
  <2>7. CASE Return
    BY <2>0, <2>7 DEF Return
  <2>8. CASE AfterExecution
    <3>1. cache' \in Int /\ evidenceFrom' \in Int /\ alertFrom' \in Int
      BY <2>0, <2>8 DEF AfterExecution, ReadClock, EvidenceFromProof, ProofStart
    <3> QED
      BY <2>8, <3>1 DEF AfterExecution
  <2>9. CASE Poll
    <3>1. cache' \in Int /\ ready' \in {"yes", "no"}
      BY <2>0, <2>9 DEF Poll, ReadClock
    <3> QED
      BY <2>9, <3>1 DEF Poll
  <2>10. CASE EndWait
    BY <2>10 DEF EndWait
  <2>11. CASE CloseWindow
    <3>1. cache' \in Int /\ evidenceTo' \in Int
      BY <2>0, <2>11 DEF CloseWindow, ReadClock, ProofEnd
    <3> QED
      BY <2>11, <3>1 DEF CloseWindow
  <2>12. CASE CollectEvents
    BY <2>12 DEF CollectEvents, EventsIn
  <2>13. CASE CollectSamples
    BY <2>13 DEF CollectSamples, EventsIn
  <2>14. CASE CollectDetections
    BY <2>14 DEF CollectDetections, DetectionsIn
  <2>15. CASE Score
    <3>1. verdict' \in {"covered", "partial", "missed"}
      BY <2>15 DEF Score, Verdict
    <3>2. cur' \in Tests /\ pc' \in {"begin", "stopped"}
      BY <2>15 DEF Score, NextTest, Tests
    <3> QED
      BY <2>0, <2>15, <3>1, <3>2 DEF Score
  <2>16. CASE UNCHANGED vars
    BY <2>16 DEF vars
  <2> QED
    BY <2>1, <2>2, <2>3, <2>4, <2>5, <2>6, <2>7, <2>8, <2>9, <2>10, <2>11, <2>12,
       <2>13, <2>14, <2>15, <2>16 DEF Next, RunnerStep
<1> QED
  BY <1>1, TypeInit, PTL DEF Spec

-----------------------------------------------------------------------------
LEMMA PlacesApart ==
  /\ {"begin", "launch", "stopped"} \cap Measured = {}
  /\ {"begin", "stopped", "launch"} \cap Executed = {}
  /\ {"begin", "stopped"} \cap Running = {}
  /\ "execute" \notin Measured
  /\ {"wait", "end"} \cap Final = {} /\ "post" \notin Final
BY DEF Running, Executed, Measured, Final

LEMMA PastStep ==
  ASSUME TypeOK, PastInv, [Next]_vars
  PROVE  PastInv'
<1> USE WindowAssumption, PlacesApart DEF inputs, world, clock, window, rows
<1>1. now \in Nat /\ cur \in Int /\ cur \in Tests /\ Tests \subseteq Int
  BY DEF TypeOK, Tests
<1>2. CASE Tick
  BY <1>1, <1>2 DEF Tick, PastInv, TypeOK
<1>3. CASE Provoke
  BY <1>1, <1>3 DEF Provoke, PastInv, TypeOK
<1>4. ASSUME NEW t \in Tests, Ingest(t) PROVE PastInv'
  BY <1>4 DEF Ingest, PastInv
<1>5. CASE Begin
  <2>1. cache' \in 0..now
    BY <1>5, Reading DEF Begin
  <2> QED
    BY <1>5, <2>1 DEF Begin, PastInv
<1>6. CASE Launch \/ LoseClock
  BY <1>6 DEF Launch, LoseClock, PastInv
<1>7. CASE Return
  <2>1. \A t \in Tests : t < cur \/ t = cur => happened[t] <= now
    BY <1>1 DEF PastInv, Never
  <2> QED
    BY <1>1, <1>7, <2>1 DEF Return, PastInv, Measured
<1>8. CASE AfterExecution \/ Poll \/ CloseWindow
  <2>1. cache' \in 0..now
    BY <1>8, Reading DEF AfterExecution, Poll, CloseWindow
  <2>2. pc \in Measured /\ pc' \in Measured
    BY <1>8 DEF AfterExecution, Poll, CloseWindow, Measured, Final
  <2> QED
    BY <1>8, <2>1, <2>2 DEF AfterExecution, Poll, CloseWindow, PastInv
<1>9. CASE EndWait \/ CollectEvents \/ CollectSamples \/ CollectDetections
  <2>1. pc \in Measured /\ pc' \in Measured
    BY <1>9 DEF EndWait, CollectEvents, CollectSamples, CollectDetections, Measured, Final
  <2> QED
    BY <1>9, <2>1 DEF EndWait, CollectEvents, CollectSamples, CollectDetections, PastInv
<1>10. CASE Score
  <2>1. pc \in Measured /\ pc' \in {"begin", "stopped"}
    BY <1>10 DEF Score, NextTest, Measured, Final
  <2>2. \A t \in Tests : t <= cur => happened[t] <= closed
    BY <1>1, <2>1 DEF PastInv
  <2>3. \/ cur' = cur + 1 /\ cur' \in Tests /\ happened[cur'] = Never
        \/ cur' = cur /\ pc' = "stopped"
    BY <1>1, <1>10 DEF Score, NextTest, PastInv, Tests
  <2> QED
    BY <1>1, <1>10, <2>1, <2>2, <2>3 DEF Score, PastInv
<1>11. CASE UNCHANGED vars
  BY <1>11 DEF vars, PastInv
<1> QED
  BY <1>2, <1>3, <1>4, <1>5, <1>6, <1>7, <1>8, <1>9, <1>10, <1>11 DEF Next, RunnerStep

LEMMA WindowStep ==
  ASSUME TypeOK, PastInv, WindowInv, [Next]_vars
  PROVE  WindowInv'
<1> USE WindowAssumption, PlacesApart DEF inputs, world, clock, window, rows
<1>1. /\ now \in Nat /\ started \in Int /\ opened \in Int /\ offset \in Int
      /\ evidenceFrom \in Int /\ alertFrom \in Int
      /\ cur \in Tests /\ happened \in [Tests -> Int]
  BY DEF TypeOK
<1>2. CASE Tick
  BY <1>1, <1>2 DEF Tick, WindowInv, ProofStart
<1>3. CASE Provoke
  <2>1. pc \in Executed /\ pc' = pc /\ pc \in Running /\ now # Never
    BY <1>1, <1>3 DEF Provoke, Executed, Running, Never
  <2> QED
    BY <1>1, <1>3, <2>1 DEF Provoke, WindowInv, ProofStart, Tests
<1>4. ASSUME NEW t \in Tests, Ingest(t) PROVE WindowInv'
  BY <1>4 DEF Ingest, WindowInv, ProofStart
<1>5. CASE Begin
  <2>1. PICK v \in 0..MaxTime :
          /\ ReadClock(v) /\ started' = v /\ evidenceFrom' = v - Lookback /\ alertFrom' = v
          /\ fallback' = IF cache' = cache /\ v < now THEN "yes" ELSE "no"
    BY <1>5 DEF Begin
  <2>2. v \in 0..now
    BY <2>1, Reading
  <2>3. fallback' = "no" => v = now
    BY <1>1, <2>1, <2>2 DEF ReadClock
  <2>4. \A t \in Tests : t < cur => happened[t] < now
    BY <1>1, <1>5 DEF Begin, PastInv, Tests
  <2> QED
    BY <1>1, <1>5, <2>1, <2>2, <2>3, <2>4 DEF Begin, WindowInv
<1>6. CASE Launch
  <2>1. happened[cur] = Never /\ pc \in Running /\ pc' \in Executed /\ alertFrom = started
    BY <1>6 DEF Launch, PastInv, Running, Executed, WindowInv
  <2> QED
    BY <1>1, <1>6, <2>1 DEF Launch, WindowInv
<1>7. CASE AfterExecution
  <2>1. pc \in Executed /\ pc \in Running /\ pc' \in Executed /\ pc' \in Running
    BY <1>7 DEF AfterExecution, Executed, Measured, Running
  <2>2. \/ UNCHANGED <<evidenceFrom, alertFrom>>
        \/ /\ kind[cur] = "caldera"
           /\ evidenceFrom' = ProofStart - Lookback /\ alertFrom' = ProofStart
    BY <1>7 DEF AfterExecution, EvidenceFromProof
  <2> QED
    BY <1>1, <1>7, <2>1, <2>2 DEF AfterExecution, WindowInv, ProofStart
<1>8. CASE \/ Return \/ Poll \/ EndWait \/ CloseWindow
           \/ CollectEvents \/ CollectSamples \/ CollectDetections
  <2>1. /\ pc \in Executed /\ pc \in Running /\ pc' \in Executed /\ pc' \in Running
        /\ UNCHANGED <<inputs, world, cur, fallback, started, opened, evidenceFrom,
                       alertFrom, verdict>>
    BY <1>8 DEF Return, Poll, EndWait, CloseWindow, CollectEvents, CollectSamples,
                CollectDetections, Executed, Measured, Final, Running
  <2> QED
    BY <2>1 DEF WindowInv, ProofStart
<1>9. CASE Score \/ LoseClock
  <2>1. pc' \in {"begin", "stopped"}
    BY <1>9 DEF Score, LoseClock, NextTest
  <2> QED
    BY <2>1 DEF WindowInv
<1>10. CASE UNCHANGED vars
  BY <1>10 DEF vars, WindowInv, ProofStart
<1> QED
  BY <1>2, <1>3, <1>4, <1>5, <1>6, <1>7, <1>8, <1>9, <1>10 DEF Next, RunnerStep

LEMMA ReadyStep ==
  ASSUME TypeOK, PastInv, ReadyInv, [Next]_vars
  PROVE  ReadyInv'
<1> USE WindowAssumption, PlacesApart DEF inputs, world, clock, window, rows
<1>1. /\ now \in Nat /\ cache \in Int /\ EndSlack \in Int /\ cache + EndSlack \in Int
      /\ evidenceFrom \in Int /\ evidenceTo \in Int
  BY DEF TypeOK
<1>2. CASE Tick \/ Provoke \/ UNCHANGED vars
  BY <1>2 DEF Tick, Provoke, vars, ReadyInv, DetectionsIn
<1>3. ASSUME NEW t \in Tests, Ingest(t) PROVE ReadyInv'
  <2>1. /\ UNCHANGED <<now, pc, cur, clock, window, ready, rows>>
    BY <1>3 DEF Ingest
  <2>2. /\ cache' + EndSlack = cache + EndSlack
        /\ (DetectionsIn(evidenceFrom, cache + EndSlack) # {}) =>
             (DetectionsIn(evidenceFrom, cache + EndSlack) # {})'
        /\ (DetectionsIn(evidenceFrom, evidenceTo) # {}) =>
             (DetectionsIn(evidenceFrom, evidenceTo) # {})'
    BY <1>1, <1>3, <2>1 DEF Ingest, DetectionsIn, TypeOK
  <2> QED
    BY <2>1, <2>2 DEF ReadyInv
<1>4. CASE LoseClock \/ Begin \/ Launch \/ Return \/ AfterExecution
  <2>1. ready' = "no"
    <3>1. pc \in {"begin", "launch", "execute", "post"} /\ ready' = ready
      BY <1>4 DEF LoseClock, Begin, Launch, Return, AfterExecution
    <3> QED
      BY <3>1 DEF ReadyInv, TypeOK, Final
  <2> QED
    BY <2>1 DEF ReadyInv
<1>5. CASE Poll
  <2>1. PICK v \in 0..MaxTime :
          /\ ReadClock(v)
          /\ ready' = "yes" => DetectionsIn(evidenceFrom, v + EndSlack) # {}
    BY <1>5 DEF Poll
  <2>2. cache' = v /\ v \in 0..now
    BY <2>1, Reading
  <2>3. cache' # Never
    BY <1>1, <2>2 DEF Never
  <2> QED
    BY <1>5, <2>1, <2>2, <2>3 DEF Poll, ReadyInv, DetectionsIn
<1>6. CASE EndWait
  BY <1>6 DEF EndWait, ReadyInv, DetectionsIn
<1>7. CASE CloseWindow
  <2>1. PICK v \in 0..MaxTime :
          /\ ReadClock(v)
          /\ LET to == v + EndSlack IN
             evidenceTo' = IF /\ kind[cur] = "caldera"
                              /\ ProofEnd <= to + Ahead
                              /\ ProofEnd >= evidenceFrom - Behind
                              /\ ProofEnd + ProofSlack > to
                           THEN ProofEnd + ProofSlack ELSE to
    BY <1>7 DEF CloseWindow
  <2>2. v \in Int /\ (cache # Never => cache <= v)
    BY <1>1, <2>1, Reading
  <2>3. ProofEnd + ProofSlack \in Int
    BY DEF ProofEnd, TypeOK
  <2>4. evidenceTo' >= v + EndSlack /\ evidenceTo' \in Int
    BY <1>1, <2>1, <2>2, <2>3
  <2>5. ready = "yes" => cache + EndSlack <= evidenceTo'
    BY <1>1, <1>7, <2>2, <2>4 DEF CloseWindow, ReadyInv
  <2>6. ready = "yes" => (DetectionsIn(evidenceFrom, evidenceTo) # {})'
    <3> SUFFICES ASSUME ready = "yes" PROVE (DetectionsIn(evidenceFrom, evidenceTo) # {})'
      OBVIOUS
    <3>1. PICK t \in DetectionsIn(evidenceFrom, cache + EndSlack) : TRUE
      BY <1>7 DEF CloseWindow, ReadyInv
    <3>2. t \in Tests /\ created[t] \in Int /\ created'[t] = created[t]
          /\ created[t] # Never /\ evidenceFrom <= created[t]
          /\ created[t] <= cache + EndSlack /\ evidenceFrom' = evidenceFrom
      BY <1>7, <3>1 DEF CloseWindow, DetectionsIn, TypeOK
    <3>3. created[t] <= evidenceTo'
      BY <1>1, <2>4, <2>5, <3>2
    <3>4. t \in DetectionsIn(evidenceFrom, evidenceTo)'
      BY <3>2, <3>3 DEF DetectionsIn
    <3> QED
      BY <3>4
  <2> QED
    BY <1>7, <2>6 DEF CloseWindow, ReadyInv, Final
<1>8. CASE CollectEvents
  <2>1. ready = "yes" => EventsIn(evidenceFrom, evidenceTo) # {}
    <3>1. \A t \in DetectionsIn(evidenceFrom, evidenceTo) : t \in EventsIn(evidenceFrom, evidenceTo)
      BY <1>1 DEF DetectionsIn, EventsIn, TypeOK
    <3> QED
      BY <1>8, <3>1 DEF CollectEvents, ReadyInv, Final
  <2> QED
    BY <1>8, <2>1 DEF CollectEvents, ReadyInv, DetectionsIn, Final
<1>9. CASE CollectSamples
  BY <1>9 DEF CollectSamples, ReadyInv, DetectionsIn, Final
<1>10. CASE CollectDetections
  BY <1>10 DEF CollectDetections, ReadyInv, DetectionsIn, Final
<1>11. CASE Score
  BY <1>11 DEF Score, ReadyInv
<1> QED
  BY <1>2, <1>3, <1>4, <1>5, <1>6, <1>7, <1>8, <1>9, <1>10, <1>11 DEF Next, RunnerStep

(* The inductive invariant: what is past of the tests that are over, where  *)
(* the window of the current one lies, and what its wait has found.          *)
THEOREM EvidenceInvariant == Spec => []EvidenceInv
<1>1. TypeOK /\ Init => EvidenceInv
  <2> SUFFICES ASSUME TypeOK, Init PROVE EvidenceInv
    OBVIOUS
  <2>1. PastInv
    BY WindowAssumption DEF Init, PastInv, TypeOK, Never, Measured, Final
  <2>2. WindowInv /\ ReadyInv
    BY PlacesApart DEF Init, WindowInv, ReadyInv
  <2> QED
    BY <2>1, <2>2 DEF EvidenceInv
<1>2. TypeOK /\ EvidenceInv /\ [Next]_vars => EvidenceInv'
  BY PastStep, WindowStep, ReadyStep DEF EvidenceInv
<1>3. Init => TypeOK
  BY TypeInit
<1> QED
  BY <1>1, <1>2, <1>3, TypeCorrect, PTL DEF Spec

(* The window of a test begins no later than what the test provoked.       *)
THEOREM TestIsCovered == Spec => []WindowCoversTest
<1>1. TypeOK /\ EvidenceInv => WindowCoversTest
  <2> SUFFICES ASSUME TypeOK, EvidenceInv, Collecting, happened[cur] # Never,
                      kind[cur] = "command" \/ offset <= Lookback
               PROVE  evidenceFrom <= happened[cur]
    BY DEF WindowCoversTest
  <2>1. pc \in Executed /\ pc \in Running
    BY DEF Collecting, Running, Executed, Measured, Final
  <2>2. /\ started <= opened /\ opened <= happened[cur] /\ evidenceFrom = alertFrom - Lookback
        /\ \/ alertFrom = started
           \/ kind[cur] = "caldera" /\ alertFrom = opened + offset
    BY <2>1 DEF EvidenceInv, WindowInv, ProofStart
  <2>3. /\ started \in Int /\ opened \in Int /\ happened[cur] \in Int /\ alertFrom \in Int
        /\ offset \in Int /\ Lookback \in Nat
    BY WindowAssumption DEF TypeOK
  <2> QED
    BY <2>2, <2>3
<1> QED
  BY <1>1, TypeCorrect, EvidenceInvariant, PTL

(* What ended the wait is found again by the final queries.                *)
THEOREM ReadyIsKept == Spec => []ReadyStaysReady
<1>1. EvidenceInv => ReadyStaysReady
  BY DEF EvidenceInv, ReadyInv, ReadyStaysReady, Final
<1> QED
  BY <1>1, EvidenceInvariant, PTL

(* A test is covered by its own detection: those of the earlier tests      *)
(* happened before a start that was read from the database.                *)
THEOREM CoverageIsOwn == Spec => CoveredIsOwn
<1> DEFINE Own == pc = "score" /\ verdict' = "covered" /\ fallback = "no" /\ lag >= 0
                  /\ (kind[cur] = "command" \/ offset >= 0)
                  => cur \in detectionRows \cup sampleRows \/ linked = "yes"
<1>1. TypeOK /\ EvidenceInv /\ [Next]_vars => [Own]_vars
  <2> SUFFICES ASSUME TypeOK, EvidenceInv, Next, pc = "score", verdict' = "covered",
                      fallback = "no", lag >= 0, kind[cur] = "command" \/ offset >= 0,
                      linked # "yes"
               PROVE  cur \in detectionRows \cup sampleRows
    OBVIOUS
  <2>1. Score
    <3>1. verdict = "none"
      BY DEF EvidenceInv, WindowInv, Running, Executed, Measured, Final
    <3> QED
      BY <3>1 DEF Next, Tick, Provoke, Ingest, RunnerStep, LoseClock, Begin, Launch,
         Return, AfterExecution, Poll, EndWait, CloseWindow, CollectEvents,
         CollectSamples, CollectDetections
  <2>2. /\ started \in 0..now /\ alertFrom >= started
        /\ \A t \in Tests : t < cur => happened[t] < started
    <3>1. /\ started \in 0..now /\ started <= opened
          /\ \A t \in Tests : t < cur => happened[t] < started
          /\ alertFrom = started \/ (kind[cur] = "caldera" /\ alertFrom = opened + offset)
      BY DEF EvidenceInv, WindowInv, ProofStart, Running, Executed, Measured, Final
    <3>2. started \in Int /\ opened \in Int /\ offset \in Int
      BY WindowAssumption DEF TypeOK
    <3> QED
      BY <3>1, <3>2
  <2>3. ASSUME NEW s \in Tests, Source(s) >= alertFrom
        PROVE  s = cur
    <3>1. happened[s] \in Int /\ lag \in Int /\ alertFrom \in Int /\ cur \in Int /\ s \in Int
      BY WindowAssumption DEF TypeOK, Tests
    <3>2. happened[s] >= started
      BY <2>2, <2>3, <3>1 DEF Source
    <3>3. ~(s < cur) /\ happened[s] # Never
      BY <2>2, <3>1, <3>2 DEF Never
    <3>4. s <= cur
      BY <3>3 DEF EvidenceInv, PastInv
    <3> QED
      BY <3>1, <3>3, <3>4
  <2>4. ASSUME NEW S \in SUBSET Tests, Fresh(S)
        PROVE  cur \in S
    BY <2>3, <2>4 DEF Fresh
  <2>5. Detected
    BY <2>1 DEF Score, Verdict
  <2> QED
    BY <2>4, <2>5 DEF Detected, TypeOK
<1> QED
  BY <1>1, TypeCorrect, EvidenceInvariant, PTL DEF Spec, CoveredIsOwn

=============================================================================
