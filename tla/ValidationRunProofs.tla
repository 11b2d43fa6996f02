------------------------ MODULE ValidationRunProofs -------------------------
(***************************************************************************)
(* Proofs about ValidationRun for any number of tests and any inputs: type *)
(* correctness, one entry per test, and the promises about the evidence    *)
(* windows and the deferred cleanups.                                      *)
(***************************************************************************)
EXTENDS ValidationRun, SequenceTheorems, TLAPS

(* The ways a step of the loop ends leave a well typed state.              *)
LEMMA NextTestTyped ==
  ASSUME TypeOK, NextTest
  PROVE  pc' \in Pcs /\ cur' \in Tests
  BY TestsAssumption DEF TypeOK, NextTest, Pcs, LoopPcs, Tests

LEMMA RecordTyped ==
  ASSUME TypeOK, NEW s \in Statuses, NEW c \in Causes, Record(s, c)
  PROVE  /\ entries' \in Seq(Tests)
         /\ result' \in [Tests -> [status : Statuses \cup {"none"}, cause : Causes]]
  BY DEF TypeOK, Record

LEMMA InputsKept ==
  ASSUME Inputs, UNCHANGED input
  PROVE  Inputs'
  BY DEF Inputs, input

LEMMA FinishTyped ==
  ASSUME TypeOK, UNCHANGED input, NEW s \in Statuses, NEW c \in Causes, Finish(s, c)
  PROVE  TypeOK'
<1>1. NextTest /\ Record(s, c)
  BY DEF Finish
<1>2. /\ pc' \in Pcs /\ cur' \in Tests
      /\ entries' \in Seq(Tests)
      /\ result' \in [Tests -> [status : Statuses \cup {"none"}, cause : Causes]]
  BY <1>1, NextTestTyped, RecordTyped
<1> QED
  BY <1>2, InputsKept DEF TypeOK, Finish, Running, guest

LEMMA ConcludeTyped ==
  ASSUME TypeOK, UNCHANGED input, NEW s \in Statuses, Conclude(s)
  PROVE  TypeOK'
<1>1. NextTest /\ Record(s, "none")
  BY DEF Conclude
<1>2. /\ pc' \in Pcs /\ cur' \in Tests
      /\ entries' \in Seq(Tests)
      /\ result' \in [Tests -> [status : Statuses \cup {"none"}, cause : Causes]]
  BY <1>1, NextTestTyped, RecordTyped DEF Causes
<1>3. deferred' \in Seq(Tests)
  BY DEF Conclude, TypeOK
<1> QED
  BY <1>2, <1>3, InputsKept DEF TypeOK, Conclude, Running, guest

LEMMA ContinueTyped ==
  ASSUME TypeOK, UNCHANGED input, NEW p \in Pcs, Continue(p)
  PROVE  TypeOK'
  BY InputsKept DEF TypeOK, Continue, Goto, Running, guest, book

LEMMA PropagateTyped ==
  ASSUME TypeOK, UNCHANGED input, Propagate
  PROVE  TypeOK'
  BY InputsKept DEF TypeOK, Propagate, guest, book, Pcs

LEMMA WithinBudgetTyped ==
  ASSUME TypeOK, UNCHANGED input, NEW p \in Pcs, WithinBudget(p)
  PROVE  TypeOK'
  BY FinishTyped, ContinueTyped DEF WithinBudget, Statuses, Causes

(* Every reachable state is well typed.                                    *)
THEOREM TypeCorrect == Spec => []TypeOK
<1>1. Init => TypeOK
  BY TestsAssumption DEF Init, TypeOK, Pcs, Tests, Causes, NoResult
<1>2. TypeOK /\ [Next]_vars => TypeOK'
  <2> SUFFICES ASSUME TypeOK, [Next]_vars PROVE TypeOK'
    OBVIOUS
  <2>1. CASE GateBlocks
    <3>1. entries' \in Seq(Tests)
      BY <2>1, TestsAssumption DEF GateBlocks, Tests
    <3>2. result' \in [Tests -> [status : Statuses \cup {"none"}, cause : Causes]]
      BY <2>1 DEF GateBlocks, Statuses, Causes
    <3> QED
      BY <2>1, <3>1, <3>2, InputsKept DEF GateBlocks, At, TypeOK, Pcs, guest
  <2>2. CASE GatePasses
    BY <2>2, ContinueTyped, PropagateTyped DEF GatePasses, At, Pcs, LoopPcs
  <2>3. CASE LiveTest
    <3>1. pc' \in Pcs /\ cur' \in Tests
      BY <2>3, NextTestTyped DEF LiveTest
    <3>2. /\ entries' \in Seq(Tests)
          /\ result' \in [Tests -> [status : Statuses \cup {"none"}, cause : Causes]]
      BY <2>3, RecordTyped DEF LiveTest, Statuses, Causes
    <3>3. launched' \in SUBSET Tests
      BY <2>3 DEF LiveTest, TypeOK
    <3> QED
      BY <2>3, <3>1, <3>2, <3>3, InputsKept DEF LiveTest, At, TypeOK, Running
  <2>4. CASE Begin
    <3>1. CASE Finish("skipped", "none")
      BY <2>4, <3>1, FinishTyped DEF Begin, At, Statuses, Causes
    <3>2. CASE /\ pc' \in {"precondition", "driver_before"}
               /\ budget' = "ahead" /\ wait' = "ahead" /\ execution' = "none"
               /\ UNCHANGED <<cur, guest, book>>
               /\ Running
      BY <2>4, <3>2, InputsKept
         DEF Begin, At, TypeOK, Running, guest, book, Pcs, LoopPcs, Causes
    <3> QED
      BY <2>4, <3>1, <3>2, PropagateTyped DEF Begin, At, ServerFails
  <2>5. CASE Precondition
    BY <2>5, FinishTyped, ContinueTyped
       DEF Precondition, At, Statuses, Causes, Pcs, LoopPcs
  <2>6. CASE DriverBefore \/ PostClock
    BY <2>6, ContinueTyped, PropagateTyped
       DEF DriverBefore, PostClock, ServerFails, At, Pcs, LoopPcs
  <2>7. CASE Execute
    <3>1. execution' \in Causes /\ launched' \in SUBSET Tests
      BY <2>7 DEF Execute, TypeOK, Causes
    <3> QED
      BY <2>7, <3>1, InputsKept
         DEF Execute, At, Goto, TypeOK, Running, book, Pcs, LoopPcs
  <2>8. CASE Verdict
    <3>1. CASE Finish(Classify(execution), execution)
      BY <2>8, <3>1, FinishTyped DEF Verdict, At, Classify, TypeOK, Statuses
    <3> QED
      BY <2>8, <3>1, FinishTyped, WithinBudgetTyped
         DEF Verdict, At, Statuses, Causes, Pcs, LoopPcs
  <2>9. CASE Observe
    BY <2>9, ContinueTyped, ConcludeTyped DEF Observe, At, Statuses, Pcs, LoopPcs
  <2>10. CASE PostSleep
    BY <2>10, WithinBudgetTyped DEF PostSleep, At, Pcs, LoopPcs
  <2>11. CASE PollEvidence \/ Nap
    BY <2>11, ContinueTyped, PropagateTyped DEF PollEvidence, Nap, At, Pcs, LoopPcs
  <2>12. CASE EndClock
    <3>1. CASE Goto("summary") /\ measured' = measured \cup {cur}
               /\ Running /\ UNCHANGED <<execution, launched, cleaned, book>>
      BY <2>12, <3>1, InputsKept
         DEF EndClock, At, Goto, Running, TypeOK, book, Pcs, LoopPcs
    <3> QED
      BY <2>12, <3>1, PropagateTyped DEF EndClock, At
  <2>13. CASE EventSummary \/ EventSamples
    BY <2>13, WithinBudgetTyped, PropagateTyped
       DEF EventSummary, EventSamples, At, Pcs, LoopPcs
  <2>14. CASE ScoreTest
    BY <2>14, ConcludeTyped, PropagateTyped DEF ScoreTest, At, Statuses
  <2>15. CASE Cleanup
    <3>1. CASE Propagate
      BY <2>15, <3>1, PropagateTyped DEF Cleanup, At
    <3>2. CASE ~ Propagate
      <4>1. cleaned' \in SUBSET Tests /\ deferred' \in Seq(Tests)
        <5>1. deferred \in Seq(Tests) /\ deferred # <<>>
          BY <2>15 DEF Cleanup, TypeOK
        <5>2. Head(deferred) \in Tests /\ Tail(deferred) \in Seq(Tests)
          BY <5>1, HeadTailProperties
        <5> QED
          BY <2>15, <3>2, <5>1, <5>2 DEF Cleanup, TypeOK, guest, book
      <4> QED
        BY <2>15, <3>2, <4>1, InputsKept
           DEF Cleanup, At, TypeOK, Running, Pcs, guest, book
    <3> QED
      BY <3>1, <3>2
  <2>16. CASE CleanupDone
    BY <2>16, ContinueTyped, PropagateTyped DEF CleanupDone, ServerFails, At, Pcs
  <2>17. CASE WriteReport
    BY <2>17, InputsKept DEF WriteReport, At, TypeOK, Pcs, guest, book
  <2>18. CASE BudgetExpires \/ WaitExpires \/ UNCHANGED vars
    BY <2>18, InputsKept
       DEF BudgetExpires, WaitExpires, vars, input, TypeOK, guest, book
  <2> QED
    BY <2>1, <2>2, <2>3, <2>4, <2>5, <2>6, <2>7, <2>8, <2>9, <2>10, <2>11, <2>12,
       <2>13, <2>14, <2>15, <2>16, <2>17, <2>18 DEF Next, Runner, Stopped
<1> QED
  BY <1>1, <1>2, PTL DEF Spec

-----------------------------------------------------------------------------
(* Appending the current test to the entries of the ones before it.        *)
LEMMA AppendFirst ==
  ASSUME NEW n \in Nat
  PROVE  Append(First(n), n + 1) = First(n + 1)
<1>1. First(n) \in Seq(Nat) /\ Len(First(n)) = n
  BY DEF First
<1>2. First(n + 1) \in Seq(Nat) /\ Len(First(n + 1)) = n + 1
  BY DEF First
<1>3. Append(First(n), n + 1) \in Seq(Nat) /\ Len(Append(First(n), n + 1)) = n + 1
  BY <1>1, AppendProperties
<1>4. \A i \in 1 .. n + 1 : Append(First(n), n + 1)[i] = First(n + 1)[i]
  BY <1>1, AppendProperties DEF First
<1> QED
  BY <1>2, <1>3, <1>4, SeqEqual

LEMMA RecordEntries ==
  ASSUME TypeOK, EntriesInv, pc \in LoopPcs, NEW s, NEW c, Record(s, c), NextTest,
         UNCHANGED report
  PROVE  EntriesInv'
<1>1. /\ cur \in Nat \ {0} /\ cur - 1 \in Nat /\ (cur - 1) + 1 = cur
      /\ cur # N => cur + 1 - 1 = cur
  BY TestsAssumption DEF TypeOK, Tests
<1>2. entries' = First(cur)
  BY <1>1, AppendFirst DEF EntriesInv, Record
<1>3. report' # "written"
  BY DEF EntriesInv, LoopPcs
<1>4. pc' # "gate"
  BY DEF NextTest
<1>5. \/ cur = N /\ pc' \notin LoopPcs
      \/ cur # N /\ cur' - 1 = cur /\ pc' \notin {"cleanup", "finish"}
  BY <1>1 DEF NextTest, LoopPcs
<1> QED
  BY <1>2, <1>3, <1>4, <1>5 DEF EntriesInv

LEMMA FinishEntries ==
  ASSUME TypeOK, EntriesInv, pc \in LoopPcs, NEW s, NEW c, Finish(s, c)
  PROVE  EntriesInv'
  BY RecordEntries DEF Finish, Running

LEMMA ConcludeEntries ==
  ASSUME TypeOK, EntriesInv, pc \in LoopPcs, NEW s, Conclude(s)
  PROVE  EntriesInv'
  BY RecordEntries DEF Conclude, Running

LEMMA ContinueEntries ==
  ASSUME EntriesInv, pc \in LoopPcs, NEW p \in LoopPcs, Continue(p)
  PROVE  EntriesInv'
  BY DEF EntriesInv, Continue, Goto, Running, book, LoopPcs

LEMMA PropagateEntries ==
  ASSUME EntriesInv, Propagate, pc # "stopped"
  PROVE  EntriesInv'
  BY DEF EntriesInv, Propagate, book, LoopPcs

LEMMA WithinBudgetEntries ==
  ASSUME TypeOK, EntriesInv, pc \in LoopPcs, NEW p \in LoopPcs, WithinBudget(p)
  PROVE  EntriesInv'
  BY FinishEntries, ContinueEntries DEF WithinBudget

(* The entries are those of the tests before the current one, in order.    *)
THEOREM EntriesInvariant == Spec => []EntriesInv
<1>1. Init => EntriesInv
  BY DEF Init, EntriesInv, LoopPcs
<1>2. TypeOK /\ EntriesInv /\ [Next]_vars => EntriesInv'
  <2> SUFFICES ASSUME TypeOK, EntriesInv, [Next]_vars PROVE EntriesInv'
    OBVIOUS
  <2>1. CASE GateBlocks
    BY <2>1 DEF GateBlocks, At, EntriesInv, First, Tests, LoopPcs
  <2>2. CASE GatePasses
    <3>1. First(cur - 1) = <<>> \/ pc # "gate"
      BY DEF EntriesInv, First
    <3>2. CASE Continue(IF LiveOnly THEN "live" ELSE "begin")
      BY <2>2, <3>1, <3>2
         DEF GatePasses, At, EntriesInv, Continue, Goto, Running, book, LoopPcs
    <3> QED
      BY <2>2, <3>2, PropagateEntries DEF GatePasses, At
  <2>3. CASE LiveTest
    BY <2>3, RecordEntries DEF LiveTest, At, Running, LoopPcs
  <2>4. CASE Begin
    <3>1. CASE Finish("skipped", "none")
      BY <2>4, <3>1, FinishEntries DEF Begin, At, LoopPcs
    <3>2. CASE /\ pc' \in {"precondition", "driver_before"}
               /\ UNCHANGED <<cur, guest, book>>
               /\ Running
      BY <2>4, <3>2 DEF Begin, At, EntriesInv, Running, book, LoopPcs
    <3> QED
      BY <2>4, <3>1, <3>2, PropagateEntries DEF Begin, At, ServerFails
  <2>5. CASE Precondition
    BY <2>5, FinishEntries, ContinueEntries DEF Precondition, At, LoopPcs
  <2>6. CASE DriverBefore \/ PostClock
    BY <2>6, ContinueEntries, PropagateEntries
       DEF DriverBefore, PostClock, ServerFails, At, LoopPcs
  <2>7. CASE Execute
    BY <2>7 DEF Execute, At, Goto, Running, EntriesInv, book, LoopPcs
  <2>8. CASE Verdict
    BY <2>8, FinishEntries, WithinBudgetEntries DEF Verdict, At, LoopPcs
  <2>9. CASE Observe
    BY <2>9, ContinueEntries, ConcludeEntries DEF Observe, At, LoopPcs
  <2>10. CASE PostSleep
    BY <2>10, WithinBudgetEntries DEF PostSleep, At, LoopPcs
  <2>11. CASE PollEvidence \/ Nap
    BY <2>11, ContinueEntries, PropagateEntries DEF PollEvidence, Nap, At, LoopPcs
  <2>12. CASE EndClock
    <3>1. CASE Goto("summary") /\ Running /\ UNCHANGED book
      BY <2>12, <3>1 DEF EndClock, At, Goto, Running, EntriesInv, book, LoopPcs
    <3> QED
      BY <2>12, <3>1, PropagateEntries DEF EndClock, At
  <2>13. CASE EventSummary \/ EventSamples
    BY <2>13, WithinBudgetEntries, PropagateEntries
       DEF EventSummary, EventSamples, At, LoopPcs
  <2>14. CASE ScoreTest
    BY <2>14, ConcludeEntries, PropagateEntries DEF ScoreTest, At, LoopPcs
  <2>15. CASE Cleanup
    BY <2>15, PropagateEntries DEF Cleanup, At, EntriesInv, Running, book, LoopPcs
  <2>16. CASE CleanupDone
    <3>1. CASE Continue("finish")
      BY <2>16, <3>1
         DEF CleanupDone, At, EntriesInv, Continue, Goto, Running, book, LoopPcs
    <3> QED
      BY <2>16, <3>1, PropagateEntries DEF CleanupDone, ServerFails, At
  <2>17. CASE WriteReport
    BY <2>17 DEF WriteReport, At, EntriesInv, book, LoopPcs
  <2>18. CASE BudgetExpires \/ WaitExpires \/ UNCHANGED vars
    BY <2>18 DEF BudgetExpires, WaitExpires, vars, EntriesInv, book
  <2> QED
    BY <2>1, <2>2, <2>3, <2>4, <2>5, <2>6, <2>7, <2>8, <2>9, <2>10, <2>11, <2>12,
       <2>13, <2>14, <2>15, <2>16, <2>17, <2>18 DEF Next, Runner, Stopped
<1> QED
  BY <1>1, <1>2, TypeCorrect, PTL DEF Spec

(* A report that is written has one entry per test, in the order selected. *)
THEOREM OneEntry == Spec => []OneEntryPerTest
<1>1. EntriesInv => OneEntryPerTest
  BY DEF EntriesInv, OneEntryPerTest, First, Tests
<1> QED
  BY <1>1, EntriesInvariant, PTL

-----------------------------------------------------------------------------
(* Appending one result keeps track of the tests that have one.            *)
LEMMA RecordResults ==
  ASSUME TypeOK, CleanupInv, pc \in LoopPcs, NEW s \in Statuses, NEW c, Record(s, c),
         NextTest
  PROVE  /\ pc' \in LoopPcs => \A t \in 1 .. cur' - 1 : result'[t] # NoResult
         /\ pc' \in {"cleanup", "finish"} => \A t \in Tests : result'[t] # NoResult
         /\ result'[cur] = [status |-> s, cause |-> c]
         /\ \A t \in Tests \ {cur} : result'[t] = result[t]
<1>1. /\ result'[cur] = [status |-> s, cause |-> c]
      /\ \A t \in Tests \ {cur} : result'[t] = result[t]
  BY DEF Record, TypeOK
<1>2. result'[cur] # NoResult
  BY <1>1 DEF NoResult, Statuses
<1>3. \A t \in 1 .. cur : t \in Tests /\ result'[t] # NoResult
  BY <1>1, <1>2, TestsAssumption DEF CleanupInv, TypeOK, Tests
<1>4. \/ cur = N /\ pc' \notin LoopPcs
      \/ cur # N /\ cur' - 1 = cur /\ pc' \notin {"cleanup", "finish"}
  BY TestsAssumption DEF NextTest, LoopPcs, TypeOK, Tests
<1> QED
  BY <1>1, <1>3, <1>4 DEF Tests

LEMMA FinishCleanup ==
  ASSUME TypeOK, CleanupInv, pc \in LoopPcs, UNCHANGED input,
         NEW s \in Statuses \ {"scored", "no_evidence"}, NEW c \in Causes \ {"gate"},
         Record(s, c), NextTest, UNCHANGED <<cleaned, deferred, report>>
  PROVE  CleanupInv'
<1>1. /\ pc' \in LoopPcs => \A t \in 1 .. cur' - 1 : result'[t] # NoResult
      /\ pc' \in {"cleanup", "finish"} => \A t \in Tests : result'[t] # NoResult
      /\ result'[cur] = [status |-> s, cause |-> c]
      /\ \A t \in Tests \ {cur} : result'[t] = result[t]
  BY RecordResults
<1>2. cleaned = {} /\ report # "written"
  BY DEF CleanupInv, LoopPcs
<1>3. pc' \in {"gate", "live", "finish"} => deferred = <<>>
  BY DEF NextTest, CleanupInv
<1>4. \A t \in Tests : result'[t].cause = "gate" => result'[t].status = "infra_blocked"
  BY <1>1 DEF CleanupInv
<1>5. \A t \in Tests : /\ kind[t] = "atomic" /\ cleaning = "yes"
                      /\ result'[t].status \in {"scored", "no_evidence"}
                     => t \in cleaned \/ Waiting(t)
  BY <1>1 DEF CleanupInv
<1>6. pc' # "gate"
  BY DEF NextTest
<1> QED
  BY <1>1, <1>2, <1>3, <1>4, <1>5, <1>6
     DEF CleanupInv, CleanupAfterWindows, Waiting, input

LEMMA ConcludeCleanup ==
  ASSUME TypeOK, CleanupInv, pc \in LoopPcs \ {"live"}, UNCHANGED input,
         NEW s \in Statuses, Conclude(s)
  PROVE  CleanupInv'
<1>1. /\ pc' \in LoopPcs => \A t \in 1 .. cur' - 1 : result'[t] # NoResult
      /\ pc' \in {"cleanup", "finish"} => \A t \in Tests : result'[t] # NoResult
      /\ result'[cur] = [status |-> s, cause |-> "none"]
      /\ \A t \in Tests \ {cur} : result'[t] = result[t]
  BY RecordResults DEF Conclude
<1>2. cleaned' = {} /\ report' # "written"
  BY DEF CleanupInv, LoopPcs, Conclude, Running, guest
<1>3. pc' \notin {"gate", "live", "finish"}
  BY DEF NextTest, Conclude
<1>4. \A t \in Tests : result'[t].cause = "gate" => result'[t].status = "infra_blocked"
  BY <1>1 DEF CleanupInv
<1>5. \A t \in Tests : Waiting(t) => Waiting(t)'
  <2>1. CASE deferred' = deferred
    BY <2>1 DEF Waiting
  <2>2. CASE deferred' = Append(deferred, cur)
    <3>1. /\ Len(deferred') = Len(deferred) + 1
          /\ \A i \in 1 .. Len(deferred) : deferred'[i] = deferred[i]
      BY <2>2, AppendProperties DEF TypeOK
    <3>2. Len(deferred) \in Nat
      BY DEF TypeOK
    <3> QED
      BY <3>1, <3>2 DEF Waiting
  <2> QED
    BY <2>1, <2>2 DEF Conclude
<1>6. kind[cur] = "atomic" /\ cleaning = "yes" =>
        \E i \in 1 .. Len(deferred') : deferred'[i] = cur
  <2> SUFFICES ASSUME kind[cur] = "atomic", cleaning = "yes"
               PROVE  \E i \in 1 .. Len(deferred') : deferred'[i] = cur
    OBVIOUS
  <2>1. deferred' = Append(deferred, cur)
    BY DEF Conclude
  <2>2. /\ Len(deferred') = Len(deferred) + 1
        /\ deferred'[Len(deferred) + 1] = cur
    BY <2>1, AppendProperties DEF TypeOK
  <2>3. Len(deferred) \in Nat
    BY DEF TypeOK
  <2>4. \E i \in 1 .. Len(deferred') : deferred'[i] = cur
    BY <2>2, <2>3
  <2> QED
    BY <2>4
<1>7. \A t \in Tests : /\ kind[t] = "atomic" /\ cleaning = "yes"
                      /\ result'[t].status \in {"scored", "no_evidence"}
                     => Waiting(t)'
  <2>1. \A t \in Tests \ {cur} : /\ kind[t] = "atomic" /\ cleaning = "yes"
                                 /\ result'[t].status \in {"scored", "no_evidence"}
                                => Waiting(t)
    BY <1>1 DEF CleanupInv
  <2> QED
    BY <1>5, <1>6, <2>1 DEF Waiting
<1> QED
  BY <1>1, <1>2, <1>3, <1>4, <1>7 DEF CleanupInv, CleanupAfterWindows, input

LEMMA PlainFinishCleanup ==
  ASSUME TypeOK, CleanupInv, pc \in LoopPcs, UNCHANGED input,
         NEW s \in Statuses \ {"scored", "no_evidence"}, NEW c \in Causes \ {"gate"},
         Finish(s, c)
  PROVE  CleanupInv'
  BY FinishCleanup DEF Finish, Running, guest

LEMMA ContinueCleanup ==
  ASSUME TypeOK, CleanupInv, pc \in LoopPcs, UNCHANGED input, NEW p \in LoopPcs \ {"live"},
         Continue(p)
  PROVE  CleanupInv'
  BY DEF CleanupInv, CleanupAfterWindows, Waiting, Continue, Goto, Running, book, guest,
     input, LoopPcs

LEMMA PropagateCleanup ==
  ASSUME TypeOK, CleanupInv, UNCHANGED input, Propagate
  PROVE  CleanupInv'
  BY DEF CleanupInv, CleanupAfterWindows, Waiting, Propagate, book, guest, input, LoopPcs

LEMMA WithinBudgetCleanup ==
  ASSUME TypeOK, CleanupInv, pc \in LoopPcs, UNCHANGED input,
         NEW p \in LoopPcs \ {"live"}, WithinBudget(p)
  PROVE  CleanupInv'
  BY PlainFinishCleanup, ContinueCleanup DEF WithinBudget, Statuses, Causes

(* What stands is queued until it is cleaned up, and nothing is cleaned up *)
(* before every test has its result.                                       *)
THEOREM CleanupInvariant == Spec => []CleanupInv
<1>1. Init => CleanupInv
  BY DEF Init, CleanupInv, CleanupAfterWindows, Waiting, LoopPcs, NoResult
<1>2. TypeOK /\ CleanupInv /\ [Next]_vars => CleanupInv'
  <2> SUFFICES ASSUME TypeOK, CleanupInv, [Next]_vars PROVE CleanupInv'
    OBVIOUS
  <2>1. CASE GateBlocks
    BY <2>1 DEF GateBlocks, At, CleanupInv, CleanupAfterWindows, Waiting, LoopPcs, guest,
       input, NoResult
  <2>2. CASE GatePasses
    <3>1. CASE Continue(IF LiveOnly THEN "live" ELSE "begin")
      BY <2>2, <3>1 DEF GatePasses, At, CleanupInv, CleanupAfterWindows, Waiting,
         Continue, Goto, Running, book, guest, input, LoopPcs
    <3> QED
      BY <2>2, <3>1, PropagateCleanup DEF GatePasses, At
  <2>3. CASE LiveTest
    <3>1. PICK s \in Statuses \ {"scored", "no_evidence"}, c \in Causes \ {"gate"} :
            Record(s, c)
      BY <2>3 DEF LiveTest, Statuses, Causes
    <3> QED
      BY <2>3, <3>1, FinishCleanup DEF LiveTest, At, Running, LoopPcs
  <2>4. CASE Begin
    <3>1. CASE Finish("skipped", "none")
      BY <2>4, <3>1, PlainFinishCleanup DEF Begin, At, LoopPcs, Statuses, Causes
    <3>2. CASE /\ pc' \in {"precondition", "driver_before"}
               /\ UNCHANGED <<cur, guest, book>>
               /\ Running
      BY <2>4, <3>2 DEF Begin, At, CleanupInv, CleanupAfterWindows, Waiting, Running,
         book, guest, input, LoopPcs
    <3> QED
      BY <2>4, <3>1, <3>2, PropagateCleanup DEF Begin, At, ServerFails
  <2>5. CASE Precondition
    BY <2>5, PlainFinishCleanup, ContinueCleanup
       DEF Precondition, At, LoopPcs, Statuses, Causes
  <2>6. CASE DriverBefore \/ PostClock
    BY <2>6, ContinueCleanup, PropagateCleanup
       DEF DriverBefore, PostClock, ServerFails, At, LoopPcs
  <2>7. CASE Execute
    BY <2>7 DEF Execute, At, Goto, Running, CleanupInv, CleanupAfterWindows, Waiting,
       book, input, LoopPcs
  <2>8. CASE Verdict
    <3>1. CASE Finish(Classify(execution), execution)
      BY <2>8, <3>1, PlainFinishCleanup
         DEF Verdict, At, LoopPcs, Classify, Statuses, TypeOK
    <3> QED
      BY <2>8, <3>1, PlainFinishCleanup, WithinBudgetCleanup
         DEF Verdict, At, LoopPcs, Statuses, Causes
  <2>9. CASE Observe
    BY <2>9, ContinueCleanup, ConcludeCleanup DEF Observe, At, LoopPcs, Statuses
  <2>10. CASE PostSleep
    BY <2>10, WithinBudgetCleanup DEF PostSleep, At, LoopPcs
  <2>11. CASE PollEvidence \/ Nap
    BY <2>11, ContinueCleanup, PropagateCleanup DEF PollEvidence, Nap, At, LoopPcs
  <2>12. CASE EndClock
    <3>1. CASE Goto("summary") /\ Running /\ UNCHANGED <<cleaned, book>>
      BY <2>12, <3>1 DEF EndClock, At, Goto, Running, CleanupInv, CleanupAfterWindows,
         Waiting, book, input, LoopPcs
    <3> QED
      BY <2>12, <3>1, PropagateCleanup DEF EndClock, At
  <2>13. CASE EventSummary \/ EventSamples
    BY <2>13, WithinBudgetCleanup, PropagateCleanup
       DEF EventSummary, EventSamples, At, LoopPcs
  <2>14. CASE ScoreTest
    BY <2>14, ConcludeCleanup, PropagateCleanup DEF ScoreTest, At, LoopPcs, Statuses
  <2>15. CASE Cleanup
    <3>1. CASE Propagate
      BY <2>15, <3>1, PropagateCleanup DEF Cleanup, At
    <3>2. CASE /\ cleaned' = cleaned \cup {Head(deferred)}
               /\ deferred' = Tail(deferred)
               /\ UNCHANGED <<pc, result, report>>
      <4>1. deferred \in Seq(Tests) /\ deferred # <<>>
        BY <2>15 DEF Cleanup, TypeOK
      <4>2. /\ Len(deferred') = Len(deferred) - 1
            /\ \A i \in 1 .. Len(deferred') : deferred'[i] = deferred[i + 1]
            /\ Head(deferred) = deferred[1]
        BY <3>2, <4>1, HeadTailProperties
      <4>3. Len(deferred) \in Nat
        BY <4>1
      <4>4. ASSUME NEW t \in Tests, Waiting(t)
            PROVE  t \in cleaned' \/ \E j \in 1 .. Len(deferred') : deferred'[j] = t
        <5>1. PICK i \in 1 .. Len(deferred) : deferred[i] = t
          BY <4>4 DEF Waiting
        <5>2. CASE i = 1
          BY <3>2, <4>2, <5>1, <5>2
        <5>3. CASE i # 1
          <6>1. i - 1 \in 1 .. Len(deferred') /\ (i - 1) + 1 = i
            BY <4>2, <4>3, <5>3
          <6> QED
            BY <4>2, <5>1, <6>1
        <5> QED
          BY <5>2, <5>3
      <4> QED
        BY <2>15, <3>2, <4>4 DEF Cleanup, At, CleanupInv, CleanupAfterWindows, Waiting,
           input, LoopPcs
    <3>3. CASE pc' = "stopped" /\ UNCHANGED <<guest, book, report>>
      BY <2>15, <3>3 DEF Cleanup, At, CleanupInv, CleanupAfterWindows, Waiting, book,
         guest, input, LoopPcs
    <3> QED
      BY <2>15, <3>1, <3>2, <3>3 DEF Cleanup, Running
  <2>16. CASE CleanupDone
    <3>1. CASE Continue("finish")
      BY <2>16, <3>1 DEF CleanupDone, At, CleanupInv, CleanupAfterWindows, Waiting,
         Continue, Goto, Running, book, guest, input, LoopPcs
    <3> QED
      BY <2>16, <3>1, PropagateCleanup DEF CleanupDone, ServerFails, At
  <2>17. CASE WriteReport
    BY <2>17 DEF WriteReport, At, CleanupInv, CleanupAfterWindows, Waiting, book, guest,
       input, LoopPcs
  <2>18. CASE BudgetExpires \/ WaitExpires \/ UNCHANGED vars
    BY <2>18 DEF BudgetExpires, WaitExpires, vars, CleanupInv, CleanupAfterWindows,
       Waiting, book, guest, input
  <2> QED
    BY <2>1, <2>2, <2>3, <2>4, <2>5, <2>6, <2>7, <2>8, <2>9, <2>10, <2>11, <2>12,
       <2>13, <2>14, <2>15, <2>16, <2>17, <2>18 DEF Next, Runner, Stopped
<1> QED
  BY <1>1, <1>2, TypeCorrect, PTL DEF Spec

(* No cleanup runs before every test of the run has its result.            *)
THEOREM CleanupIsLast == Spec => []CleanupAfterWindows
<1>1. CleanupInv => CleanupAfterWindows
  BY DEF CleanupInv
<1> QED
  BY <1>1, CleanupInvariant, PTL

(* Every Atomic test whose result stands has had its cleanup command       *)
(* answered when the report is written.                                    *)
THEOREM MeasuredCleaned == Spec => []MeasuredAreCleaned
<1>1. CleanupInv => MeasuredAreCleaned
  BY DEF CleanupInv, MeasuredAreCleaned, Waiting
<1> QED
  BY <1>1, CleanupInvariant, PTL

-----------------------------------------------------------------------------
(* What the lemmas below have in common: a step that records at most a     *)
(* result other than "scored" and goes to no later step of the same test.  *)
LEMMA FinishProgress ==
  ASSUME TypeOK, ProgressInv, NEW s \in Statuses \ {"scored"}, NEW c,
         Record(s, c), NextTest, launched \subseteq launched', UNCHANGED measured
  PROVE  ProgressInv'
<1>1. /\ result'[cur] = [status |-> s, cause |-> c]
      /\ \A t \in Tests \ {cur} : result'[t] = result[t]
  BY DEF Record, TypeOK
<1>2. pc' \in {"live", "begin", "cleanup", "finish"}
  BY DEF NextTest
<1> QED
  BY <1>1, <1>2 DEF ProgressInv, ScoredWasMeasured

LEMMA PlainFinishProgress ==
  ASSUME TypeOK, ProgressInv, NEW s \in Statuses \ {"scored"}, NEW c, Finish(s, c)
  PROVE  ProgressInv'
  BY FinishProgress DEF Finish, guest

(* Going on to a step that asks for no more than this one.                 *)
LEMMA ContinueProgress ==
  ASSUME ProgressInv, NEW p, Continue(p),
         p \in {"post_clock", "verdict"} /\ execution = "none" => cur \in launched,
         p \in {"observe", "post_sleep", "wait", "nap", "end_clock", "summary",
                "samples", "collect"} => cur \in launched,
         p \in {"summary", "samples", "collect"} => cur \in measured
  PROVE  ProgressInv'
  BY DEF ProgressInv, ScoredWasMeasured, Continue, Goto, guest, book

LEMMA PropagateProgress ==
  ASSUME ProgressInv, Propagate
  PROVE  ProgressInv'
  BY DEF ProgressInv, ScoredWasMeasured, Propagate, guest, book

LEMMA WithinBudgetProgress ==
  ASSUME TypeOK, ProgressInv, NEW p, WithinBudget(p),
         p \in {"post_clock", "verdict"} /\ execution = "none" => cur \in launched,
         p \in {"observe", "post_sleep", "wait", "nap", "end_clock", "summary",
                "samples", "collect"} => cur \in launched,
         p \in {"summary", "samples", "collect"} => cur \in measured
  PROVE  ProgressInv'
  BY PlainFinishProgress, ContinueProgress DEF WithinBudget, Statuses

(* A test comes to a step only through the ones before it.                 *)
THEOREM ProgressInvariant == Spec => []ProgressInv
<1>1. Init => ProgressInv
  BY DEF Init, ProgressInv, ScoredWasMeasured, NoResult
<1>2. TypeOK /\ ProgressInv /\ [Next]_vars => ProgressInv'
  <2> SUFFICES ASSUME TypeOK, ProgressInv, [Next]_vars PROVE ProgressInv'
    OBVIOUS
  <2>1. CASE GateBlocks
    BY <2>1 DEF GateBlocks, ProgressInv, ScoredWasMeasured, guest
  <2>2. CASE GatePasses
    BY <2>2, ContinueProgress, PropagateProgress DEF GatePasses
  <2>3. CASE LiveTest
    <3>1. PICK s \in Statuses \ {"scored"}, c \in Causes : Record(s, c)
      BY <2>3 DEF LiveTest, Statuses, Causes
    <3> QED
      BY <2>3, <3>1, FinishProgress DEF LiveTest
  <2>4. CASE Begin
    <3>1. CASE pc' \in {"precondition", "driver_before"} /\ UNCHANGED <<cur, guest, book>>
      BY <3>1 DEF ProgressInv, ScoredWasMeasured, guest, book
    <3> QED
      BY <2>4, <3>1, PlainFinishProgress, PropagateProgress
         DEF Begin, ServerFails, Statuses
  <2>5. CASE Precondition
    BY <2>5, PlainFinishProgress, ContinueProgress DEF Precondition, Statuses
  <2>6. CASE DriverBefore
    BY <2>6, ContinueProgress, PropagateProgress DEF DriverBefore, ServerFails
  <2>7. CASE Execute
    BY <2>7 DEF Execute, Goto, ProgressInv, ScoredWasMeasured, book
  <2>8. CASE PostClock
    BY <2>8, ContinueProgress, PropagateProgress
       DEF PostClock, ServerFails, At, ProgressInv
  <2>9. CASE Verdict
    BY <2>9, PlainFinishProgress, WithinBudgetProgress
       DEF Verdict, At, Classify, Statuses, ProgressInv
  <2>10. CASE Observe
    <3>1. ASSUME NEW s \in Statuses \ {"scored"}, Conclude(s)
          PROVE  ProgressInv'
      BY <3>1, FinishProgress DEF Conclude, guest
    <3> QED
      BY <2>10, <3>1, ContinueProgress DEF Observe, At, Statuses, ProgressInv
  <2>11. CASE PostSleep
    BY <2>11, WithinBudgetProgress DEF PostSleep, At, ProgressInv
  <2>12. CASE PollEvidence \/ Nap
    BY <2>12, ContinueProgress, PropagateProgress
       DEF PollEvidence, Nap, At, ProgressInv
  <2>13. CASE EndClock
    <3>1. CASE /\ Goto("summary")
               /\ measured' = measured \cup {cur}
               /\ UNCHANGED <<execution, launched, book>>
      BY <2>13, <3>1 DEF EndClock, At, Goto, ProgressInv, ScoredWasMeasured, book
    <3> QED
      BY <2>13, <3>1, PropagateProgress DEF EndClock
  <2>14. CASE EventSummary \/ EventSamples
    BY <2>14, WithinBudgetProgress, PropagateProgress
       DEF EventSummary, EventSamples, At, ProgressInv
  <2>15. CASE ScoreTest
    <3>1. CASE Conclude("scored")
      <4>1. /\ result'[cur] = [status |-> "scored", cause |-> "none"]
            /\ \A t \in Tests \ {cur} : result'[t] = result[t]
        BY <3>1 DEF Conclude, Record, TypeOK
      <4>2. cur \in launched \cap measured
        BY <2>15 DEF ScoreTest, At, ProgressInv
      <4>3. pc' \in {"live", "begin", "cleanup", "finish"}
        BY <3>1 DEF Conclude, NextTest
      <4> QED
        BY <3>1, <4>1, <4>2, <4>3 DEF Conclude, ProgressInv, ScoredWasMeasured, guest
    <3> QED
      BY <2>15, <3>1, PropagateProgress DEF ScoreTest
  <2>16. CASE Cleanup
    <3>1. CASE UNCHANGED <<pc, cur, execution, launched, measured, result>>
      BY <3>1 DEF ProgressInv, ScoredWasMeasured
    <3>2. CASE pc' = "stopped" /\ UNCHANGED <<guest, book>>
      BY <3>2 DEF ProgressInv, ScoredWasMeasured, guest, book
    <3> QED
      BY <2>16, <3>1, <3>2, PropagateProgress DEF Cleanup
  <2>17. CASE CleanupDone
    BY <2>17, ContinueProgress, PropagateProgress DEF CleanupDone, ServerFails
  <2>18. CASE WriteReport
    BY <2>18 DEF WriteReport, ProgressInv, ScoredWasMeasured, guest, book
  <2>19. CASE BudgetExpires \/ WaitExpires \/ UNCHANGED vars
    BY <2>19 DEF BudgetExpires, WaitExpires, vars, ProgressInv, ScoredWasMeasured,
       guest, book
  <2> QED
    BY <2>1, <2>2, <2>3, <2>4, <2>5, <2>6, <2>7, <2>8, <2>9, <2>10, <2>11, <2>12,
       <2>13, <2>14, <2>15, <2>16, <2>17, <2>18, <2>19 DEF Next, Runner, Stopped
<1> QED
  BY <1>1, <1>2, TypeCorrect, PTL DEF Spec

(* A test that is scored was launched and its evidence window closed.      *)
THEOREM ScoredMeasured == Spec => []ScoredWasMeasured
<1>1. ProgressInv => ScoredWasMeasured
  BY DEF ProgressInv
<1> QED
  BY <1>1, ProgressInvariant, PTL

-----------------------------------------------------------------------------
(* One result more: the tests after it still have none.                    *)
LEMMA RecordOrder ==
  ASSUME TypeOK, OrderInv, pc \in LoopPcs, NEW s, NEW c, Record(s, c), NextTest
  PROVE  /\ pc' # "gate"
         /\ pc' \in LoopPcs =>
              cur' = cur + 1 /\ \A t \in Tests : t >= cur' => result'[t] = NoResult
<1>1. \A t \in Tests \ {cur} : result'[t] = result[t]
  BY DEF Record, TypeOK
<1>2. cur \in Nat /\ \A t \in Tests : t \in Nat
  BY TestsAssumption DEF TypeOK, Tests
<1>3. pc' \in LoopPcs => cur' = cur + 1
  BY DEF NextTest, LoopPcs
<1>4. \A t \in Tests : t >= cur + 1 => t # cur /\ t >= cur
  BY <1>2
<1> QED
  BY <1>1, <1>3, <1>4 DEF OrderInv, NextTest

LEMMA FinishOrder ==
  ASSUME TypeOK, OrderInv, pc \in LoopPcs, NEW s, NEW c, Record(s, c), NextTest,
         UNCHANGED deferred
  PROVE  OrderInv'
<1>1. cur \in Nat /\ \A i \in 1 .. Len(deferred) : deferred[i] \in Nat
  BY TestsAssumption DEF TypeOK, Tests
<1>2. \A i \in 1 .. Len(deferred) : deferred[i] < cur /\ deferred[i] < cur + 1
  BY <1>1 DEF OrderInv
<1> QED
  BY <1>2, RecordOrder DEF OrderInv

LEMMA ConcludeOrder ==
  ASSUME TypeOK, OrderInv, pc \in LoopPcs, NEW s, Conclude(s)
  PROVE  OrderInv'
<1>1. CASE deferred' = deferred
  BY <1>1, FinishOrder DEF Conclude
<1>2. CASE deferred' = Append(deferred, cur)
  <2>1. /\ cur \in Nat /\ Len(deferred) \in Nat
        /\ \A i \in 1 .. Len(deferred) : deferred[i] \in Nat
    BY TestsAssumption DEF TypeOK, Tests
  <2>2. /\ Len(deferred') = Len(deferred) + 1
        /\ \A i \in 1 .. Len(deferred) : deferred'[i] = deferred[i]
        /\ deferred'[Len(deferred) + 1] = cur
    BY <1>2, AppendProperties DEF TypeOK
  <2>3. \A i \in 1 .. Len(deferred') : i \in 1 .. Len(deferred) \/ i = Len(deferred) + 1
    BY <2>1, <2>2
  <2>4. \A i \in 1 .. Len(deferred) : deferred[i] < cur
    BY DEF OrderInv
  <2>5. \A i \in 1 .. Len(deferred') : deferred'[i] < cur + 1
    BY <2>1, <2>2, <2>3, <2>4
  <2>6. \A i, j \in 1 .. Len(deferred') : i < j => deferred'[i] < deferred'[j]
    <3>1. SUFFICES ASSUME NEW i \in 1 .. Len(deferred'), NEW j \in 1 .. Len(deferred'),
                          i < j
                   PROVE  deferred'[i] < deferred'[j]
      OBVIOUS
    <3>2. i \in 1 .. Len(deferred)
      BY <2>1, <2>2, <3>1
    <3>3. CASE j = Len(deferred) + 1
      BY <2>2, <2>4, <3>2, <3>3
    <3>4. CASE j \in 1 .. Len(deferred)
      BY <2>2, <3>1, <3>2, <3>4 DEF OrderInv
    <3> QED
      BY <2>3, <3>3, <3>4
  <2>7. /\ pc' # "gate"
        /\ pc' \in LoopPcs =>
             cur' = cur + 1 /\ \A t \in Tests : t >= cur' => result'[t] = NoResult
    BY RecordOrder DEF Conclude
  <2> QED
    BY <2>5, <2>6, <2>7 DEF OrderInv
<1> QED
  BY <1>1, <1>2 DEF Conclude

LEMMA PlainFinishOrder ==
  ASSUME TypeOK, OrderInv, pc \in LoopPcs, NEW s, NEW c, Finish(s, c)
  PROVE  OrderInv'
  BY FinishOrder DEF Finish

LEMMA ContinueOrder ==
  ASSUME OrderInv, pc \in LoopPcs, NEW p, p # "gate", Continue(p)
  PROVE  OrderInv'
  BY DEF OrderInv, Continue, Goto, guest, book

LEMMA PropagateOrder ==
  ASSUME OrderInv, Propagate
  PROVE  OrderInv'
  BY DEF OrderInv, Propagate, guest, book, LoopPcs

LEMMA WithinBudgetOrder ==
  ASSUME TypeOK, OrderInv, pc \in LoopPcs, NEW p, p # "gate", WithinBudget(p)
  PROVE  OrderInv'
  BY PlainFinishOrder, ContinueOrder DEF WithinBudget

(* Tests have no result before their turn, and cleanups are queued in the  *)
(* order of the tests.                                                     *)
THEOREM OrderInvariant == Spec => []OrderInv
<1>1. Init => OrderInv
  BY DEF Init, OrderInv, LoopPcs
<1>2. TypeOK /\ CleanupInv /\ OrderInv /\ [Next]_vars => OrderInv'
  <2> SUFFICES ASSUME TypeOK, CleanupInv, OrderInv, [Next]_vars PROVE OrderInv'
    OBVIOUS
  <2>1. CASE GateBlocks
    BY <2>1 DEF GateBlocks, At, OrderInv, LoopPcs
  <2>2. CASE GatePasses
    <3>1. CASE Continue(IF LiveOnly THEN "live" ELSE "begin")
      <4>1. deferred = <<>>
        BY <2>2 DEF GatePasses, At, CleanupInv
      <4> QED
        BY <2>2, <3>1, <4>1 DEF GatePasses, At, OrderInv, Continue, Goto, guest, book,
           LoopPcs
    <3> QED
      BY <2>2, <3>1, PropagateOrder DEF GatePasses
  <2>3. CASE LiveTest
    BY <2>3, FinishOrder DEF LiveTest, At, LoopPcs
  <2>4. CASE Begin
    <3>1. CASE pc' \in {"precondition", "driver_before"} /\ UNCHANGED <<cur, guest, book>>
      BY <2>4, <3>1 DEF Begin, At, OrderInv, guest, book, LoopPcs
    <3> QED
      BY <2>4, <3>1, PlainFinishOrder, PropagateOrder DEF Begin, At, ServerFails, LoopPcs
  <2>5. CASE Precondition
    BY <2>5, PlainFinishOrder, ContinueOrder DEF Precondition, At, LoopPcs
  <2>6. CASE DriverBefore \/ PostClock
    BY <2>6, ContinueOrder, PropagateOrder
       DEF DriverBefore, PostClock, ServerFails, At, LoopPcs
  <2>7. CASE Execute
    BY <2>7 DEF Execute, At, Goto, OrderInv, book, LoopPcs
  <2>8. CASE Verdict
    BY <2>8, PlainFinishOrder, WithinBudgetOrder DEF Verdict, At, LoopPcs
  <2>9. CASE Observe
    BY <2>9, ContinueOrder, ConcludeOrder DEF Observe, At, LoopPcs
  <2>10. CASE PostSleep
    BY <2>10, WithinBudgetOrder DEF PostSleep, At, LoopPcs
  <2>11. CASE PollEvidence \/ Nap
    BY <2>11, ContinueOrder, PropagateOrder DEF PollEvidence, Nap, At, LoopPcs
  <2>12. CASE EndClock
    <3>1. CASE Goto("summary") /\ UNCHANGED <<launched, book>>
      BY <2>12, <3>1 DEF EndClock, At, Goto, OrderInv, book, LoopPcs
    <3> QED
      BY <2>12, <3>1, PropagateOrder DEF EndClock
  <2>13. CASE EventSummary \/ EventSamples
    BY <2>13, WithinBudgetOrder, PropagateOrder
       DEF EventSummary, EventSamples, At, LoopPcs
  <2>14. CASE ScoreTest
    BY <2>14, ConcludeOrder, PropagateOrder DEF ScoreTest, At, LoopPcs
  <2>15. CASE Cleanup
    <3>1. CASE deferred' = Tail(deferred) /\ UNCHANGED pc
      <4>1. deferred \in Seq(Tests) /\ deferred # <<>> /\ pc = "cleanup"
        BY <2>15 DEF Cleanup, At, TypeOK
      <4>2. /\ Len(deferred') = Len(deferred) - 1
            /\ \A i \in 1 .. Len(deferred') : deferred'[i] = deferred[i + 1]
            /\ Len(deferred) \in Nat
        BY <3>1, <4>1, HeadTailProperties
      <4>3. \A i \in 1 .. Len(deferred') : i + 1 \in 1 .. Len(deferred)
        BY <4>2
      <4>4. \A i, j \in 1 .. Len(deferred') : i < j => i + 1 < j + 1
        BY <4>2
      <4>5. \A i, j \in 1 .. Len(deferred') : i < j => deferred'[i] < deferred'[j]
        BY <4>2, <4>3, <4>4 DEF OrderInv
      <4> QED
        BY <3>1, <4>1, <4>5 DEF OrderInv, LoopPcs
    <3>2. CASE pc' = "stopped" /\ UNCHANGED book
      BY <3>2 DEF OrderInv, book, LoopPcs
    <3> QED
      BY <2>15, <3>1, <3>2, PropagateOrder DEF Cleanup
  <2>16. CASE CleanupDone
    <3>1. CASE Continue("finish")
      BY <3>1 DEF OrderInv, Continue, Goto, book, LoopPcs
    <3> QED
      BY <2>16, <3>1, PropagateOrder DEF CleanupDone, ServerFails
  <2>17. CASE WriteReport
    BY <2>17 DEF WriteReport, OrderInv, book, LoopPcs
  <2>18. CASE BudgetExpires \/ WaitExpires \/ UNCHANGED vars
    BY <2>18 DEF BudgetExpires, WaitExpires, vars, OrderInv, guest, book
  <2> QED
    BY <2>1, <2>2, <2>3, <2>4, <2>5, <2>6, <2>7, <2>8, <2>9, <2>10, <2>11, <2>12,
       <2>13, <2>14, <2>15, <2>16, <2>17, <2>18 DEF Next, Runner, Stopped
<1> QED
  BY <1>1, <1>2, TypeCorrect, CleanupInvariant, PTL DEF Spec

-----------------------------------------------------------------------------
(* The state of the campaign a run implements.                             *)
LEMMA RunVars ==
  /\ Run!vars = <<Due, entries, launched, measured, Stands, Scored, Owed, cleaned, report>>
  /\ Run!vars' =
       <<Due', entries', launched', measured', Stands', Scored', Owed', cleaned', report'>>
  BY DEF Run!vars

LEMMA DueKept ==
  ASSUME UNCHANGED input
  PROVE  Due' = Due
  BY DEF input, Due

LEMMA RunFrame ==
  ASSUME UNCHANGED <<input, guest, book, report>>
  PROVE  UNCHANGED Run!vars
<1>1. Stands' = Stands /\ Scored' = Scored /\ Owed' = Owed
  BY DEF book, Stands, Scored, Owed
<1> QED
  BY <1>1, DueKept, RunVars DEF guest, book

(* In the loop, the current test of the run is that of the campaign.       *)
LEMMA CurrentTest ==
  ASSUME TypeOK, EntriesInv, pc \in LoopPcs
  PROVE  /\ Run!Current = cur /\ cur \in Run!Tests
         /\ report = "none"
<1>1. cur \in Nat \ {0} /\ cur - 1 \in Nat /\ (cur - 1) + 1 = cur /\ cur \in Run!Tests
  BY TestsAssumption DEF TypeOK, Tests, Run!Tests
<1>2. Len(entries) = cur - 1
  BY <1>1 DEF EntriesInv, First
<1>3. report = "none"
  BY DEF EntriesInv, TypeOK, LoopPcs
<1> QED
  BY <1>1, <1>2, <1>3 DEF Run!Current

LEMMA AllAreEntered ==
  ASSUME TypeOK, EntriesInv, pc \in {"cleanup", "finish"}
  PROVE  Run!AllEntered /\ report = "none"
<1>1. report = "none"
  BY DEF EntriesInv, TypeOK
<1> QED
  BY <1>1 DEF EntriesInv, First, Run!AllEntered, Run!Tests

(* One result more adds the current test, and no other, to the sets.       *)
LEMMA RecordStands ==
  ASSUME TypeOK, OrderInv, pc \in LoopPcs, NEW s, NEW c, Record(s, c)
  PROVE  /\ Stands' = IF s \in {"scored", "no_evidence"} THEN Stands \cup {cur} ELSE Stands
         /\ Scored' = IF s = "scored" THEN Scored \cup {cur} ELSE Scored
<1>1. /\ result'[cur].status = s /\ cur \in Tests
      /\ \A t \in Tests \ {cur} : result'[t] = result[t]
  BY DEF Record, TypeOK
<1>2. result[cur] = NoResult
  BY <1>1, TestsAssumption DEF OrderInv, Tests
<1>3. cur \notin Stands /\ cur \notin Scored
  BY <1>2 DEF Stands, Scored, NoResult
<1> QED
  BY <1>1, <1>3 DEF Stands, Scored

LEMMA EnterStep ==
  ASSUME TypeOK, EntriesInv, OrderInv, pc \in LoopPcs, UNCHANGED input,
         NEW s \in Statuses \ {"scored", "no_evidence"}, NEW c, Record(s, c),
         launched' \in {launched, launched \cup {cur}},
         UNCHANGED <<measured, cleaned, deferred, report>>
  PROVE  Run!Next
<1>1. Stands' = Stands /\ Scored' = Scored
  BY RecordStands
<1>2. Owed' = Owed
  BY DEF Owed
<1>3. Run!Enter
  BY <1>1, <1>2, CurrentTest, DueKept DEF Run!Enter, Record
<1> QED
  BY <1>3, CurrentTest DEF Run!Next

LEMMA FinishStep ==
  ASSUME TypeOK, EntriesInv, OrderInv, pc \in LoopPcs, UNCHANGED input,
         NEW s \in Statuses \ {"scored", "no_evidence"}, NEW c, Finish(s, c)
  PROVE  Run!Next
  BY EnterStep DEF Finish, guest, Running

LEMMA ConcludeStep ==
  ASSUME TypeOK, EntriesInv, OrderInv, pc \in LoopPcs, UNCHANGED input,
         NEW s \in Statuses, Conclude(s), cur \in launched,
         s = "scored" => cur \in measured
  PROVE  Run!Next
<1>1. /\ Stands' = IF s \in {"scored", "no_evidence"} THEN Stands \cup {cur} ELSE Stands
      /\ Scored' = IF s = "scored" THEN Scored \cup {cur} ELSE Scored
  BY RecordStands DEF Conclude
<1>2. Owed' = Owed \cup ({cur} \cap Due)
  <2>0. cur \in Tests
    BY DEF TypeOK
  <2>1. CASE kind[cur] = "atomic" /\ cleaning = "yes"
    <3>1. deferred' = Append(deferred, cur)
      BY <2>1 DEF Conclude
    <3>2. /\ Len(deferred') = Len(deferred) + 1 /\ Len(deferred) \in Nat
          /\ \A i \in 1 .. Len(deferred) : deferred'[i] = deferred[i]
          /\ deferred'[Len(deferred) + 1] = cur
      BY <3>1, AppendProperties DEF TypeOK
    <3>3. 1 .. Len(deferred') = (1 .. Len(deferred)) \cup {Len(deferred) + 1}
      BY <3>2
    <3>4. Owed' = Owed \cup {cur}
      BY <3>2, <3>3 DEF Owed
    <3> QED
      BY <2>0, <2>1, <3>4 DEF Due
  <2>2. CASE ~ (kind[cur] = "atomic" /\ cleaning = "yes")
    BY <2>2 DEF Conclude, Owed, Due
  <2> QED
    BY <2>1, <2>2
<1>3. Run!EnterComplete
  <2>1. UNCHANGED <<launched, measured, cleaned, report>> /\ entries' = Append(entries, cur)
    BY DEF Conclude, Record, guest, Running
  <2>2. cur \in Stands' \/ s # "scored"
    BY <1>1
  <2>3. Stands' \in {Stands, Stands \cup {cur}} /\ Scored' \in {Scored, Scored \cup {cur}}
    BY <1>1
  <2>4. Scored' # Scored => cur \in measured \cap Stands'
    BY <1>1, <2>2
  <2> QED
    BY <1>2, <2>1, <2>3, <2>4, CurrentTest, DueKept DEF Run!EnterComplete
<1> QED
  BY <1>3, CurrentTest DEF Run!Next

LEMMA ContinueStep ==
  ASSUME UNCHANGED input, NEW p, Continue(p) \/ Propagate
  PROVE  UNCHANGED Run!vars
  BY RunFrame DEF Continue, Propagate, Running, guest, book

LEMMA WithinBudgetStep ==
  ASSUME TypeOK, EntriesInv, OrderInv, pc \in LoopPcs, UNCHANGED input,
         NEW p, WithinBudget(p)
  PROVE  Run!Next \/ UNCHANGED Run!vars
  BY FinishStep, ContinueStep DEF WithinBudget, Statuses

(* A cleanup settles what is owed of one test.                             *)
LEMMA CleanStep ==
  ASSUME TypeOK, EntriesInv, OrderInv, pc = "cleanup", UNCHANGED input, deferred # <<>>,
         cleaned' = cleaned \cup {Head(deferred)}, deferred' = Tail(deferred),
         UNCHANGED <<launched, measured, entries, result, report>>
  PROVE  Run!Next
<1> DEFINE h == Head(deferred)
<1>1. /\ Len(deferred') = Len(deferred) - 1
      /\ \A i \in 1 .. Len(deferred') : deferred'[i] = deferred[i + 1]
      /\ Len(deferred) \in Nat \ {0}
      /\ h = deferred[1] /\ h \in Tests
  BY HeadTailProperties DEF TypeOK
<1>2. \A i \in 1 .. Len(deferred) : deferred[i] \in Nat
  BY TestsAssumption DEF TypeOK, Tests
<1>3. \A i \in 1 .. Len(deferred) : i # 1 => deferred[i] # h
  <2>1. \A i \in 1 .. Len(deferred) : i # 1 => 1 < i /\ 1 \in 1 .. Len(deferred)
    BY <1>1
  <2>2. \A i \in 1 .. Len(deferred) : i # 1 => deferred[1] < deferred[i]
    BY <2>1 DEF OrderInv
  <2> QED
    BY <1>1, <1>2, <2>2
<1>4. Owed' = Owed \ {h}
  <2>1. ASSUME NEW t \in Owed' PROVE t \in Owed \ {h}
    <3>1. PICK i \in 1 .. Len(deferred') : deferred'[i] = t
      BY <2>1 DEF Owed
    <3>2. i + 1 \in 1 .. Len(deferred) /\ i + 1 # 1
      BY <1>1
    <3> QED
      BY <1>1, <1>3, <3>1, <3>2 DEF Owed
  <2>2. ASSUME NEW t \in Owed \ {h} PROVE t \in Owed'
    <3>1. PICK i \in 1 .. Len(deferred) : deferred[i] = t
      BY <2>2 DEF Owed
    <3>2. i - 1 \in 1 .. Len(deferred') /\ (i - 1) + 1 = i
      BY <1>1, <2>2, <3>1
    <3> QED
      BY <1>1, <3>1, <3>2 DEF Owed
  <2> QED
    BY <2>1, <2>2
<1>5. h \in Owed
  BY <1>1 DEF Owed
<1>6. Stands' = Stands /\ Scored' = Scored
  BY DEF Stands, Scored
<1>7. Run!Clean(h)
  BY <1>4, <1>5, <1>6, AllAreEntered, DueKept DEF Run!Clean
<1> QED
  BY <1>1, <1>7, AllAreEntered DEF Run!Next, Run!Tests, Tests

(* The gates that block a run publish the entries of all its tests.        *)
LEMMA RefuseStep ==
  ASSUME TypeOK, EntriesInv, OrderInv, CleanupInv, GateBlocks
  PROVE  Run!Next
<1>1. pc = "gate" /\ cur = 1 /\ entries = <<>> /\ launched = {} /\ report = "none"
  BY DEF GateBlocks, At, EntriesInv, OrderInv, TypeOK
<1>2. \A t \in Tests : result[t] = NoResult
  BY <1>1, TestsAssumption DEF OrderInv, Tests
<1>3. Stands' = Stands /\ Scored' = Scored
  BY <1>2 DEF GateBlocks, Stands, Scored, NoResult
<1>4. Owed' = Owed
  BY DEF GateBlocks, Owed
<1>5. Run!Refuse
  BY <1>1, <1>3, <1>4, DueKept DEF GateBlocks, At, Run!Refuse, guest, Tests, Run!Tests
<1> QED
  BY <1>1, <1>5 DEF Run!Next

(* A run of the harness implements the campaign: tests in order, results   *)
(* from what was launched, scores from closed windows, cleanups after the  *)
(* last test and a report that leaves none of them owed.                   *)
THEOREM RunIsCampaign == Spec => IsCampaign
<1>1. Init => Run!Init
  <2> SUFFICES ASSUME Init PROVE Run!Init
    OBVIOUS
  <2>1. Stands = {} /\ Scored = {} /\ Owed = {}
    BY DEF Init, Stands, Scored, Owed, NoResult
  <2>2. Due \subseteq Run!Tests
    BY DEF Due, Run!Tests, Tests
  <2> QED
    BY <2>1, <2>2 DEF Init, Run!Init
<1>2. TypeOK /\ EntriesInv /\ ProgressInv /\ CleanupInv /\ OrderInv /\ [Next]_vars
        => [Run!Next]_(Run!vars)
  <2> SUFFICES ASSUME TypeOK, EntriesInv, ProgressInv, CleanupInv, OrderInv, [Next]_vars
               PROVE  Run!Next \/ UNCHANGED Run!vars
    OBVIOUS
  <2>1. CASE GateBlocks
    BY <2>1, RefuseStep
  <2>2. CASE GatePasses
    BY <2>2, ContinueStep DEF GatePasses, At
  <2>3. CASE LiveTest
    <3>1. PICK s \in Statuses \ {"scored", "no_evidence"}, c \in Causes : Record(s, c)
      BY <2>3 DEF LiveTest, Statuses, Causes
    <3>2. launched' \in {launched, launched \cup {cur}}
      BY <2>3 DEF LiveTest
    <3> QED
      BY <2>3, <3>1, <3>2, EnterStep DEF LiveTest, At, Running, LoopPcs
  <2>4. CASE Begin
    <3>1. CASE UNCHANGED <<guest, book>> /\ Running
      BY <2>4, <3>1, RunFrame DEF Begin, At, Running
    <3> QED
      BY <2>4, <3>1, FinishStep, ContinueStep DEF Begin, At, ServerFails, LoopPcs, Statuses
  <2>5. CASE Precondition
    BY <2>5, FinishStep, ContinueStep DEF Precondition, At, LoopPcs, Statuses
  <2>6. CASE DriverBefore \/ PostClock
    BY <2>6, ContinueStep DEF DriverBefore, PostClock, ServerFails, At
  <2>7. CASE Execute
    <3>1. launched' \in {launched, launched \cup {cur}}
          /\ UNCHANGED <<input, measured, cleaned, book, report>>
      BY <2>7 DEF Execute, At, Running
    <3>2. Stands' = Stands /\ Scored' = Scored /\ Owed' = Owed /\ entries' = entries
      BY <3>1 DEF book, Stands, Scored, Owed
    <3>3. CASE launched' = launched
      BY <3>1, <3>2, <3>3, RunVars, DueKept
    <3>4. CASE launched' = launched \cup {cur}
      <4>1. Run!Current = cur /\ cur \in Run!Tests /\ report = "none"
        BY <2>7, CurrentTest DEF Execute, At, LoopPcs
      <4>2. Run!Launch
        BY <3>1, <3>2, <3>4, <4>1, DueKept DEF Run!Launch
      <4> QED
        BY <4>1, <4>2 DEF Run!Next
    <3> QED
      BY <3>1, <3>3, <3>4
  <2>8. CASE Verdict
    <3>1. CASE Finish(Classify(execution), execution)
      BY <2>8, <3>1, FinishStep DEF Verdict, At, LoopPcs, Classify, Statuses
    <3> QED
      BY <2>8, <3>1, FinishStep, WithinBudgetStep DEF Verdict, At, LoopPcs, Statuses
  <2>9. CASE Observe
    <3>1. pc \in LoopPcs /\ cur \in launched /\ UNCHANGED input
      BY <2>9 DEF Observe, At, ProgressInv, LoopPcs
    <3> QED
      BY <2>9, <3>1, ContinueStep, ConcludeStep DEF Observe, Statuses
  <2>10. CASE PostSleep
    BY <2>10, WithinBudgetStep DEF PostSleep, At, LoopPcs
  <2>11. CASE PollEvidence \/ Nap
    BY <2>11, ContinueStep DEF PollEvidence, Nap, At
  <2>12. CASE EndClock
    <3>1. CASE /\ measured' = measured \cup {cur}
               /\ UNCHANGED <<input, launched, cleaned, book, report>>
      <4>1. Stands' = Stands /\ Scored' = Scored /\ Owed' = Owed /\ entries' = entries
        BY <3>1 DEF book, Stands, Scored, Owed
      <4>2. Run!Current = cur /\ report = "none" /\ cur \in launched
        BY <2>12, CurrentTest DEF EndClock, At, ProgressInv, LoopPcs
      <4>3. Run!Close
        BY <3>1, <4>1, <4>2, DueKept DEF Run!Close
      <4> QED
        BY <4>2, <4>3 DEF Run!Next
    <3> QED
      BY <2>12, <3>1, ContinueStep DEF EndClock, At, Running
  <2>13. CASE EventSummary \/ EventSamples
    BY <2>13, WithinBudgetStep, ContinueStep DEF EventSummary, EventSamples, At, LoopPcs
  <2>14. CASE ScoreTest
    <3>1. pc \in LoopPcs /\ cur \in launched /\ cur \in measured /\ UNCHANGED input
      BY <2>14 DEF ScoreTest, At, ProgressInv, LoopPcs
    <3> QED
      BY <2>14, <3>1, ContinueStep, ConcludeStep DEF ScoreTest, Statuses
  <2>15. CASE Cleanup
    <3>1. CASE /\ cleaned' = cleaned \cup {Head(deferred)}
               /\ deferred' = Tail(deferred)
               /\ UNCHANGED <<launched, measured, entries, result, report>>
      BY <2>15, <3>1, CleanStep DEF Cleanup, At
    <3>2. CASE UNCHANGED <<guest, book, report>>
      BY <2>15, <3>2, RunFrame DEF Cleanup, At
    <3> QED
      BY <2>15, <3>1, <3>2, ContinueStep DEF Cleanup, At, Running
  <2>16. CASE CleanupDone
    BY <2>16, ContinueStep DEF CleanupDone, ServerFails, At
  <2>17. CASE WriteReport
    <3>1. Owed = {}
      BY <2>17 DEF WriteReport, At, CleanupInv, Owed
    <3>2. Stands' = Stands /\ Scored' = Scored /\ Owed' = Owed
      BY <2>17 DEF WriteReport, book, Stands, Scored, Owed
    <3>3. Run!AllEntered /\ report = "none"
      BY <2>17, AllAreEntered DEF WriteReport, At
    <3>4. Run!Publish
      BY <2>17, <3>1, <3>2, <3>3, DueKept DEF WriteReport, At, Run!Publish, guest, book
    <3> QED
      BY <3>3, <3>4 DEF Run!Next
  <2>18. CASE BudgetExpires \/ WaitExpires \/ UNCHANGED vars
    BY <2>18, RunFrame DEF BudgetExpires, WaitExpires, vars
  <2> QED
    BY <2>1, <2>2, <2>3, <2>4, <2>5, <2>6, <2>7, <2>8, <2>9, <2>10, <2>11, <2>12,
       <2>13, <2>14, <2>15, <2>16, <2>17, <2>18 DEF Next, Runner, Stopped
<1> QED
  BY <1>1, <1>2, TypeCorrect, EntriesInvariant, ProgressInvariant, CleanupInvariant,
     OrderInvariant, PTL DEF Spec, IsCampaign, Run!Spec

-----------------------------------------------------------------------------
(* The safety part of Ends. At most one cleanup per test that is over.     *)
QueueInv ==
  /\ pc = "gate" => deferred = <<>>
  /\ pc \in LoopPcs => Len(deferred) < cur
  /\ Len(deferred) <= N

LEMMA NextTestQueue ==
  ASSUME TypeOK, QueueInv, pc \in LoopPcs, NextTest, deferred' \in Seq(Tests),
         Len(deferred') \in {Len(deferred), Len(deferred) + 1}
  PROVE  QueueInv'
<1>1. cur \in Nat /\ N \in Nat /\ Len(deferred) \in Nat
  BY TestsAssumption DEF TypeOK, Tests
<1>2. pc' # "gate" /\ (pc' \in LoopPcs => cur' = cur + 1)
  BY DEF NextTest, LoopPcs
<1>3. cur <= N
  BY TestsAssumption DEF TypeOK, Tests
<1> QED
  BY <1>1, <1>2, <1>3 DEF QueueInv

(* The current test is over, with no cleanup of its own,                   *)
LEMMA FinishQueue ==
  ASSUME TypeOK, QueueInv, pc \in LoopPcs, NextTest, UNCHANGED deferred
  PROVE  QueueInv'
  BY NextTestQueue DEF TypeOK

(* or with one,                                                            *)
LEMMA ConcludeQueue ==
  ASSUME TypeOK, QueueInv, pc \in LoopPcs, NEW s, Conclude(s)
  PROVE  QueueInv'
<1>1. NextTest
  BY DEF Conclude
<1>2. CASE deferred' = deferred
  BY <1>1, <1>2, FinishQueue
<1>3. CASE deferred' = Append(deferred, cur)
  <2>1. deferred' \in Seq(Tests) /\ Len(deferred') = Len(deferred) + 1
    BY <1>3, AppendProperties DEF TypeOK
  <2> QED
    BY <1>1, <2>1, NextTestQueue
<1> QED
  BY <1>2, <1>3 DEF Conclude

(* or it goes on.                                                          *)
LEMMA SameTestQueue ==
  ASSUME QueueInv, pc \in LoopPcs, pc' # "gate", UNCHANGED <<cur, deferred>>
  PROVE  QueueInv'
  BY DEF QueueInv

LEMMA OutsideQueue ==
  ASSUME QueueInv, pc' \notin LoopPcs \cup {"gate"}, UNCHANGED deferred
  PROVE  QueueInv'
  BY DEF QueueInv

LEMMA WithinBudgetQueue ==
  ASSUME TypeOK, QueueInv, pc \in LoopPcs, NEW p, p # "gate", WithinBudget(p)
  PROVE  QueueInv'
  BY FinishQueue, SameTestQueue DEF WithinBudget, Finish, Continue, Goto, book

(* The queue of deferred cleanups is bounded by the number of tests.       *)
THEOREM QueueInvariant == Spec => []QueueInv
<1>1. Init => QueueInv
  BY TestsAssumption DEF Init, QueueInv, LoopPcs
<1>2. TypeOK /\ QueueInv /\ [Next]_vars => QueueInv'
  <2> SUFFICES ASSUME TypeOK, QueueInv, [Next]_vars PROVE QueueInv'
    OBVIOUS
  <2> USE DEF At, LoopPcs
  <2>0. CASE Propagate
    BY <2>0, OutsideQueue DEF Propagate, book
  <2>1. CASE GateBlocks
    BY <2>1, OutsideQueue DEF GateBlocks
  <2>2. CASE GatePasses
    <3>1. CASE Continue(IF LiveOnly THEN "live" ELSE "begin")
      <4>1. deferred = <<>> /\ deferred' = deferred /\ cur' = cur /\ pc' # "gate"
        BY <2>2, <3>1 DEF GatePasses, QueueInv, Continue, Goto, book
      <4> QED
        BY <4>1, TestsAssumption DEF QueueInv, TypeOK, Tests
    <3> QED
      BY <2>2, <3>1, <2>0 DEF GatePasses
  <2>3. CASE LiveTest
    BY <2>3, FinishQueue DEF LiveTest
  <2>4. CASE Begin
    <3>1. CASE pc' \in {"precondition", "driver_before"} /\ UNCHANGED <<cur, guest, book>>
      BY <2>4, <3>1, SameTestQueue DEF Begin, book
    <3> QED
      BY <2>4, <3>1, <2>0, FinishQueue DEF Begin, ServerFails, Finish
  <2>5. CASE Precondition \/ DriverBefore \/ PostClock
    BY <2>5, <2>0, FinishQueue, SameTestQueue
       DEF Precondition, DriverBefore, PostClock, ServerFails, Finish, Continue, Goto, book
  <2>6. CASE Execute
    BY <2>6, SameTestQueue DEF Execute, Goto, book
  <2>7. CASE Verdict
    BY <2>7, FinishQueue, WithinBudgetQueue DEF Verdict, Finish
  <2>8. CASE Observe
    BY <2>8, ConcludeQueue, SameTestQueue DEF Observe, Continue, Goto, book
  <2>9. CASE PostSleep \/ EventSummary \/ EventSamples
    BY <2>9, <2>0, WithinBudgetQueue DEF PostSleep, EventSummary, EventSamples
  <2>10. CASE PollEvidence \/ Nap \/ EndClock
    BY <2>10, <2>0, SameTestQueue DEF PollEvidence, Nap, EndClock, Continue, Goto, book
  <2>11. CASE ScoreTest
    BY <2>11, <2>0, ConcludeQueue DEF ScoreTest
  <2>12. CASE Cleanup
    <3>1. CASE deferred' = Tail(deferred) /\ UNCHANGED pc
      <4>1. deferred \in Seq(Tests) /\ deferred # <<>> /\ pc' = "cleanup"
        BY <2>12, <3>1 DEF Cleanup, TypeOK
      <4>2. Len(deferred') = Len(deferred) - 1 /\ Len(deferred) \in Nat
        BY <3>1, <4>1, HeadTailProperties
      <4> QED
        BY <4>1, <4>2, TestsAssumption DEF QueueInv
    <3>2. CASE pc' = "stopped" /\ UNCHANGED book
      BY <3>2, OutsideQueue DEF book
    <3> QED
      BY <2>0, <2>12, <3>1, <3>2 DEF Cleanup
  <2>13. CASE CleanupDone \/ WriteReport
    BY <2>0, <2>13, OutsideQueue
       DEF CleanupDone, WriteReport, ServerFails, Continue, Goto, book
  <2>14. CASE BudgetExpires \/ WaitExpires \/ UNCHANGED vars
    BY <2>14 DEF BudgetExpires, WaitExpires, vars, QueueInv, book
  <2> QED
    BY <2>1, <2>2, <2>3, <2>4, <2>5, <2>6, <2>7, <2>8, <2>9, <2>10, <2>11, <2>12,
       <2>13, <2>14 DEF Next, Runner, Stopped
<1> QED
  BY <1>1, <1>2, TypeCorrect, PTL DEF Spec

(* Steps of the run that are left, at most, when it does not wait for      *)
(* evidence again: of the current test, of all tests, and of the cleanups. *)
TestSteps ==
  CASE pc = "begin" -> 15          [] pc = "precondition" -> 14
    [] pc = "driver_before" -> 13  [] pc = "execute" -> 12
    [] pc = "post_clock" -> 11     [] pc = "verdict" -> 10
    [] pc = "observe" -> 9         [] pc = "post_sleep" -> 8
    [] pc = "nap" -> 7             [] pc = "wait" -> 6
    [] pc = "end_clock" -> 5       [] pc = "summary" -> 4
    [] pc = "samples" -> 3         [] pc = "collect" -> 2
    [] OTHER -> 1

StepsLeft ==
  CASE pc = "gate"    -> 16 * N + 3
    [] pc \in LoopPcs -> 15 * (N - cur) + TestSteps + N + 2
    [] pc = "cleanup" -> Len(deferred) + 2
    [] pc = "finish"  -> 1
    [] pc = "stopped" -> 0

(* What these come to, in every place and for every step.                  *)
LEMMA TestStepsAre ==
  /\ TestSteps \in 1 .. 15
  /\ TestSteps' \in 1 .. 15
<1>1. TestSteps \in 1 .. 15
  BY DEF TestSteps
<1>2. TestSteps' \in 1 .. 15
  BY DEF TestSteps
<1> QED
  BY <1>1, <1>2

LEMMA StepsLeftAre ==
  /\ pc \in LoopPcs => StepsLeft = 15 * (N - cur) + TestSteps + N + 2
  /\ pc' \in LoopPcs => StepsLeft' = 15 * (N - cur') + TestSteps' + N + 2
<1>1. pc \in LoopPcs => StepsLeft = 15 * (N - cur) + TestSteps + N + 2
  BY DEF StepsLeft, LoopPcs
<1>2. pc' \in LoopPcs => StepsLeft' = 15 * (N - cur') + TestSteps' + N + 2
  BY DEF StepsLeft, LoopPcs
<1> QED
  BY <1>1, <1>2

LEMMA StepsLeftTyped ==
  ASSUME TypeOK, QueueInv
  PROVE  /\ StepsLeft \in 0 .. 16 * N + 3
         /\ pc # "stopped" => StepsLeft > 0
<1>1. N \in Nat /\ cur \in 1 .. N /\ Len(deferred) \in 0 .. N
  BY TestsAssumption DEF TypeOK, Tests, QueueInv
<1>2. CASE pc \in LoopPcs
  <2> DEFINE left == 15 * (N - cur) + TestSteps + N + 2
  <2>1. /\ 15 * (N - cur) \in Nat /\ 15 * (N - cur) <= 15 * N - 15
        /\ N \in Nat /\ TestSteps \in 1 .. 15
    BY <1>1, TestStepsAre
  <2>2. left \in 0 .. 16 * N + 3 /\ left > 0
    <3> DEFINE later == 15 * (N - cur)
    <3>1. later \in Nat /\ later <= 15 * N - 15
      BY <2>1
    <3>2. left = later + TestSteps + N + 2
      OBVIOUS
    <3> HIDE DEF later, left
    <3> QED
      BY <2>1, <3>1, <3>2
  <2> QED
    BY <1>2, <2>2, StepsLeftAre
<1>3. CASE pc = "gate"
  BY <1>1, <1>3 DEF StepsLeft, LoopPcs
<1>4. CASE pc \in {"cleanup", "finish", "stopped"}
  BY <1>1, <1>4 DEF StepsLeft, LoopPcs
<1> QED
  BY <1>2, <1>3, <1>4 DEF TypeOK, Pcs

(* The next test begins, or there is none: as many steps fewer as this     *)
(* test still had.                                                         *)
LEMMA NextTestAdvances ==
  ASSUME TypeOK, TypeOK', QueueInv', pc \in LoopPcs, NextTest
  PROVE  StepsLeft' < StepsLeft
<1>1. N \in Nat /\ cur \in 1 .. N /\ Len(deferred') \in 0 .. N
  BY TestsAssumption DEF TypeOK, Tests, QueueInv
<1>2. TestSteps \in 1 .. 15
  BY TestStepsAre
<1>3. StepsLeft = 15 * (N - cur) + TestSteps + N + 2
  BY StepsLeftAre
<1>4. CASE cur = N
  <2>1. StepsLeft' \in {1, Len(deferred') + 2}
    BY <1>4 DEF NextTest, StepsLeft, LoopPcs
  <2> QED
    BY <1>1, <1>2, <1>3, <1>4, <2>1
<1>5. CASE cur # N
  <2>1. cur' = cur + 1 /\ pc' = (IF pc = "live" THEN "live" ELSE "begin")
    BY <1>5 DEF NextTest
  <2>2. CASE pc = "live"
    <3>1. TestSteps = 1 /\ TestSteps' = 1
      BY <2>1, <2>2 DEF TestSteps
    <3>2. StepsLeft' = 15 * (N - cur') + TestSteps' + N + 2
      BY <2>1, <2>2, StepsLeftAre DEF LoopPcs
    <3> QED
      BY <1>1, <1>3, <2>1, <3>1, <3>2
  <2>3. CASE pc # "live"
    <3>1. TestSteps' = 15
      BY <2>1, <2>3 DEF TestSteps
    <3>2. StepsLeft' = 15 * (N - cur') + TestSteps' + N + 2
      BY <2>1, <2>3, StepsLeftAre DEF LoopPcs
    <3> QED
      BY <1>1, <1>2, <1>3, <2>1, <3>1, <3>2
  <2> QED
    BY <2>2, <2>3
<1> QED
  BY <1>4, <1>5

(* A later step of the same test.                                          *)
LEMMA SameTestAdvances ==
  ASSUME TypeOK, pc \in LoopPcs, pc' \in LoopPcs, UNCHANGED cur, TestSteps' < TestSteps
  PROVE  StepsLeft' < StepsLeft
<1>1. N \in Nat /\ cur \in 1 .. N
  BY TestsAssumption DEF TypeOK, Tests
<1>2. \A i, j \in 1 .. 15 :
        i < j => 15 * (N - cur) + i + N + 2 < 15 * (N - cur) + j + N + 2
  BY <1>1
<1>3. 15 * (N - cur) + TestSteps' + N + 2 < 15 * (N - cur) + TestSteps + N + 2
  BY <1>2, TestStepsAre
<1> QED
  BY <1>3, StepsLeftAre

LEMMA StopAdvances ==
  ASSUME TypeOK, QueueInv, pc # "stopped", pc' = "stopped"
  PROVE  StepsLeft' < StepsLeft
<1>1. StepsLeft' = 0
  BY DEF StepsLeft, LoopPcs
<1> QED
  BY <1>1, StepsLeftTyped

LEMMA WithinBudgetAdvances ==
  ASSUME TypeOK, TypeOK', QueueInv', pc \in LoopPcs, NEW p \in LoopPcs, WithinBudget(p),
         pc' = p => TestSteps' < TestSteps
  PROVE  StepsLeft' < StepsLeft
  BY NextTestAdvances, SameTestAdvances DEF WithinBudget, Finish, Continue, Goto

(* Every step of the run but one brings it nearer to its end.              *)
LEMMA RunnerAdvances ==
  ASSUME TypeOK, TypeOK', QueueInv, QueueInv', Runner,
         ~ (pc = "wait" /\ wait = "ahead")
  PROVE  StepsLeft' < StepsLeft
<1> USE DEF At, LoopPcs, TestSteps
<1>0. CASE Propagate /\ pc # "stopped"
  BY <1>0, StopAdvances DEF Propagate
<1>1. CASE GateBlocks
  BY <1>1, StopAdvances DEF GateBlocks
<1>2. CASE GatePasses
  <2>1. CASE Continue(IF LiveOnly THEN "live" ELSE "begin")
    <3>1. N \in Nat /\ cur' \in 1 .. N
      BY TestsAssumption DEF TypeOK, Tests
    <3>2. pc = "gate" /\ pc' \in {"live", "begin"}
      BY <1>2, <2>1 DEF GatePasses, Continue, Goto
    <3>3. TestSteps' \in 1 .. 15
      BY TestStepsAre
    <3>4. StepsLeft = 16 * N + 3 /\ StepsLeft' = 15 * (N - cur') + TestSteps' + N + 2
      BY <3>2 DEF StepsLeft
    <3> QED
      BY <3>1, <3>3, <3>4
  <2> QED
    BY <1>0, <1>2, <2>1 DEF GatePasses
<1>3. CASE LiveTest
  BY <1>3, NextTestAdvances DEF LiveTest
<1>4. CASE Begin
  <2>1. CASE pc' \in {"precondition", "driver_before"} /\ UNCHANGED cur
    BY <1>4, <2>1, SameTestAdvances DEF Begin
  <2> QED
    BY <1>0, <1>4, <2>1, NextTestAdvances DEF Begin, ServerFails, Finish
<1>5. CASE Precondition \/ DriverBefore \/ PostClock
  BY <1>0, <1>5, NextTestAdvances, SameTestAdvances
     DEF Precondition, DriverBefore, PostClock, ServerFails, Finish, Continue, Goto
<1>6. CASE Execute
  BY <1>6, SameTestAdvances DEF Execute, Goto
<1>7. CASE Verdict
  BY <1>7, NextTestAdvances, WithinBudgetAdvances DEF Verdict, Finish
<1>8. CASE Observe
  BY <1>8, NextTestAdvances, SameTestAdvances DEF Observe, Conclude, Continue, Goto
<1>9. CASE PostSleep \/ EventSummary \/ EventSamples
  BY <1>0, <1>9, WithinBudgetAdvances DEF PostSleep, EventSummary, EventSamples
<1>10. CASE PollEvidence \/ Nap \/ EndClock
  BY <1>0, <1>10, SameTestAdvances DEF PollEvidence, Nap, EndClock, Continue, Goto
<1>11. CASE ScoreTest
  BY <1>0, <1>11, NextTestAdvances DEF ScoreTest, Conclude
<1>12. CASE Cleanup
  <2>1. CASE deferred' = Tail(deferred) /\ UNCHANGED pc
    <3>1. deferred \in Seq(Tests) /\ deferred # <<>> /\ pc = "cleanup"
      BY <1>12 DEF Cleanup, TypeOK
    <3>2. Len(deferred') = Len(deferred) - 1 /\ Len(deferred) \in Nat
      BY <2>1, <3>1, HeadTailProperties
    <3> QED
      BY <2>1, <3>1, <3>2 DEF StepsLeft
  <2> QED
    BY <1>0, <1>12, <2>1, StopAdvances DEF Cleanup
<1>13. CASE CleanupDone
  <2>1. CASE pc' = "finish"
    <3>1. StepsLeft = Len(deferred) + 2 /\ StepsLeft' = 1 /\ Len(deferred) \in Nat
      BY <1>13, <2>1 DEF CleanupDone, StepsLeft, TypeOK
    <3> QED
      BY <3>1
  <2> QED
    BY <1>0, <1>13, <2>1 DEF CleanupDone, ServerFails, Continue, Goto
<1>14. CASE WriteReport
  BY <1>14, StopAdvances DEF WriteReport
<1> QED
  BY <1>1, <1>2, <1>3, <1>4, <1>5, <1>6, <1>7, <1>8, <1>9, <1>10, <1>11, <1>12, <1>13,
     <1>14 DEF Runner

(* A run is at most 16 N + 3 steps long, but for its waiting for evidence: *)
(* each step of it brings it nearer to its end, except the poll that goes  *)
(* on waiting, and that one only while the deadline of the wait is ahead.  *)
THEOREM NearsItsEnd ==
  Spec => [][/\ StepsLeft \in 0 .. 16 * N + 3
             /\ Runner => \/ StepsLeft' < StepsLeft
                          \/ pc = "wait" /\ wait = "ahead"
             /\ ~ Runner => StepsLeft' = StepsLeft]_vars
<1> DEFINE Nears == /\ StepsLeft \in 0 .. 16 * N + 3
                    /\ Runner => \/ StepsLeft' < StepsLeft
                                 \/ pc = "wait" /\ wait = "ahead"
                    /\ ~ Runner => StepsLeft' = StepsLeft
<1>1. TypeOK /\ TypeOK' /\ QueueInv /\ QueueInv' /\ [Next]_vars => [Nears]_vars
  <2> SUFFICES ASSUME TypeOK, TypeOK', QueueInv, QueueInv', Next PROVE Nears
    OBVIOUS
  <2>1. StepsLeft \in 0 .. 16 * N + 3
    BY StepsLeftTyped
  <2>2. Runner => StepsLeft' < StepsLeft \/ (pc = "wait" /\ wait = "ahead")
    BY RunnerAdvances
  <2>3. ~ Runner => pc' = pc /\ cur' = cur /\ deferred' = deferred
    BY DEF Next, BudgetExpires, WaitExpires, Stopped, vars, book
  <2>4. ~ Runner => StepsLeft' = StepsLeft
    BY <2>3 DEF StepsLeft, TestSteps
  <2> QED
    BY <2>1, <2>2, <2>4
<1> QED
  BY <1>1, TypeCorrect, QueueInvariant, PTL DEF Spec

=============================================================================
