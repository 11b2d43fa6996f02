----------------------- MODULE CalderaOperationProofs -----------------------
(***************************************************************************)
(* Proofs about CalderaOperation, for any set of expected abilities and    *)
(* any set of unnamed links: type correctness, that a success is backed by *)
(* the server's own chain, that no known operation is abandoned, and that  *)
(* the proof keeps its links.                                              *)
(***************************************************************************)
EXTENDS CalderaOperation, TLAPS

(* What an answer is: nothing, or the operation as it is now.              *)
LEMMA AnswersTyped ==
  ASSUME TypeOK, NEW seen \in Answers
  PROVE  /\ seen \in Snapshots
         /\ \/ seen = Blank
            \/ seen.state = opState /\ seen.links = links
  BY DEF TypeOK, Answers, Snapshots, Blank, NoLinks, LinkStatus, ServerStates

LEMMA ErrorCodeTyped == ErrorCode \in Errors
  BY DEF ErrorCode, Errors

(* Every reachable state is well typed.                                    *)
THEOREM TypeCorrect == Spec => []TypeOK
<1>1. Init => TypeOK
  BY DEF Init, TypeOK, ServerStates, NoLinks, LinkStatus, Blank, Snapshots, Errors
<1>2. TypeOK /\ [Next]_vars => TypeOK'
  <2> SUFFICES ASSUME TypeOK, [Next]_vars PROVE TypeOK'
    OBVIOUS
  <2>1. CASE Preflight
    BY <2>1 DEF Preflight, Finish, TypeOK, server, reading, Errors
  <2>2. CASE CreateOperation
    BY <2>2 DEF CreateOperation, Finish, TypeOK, reading, Errors, ServerStates
  <2>3. CASE Poll
    <3>1. PICK seen \in Answers :
            /\ lastPoll' = seen
            /\ finalState' = IF Observed(seen.links) THEN "bounded_success"
                             ELSE seen.state
            /\ pc' = IF finalState' = "bounded_success" THEN "settle"
                     ELSE IF polls' = 3 THEN "detail"
                     ELSE IF finalState' \in Terminal THEN "settle" ELSE "poll"
      BY <2>3 DEF Poll
    <3>2. seen \in Snapshots
      BY AnswersTyped
    <3>3. seen.state \in ServerStates \cup {"none"}
      BY <3>2 DEF Snapshots
    <3>4. polls' \in 0 .. 3
      BY <2>3 DEF Poll, TypeOK
    <3>5. pc' \in {"settle", "detail", "poll"}
      BY <3>1
    <3> QED
      BY <2>3, <3>1, <3>2, <3>3, <3>4, <3>5 DEF Poll, TypeOK, server
  <2>4. CASE PollDetail
    <3>1. PICK seen \in Answers :
            /\ lastDetail' = seen
            /\ finalState' = IF Observed(seen.links) THEN "bounded_success"
                             ELSE finalState
            /\ pc' = IF finalState' \in Terminal THEN "settle" ELSE "poll"
      BY <2>4 DEF PollDetail
    <3>2. seen \in Snapshots
      BY AnswersTyped
    <3> QED
      BY <2>4, <3>1, <3>2 DEF PollDetail, TypeOK, server
  <2>5. CASE PollTimeout
    BY <2>5 DEF PollTimeout, TypeOK, server, reading
  <2>6. CASE Settle
    <3>1. proof' \in [Links -> LinkStatus]
      BY <2>6, AnswersTyped DEF Settle, TypeOK, Snapshots
    <3> QED
      BY <2>6, <3>1 DEF Settle, TypeOK, server, reading
  <2>7. CASE StopOperation
    <3>1. proof' \in [Links -> LinkStatus]
      BY <2>7 DEF StopOperation, TypeOK
    <3>2. opState' \in ServerStates
      BY <2>7 DEF StopOperation, AfterStop, TypeOK, ServerStates
    <3> QED
      BY <2>7, <3>1, <3>2 DEF StopOperation, TypeOK, reading
  <2>8. CASE LookAfterStop
    <3>1. PICK seen \in Answers :
            IF HasLinks(seen.links)
              THEN /\ proof' = seen.links
                   /\ finalState' = seen.state
                   /\ stop' = IF Observed(seen.links) /\ seen.state \in Ended
                                THEN "yes" ELSE stop
              ELSE UNCHANGED <<proof, finalState, stop>>
      BY <2>8 DEF LookAfterStop
    <3>2. /\ seen.state \in ServerStates \cup {"none"}
          /\ seen.links \in [Links -> LinkStatus]
      BY AnswersTyped DEF Snapshots
    <3> QED
      BY <2>8, <3>1, <3>2 DEF LookAfterStop, TypeOK, server, reading
  <2>9. CASE Conclude
    BY <2>9, ErrorCodeTyped DEF Conclude, Finish, TypeOK, server, reading
  <2>10. CASE LateCreate
    BY <2>10 DEF LateCreate, TypeOK, client, reading, ServerStates
  <2>11. ASSUME NEW l \in Links, ScheduleLink(l) PROVE TypeOK'
    BY <2>11 DEF ScheduleLink, TypeOK, client, reading, LinkStatus
  <2>12. ASSUME NEW l \in Links, ReportLink(l) PROVE TypeOK'
    BY <2>12 DEF ReportLink, TypeOK, client, reading, LinkStatus
  <2>13. CASE EndOperation
    BY <2>13 DEF EndOperation, TypeOK, client, reading, ServerStates
  <2>14. CASE DeadlinePasses
    BY <2>14 DEF DeadlinePasses, TypeOK, client, reading, server
  <2>15. CASE UNCHANGED vars
    BY <2>15 DEF vars, TypeOK, reading, server
  <2> QED
    BY <2>1, <2>2, <2>3, <2>4, <2>5, <2>6, <2>7, <2>8, <2>9, <2>10, <2>11, <2>12,
       <2>13, <2>14, <2>15 DEF Next, Client, Server, Done
<1> QED
  BY <1>1, <1>2, PTL DEF Spec

-----------------------------------------------------------------------------
(* The server's chain only grows.                                          *)
LEMMA LinksGrow ==
  ASSUME TypeOK, [Next]_vars
  PROVE  \A l \in Links : links[l] # "none" => links'[l] # "none"
<1>1. CASE Client
  BY <1>1 DEF Client, Preflight, CreateOperation, Poll, PollDetail, PollTimeout, Settle,
     StopOperation, LookAfterStop, Conclude, server
<1>2. ASSUME NEW l \in Links, ScheduleLink(l)
      PROVE  \A x \in Links : links[x] # "none" => links'[x] # "none"
  BY <1>2 DEF ScheduleLink, TypeOK
<1>3. ASSUME NEW l \in Links, ReportLink(l)
      PROVE  \A x \in Links : links[x] # "none" => links'[x] # "none"
  BY <1>3 DEF ReportLink, TypeOK
<1>4. CASE LateCreate \/ EndOperation \/ DeadlinePasses \/ UNCHANGED vars
  BY <1>4 DEF LateCreate, EndOperation, DeadlinePasses, vars, server
<1> QED
  BY <1>1, <1>2, <1>3, <1>4 DEF Next, Server, Done

(* The client's records show no more than the chain, and a success was     *)
(* concluded from a proof that shows every expected ability.               *)
THEOREM DispatchInvariant == Spec => []DispatchInv
<1>1. Init => DispatchInv
  BY DEF Init, DispatchInv, Shown, Blank, NoLinks
<1>2. TypeOK /\ DispatchInv /\ [Next]_vars => DispatchInv'
  <2> SUFFICES ASSUME TypeOK, DispatchInv, [Next]_vars PROVE DispatchInv'
    OBVIOUS
  <2>1. \A l \in Links : links[l] # "none" => links'[l] # "none"
    BY LinksGrow
  <2>2. \A seen \in Answers : Shown(seen.links)
    BY AnswersTyped DEF Shown, Blank, NoLinks
  <2>3. lastPoll' = lastPoll \/ lastPoll' \in Answers
    BY DEF Next, vars, Client, Server, Done, Preflight, CreateOperation, Poll, PollDetail,
       PollTimeout, Settle, StopOperation, LookAfterStop, Conclude, LateCreate,
       EndOperation, ScheduleLink, ReportLink, DeadlinePasses, client, reading
  <2>4. lastDetail' = lastDetail \/ lastDetail' \in Answers
    BY DEF Next, vars, Client, Server, Done, Preflight, CreateOperation, Poll, PollDetail,
       PollTimeout, Settle, StopOperation, LookAfterStop, Conclude, LateCreate,
       EndOperation, ScheduleLink, ReportLink, DeadlinePasses, client, reading
  <2>5. Shown(proof')
    <3>1. CASE Settle
      BY <3>1, <2>2 DEF Settle, DispatchInv
    <3>2. CASE StopOperation
      BY <3>2 DEF StopOperation, DispatchInv, Shown
    <3>3. CASE LookAfterStop
      BY <3>3, <2>2 DEF LookAfterStop, DispatchInv
    <3>4. CASE UNCHANGED proof
      BY <3>4 DEF DispatchInv, Shown
    <3> QED
      BY <3>1, <3>2, <3>3, <3>4 DEF Next, vars, Client, Server, Done, Preflight,
         CreateOperation, Poll, PollDetail, PollTimeout, Conclude, LateCreate,
         EndOperation, ScheduleLink, ReportLink, DeadlinePasses, client
  <2>6. (result = "success" => pc = "done" /\ Observed(proof))'
    <3>1. CASE Conclude
      BY <3>1, ErrorCodeTyped DEF Conclude, Finish, Succeeded, Observed, Errors
    <3>2. CASE Preflight \/ CreateOperation
      BY <3>2 DEF Preflight, CreateOperation, Finish, DispatchInv
    <3>3. CASE Poll \/ PollDetail \/ PollTimeout \/ Settle \/ StopOperation
               \/ LookAfterStop
      BY <3>3 DEF DispatchInv, Poll, PollDetail, PollTimeout, Settle, StopOperation,
         LookAfterStop
    <3>4. CASE UNCHANGED <<result, proof, pc>>
      BY <3>4 DEF DispatchInv, Observed
    <3> QED
      BY <3>1, <3>2, <3>3, <3>4 DEF Next, vars, Client, Server, Done, LateCreate,
         EndOperation, ScheduleLink, ReportLink, DeadlinePasses, client
  <2> QED
    BY <2>1, <2>2, <2>3, <2>4, <2>5, <2>6 DEF DispatchInv, Shown
<1> QED
  BY <1>1, <1>2, TypeCorrect, PTL DEF Spec

(* A success is backed by the server's own chain: the client's partial and *)
(* stale answers never make it take an ability for dispatched that is not. *)
THEOREM SuccessIsDispatched == Spec => []SuccessMeansDispatched
<1>1. DispatchInv => SuccessMeansDispatched
  BY DEF DispatchInv, SuccessMeansDispatched, Observed, Shown, Links
<1> QED
  BY <1>1, DispatchInvariant, PTL

-----------------------------------------------------------------------------
(* The operation runs or has ended while the client is engaged with it,    *)
(* and only an ended one is left without a stop.                           *)
THEOREM StopInvariant == Spec => []StopInv
<1>1. Init => StopInv
  BY DEF Init, StopInv, Engaged
<1>2. TypeOK /\ StopInv /\ [Next]_vars => StopInv'
  <2> SUFFICES ASSUME TypeOK, StopInv, [Next]_vars PROVE StopInv'
    OBVIOUS
  <2> USE DEF StopInv, Engaged
  <2>1. CASE Preflight
    BY <2>1 DEF Preflight, Finish, server
  <2>2. CASE CreateOperation
    BY <2>2 DEF CreateOperation, Finish, Ended
  <2>3. CASE Poll
    <3>1. PICK seen \in Answers :
            /\ finalState' = IF Observed(seen.links) THEN "bounded_success"
                             ELSE seen.state
            /\ pc' = IF finalState' = "bounded_success" THEN "settle"
                     ELSE IF polls' = 3 THEN "detail"
                     ELSE IF finalState' \in Terminal THEN "settle" ELSE "poll"
      BY <2>3 DEF Poll
    <3>2. finalState' \in {"bounded_success", "none", opState}
      BY <3>1, AnswersTyped DEF Blank
    <3>3. pc' \in {"settle", "detail", "poll"}
      BY <3>1
    <3> QED
      BY <2>3, <3>2, <3>3 DEF Poll, server, Ended
  <2>4. CASE PollDetail
    BY <2>4 DEF PollDetail, server
  <2>5. CASE PollTimeout
    BY <2>5 DEF PollTimeout, server, reading
  <2>6. CASE Settle
    BY <2>6 DEF Settle, server, reading, Terminal
  <2>7. CASE StopOperation
    BY <2>7 DEF StopOperation, AfterStop, Ended
  <2>8. CASE LookAfterStop
    <3>1. PICK seen \in Answers :
            IF HasLinks(seen.links)
              THEN /\ finalState' = seen.state
                   /\ stop' = IF Observed(seen.links) /\ seen.state \in Ended
                                THEN "yes" ELSE stop
              ELSE UNCHANGED <<finalState, stop>>
      BY <2>8 DEF LookAfterStop
    <3>2. seen.state \in {"none", opState}
      BY AnswersTyped DEF Blank
    <3> QED
      BY <2>8, <3>1, <3>2 DEF LookAfterStop, server, reading, Ended
  <2>9. CASE Conclude
    BY <2>9 DEF Conclude, Finish, server, reading, TypeOK
  <2>10. CASE LateCreate
    BY <2>10 DEF LateCreate, client, Ended
  <2>11. ASSUME NEW l \in Links, ScheduleLink(l) \/ ReportLink(l) PROVE StopInv'
    BY <2>11 DEF ScheduleLink, ReportLink, client
  <2>12. CASE EndOperation
    BY <2>12 DEF EndOperation, client, Ended
  <2>13. CASE DeadlinePasses
    BY <2>13 DEF DeadlinePasses, client, server
  <2>14. CASE UNCHANGED vars
    BY <2>14 DEF vars, server
  <2> QED
    BY <2>1, <2>2, <2>3, <2>4, <2>5, <2>6, <2>7, <2>8, <2>9, <2>10, <2>11, <2>12,
       <2>13, <2>14 DEF Next, Client, Server, Done
<1> QED
  BY <1>1, <1>2, TypeCorrect, PTL DEF Spec

(* No operation the client knows of is left running unless its stop was    *)
(* sent and not acknowledged.                                              *)
THEOREM KnownIsStopped == Spec => []NeverAbandoned
<1>1. StopInv => NeverAbandoned
  BY DEF StopInv, NeverAbandoned, Ended
<1> QED
  BY <1>1, StopInvariant, PTL

-----------------------------------------------------------------------------
(* Evidence is not lost: whatever replaces the proof once it stands is the *)
(* chain of the server at that moment, which holds all that was shown.     *)
THEOREM LinksAreKept == Spec => ProofKeepsLinks
<1> DEFINE Keeps == pc \notin {"poll", "settle"} =>
                      \A l \in Links : proof[l] # "none" => proof'[l] # "none"
<1>1. TypeOK /\ DispatchInv /\ [Next]_vars => [Keeps]_vars
  <2> SUFFICES ASSUME TypeOK, DispatchInv, Next PROVE Keeps
    OBVIOUS
  <2>1. CASE Settle
    BY <2>1 DEF Settle
  <2>2. CASE StopOperation
    BY <2>2 DEF StopOperation, DispatchInv, Shown
  <2>3. CASE LookAfterStop
    <3>1. PICK seen \in Answers :
            IF HasLinks(seen.links) THEN proof' = seen.links ELSE UNCHANGED proof
      BY <2>3 DEF LookAfterStop
    <3>2. CASE HasLinks(seen.links)
      <4>1. seen.links = links
        BY <3>2, AnswersTyped DEF HasLinks, Blank, NoLinks
      <4> QED
        BY <3>1, <3>2, <4>1 DEF DispatchInv, Shown
    <3> QED
      BY <3>1, <3>2
  <2>4. CASE UNCHANGED proof
    BY <2>4
  <2> QED
    BY <2>1, <2>2, <2>3, <2>4
    DEF Next, Client, Server, Done, vars, client, Preflight, CreateOperation, Poll,
        PollDetail, PollTimeout, Conclude, LateCreate, EndOperation, ScheduleLink,
        ReportLink, DeadlinePasses
<1> QED
  BY <1>1, TypeCorrect, DispatchInvariant, PTL DEF Spec, ProofKeepsLinks

-----------------------------------------------------------------------------
(* The safety part of Concludes. Steps of the client that are left, at     *)
(* most, once the deadline of the poll loop has passed.                    *)
StepsLeft ==
  CASE pc = "preflight" -> 8
    [] pc = "create"    -> 7
    [] pc = "detail"    -> 6
    [] pc = "poll"      -> 5
    [] pc = "settle"    -> 4
    [] pc = "stop"      -> 3
    [] pc = "after"     -> 2
    [] pc = "conclude"  -> 1
    [] pc = "done"      -> 0

LEMMA StepsLeftTyped ==
  /\ TypeOK => StepsLeft \in 0 .. 8
  /\ TypeOK' => StepsLeft' \in 0 .. 8
<1>1. TypeOK => StepsLeft \in 0 .. 8
  BY DEF TypeOK, StepsLeft
<1>2. TypeOK' => StepsLeft' \in 0 .. 8
  BY DEF TypeOK, StepsLeft
<1> QED
  BY <1>1, <1>2

(* Past the deadline, every step of the client brings it nearer to its     *)
(* end: no answer of the server sends it back into the loop.               *)
LEMMA ClientAdvances ==
  ASSUME TypeOK, TypeOK', Client, deadline = "expired"
  PROVE  StepsLeft' < StepsLeft
<1> USE DEF StepsLeft
<1>1. CASE Preflight
  BY <1>1 DEF Preflight, Finish
<1>2. CASE CreateOperation
  BY <1>2 DEF CreateOperation, Finish
<1>3. CASE Poll
  BY <1>3 DEF Poll
<1>4. CASE PollDetail
  <2>1. pc = "detail" /\ pc' \in {"settle", "poll"}
    BY <1>4 DEF PollDetail
  <2> QED
    BY <2>1
<1>5. CASE PollTimeout
  BY <1>5 DEF PollTimeout
<1>6. CASE Settle
  <2>1. pc = "settle" /\ pc' \in {"conclude", "stop"}
    BY <1>6 DEF Settle
  <2> QED
    BY <2>1
<1>7. CASE StopOperation
  <2>1. pc = "stop" /\ pc' \in {"conclude", "after"}
    BY <1>7 DEF StopOperation
  <2> QED
    BY <2>1
<1>8. CASE LookAfterStop
  BY <1>8 DEF LookAfterStop
<1>9. CASE Conclude
  BY <1>9 DEF Conclude, Finish
<1> QED
  BY <1>1, <1>2, <1>3, <1>4, <1>5, <1>6, <1>7, <1>8, <1>9 DEF Client

(* Once the deadline of run_caldera_operation's loop has passed, it stays  *)
(* so, at most eight more steps of the client are left, and whatever the   *)
(* server and the agent do in between takes none of them back.             *)
THEOREM NearsItsEnd ==
  Spec => [][deadline = "expired" =>
               /\ deadline' = "expired"
               /\ StepsLeft \in 0 .. 8 /\ StepsLeft' \in 0 .. StepsLeft
               /\ Client => StepsLeft' < StepsLeft]_vars
<1> DEFINE Nears == deadline = "expired" =>
                      /\ deadline' = "expired"
                      /\ StepsLeft \in 0 .. 8 /\ StepsLeft' \in 0 .. StepsLeft
                      /\ Client => StepsLeft' < StepsLeft
<1>1. TypeOK /\ TypeOK' /\ [Next]_vars => [Nears]_vars
  <2> SUFFICES ASSUME TypeOK, TypeOK', Next, deadline = "expired" PROVE Nears
    OBVIOUS
  <2>1. StepsLeft \in 0 .. 8 /\ StepsLeft' \in 0 .. 8
    BY StepsLeftTyped
  <2>2. deadline' = "expired"
    BY DEF Next, Client, Server, Done, vars, client, Preflight, CreateOperation, Poll,
           PollDetail, PollTimeout, Settle, StopOperation, LookAfterStop, Conclude,
           LateCreate, EndOperation, ScheduleLink, ReportLink, DeadlinePasses
  <2>3. CASE Client
    BY <2>1, <2>2, <2>3, ClientAdvances
  <2>4. CASE ~ Client
    <3>1. pc' = pc
      BY <2>4 DEF Next, Server, Done, vars, client, LateCreate, EndOperation,
                  ScheduleLink, ReportLink, DeadlinePasses
    <3>2. StepsLeft' = StepsLeft
      BY <3>1 DEF StepsLeft
    <3> QED
      BY <2>1, <2>2, <2>4, <3>2
  <2> QED
    BY <2>3, <2>4
<1> QED
  BY <1>1, TypeCorrect, PTL DEF Spec

=============================================================================
