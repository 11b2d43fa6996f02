-------------------------- MODULE CalderaOperation --------------------------
(***************************************************************************)
(* run_caldera_operation of scripts/tamandua_detection_validation.py: one  *)
(* client that creates a CALDERA operation, polls it until every expected  *)
(* ability shows up in its chain, stops it, and concludes; and the CALDERA *)
(* server and agent, which schedule links and report their status.         *)
(*                                                                         *)
(* Every request may go unanswered; one that changes the server may then   *)
(* have had its effect, or not, or be about to.                            *)
(***************************************************************************)
EXTENDS Naturals, FiniteSets

CONSTANTS
  Expected,   \* the ability ids the test expects
  Unnamed     \* links of the operation that carry no ability id

ASSUME LinksAssumption == Expected \cap Unnamed = {}

Links == Expected \cup Unnamed
LinkStatus == {"none", "queued", "ok", "failed"}
NoLinks == [l \in Links |-> "none"]

ServerStates == {"absent", "requested", "running", "finished", "paused", "out_of_time"}
Terminal == {"finished", "paused", "bounded_success"}     \* terminal_states
Success == {"finished", "bounded_success"}                \* success_states
Ended == {"out_of_time", "finished", "paused"}

Snapshots == [state : ServerStates \cup {"none"}, links : [Links -> LinkStatus]]
Blank == [state |-> "none", links |-> NoLinks]            \* no usable answer

VARIABLES
  opState,     \* the operation on the server
  links,       \* [Links -> LinkStatus]: its chain, links of the target paw
  pc,
  deadline,    \* of the poll loop: "ahead" or "expired"
  polls,       \* number of polls: 0, then 1, 2, 3, 1, 2, 3, ...
  lastPoll,    \* the operation as last polled
  lastDetail,  \* last_detail: the operation as of the last third poll
  finalState,  \* final_state
  proof,       \* the chain the proof is computed from
  stop,        \* "none", then "yes" or "no": cleanup_ok of the stop request
  result       \* what is returned: "none" while running

server == <<opState, links>>
reading == <<lastPoll, lastDetail, polls>>
vars == <<server, pc, deadline, reading, finalState, proof, stop, result>>

Errors == {"agent_not_ready", "create_failed", "timeout_stopped", "no_links",
           "link_failures", "missing_abilities", "not_completed"}

TypeOK ==
  /\ opState \in ServerStates /\ links \in [Links -> LinkStatus]
  /\ pc \in {"preflight", "create", "poll", "detail", "settle", "stop", "after",
             "conclude", "done"}
  /\ deadline \in {"ahead", "expired"} /\ polls \in 0 .. 3
  /\ lastPoll \in Snapshots /\ lastDetail \in Snapshots
  /\ finalState \in ServerStates \cup {"none", "bounded_success"}
  /\ proof \in [Links -> LinkStatus]
  /\ stop \in {"none", "yes", "no"}
  /\ result \in {"none", "success"} \cup Errors

Init ==
  /\ opState = "absent" /\ links = NoLinks
  /\ pc = "preflight" /\ deadline = "ahead" /\ polls = 0
  /\ lastPoll = Blank /\ lastDetail = Blank
  /\ finalState = "none" /\ proof = NoLinks /\ stop = "none" /\ result = "none"

-----------------------------------------------------------------------------
(* caldera_request, GET: the operation as it is now, or nothing usable.    *)
Answers == {Blank, [state |-> opState, links |-> links]}

(* Mutant of Observed: one of the expected abilities is enough.            *)
ObservedSome(chain) == \E a \in Expected : chain[a] # "none"

(* summarize_chain: an ability counts as executed when the chain has a     *)
(* link for it, whatever the status of the link.                           *)
Observed(chain) ==
  /\ Expected # {}
  /\ \A a \in Expected : chain[a] # "none"

HasLinks(chain) == \E l \in Links : chain[l] # "none"

(* Only links without an ability id are ever counted as failed.            *)
CountedAsFailed(chain) == \E l \in Unnamed : chain[l] = "failed"

Finish(r) == pc' = "done" /\ result' = r

(* preflight_caldera_agent: the agent is known, in its group and fresh.    *)
Preflight ==
  /\ pc = "preflight"
  /\ UNCHANGED <<server, deadline, reading, finalState, proof, stop>>
  /\ \/ pc' = "create" /\ UNCHANGED result
     \/ Finish("agent_not_ready")

CreateOperation ==
  /\ pc = "create"
  /\ UNCHANGED <<links, deadline, reading, finalState, proof, stop>>
  /\ \/ /\ opState' = "running"
        /\ pc' = "poll"
        /\ UNCHANGED result
     \/ /\ opState' \in {"absent", "requested", "running"}
        /\ Finish("create_failed")

(* Mutant of Poll: the loop does not look at its deadline.                 *)
PollForever ==
  /\ pc = "poll"
  /\ UNCHANGED <<server, deadline, lastDetail, proof, stop, result>>
  /\ polls' = (polls % 3) + 1
  /\ \E seen \in Answers :
       /\ lastPoll' = seen
       /\ finalState' = IF Observed(seen.links) THEN "bounded_success" ELSE seen.state
       /\ pc' = IF finalState' = "bounded_success" THEN "settle"
                ELSE IF polls' = 3 THEN "detail"
                ELSE IF finalState' \in Terminal THEN "settle" ELSE "poll"

(* One turn of the loop; the first comes before any time has passed.       *)
Poll ==
  /\ pc = "poll"
  /\ deadline = "ahead"
  /\ UNCHANGED <<server, deadline, lastDetail, proof, stop, result>>
  /\ polls' = (polls % 3) + 1
  /\ \E seen \in Answers :
       /\ lastPoll' = seen
       /\ finalState' = IF Observed(seen.links) THEN "bounded_success" ELSE seen.state
       /\ pc' = IF finalState' = "bounded_success" THEN "settle"
                ELSE IF polls' = 3 THEN "detail"
                ELSE IF finalState' \in Terminal THEN "settle" ELSE "poll"

(* Every third turn asks once more, and keeps the answer.                  *)
PollDetail ==
  /\ pc = "detail"
  /\ UNCHANGED <<server, deadline, lastPoll, polls, proof, stop, result>>
  /\ \E seen \in Answers :
       /\ lastDetail' = seen
       /\ finalState' = IF Observed(seen.links) THEN "bounded_success" ELSE finalState
       /\ pc' = IF finalState' \in Terminal THEN "settle" ELSE "poll"

PollTimeout ==
  /\ pc = "poll"
  /\ deadline = "expired"
  /\ pc' = "settle"
  /\ UNCHANGED <<server, deadline, reading, finalState, proof, stop, result>>

(* Mutant of Settle: an operation that ran out of time is not stopped.     *)
SettleWithoutStop ==
  /\ pc = "settle"
  /\ UNCHANGED <<server, deadline, reading, finalState, stop, result>>
  /\ proof' = lastPoll.links
  /\ pc' = IF finalState = "bounded_success" THEN "stop" ELSE "conclude"

(* The body the proof is taken from: a last look at an operation that has  *)
(* ended; for one that is to be stopped, the kept detail comes before the  *)
(* poll, though it may be older.                                           *)
Settle ==
  /\ pc = "settle"
  /\ UNCHANGED <<server, deadline, reading, finalState, stop, result>>
  /\ \/ /\ finalState \in Terminal \ {"bounded_success"}
        /\ \E seen \in Answers :
             proof' = IF seen = Blank THEN lastPoll.links ELSE seen.links
        /\ pc' = "conclude"
     \/ /\ finalState \notin Terminal \ {"bounded_success"}
        /\ proof' = IF finalState = "bounded_success" /\ lastDetail # Blank
                      THEN lastDetail.links ELSE lastPoll.links
        /\ pc' = "stop"

AfterStop == IF opState = "running" THEN "out_of_time" ELSE opState

(* Mutant of StopOperation: the answer's chain is taken even if empty.     *)
StopTakesAnyBody ==
  /\ pc = "stop"
  /\ UNCHANGED <<links, deadline, reading, finalState, result>>
  /\ opState' = AfterStop
  /\ stop' = "yes"
  /\ proof' \in {links, NoLinks}
  /\ pc' = IF Observed(proof') THEN "conclude" ELSE "after"

(* PATCH state out_of_time; an answer with a chain renews the proof.       *)
StopOperation ==
  /\ pc = "stop"
  /\ UNCHANGED <<links, deadline, reading, finalState, result>>
  /\ \/ /\ opState' = AfterStop
        /\ stop' = "yes"
        /\ proof' \in {proof} \cup (IF HasLinks(links) THEN {links} ELSE {})
     \/ /\ opState' \in {opState, AfterStop}
        /\ stop' = "no"
        /\ UNCHANGED proof
  /\ pc' = IF Observed(proof') THEN "conclude" ELSE "after"

(* Something is missing: one more look, now that the operation is stopped. *)
LookAfterStop ==
  /\ pc = "after"
  /\ pc' = "conclude"
  /\ UNCHANGED <<server, deadline, reading, result>>
  /\ \E seen \in Answers :
       IF HasLinks(seen.links)
         THEN /\ proof' = seen.links
              /\ finalState' = seen.state
              /\ stop' = IF Observed(seen.links) /\ seen.state \in Ended
                           THEN "yes" ELSE stop
         ELSE UNCHANGED <<proof, finalState, stop>>

Succeeded == Observed(proof) /\ (finalState \in Success \/ stop = "yes")

ErrorCode ==
  CASE finalState \notin Terminal                        -> "timeout_stopped"
    [] finalState \in Success /\ ~ HasLinks(proof)       -> "no_links"
    [] finalState \in Terminal /\ CountedAsFailed(proof) -> "link_failures"
    [] OTHER -> IF \E a \in Expected : proof[a] = "none"
                  THEN "missing_abilities" ELSE "not_completed"

(* Mutant of Conclude: the exit code is returned in place of a result.     *)
ConcludeExitCode ==
  /\ pc = "conclude"
  /\ pc' = "done" /\ result' = IF Succeeded THEN "0" ELSE "1"
  /\ UNCHANGED <<server, deadline, reading, finalState, proof, stop>>

Conclude ==
  /\ pc = "conclude"
  /\ Finish(IF Succeeded THEN "success" ELSE ErrorCode)
  /\ UNCHANGED <<server, deadline, reading, finalState, proof, stop>>

-----------------------------------------------------------------------------
(* The CALDERA server and the agent.                                       *)
client == <<pc, reading, finalState, proof, stop, result>>

LateCreate ==
  /\ opState = "requested"
  /\ opState' = "running"
  /\ UNCHANGED <<links, deadline, client>>

ScheduleLink(l) ==
  /\ opState = "running" /\ links[l] = "none"
  /\ links' = [links EXCEPT ![l] = "queued"]
  /\ UNCHANGED <<opState, deadline, client>>

ReportLink(l) ==
  /\ links[l] = "queued"
  /\ \E s \in {"ok", "failed"} : links' = [links EXCEPT ![l] = s]
  /\ UNCHANGED <<opState, deadline, client>>

EndOperation ==
  /\ opState = "running"
  /\ opState' \in {"finished", "paused"}
  /\ UNCHANGED <<links, deadline, client>>

DeadlinePasses ==
  /\ pc \in {"poll", "detail"} /\ polls # 0 /\ deadline = "ahead"
  /\ deadline' = "expired"
  /\ UNCHANGED <<server, client>>

Client ==
  \/ Preflight \/ CreateOperation \/ Poll \/ PollDetail \/ PollTimeout \/ Settle
  \/ StopOperation \/ LookAfterStop \/ Conclude

Server ==
  \/ LateCreate \/ EndOperation
  \/ \E l \in Links : ScheduleLink(l) \/ ReportLink(l)

Done == pc = "done" /\ UNCHANGED vars

Next == Client \/ Server \/ DeadlinePasses \/ Done

Spec == Init /\ [][Next]_vars

(* Every request has a timeout, and time passes.                           *)
FairSpec == Spec /\ WF_vars(Client) /\ WF_vars(DeadlinePasses)

-----------------------------------------------------------------------------
(* A success is no misreading of partial or stale answers: the server      *)
(* itself has a link for every expected ability.                           *)
SuccessMeansDispatched ==
  result = "success" => \A a \in Expected : links[a] # "none"

(* An operation the client knows of is never abandoned: if it still runs   *)
(* when the client has concluded, a stop was sent and not acknowledged.    *)
NeverAbandoned ==
  pc = "done" /\ opState \in {"requested", "running"} =>
    stop = "no" \/ result = "create_failed"

(* From the moment the proof is first taken, a link in it is never lost    *)
(* again: an answer without a chain does not wipe out the evidence.        *)
ProofKeepsLinks ==
  [][pc \notin {"poll", "settle"} =>
       \A l \in Links : proof[l] # "none" => proof'[l] # "none"]_vars

(* The client comes to a conclusion, whatever the server does.             *)
Concludes == <>(pc = "done")

(* The word of caldera_operation_execution_evidence, which turns the links *)
(* of a successful operation into rows: "executed CALDERA links".          *)
SuccessMeansExecuted ==
  result = "success" => \A a \in Expected : links[a] \in {"ok", "failed"}

-----------------------------------------------------------------------------
(* Why SuccessMeansDispatched holds: whatever the client has kept shows    *)
(* only links the server has, and links do not vanish.                     *)
Shown(chain) == \A l \in Links : chain[l] # "none" => links[l] # "none"

DispatchInv ==
  /\ Shown(lastPoll.links)
  /\ Shown(lastDetail.links)
  /\ Shown(proof)
  /\ result = "success" => pc = "done" /\ Observed(proof)

(* Why NeverAbandoned holds: the client leaves the loop without a stop     *)
(* only after the server has said that the operation has ended.            *)
Engaged == {"poll", "detail", "settle", "stop", "after", "conclude"}

StopInv ==
  /\ pc \in {"preflight", "create"} => opState = "absent"
  /\ pc \in Engaged => opState \in {"running"} \cup Ended
  /\ finalState \in {"finished", "paused"} => opState \in Ended
  /\ stop = "yes" => opState \in Ended
  /\ pc = "conclude" /\ stop = "none" => opState \in Ended
  /\ pc = "after" => stop # "none"
  /\ pc = "done" => \/ result = "create_failed"
                    \/ result = "agent_not_ready" /\ opState = "absent"
                    \/ stop = "no"
                    \/ opState \in Ended

=============================================================================
