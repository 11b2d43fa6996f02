--------------------------- MODULE WorkerBoundary ---------------------------
(***************************************************************************)
(* scripts/elixir_check_locked_probe_worker_parent.py: a parent that runs  *)
(* an untrusted worker process, feeds it a request, drains its output with *)
(* two reader threads, kills it when it exceeds its limits, and emits a    *)
(* receipt of what it observed, or none when its own validator refuses it. *)
(*                                                                         *)
(* Bytes are counted, not looked at. The worker, whatever it has started,  *)
(* the pipes and the clock are the environment: they do as they please.    *)
(***************************************************************************)
EXTENDS Naturals

CONSTANTS
  Limit,        \* COMBINED_OUTPUT_MAX_BYTES
  ResponseMax,  \* RESPONSE_MAX_BYTES
  Chunk,        \* STREAM_CHUNK_BYTES
  Pipe,         \* what a pipe holds unread
  Most          \* bound: what is written to the two streams altogether

ASSUME SizesAssumption ==
  /\ Limit \in Nat /\ ResponseMax \in Nat /\ Most \in Nat
  /\ Chunk \in Nat \ {0} /\ Pipe \in Nat \ {0}

Streams == {"stdout", "stderr"}

VARIABLES
  now,          \* "early", "late": from execution_deadline, "over": from total_deadline
  worker,       \* the process: "none", "suspended", "running" or "exited"
  code,         \* it exited with code 0
  open,         \* [Streams]: somebody still holds the write end
  written,      \* [Streams]: bytes written so far
  taken,        \* [Streams]: bytes read from the pipe so far
  reader,       \* [Streams]: where the reader thread is
  chunk,        \* [Streams]: the bytes it has in hand
  accepted,     \* [Streams]: len(buffers[name]); their sum is used
  complete,     \* [Streams]: observations_complete
  stderrSeen, overflow, readerError, writerError,  \* the other events
  writer,       \* where the writer thread is
  pc,           \* where the parent is
  contained,    \* containment
  killed,       \* the process tree has been killed
  failure,      \* the category of the failure; at the end, error_class
  incomplete,   \* [Streams]: reader_incomplete
  report,       \* [Fields]: the fields of BoundaryError or WorkerRun
  bytes,        \* accepted_output_bytes, the remaining field
  drift,        \* the snapshot after the run differs from the manifest
  outcome       \* "none" until main returns

process == <<worker, code, open, written>>
readers == <<taken, reader, chunk, accepted, complete, stderrSeen, overflow, readerError>>
writers == <<writer, writerError>>
parent == <<pc, contained, killed, failure, incomplete, report, bytes, drift, outcome>>
vars == <<now, process, readers, writers, parent>>

-----------------------------------------------------------------------------
Categories == {"process_setup_error", "stream_limit_exceeded", "worker_error",
               "worker_timeout", "protocol_error", "manifest_drift"}

(* The fields of BoundaryError and WorkerRun that are Booleans: what was   *)
(* done, and what was seen.                                                *)
Fields == {"spawned", "terminated", "exited", "seen", "stdout", "stderr", "overflow",
           "readError"}
Nothing == [f \in Fields |-> FALSE]
Spawned == [f \in Fields |-> f \in {"spawned", "terminated"}]

CountsOK ==
  /\ written \in [Streams -> Nat] /\ taken \in [Streams -> Nat]
  /\ chunk \in [Streams -> Nat] /\ accepted \in [Streams -> Nat]
  /\ accepted["stdout"] + accepted["stderr"] <= Limit
  /\ bytes \in Nat

PlacesOK ==
  /\ now \in {"early", "late", "over"}
  /\ worker \in {"none", "suspended", "running", "exited"}
  /\ reader \in [Streams -> {"none", "reading", "chunk", "noted", "closing", "dead"}]
  /\ writer \in {"none", "writing", "dead"}

ControlOK ==
  /\ pc \in {"spawn", "job", "resume", "kill_unready", "await_unready", "poll", "overflow?",
             "errors?", "deadline?", "reap", "kill", "await", "join", "drained",
             "kill_again", "await_again", "report", "report_ends", "report_flags",
             "judge", "snapshot", "done"}
  /\ failure \in {"none"} \cup Categories
  /\ outcome \in {"none", "observed", "blocked", "refused", "crashed"}

EventsOK ==
  /\ code \in BOOLEAN /\ stderrSeen \in BOOLEAN /\ overflow \in BOOLEAN
  /\ readerError \in BOOLEAN /\ writerError \in BOOLEAN
  /\ contained \in BOOLEAN /\ killed \in BOOLEAN /\ drift \in BOOLEAN

FlagsOK ==
  /\ open \in [Streams -> BOOLEAN] /\ complete \in [Streams -> BOOLEAN]
  /\ incomplete \in [Streams -> BOOLEAN] /\ report \in [Fields -> BOOLEAN]

(* The types; and no more is accepted than the limit allows.               *)
TypeOK == CountsOK /\ PlacesOK /\ ControlOK /\ EventsOK /\ FlagsOK

Init ==
  /\ now = "early"
  /\ worker = "none" /\ code = FALSE
  /\ open = [s \in Streams |-> TRUE] /\ written = [s \in Streams |-> 0]
  /\ taken = [s \in Streams |-> 0] /\ chunk = [s \in Streams |-> 0]
  /\ accepted = [s \in Streams |-> 0] /\ complete = [s \in Streams |-> FALSE]
  /\ reader = [s \in Streams |-> "none"] /\ writer = "none"
  /\ stderrSeen = FALSE /\ overflow = FALSE /\ readerError = FALSE /\ writerError = FALSE
  /\ pc = "spawn" /\ contained = FALSE /\ killed = FALSE /\ failure = "none"
  /\ incomplete = [s \in Streams |-> FALSE]
  /\ report = Nothing /\ bytes = 0 /\ drift = FALSE /\ outcome = "none"

-----------------------------------------------------------------------------
(* The environment. The process runs; it, or a process it has started,     *)
(* writes while it holds the pipe, and lets go of it at any time.          *)
Exit ==
  /\ \/ worker = "running"
     \/ worker = "suspended" /\ killed
  /\ worker' = "exited"
  /\ code' \in {c \in BOOLEAN : killed => ~ c}
  /\ UNCHANGED <<now, open, written, readers, writers, parent>>

Written == written["stdout"] + written["stderr"]

Write(s) ==
  /\ worker \in {"running", "exited"} /\ open[s]
  /\ Written < Most /\ written[s] < taken[s] + Pipe
  /\ written' = [written EXCEPT ![s] = @ + 1]
  /\ UNCHANGED <<now, worker, code, open, readers, writers, parent>>

LetGo(s) ==
  /\ worker \in {"running", "exited"} /\ open[s]
  /\ open' = [open EXCEPT ![s] = FALSE]
  /\ UNCHANGED <<now, worker, code, written, readers, writers, parent>>

TimePasses ==
  /\ now # "over"
  /\ now' = IF now = "early" THEN "late" ELSE "over"
  /\ UNCHANGED <<process, readers, writers, parent>>

-----------------------------------------------------------------------------
(* write_input: the write succeeds or fails, and the thread ends.          *)
WriteInput ==
  /\ writer = "writing" /\ writer' = "dead"
  /\ writerError' \in BOOLEAN
  /\ UNCHANGED <<now, process, readers, parent>>

(* read_stream: a read returns a chunk, the end of the stream or an error. *)
ReadChunk(s) ==
  /\ reader[s] = "reading"
  /\ reader' = [reader EXCEPT ![s] = IF s = "stderr" THEN "chunk" ELSE "noted"]
  /\ \E n \in 1 .. Chunk :
       /\ taken[s] + n <= written[s]
       /\ taken' = [taken EXCEPT ![s] = @ + n]
       /\ chunk' = [chunk EXCEPT ![s] = n]
  /\ UNCHANGED <<now, process, accepted, complete, stderrSeen, overflow,
                 readerError, writers, parent>>

NoteStderr ==
  /\ reader["stderr"] = "chunk" /\ reader' = [reader EXCEPT !["stderr"] = "noted"]
  /\ stderrSeen' = TRUE
  /\ UNCHANGED <<now, process, taken, chunk, accepted, complete, overflow,
                 readerError, writers, parent>>

Used == accepted["stdout"] + accepted["stderr"]
Smaller(m, n) == IF m < n THEN m ELSE n

(* Mutant of AcceptChunk: what does not fit is dropped without a word.     *)
AcceptSilently(s) ==
  /\ reader[s] = "noted" /\ reader' = [reader EXCEPT ![s] = "reading"]
  /\ accepted' = [accepted EXCEPT ![s] = @ + Smaller(chunk[s], Limit - Used)]
  /\ chunk' = [chunk EXCEPT ![s] = 0]
  /\ UNCHANGED <<now, process, taken, complete, stderrSeen, overflow, readerError,
                 writers, parent>>

(* Mutant of AcceptChunk: the whole chunk is kept.                         *)
AcceptWhole(s) ==
  /\ reader[s] = "noted" /\ reader' = [reader EXCEPT ![s] = "reading"]
  /\ accepted' = [accepted EXCEPT ![s] = @ + chunk[s]]
  /\ overflow' = (overflow \/ chunk[s] > Limit - Used)
  /\ chunk' = [chunk EXCEPT ![s] = 0]
  /\ UNCHANGED <<now, process, taken, complete, stderrSeen, readerError, writers, parent>>

(* Under budget_lock.                                                      *)
AcceptChunk(s) ==
  /\ reader[s] = "noted" /\ reader' = [reader EXCEPT ![s] = "reading"]
  /\ accepted' = [accepted EXCEPT ![s] = @ + Smaller(chunk[s], Limit - Used)]
  /\ overflow' = (overflow \/ chunk[s] > Limit - Used)
  /\ chunk' = [chunk EXCEPT ![s] = 0]
  /\ UNCHANGED <<now, process, taken, complete, stderrSeen, readerError,
                 writers, parent>>

ReadEnd(s) ==
  /\ reader[s] = "reading" /\ reader' = [reader EXCEPT ![s] = "closing"]
  /\ ~ open[s] /\ taken[s] = written[s]
  /\ complete' = [complete EXCEPT ![s] = TRUE]
  /\ UNCHANGED <<now, process, taken, chunk, accepted, stderrSeen, overflow,
                 readerError, writers, parent>>

(* Mutant of ReadError: the observation counts as complete all the same.   *)
ReadErrorCompletes(s) ==
  /\ reader[s] = "reading" /\ reader' = [reader EXCEPT ![s] = "closing"]
  /\ readerError' = TRUE
  /\ complete' = [complete EXCEPT ![s] = TRUE]
  /\ UNCHANGED <<now, process, taken, chunk, accepted, stderrSeen, overflow, writers,
                 parent>>

ReadError(s) ==
  /\ reader[s] = "reading" /\ reader' = [reader EXCEPT ![s] = "closing"]
  /\ readerError' = TRUE
  /\ UNCHANGED <<now, process, taken, chunk, accepted, complete, stderrSeen,
                 overflow, writers, parent>>

ReaderEnds(s) ==
  /\ reader[s] = "closing" /\ reader' = [reader EXCEPT ![s] = "dead"]
  /\ UNCHANGED <<now, process, taken, chunk, accepted, complete, stderrSeen,
                 overflow, readerError, writers, parent>>

-----------------------------------------------------------------------------
(* _run_worker, the parent thread.                                         *)
Goto(here, next) == pc = here /\ pc' = next

ParentOnly == UNCHANGED <<now, process, readers, writers>>

Fail(category) == failure' = category

(* The interpreter, its environment or Popen fails: nothing was spawned.   *)
SpawnFails ==
  /\ Goto("spawn", "snapshot") /\ Fail("process_setup_error")
  /\ ParentOnly /\ UNCHANGED <<contained, killed, incomplete, report, bytes, drift, outcome>>

StartThreads ==
  /\ reader' = [s \in Streams |-> "reading"] /\ writer' = "writing"
  /\ UNCHANGED <<taken, chunk, accepted, complete, stderrSeen, overflow, readerError,
                 writerError>>

SpawnPosix ==
  /\ Goto("spawn", "poll")
  /\ worker' = "running" /\ contained' = TRUE /\ report' = Spawned
  /\ StartThreads
  /\ UNCHANGED <<now, code, open, written, killed, failure, incomplete, bytes, drift,
                 outcome>>

(* On Windows the process starts suspended, is put into a job that kills   *)
(* its processes when it is closed, and only then resumed.                 *)
SpawnWindows ==
  /\ Goto("spawn", "job")
  /\ worker' = "suspended" /\ report' = Spawned
  /\ UNCHANGED <<now, code, open, written, readers, writers, contained, killed,
                 failure, incomplete, bytes, drift, outcome>>

AssignJob ==
  /\ \/ Goto("job", "resume") /\ contained' = TRUE
     \/ Goto("job", "kill_unready") /\ contained' = FALSE
  /\ ParentOnly /\ UNCHANGED <<killed, failure, incomplete, report, bytes, drift, outcome>>

Resume ==
  /\ now = "early" /\ Goto("resume", "poll")
  /\ worker' = "running"
  /\ StartThreads
  /\ UNCHANGED <<now, code, open, written, contained, killed, failure,
                 incomplete, report, bytes, drift, outcome>>

(* The deadline has passed, or NtResumeProcess fails.                      *)
ResumeFails ==
  /\ Goto("resume", "kill_unready")
  /\ ParentOnly
  /\ UNCHANGED <<contained, killed, failure, incomplete, report, bytes, drift, outcome>>

(* The loop on process.poll(): each event is looked at in its turn.        *)
Poll ==
  /\ IF worker = "exited" THEN Goto("poll", "reap") ELSE Goto("poll", "overflow?")
  /\ ParentOnly
  /\ UNCHANGED <<contained, killed, failure, incomplete, report, bytes, drift, outcome>>

Check(here, event, category, next) ==
  /\ \/ event /\ Goto(here, "kill") /\ Fail(category)
     \/ ~ event /\ Goto(here, next) /\ UNCHANGED failure
  /\ ParentOnly /\ UNCHANGED <<contained, killed, incomplete, report, bytes, drift, outcome>>

CheckOverflow == Check("overflow?", overflow, "stream_limit_exceeded", "errors?")
CheckErrors == Check("errors?", writerError \/ readerError, "worker_error", "deadline?")
CheckDeadline == Check("deadline?", now # "early", "worker_timeout", "poll")

(* Mutant of Reap: what the worker has started is left alone.              *)
ReapOnly ==
  /\ Goto("reap", "join")
  /\ ParentOnly
  /\ UNCHANGED <<contained, killed, failure, incomplete, report, bytes, drift, outcome>>

(* The worker has exited: what it has started is killed too, by closing    *)
(* the job or by killpg.                                                   *)
Reap ==
  /\ Goto("reap", "join") /\ killed' = TRUE
  /\ ParentOnly /\ UNCHANGED <<contained, failure, incomplete, report, bytes, drift, outcome>>

(* _terminate_tree kills, then waits for the worker until total_deadline.  *)
Kill ==
  /\ \/ Goto("kill_unready", "await_unready")
     \/ Goto("kill", "await")
     \/ Goto("kill_again", "await_again")
  /\ killed' = TRUE
  /\ ParentOnly /\ UNCHANGED <<contained, failure, incomplete, report, bytes, drift, outcome>>

Await ==
  /\ worker = "exited" \/ now = "over"
  /\ Goto("await", "join") \/ Goto("await_again", "report")
  /\ ParentOnly
  /\ UNCHANGED <<contained, killed, failure, incomplete, report, bytes, drift, outcome>>

AwaitUnready ==
  /\ worker = "exited" \/ now = "over"
  /\ Goto("await_unready", "snapshot") /\ Fail("process_setup_error")
  /\ report' = [report EXCEPT !["exited"] = (worker = "exited")]
  /\ ParentOnly /\ UNCHANGED <<contained, killed, incomplete, bytes, drift, outcome>>

AllDead == writer = "dead" /\ \A s \in Streams : reader[s] = "dead"

(* Mutant of Join: join without a timeout.                                 *)
JoinForever ==
  /\ AllDead
  /\ Goto("join", "drained")
  /\ incomplete' = [s \in Streams |-> reader[s] # "dead"]
  /\ ParentOnly /\ UNCHANGED <<contained, killed, failure, report, bytes, drift, outcome>>

(* Mutant of Join: the threads are not waited for.                         *)
JoinAtOnce ==
  /\ Goto("join", "drained")
  /\ incomplete' = [s \in Streams |-> reader[s] # "dead"]
  /\ ParentOnly /\ UNCHANGED <<contained, killed, failure, report, bytes, drift, outcome>>

(* thread.join with what is left until total_deadline.                     *)
Join ==
  /\ AllDead \/ now = "over"
  /\ Goto("join", "drained")
  /\ incomplete' = [s \in Streams |-> reader[s] # "dead"]
  /\ ParentOnly /\ UNCHANGED <<contained, killed, failure, report, bytes, drift, outcome>>

Or(category) == failure' = IF failure = "none" THEN category ELSE failure

(* What the exception's arguments read, in this order, while threads that  *)
(* have not ended go on; for a WorkerRun every thread has ended.           *)
ReadProcess(r) == [r EXCEPT !["exited"] = (worker = "exited"), !["seen"] = stderrSeen]
ReadEnds(r) == [r EXCEPT !["stdout"] = complete["stdout"], !["stderr"] = complete["stderr"]]
ReadFlags(r) == [r EXCEPT !["overflow"] = overflow, !["readError"] = readerError]

(* An observation that was not complete when the joins ended stays so.     *)
Believed(r) == [r EXCEPT !["stdout"] = @ /\ ~ incomplete["stdout"],
                         !["stderr"] = @ /\ ~ incomplete["stderr"]]

(* After the joins: the first thing found wrong is a failure, unless the   *)
(* loop has already settled on one.                                        *)
Drained ==
  /\ \/ ~ AllDead /\ Goto("drained", "kill_again") /\ Or("worker_timeout")
     \/ AllDead /\ overflow /\ Goto("drained", "report") /\ Or("stream_limit_exceeded")
     \/ AllDead /\ ~ overflow /\ (writerError \/ readerError)
        /\ Goto("drained", "report") /\ Or("worker_error")
     \/ AllDead /\ failure # "none" /\ ~ overflow /\ ~ writerError /\ ~ readerError
        /\ Goto("drained", "report") /\ UNCHANGED failure
  /\ ParentOnly
  /\ UNCHANGED <<contained, killed, incomplete, report, bytes, drift, outcome>>

(* Nothing was wrong: a WorkerRun is returned.                             *)
Return ==
  /\ AllDead /\ failure = "none" /\ ~ overflow /\ ~ writerError /\ ~ readerError
  /\ Goto("drained", "judge")
  /\ report' = ReadFlags(ReadEnds(ReadProcess(report)))
  /\ bytes' = Smaller(Limit, Used)
  /\ ParentOnly /\ UNCHANGED <<contained, killed, failure, incomplete, drift, outcome>>

(* A failure after the start: BoundaryError is raised.                     *)
Report ==
  /\ \/ Goto("report", "report_ends") /\ report' = ReadProcess(report)
        /\ bytes' = Smaller(Limit, Used)
     \/ Goto("report_ends", "report_flags") /\ report' = Believed(ReadEnds(report))
        /\ UNCHANGED bytes
     \/ Goto("report_flags", "snapshot") /\ report' = ReadFlags(report)
        /\ UNCHANGED bytes
  /\ ParentOnly /\ UNCHANGED <<contained, killed, failure, incomplete, drift, outcome>>

-----------------------------------------------------------------------------
(* build_receipt, after _run_worker.                                       *)
(* A WorkerRun: its code, its stderr and the size of its stdout; then the  *)
(* document itself, which may not be canonical, or not answer the request. *)
Judge ==
  /\ Goto("judge", "snapshot")
  /\ IF ~ code \/ accepted["stderr"] > 0 \/ accepted["stdout"] > ResponseMax
       THEN Fail("worker_error")
       ELSE \/ Fail("protocol_error")
            \/ accepted["stdout"] > 0 /\ UNCHANGED failure
  /\ ParentOnly
  /\ UNCHANGED <<contained, killed, incomplete, report, bytes, drift, outcome>>

(* A document that violates the schema raises what build_receipt does not  *)
(* catch.                                                                  *)
JudgeCrashes ==
  /\ Goto("judge", "done") /\ code /\ accepted["stderr"] = 0
  /\ accepted["stdout"] \in 1 .. ResponseMax
  /\ outcome' = "crashed"
  /\ ParentOnly /\ UNCHANGED <<contained, killed, failure, incomplete, report, bytes, drift>>

Receipt(category, changed) ==
  [observed |-> category = "none", error |-> category,
   spawned |-> report["spawned"], exited |-> report["exited"], contained |-> contained,
   terminated |-> report["terminated"], drift |-> changed, canonical |-> category = "none",
   stdout |-> report["stdout"], stderr |-> report["stderr"], seen |-> report["seen"],
   empty |-> report["stderr"] /\ ~ report["seen"], overflow |-> report["overflow"],
   readError |-> report["readError"], bytes |-> bytes]

(* _validate_receipt_state_machine: what every receipt has to satisfy, and *)
(* what one of an observation or of a failure has to.                      *)
Coherent(r) ==
  /\ ~ r.spawned =>
       /\ ~ r.exited /\ ~ r.contained /\ ~ r.terminated /\ r.bytes = 0
       /\ ~ r.empty /\ ~ r.seen /\ ~ r.stdout /\ ~ r.stderr
       /\ ~ r.overflow /\ ~ r.readError
  /\ r.spawned => r.terminated
  /\ r.empty = (r.stderr /\ ~ r.seen)
  /\ r.canonical => r.stdout
  /\ ~ (r.readError /\ r.stdout /\ r.stderr)
  /\ r.overflow => r.error \in {"stream_limit_exceeded", "manifest_drift"}

Observation(r) ==
  /\ r.error = "none" /\ r.spawned /\ r.contained /\ r.exited /\ ~ r.drift
  /\ r.canonical /\ r.empty /\ r.stdout /\ ~ r.overflow /\ ~ r.readError
  /\ r.bytes > 0

Blocked(r) ==
  /\ ~ r.canonical /\ r.drift = (r.error = "manifest_drift")
  /\ r.error = "stream_limit_exceeded" => r.overflow
  /\ r.error \notin {"process_setup_error", "manifest_drift"} =>
       r.spawned /\ r.contained

Valid(r) ==
  /\ Coherent(r)
  /\ IF r.observed THEN Observation(r) ELSE Blocked(r)

Concluded(r) ==
  IF ~ Valid(r) THEN "refused" ELSE IF r.observed THEN "observed" ELSE "blocked"

(* _binding_snapshot finds files that have changed, or are no files any    *)
(* more; the receipt is built and validated, and main writes it or nothing.*)
Conclude ==
  /\ Goto("snapshot", "done")
  /\ ParentOnly /\ UNCHANGED <<contained, killed, incomplete, report, bytes>>
  /\ \E changed \in BOOLEAN :
       LET category == IF changed THEN "manifest_drift" ELSE failure IN
       /\ drift' = changed /\ failure' = category
       /\ outcome' = Concluded(Receipt(category, changed))

(* A read that fails is not caught by build_receipt.                       *)
SnapshotCrashes ==
  /\ Goto("snapshot", "done") /\ outcome' = "crashed"
  /\ ParentOnly /\ UNCHANGED <<contained, killed, failure, incomplete, report, bytes, drift>>

-----------------------------------------------------------------------------
Environment ==
  \/ Exit \/ TimePasses
  \/ \E s \in Streams : Write(s) \/ LetGo(s)

Readers ==
  \/ NoteStderr
  \/ \E s \in Streams :
       ReadChunk(s) \/ AcceptChunk(s) \/ ReadEnd(s) \/ ReadError(s) \/ ReaderEnds(s)

Parent ==
  \/ SpawnFails \/ SpawnPosix \/ SpawnWindows \/ AssignJob \/ Resume \/ ResumeFails
  \/ Poll \/ CheckOverflow \/ CheckErrors \/ CheckDeadline \/ Reap
  \/ Kill \/ Await \/ AwaitUnready \/ Join \/ Drained \/ Return \/ Report
  \/ Judge \/ JudgeCrashes \/ Conclude \/ SnapshotCrashes

Done == pc = "done" /\ UNCHANGED vars

(* What the others do is of no consequence once _run_worker has returned:  *)
(* nothing of it is read any more, and the threads end with main.          *)
Returned == {"judge", "snapshot", "done"}

Next ==
  \/ pc \notin Returned /\ (Environment \/ WriteInput \/ Readers)
  \/ Parent \/ Done

Spec == Init /\ [][Next]_vars

(* The parent thread runs and the clock advances; nothing is assumed of    *)
(* the worker, nor of the other threads, which may block for ever.         *)
FairSpec == Spec /\ WF_vars(Parent) /\ WF_vars(TimePasses)

-----------------------------------------------------------------------------
Emitted == outcome \in {"observed", "blocked"}
AtEnd(s) == ~ open[s] /\ taken[s] = written[s] /\ chunk[s] = 0

(* stderr_empty is a statement on the whole life of the process: nothing   *)
(* was ever written to stderr, and nothing can be any more.                *)
EmptyMeansSilent ==
  Receipt(failure, drift).empty => written["stderr"] = 0 /\ ~ open["stderr"]

(* A receipt says nothing of the process, of its tree or of its output     *)
(* that is not so, though the threads it reads from may still be running.  *)
ReportIsTrue ==
  Emitted =>
    /\ report["exited"] => worker = "exited"
    /\ report["terminated"] => killed
    /\ \A s \in Streams : report[s] => AtEnd(s)
    /\ EmptyMeansSilent
    /\ report["overflow"] => Written > Limit
    /\ bytes <= Written

(* An observation rests on the worker's complete output: it exited with    *)
(* code 0, its tree was killed, and what was judged is all it ever wrote.  *)
ObservedIsWhole ==
  outcome = "observed" =>
    /\ worker = "exited" /\ code /\ killed /\ ~ drift
    /\ \A s \in Streams : AtEnd(s) /\ accepted[s] = written[s]
    /\ written["stderr"] = 0 /\ written["stdout"] \in 1 .. ResponseMax

(* The category in a receipt names something that has happened.            *)
CauseIsReal ==
  Emitted =>
    /\ failure = "worker_timeout" => now # "early"
    /\ failure = "stream_limit_exceeded" => Written > Limit
    /\ failure = "worker_error" =>
         \/ writerError \/ readerError
         \/ worker = "exited" /\ ~ code
         \/ written["stderr"] > 0 \/ written["stdout"] > ResponseMax
    /\ failure = "process_setup_error" => \A s \in Streams : taken[s] = 0

(* The validator contradicts the supervisor in one case only: the output   *)
(* went over its limit after another failure had been settled on.          *)
OnlyLateOverflowRefused ==
  outcome = "refused" =>
    report["overflow"] /\ failure \in {"worker_error", "worker_timeout"}

(* The parent returns, whatever the worker and the other threads do.       *)
Ends == <>(outcome # "none")

-----------------------------------------------------------------------------
Setup == {"job", "resume", "kill_unready", "await_unready"}

(* What the reader threads know of their streams: nothing taken is lost    *)
(* without overflow, nothing comes after the end, an error leaves a stream *)
(* unfinished, and what has come from stderr has been seen, or will be     *)
(* before the reader does anything else. They start with the worker.       *)
StreamInv(s) ==
  /\ taken[s] <= written[s] /\ accepted[s] + chunk[s] <= taken[s]
  /\ ~ overflow => accepted[s] + chunk[s] = taken[s]
  /\ IF reader[s] \in {"chunk", "noted"} THEN taken[s] > 0 ELSE chunk[s] = 0
  /\ complete[s] => reader[s] \in {"closing", "dead"} /\ ~ open[s] /\ taken[s] = written[s]
  /\ reader[s] \in {"closing", "dead"} /\ ~ readerError => complete[s]

ReaderInv ==
  /\ \A s \in Streams : StreamInv(s)
  /\ readerError => \E s \in Streams : reader[s] \in {"closing", "dead"} /\ ~ complete[s]
  /\ overflow => taken["stdout"] + taken["stderr"] > Limit
  /\ taken["stderr"] > 0 => stderrSeen \/ reader["stderr"] = "chunk"
  /\ stderrSeen => taken["stderr"] > 0
  /\ pc \in {"spawn"} \cup Setup => \A s \in Streams : reader[s] = "none"

(* What has been reported stays true; the observation of a stream is only  *)
(* reported complete when its reader had ended before its events were      *)
(* read.                                                                   *)
Joined == {"drained", "kill_again", "await_again", "report", "report_ends", "report_flags"}
Unread == {"spawn", "job", "resume", "kill_unready", "await_unready", "poll", "overflow?",
           "errors?", "deadline?", "reap", "kill", "await", "join", "drained",
           "kill_again", "await_again", "report"}

ReportInv ==
  /\ pc \in Joined => \A s \in Streams : incomplete[s] \/ reader[s] = "dead"
  /\ pc \in Joined \cup {"await_unready", "await", "join", "judge"} => killed
  /\ pc \in {"snapshot", "done"} /\ report["terminated"] => killed
  /\ pc \in {"report_ends", "report_flags"} /\ ~ incomplete["stderr"] =>
       report["seen"] = stderrSeen
  /\ pc \in Unread => ~ report["exited"]
  /\ pc \in Unread \cup {"report_ends"} =>
       /\ ~ report["stdout"] /\ ~ report["stderr"]
       /\ ~ report["overflow"] /\ ~ report["readError"]
  /\ report["exited"] => worker = "exited"
  /\ bytes <= Used
  /\ report["stdout"] => complete["stdout"]
  /\ report["stderr"] => /\ complete["stderr"] /\ reader["stderr"] = "dead"
                      /\ report["seen"] = stderrSeen
  /\ report["overflow"] => overflow
  /\ report["readError"] => readerError

(* How the category and the report fit together when the receipt is built. *)
Started == {"poll", "overflow?", "errors?", "deadline?", "reap", "kill", "await", "join",
            "judge"} \cup Joined

(* A WorkerRun: every thread has ended, and nothing went wrong.            *)
Clean ==
  /\ \A s \in Streams : complete[s]
  /\ worker = "exited" /\ ~ overflow /\ killed
  /\ report["spawned"] /\ report["exited"] /\ report["stdout"] /\ report["stderr"]
  /\ ~ report["overflow"] /\ ~ report["readError"] /\ bytes = Used

Settled ==
  /\ ~ report["spawned"] =>
       report = Nothing /\ bytes = 0 /\ ~ contained /\ failure = "process_setup_error"
  /\ failure # "process_setup_error" => report["spawned"] /\ contained
  /\ failure = "stream_limit_exceeded" => report["overflow"]
  /\ failure \in {"none", "protocol_error", "process_setup_error"} => ~ report["overflow"]
  /\ failure = "none" =>
       /\ Clean /\ code /\ ~ report["seen"]
       /\ accepted["stderr"] = 0 /\ accepted["stdout"] \in 1 .. ResponseMax

VerdictInv ==
  /\ pc = "spawn" => report = Nothing /\ bytes = 0 /\ ~ contained
  /\ report["spawned"] => report["terminated"]
  /\ pc \in Setup \cup Started => report["spawned"]
  /\ pc \in {"resume"} \cup Started => contained
  /\ pc # "done" => failure # "manifest_drift" /\ outcome = "none"
  /\ pc \in Setup \cup {"spawn", "poll", "overflow?", "errors?", "deadline?", "reap",
                       "judge"} => failure = "none"
  /\ pc \in {"kill", "await", "join", "kill_again", "await_again", "drained", "report",
              "report_ends", "report_flags"} =>
       failure \in {"none", "stream_limit_exceeded", "worker_error", "worker_timeout"}
  /\ pc \in {"kill", "await", "kill_again", "await_again", "report", "report_ends",
              "report_flags"} => failure # "none"
  /\ pc \in {"reap", "join", "drained"} /\ failure = "none" => worker = "exited"
  /\ pc \in Started /\ failure = "stream_limit_exceeded" => overflow
  /\ pc = "judge" => Clean
  /\ pc = "snapshot" => Settled

=============================================================================
