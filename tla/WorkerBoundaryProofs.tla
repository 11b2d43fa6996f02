------------------------ MODULE WorkerBoundaryProofs ------------------------
(***************************************************************************)
(* Theorems about WorkerBoundary, for all sizes of chunks, pipes, limits   *)
(* and outputs.                                                            *)
(***************************************************************************)
EXTENDS WorkerBoundary, Integers, TLAPS

(* The steps of the parent, in four groups.                                *)
Launch == SpawnFails \/ SpawnPosix \/ SpawnWindows \/ AssignJob \/ Resume \/ ResumeFails
Watch == Poll \/ CheckOverflow \/ CheckErrors \/ CheckDeadline \/ Reap
Drain == Kill \/ Await \/ AwaitUnready \/ Join \/ Drained \/ Return \/ Report
Verdict == Judge \/ JudgeCrashes \/ Conclude \/ SnapshotCrashes

(* Only the start of the worker concerns others than the parent.           *)
Starting == SpawnPosix \/ SpawnWindows \/ Resume

(* The smaller of two sizes is one of them, and bounded by both.           *)
LEMMA SmallerIsOne ==
  ASSUME NEW m \in Int, NEW n \in Int
  PROVE  /\ Smaller(m, n) \in {m, n}
         /\ Smaller(m, n) <= m /\ Smaller(m, n) <= n
         /\ m <= n => Smaller(m, n) = m
BY DEF Smaller

(* The initial state is well typed.                                        *)
LEMMA InitTyped == Init => TypeOK
<1> SUFFICES ASSUME Init PROVE TypeOK
  OBVIOUS
<1>1. CountsOK
  BY SizesAssumption DEF Init, CountsOK, Streams
<1>2. PlacesOK
  BY DEF Init, PlacesOK, Streams
<1>3. ControlOK
  BY DEF Init, ControlOK
<1>4. EventsOK
  BY DEF Init, EventsOK
<1>5. FlagsOK
  BY Zenon DEF Init, FlagsOK, Nothing
<1> QED
  BY <1>1, <1>2, <1>3, <1>4, <1>5 DEF TypeOK

(* The environment and the threads keep the types of the places,           *)
LEMMA OthersPlaces ==
  ASSUME PlacesOK, Environment \/ WriteInput \/ Readers
  PROVE  PlacesOK'
<1>1. CASE Environment
  BY <1>1 DEF PlacesOK, Environment, Exit, TimePasses, Write, LetGo, process, readers, writers
<1>2. CASE WriteInput
  BY <1>2 DEF PlacesOK, WriteInput, process, readers
<1>3. CASE Readers
  BY <1>3 DEF PlacesOK, Readers, NoteStderr, ReadChunk, AcceptChunk, ReadEnd, ReadError,
              ReaderEnds, process, writers, Streams
<1> QED
  BY <1>1, <1>2, <1>3

(* of the control state of the parent,                                     *)
LEMMA OthersControl ==
  ASSUME ControlOK, Environment \/ WriteInput \/ Readers
  PROVE  ControlOK'
<1>1. UNCHANGED parent
  BY DEF Environment, Exit, TimePasses, Write, LetGo, WriteInput, Readers, NoteStderr,
         ReadChunk, AcceptChunk, ReadEnd, ReadError, ReaderEnds
<1> QED
  BY <1>1 DEF ControlOK, parent

(* of the events,                                                          *)
LEMMA OthersEvents ==
  ASSUME EventsOK, Environment \/ WriteInput \/ Readers
  PROVE  EventsOK'
<1>1. CASE Environment
  BY <1>1 DEF EventsOK, Environment, Exit, TimePasses, Write, LetGo, process, readers, writers,
              parent
<1>2. CASE WriteInput
  BY <1>2 DEF EventsOK, WriteInput, process, readers, parent
<1>3. ASSUME NEW s \in Streams, AcceptChunk(s)
      PROVE  EventsOK'
  <2>1. overflow' \in BOOLEAN
    BY <1>3, Zenon DEF AcceptChunk
  <2> QED
    BY <1>3, <2>1 DEF EventsOK, AcceptChunk, process, writers, parent
<1>4. CASE Readers /\ ~ \E s \in Streams : AcceptChunk(s)
  BY <1>4 DEF EventsOK, Readers, NoteStderr, ReadChunk, ReadEnd, ReadError, ReaderEnds,
              process, writers, parent
<1> QED
  BY <1>1, <1>2, <1>3, <1>4

(* of the Boolean functions,                                               *)
LEMMA OthersFlags ==
  ASSUME FlagsOK, Environment \/ WriteInput \/ Readers
  PROVE  FlagsOK'
<1>1. CASE Environment
  BY <1>1 DEF FlagsOK, Environment, Exit, TimePasses, Write, LetGo, process, readers, writers,
              parent
<1>2. CASE WriteInput
  BY <1>2 DEF FlagsOK, WriteInput, process, readers, parent
<1>3. CASE Readers
  BY <1>3 DEF FlagsOK, Readers, NoteStderr, ReadChunk, AcceptChunk, ReadEnd, ReadError,
              ReaderEnds, process, writers, parent
<1> QED
  BY <1>1, <1>2, <1>3

(* and of the counts; a chunk is accepted only up to what the limit        *)
(* leaves.                                                                 *)
LEMMA OthersCounts ==
  ASSUME CountsOK, Environment \/ WriteInput \/ Readers
  PROVE  CountsOK'
<1> USE DEF Streams
<1>1. CASE Environment
  BY <1>1 DEF CountsOK, Environment, Exit, TimePasses, Write, LetGo, process, readers, writers,
              parent
<1>2. CASE WriteInput
  BY <1>2 DEF CountsOK, WriteInput, process, readers, parent
<1>3. ASSUME NEW s \in Streams, ReadChunk(s)
      PROVE  CountsOK'
  BY <1>3, SizesAssumption DEF CountsOK, ReadChunk, process, parent
<1>4. ASSUME NEW s \in Streams, AcceptChunk(s)
      PROVE  CountsOK'
  <2>1. Used \in Nat /\ Limit - Used \in Nat /\ chunk[s] \in Nat
    BY SizesAssumption DEF Used, CountsOK
  <2>2. /\ Smaller(chunk[s], Limit - Used) \in Nat
        /\ Smaller(chunk[s], Limit - Used) <= Limit - Used
    BY <2>1, SmallerIsOne
  <2>3. accepted' \in [Streams -> Nat] /\ accepted'["stdout"] + accepted'["stderr"] <= Limit
    <3> DEFINE n == Smaller(chunk[s], Limit - Used)
    <3>1. accepted' = [accepted EXCEPT ![s] = @ + n]
      BY <1>4 DEF AcceptChunk
    <3>2. n \in Nat /\ n <= Limit - (accepted["stdout"] + accepted["stderr"])
      BY <2>2 DEF Used
    <3> HIDE DEF n
    <3> QED
      BY <3>1, <3>2, SizesAssumption DEF CountsOK
  <2> QED
    BY <1>4, <2>3 DEF AcceptChunk, CountsOK, process, parent
<1>5. CASE Readers /\ ~ \E s \in Streams : ReadChunk(s) \/ AcceptChunk(s)
  BY <1>5 DEF CountsOK, Readers, NoteStderr, ReadEnd, ReadError, ReaderEnds, process, parent
<1> QED
  BY <1>1, <1>2, <1>3, <1>4, <1>5

(* Every other step of the parent leaves process and threads alone.        *)
LEMMA ParentFrame ==
  ASSUME Parent
  PROVE  ParentOnly \/ Starting
BY DEF Parent, Starting, SpawnFails, AssignJob, ResumeFails, Poll, CheckOverflow, CheckErrors,
       CheckDeadline, Check, Reap, Kill, Await, AwaitUnready, Join, Drained, Return, Report,
       Judge, JudgeCrashes, Conclude, SnapshotCrashes

(* The parent keeps the types of the places,                               *)
LEMMA ParentPlaces ==
  ASSUME PlacesOK, Parent
  PROVE  PlacesOK'
<1>1. CASE ParentOnly
  BY <1>1 DEF ParentOnly, PlacesOK, process, readers, writers
<1>2. CASE Starting
  BY <1>2 DEF Starting, SpawnPosix, SpawnWindows, Resume, StartThreads, PlacesOK, readers,
              writers, Streams
<1> QED
  BY <1>1, <1>2, ParentFrame

(* Every step of the parent is in one of the groups.                       *)
LEMMA ParentSteps == Parent = (Launch \/ Watch \/ Drain \/ Verdict)
BY Zenon DEF Parent, Launch, Watch, Drain, Verdict

(* of its control state,                                                   *)
LEMMA ParentControl ==
  ASSUME ControlOK, Parent
  PROVE  ControlOK'
<1> USE DEF ControlOK, Categories
<1>1. CASE Launch
  BY <1>1 DEF Launch, SpawnFails, SpawnPosix, SpawnWindows, AssignJob, Resume, ResumeFails,
              Goto, Fail
<1>2. CASE Watch
  BY <1>2 DEF Watch, Poll, CheckOverflow, CheckErrors, CheckDeadline, Check, Reap, Goto, Fail
<1>3. CASE Drain
  BY <1>3 DEF Drain, Kill, Await, AwaitUnready, Join, Drained, Return, Report, Or, Goto, Fail
<1>4. CASE Judge \/ JudgeCrashes \/ SnapshotCrashes
  BY <1>4 DEF Judge, JudgeCrashes, SnapshotCrashes, Goto, Fail
<1>5. CASE Conclude
  <2>1. outcome' \in {"refused", "observed", "blocked"}
    BY <1>5 DEF Conclude, Concluded
  <2> QED
    BY <1>5, <2>1 DEF Conclude, Goto
<1> QED
  BY <1>1, <1>2, <1>3, <1>4, <1>5, ParentSteps DEF Verdict

(* of the events,                                                          *)
LEMMA ParentEvents ==
  ASSUME EventsOK, Parent
  PROVE  EventsOK'
<1> USE DEF EventsOK, ParentOnly, process, readers, writers
<1>1. CASE Launch
  BY <1>1 DEF Launch, SpawnFails, SpawnPosix, SpawnWindows, AssignJob, Resume, ResumeFails,
              StartThreads
<1>2. CASE Watch
  BY <1>2 DEF Watch, Poll, CheckOverflow, CheckErrors, CheckDeadline, Check, Reap
<1>3. CASE Drain
  BY <1>3 DEF Drain, Kill, Await, AwaitUnready, Join, Drained, Return, Report
<1>4. CASE Verdict
  BY <1>4 DEF Verdict, Judge, JudgeCrashes, Conclude, SnapshotCrashes
<1> QED
  BY <1>1, <1>2, <1>3, <1>4, ParentSteps

(* of the counts,                                                          *)
LEMMA ParentCounts ==
  ASSUME CountsOK, Parent
  PROVE  CountsOK'
<1>1. UNCHANGED <<written, taken, chunk, accepted>>
  <2>1. CASE ParentOnly
    BY <2>1 DEF ParentOnly, process, readers
  <2>2. CASE Starting
    BY <2>2 DEF Starting, SpawnPosix, SpawnWindows, Resume, StartThreads, readers
  <2> QED
    BY <2>1, <2>2, ParentFrame
<1>2. Smaller(Limit, Used) \in Nat
  BY SmallerIsOne, SizesAssumption DEF Used, CountsOK, Streams
<1>3. bytes' \in {bytes, Smaller(Limit, Used)}
  BY DEF Parent, SpawnFails, SpawnPosix, SpawnWindows, AssignJob, Resume, ResumeFails, Poll,
         CheckOverflow, CheckErrors, CheckDeadline, Check, Reap, Kill, Await, AwaitUnready,
         Join, Drained, Return, Report, Judge, JudgeCrashes, Conclude, SnapshotCrashes
<1> QED
  BY <1>1, <1>2, <1>3 DEF CountsOK

(* and of the Boolean functions; the report stays a function of the        *)
(* fields.                                                                 *)
LEMMA ParentFlags ==
  ASSUME PlacesOK, EventsOK, FlagsOK, Parent
  PROVE  FlagsOK'
<1>1. UNCHANGED <<open, complete>>
  <2>1. CASE ParentOnly
    BY <2>1 DEF ParentOnly, process, readers
  <2>2. CASE Starting
    BY <2>2 DEF Starting, SpawnPosix, SpawnWindows, Resume, StartThreads, readers
  <2> QED
    BY <2>1, <2>2, ParentFrame
<1>2. incomplete' \in [Streams -> BOOLEAN]
  <2>1. CASE Join
    BY <2>1, Zenon DEF Join
  <2>2. CASE ~ Join
    BY <2>2 DEF FlagsOK, Parent, SpawnFails, SpawnPosix, SpawnWindows, AssignJob, Resume,
           ResumeFails, Poll, CheckOverflow, CheckErrors, CheckDeadline, Check, Reap, Kill,
           Await, AwaitUnready, Drained, Return, Report, Judge, JudgeCrashes, Conclude,
           SnapshotCrashes
  <2> QED
    BY <2>1, <2>2
<1>3. report' \in [Fields -> BOOLEAN]
  <2> DEFINE B == [Fields -> BOOLEAN]
  <2>1. report \in B /\ Spawned \in B
    <3>1. Spawned \in B
      <4>1. \A f \in Fields : (f \in {"spawned", "terminated"}) \in BOOLEAN
        OBVIOUS
      <4> QED
        BY <4>1, Zenon DEF Spawned
    <3> QED
      BY <3>1 DEF FlagsOK
  <2>2. \A r \in B : ReadProcess(r) \in B
    BY DEF ReadProcess, EventsOK, Fields
  <2>3. \A r \in B : ReadEnds(r) \in B
    BY DEF ReadEnds, FlagsOK, Fields, Streams
  <2>4. \A r \in B : ReadFlags(r) \in B
    BY DEF ReadFlags, EventsOK, Fields
  <2>5. \A r \in B : Believed(r) \in B
    BY DEF Believed, Fields
  <2>6. [report EXCEPT !["exited"] = (worker = "exited")] \in B
    BY <2>1 DEF Fields
  <2>7. report' \in {report, Spawned, ReadFlags(ReadEnds(ReadProcess(report))),
                     ReadProcess(report), Believed(ReadEnds(report)), ReadFlags(report),
                     [report EXCEPT !["exited"] = (worker = "exited")]}
    BY DEF Parent, SpawnFails, SpawnPosix, SpawnWindows, AssignJob, Resume, ResumeFails, Poll,
         CheckOverflow, CheckErrors, CheckDeadline, Check, Reap, Kill, Await, AwaitUnready,
         Join, Drained, Return, Report, Judge, JudgeCrashes, Conclude, SnapshotCrashes
  <2> HIDE DEF B
  <2>8. report' \in B
    BY <2>1, <2>2, <2>3, <2>4, <2>5, <2>6, <2>7
  <2> QED
    BY <2>8 DEF B
<1> QED
  BY <1>1, <1>2, <1>3 DEF FlagsOK

(* The environment and the threads keep the types.                         *)
LEMMA OthersTyped ==
  ASSUME TypeOK, Environment \/ WriteInput \/ Readers
  PROVE  TypeOK'
BY OthersPlaces, OthersControl, OthersEvents, OthersFlags, OthersCounts DEF TypeOK

(* The parent keeps the types.                                             *)
LEMMA ParentTyped ==
  ASSUME TypeOK, Parent
  PROVE  TypeOK'
BY ParentPlaces, ParentControl, ParentEvents, ParentFlags, ParentCounts DEF TypeOK

(* Every state is well typed; in particular no more is accepted than the   *)
(* limit allows, whatever the chunks.                                      *)
THEOREM TypeCorrect == Spec => []TypeOK
<1>1. TypeOK /\ [Next]_vars => TypeOK'
  <2> SUFFICES ASSUME TypeOK, [Next]_vars PROVE TypeOK'
    OBVIOUS
  <2>1. CASE UNCHANGED vars
    BY <2>1 DEF TypeOK, CountsOK, PlacesOK, ControlOK, EventsOK, FlagsOK, vars, process,
                readers, writers, parent
  <2> QED
    BY <2>1, OthersTyped, ParentTyped DEF Next, Done
<1> QED
  BY <1>1, InitTyped, PTL DEF Spec

-----------------------------------------------------------------------------
(* What a receipt says is so: an inductive invariant over the readers, the *)
(* report and the verdict, and the properties that follow from it.         *)


(* What a reader knows of its stream is kept by the environment and the    *)
(* threads.                                                                *)
LEMMA StreamKept ==
  ASSUME TypeOK, ReaderInv, NEW u \in Streams, Environment \/ WriteInput \/ Readers
  PROVE  StreamInv(u)'
<1> USE DEF ReaderInv, StreamInv, TypeOK, CountsOK, PlacesOK, EventsOK, FlagsOK
<1>1. CASE Exit \/ TimePasses \/ WriteInput
  BY <1>1 DEF Exit, TimePasses, WriteInput, process, readers
<1>2. ASSUME NEW s \in Streams, Write(s)
      PROVE  StreamInv(u)'
  BY <1>2 DEF Write, readers
<1>3. ASSUME NEW s \in Streams, LetGo(s)
      PROVE  StreamInv(u)'
  BY <1>3 DEF LetGo, readers
<1>4. CASE NoteStderr
  BY <1>4 DEF NoteStderr, process
<1>5. ASSUME NEW s \in Streams, ReadChunk(s)
      PROVE  StreamInv(u)'
  BY <1>5, SizesAssumption DEF ReadChunk, process
<1>6. ASSUME NEW s \in Streams, AcceptChunk(s)
      PROVE  StreamInv(u)'
  <2> DEFINE n == Smaller(chunk[s], Limit - Used)
  <2>1. Used \in Nat /\ Limit - Used \in Nat /\ chunk[s] \in Nat
    BY SizesAssumption DEF Used, Streams
  <2>2. n \in Nat /\ n <= chunk[s] /\ (chunk[s] <= Limit - Used => n = chunk[s])
    BY <2>1, SmallerIsOne
  <2> HIDE DEF n
  <2>3. /\ accepted' = [accepted EXCEPT ![s] = @ + n] /\ chunk' = [chunk EXCEPT ![s] = 0]
        /\ reader[s] = "noted" /\ reader' = [reader EXCEPT ![s] = "reading"]
        /\ UNCHANGED <<taken, complete, readerError, open, written>>
    BY <1>6 DEF AcceptChunk, process, n
  <2>4. ~ overflow' => ~ overflow /\ n = chunk[s]
    <3>1. ~ overflow' => ~ overflow /\ ~ chunk[s] > Limit - Used
      BY <1>6, Zenon DEF AcceptChunk
    <3> QED
      BY <3>1, <2>1, <2>2
  <2> HIDE DEF ReaderInv, StreamInv
  <2>5. StreamInv(u)
    BY DEF ReaderInv
  <2> QED
    BY <2>2, <2>3, <2>4, <2>5 DEF StreamInv
<1>7. ASSUME NEW s \in Streams, ReadEnd(s)
      PROVE  StreamInv(u)'
  BY <1>7 DEF ReadEnd, process
<1>8. ASSUME NEW s \in Streams, ReadError(s)
      PROVE  StreamInv(u)'
  BY <1>8 DEF ReadError, process
<1>9. ASSUME NEW s \in Streams, ReaderEnds(s)
      PROVE  StreamInv(u)'
  BY <1>9 DEF ReaderEnds, process
<1> QED
  BY <1>1, <1>2, <1>3, <1>4, <1>5, <1>6, <1>7, <1>8, <1>9 DEF Environment, Readers

(* The conjuncts of ReaderInv that relate the two streams and the events.  *)
LEMMA ReadersKept ==
  ASSUME TypeOK, ReaderInv, Environment \/ WriteInput \/ Readers
  PROVE  ReaderInv'
<1> USE DEF TypeOK, CountsOK, PlacesOK, EventsOK, FlagsOK, Streams
<1>1. \A s \in Streams : StreamInv(s)'
  BY StreamKept
<1> DEFINE Quiet == Exit \/ TimePasses \/ WriteInput \/ \E s \in Streams : Write(s) \/ LetGo(s)
<1>q. Quiet => UNCHANGED readers
  BY DEF Exit, TimePasses, WriteInput, Write, LetGo
<1>c. Quiet \/ NoteStderr \/ \E s \in Streams :
        ReadChunk(s) \/ AcceptChunk(s) \/ ReadEnd(s) \/ ReadError(s) \/ ReaderEnds(s)
  BY DEF Environment, Readers
<1> HIDE DEF Quiet
<1>2. (readerError => \E s \in Streams : reader[s] \in {"closing", "dead"} /\ ~ complete[s])'
  <2> DEFINE Unfinished(s) == reader[s] \in {"closing", "dead"} /\ ~ complete[s]
  <2>1. readerError => \E s \in Streams : Unfinished(s)
    BY DEF ReaderInv
  <2>2. CASE Quiet
    BY <1>q, <2>1, <2>2 DEF readers
  <2>3. CASE NoteStderr
    BY <2>1, <2>3 DEF NoteStderr
  <2>4. ASSUME NEW s \in Streams, ReadChunk(s) \/ AcceptChunk(s) \/ ReadEnd(s)
        PROVE  readerError' => \E u \in Streams : Unfinished(u)'
    <3>1. \A u \in Streams : Unfinished(u) => Unfinished(u)'
      BY <2>4 DEF ReadChunk, AcceptChunk, ReadEnd
    <3>2. readerError' = readerError
      BY <2>4 DEF ReadChunk, AcceptChunk, ReadEnd
    <3> HIDE DEF Unfinished
    <3> QED
      BY <2>1, <3>1, <3>2
  <2>5. ASSUME NEW s \in Streams, ReadError(s)
        PROVE  Unfinished(s)'
    BY <2>5 DEF ReadError, ReaderInv, StreamInv
  <2>6. ASSUME NEW s \in Streams, ReaderEnds(s)
        PROVE  readerError' => \E u \in Streams : Unfinished(u)'
    <3>1. \A u \in Streams : Unfinished(u) => Unfinished(u)'
      BY <2>6 DEF ReaderEnds
    <3>2. readerError' = readerError
      BY <2>6 DEF ReaderEnds
    <3> HIDE DEF Unfinished
    <3> QED
      BY <2>1, <3>1, <3>2
  <2> QED
    BY <1>c, <2>2, <2>3, <2>4, <2>5, <2>6
<1>3. (overflow => taken["stdout"] + taken["stderr"] > Limit)'
  <2>1. overflow => taken["stdout"] + taken["stderr"] > Limit
    BY DEF ReaderInv
  <2>2. CASE Quiet \/ NoteStderr
    BY <1>q, <2>1, <2>2 DEF NoteStderr, readers
  <2>3. ASSUME NEW s \in Streams, ReadEnd(s) \/ ReadError(s) \/ ReaderEnds(s)
        PROVE  overflow' = overflow /\ taken' = taken
    BY <2>3 DEF ReadEnd, ReadError, ReaderEnds
  <2>4. ASSUME NEW s \in Streams, ReadChunk(s)
        PROVE  (overflow => taken["stdout"] + taken["stderr"] > Limit)'
    <3>1. /\ overflow' = overflow
          /\ taken'["stdout"] + taken'["stderr"] >= taken["stdout"] + taken["stderr"]
          /\ taken' \in [Streams -> Nat]
      BY <2>4, SizesAssumption DEF ReadChunk
    <3> QED
      BY <3>1, <2>1, SizesAssumption
  <2>5. ASSUME NEW s \in Streams, AcceptChunk(s)
        PROVE  /\ taken' = taken
               /\ overflow' /\ ~ overflow => taken["stdout"] + taken["stderr"] > Limit
    <3>1. taken' = taken
      BY <2>5 DEF AcceptChunk
    <3>2. overflow' /\ ~ overflow => chunk[s] > Limit - Used
      BY <2>5, Zenon DEF AcceptChunk
    <3>3. \A u \in Streams : accepted[u] + chunk[u] <= taken[u]
      BY DEF ReaderInv, StreamInv
    <3>4. chunk[s] > Limit - Used => taken["stdout"] + taken["stderr"] > Limit
      BY <3>3, SizesAssumption DEF Used
    <3> QED
      BY <3>1, <3>2, <3>4
  <2> QED
    BY <1>c, <2>1, <2>2, <2>3, <2>4, <2>5, SizesAssumption
<1>4. (taken["stderr"] > 0 => stderrSeen \/ reader["stderr"] = "chunk")'
  BY SizesAssumption DEF ReaderInv, Environment, Exit, TimePasses, Write, LetGo, WriteInput,
         Readers, NoteStderr, ReadChunk, AcceptChunk, ReadEnd, ReadError, ReaderEnds, process,
         readers, writers
<1>5. (stderrSeen => taken["stderr"] > 0)'
  <2>1. stderrSeen => taken["stderr"] > 0
    BY DEF ReaderInv
  <2>2. CASE Quiet
    BY <1>q, <2>1, <2>2 DEF readers
  <2>3. CASE NoteStderr
    BY <2>3 DEF NoteStderr, ReaderInv, StreamInv
  <2>4. ASSUME NEW s \in Streams, ReadChunk(s)
        PROVE  (stderrSeen => taken["stderr"] > 0)'
    <3>1. /\ stderrSeen' = stderrSeen /\ taken'["stderr"] >= taken["stderr"]
          /\ taken' \in [Streams -> Nat]
      BY <2>4, SizesAssumption DEF ReadChunk
    <3> QED
      BY <3>1, <2>1
  <2>5. ASSUME NEW s \in Streams,
               AcceptChunk(s) \/ ReadEnd(s) \/ ReadError(s) \/ ReaderEnds(s)
        PROVE  stderrSeen' = stderrSeen /\ taken' = taken
    BY <2>5 DEF AcceptChunk, ReadEnd, ReadError, ReaderEnds
  <2> QED
    BY <1>c, <2>1, <2>2, <2>3, <2>4, <2>5
<1>6. (pc \in {"spawn"} \cup Setup => \A s \in Streams : reader[s] = "none")'
  BY DEF ReaderInv, Environment, Exit, TimePasses, Write, LetGo, WriteInput, Readers,
         NoteStderr, ReadChunk, AcceptChunk, ReadEnd, ReadError, ReaderEnds, Setup, process,
         readers, writers, parent
<1> QED
  BY <1>1, <1>2, <1>3, <1>4, <1>5, <1>6 DEF ReaderInv

(* The parent disturbs no reader: it only starts them, before anything is  *)
(* read.                                                                   *)
LEMMA ReadersStarted ==
  ASSUME TypeOK, ReaderInv, Parent
  PROVE  ReaderInv'
<1>1. CASE Starting
  <2>1. \A s \in Streams : reader[s] = "none"
    BY <1>1 DEF ReaderInv, Starting, SpawnPosix, SpawnWindows, Resume, Goto, Setup
  <2>2. UNCHANGED <<written, open, taken, chunk, accepted, complete, stderrSeen, overflow,
                    readerError>>
    BY <1>1 DEF Starting, SpawnPosix, SpawnWindows, Resume, StartThreads, readers
  <2>3. \/ reader' = reader
        \/ reader' = [s \in Streams |-> "reading"] /\ pc' = "poll"
    BY <1>1 DEF Starting, SpawnPosix, SpawnWindows, Resume, StartThreads, readers, Goto
  <2> QED
    BY <2>1, <2>2, <2>3 DEF ReaderInv, StreamInv, Setup, Streams
<1>2. CASE ParentOnly
  <2>1. UNCHANGED <<written, open, readers>>
    BY <1>2 DEF ParentOnly, process
  <2>2. pc' \in {"spawn"} \cup Setup => pc \in {"spawn"} \cup Setup
    BY DEF Parent, SpawnFails, SpawnPosix, SpawnWindows, AssignJob, Resume, ResumeFails, Poll,
         CheckOverflow, CheckErrors, CheckDeadline, Check, Reap, Kill, Await, AwaitUnready,
         Join, Drained, Return, Report, Judge, JudgeCrashes, Conclude, SnapshotCrashes, Goto,
         Setup
  <2> QED
    BY <2>1, <2>2 DEF ReaderInv, StreamInv, readers
<1> QED
  BY <1>1, <1>2, ParentFrame

(* What has happened to the worker and its streams does not unhappen.      *)
LEMMA OthersGoOn ==
  ASSUME TypeOK, ReaderInv, Environment \/ WriteInput \/ Readers
  PROVE  /\ UNCHANGED parent
         /\ worker = "exited" => worker' = "exited"
         /\ \A s \in Streams : complete[s] => complete'[s]
         /\ \A s \in Streams : reader[s] = "dead" => reader'[s] = "dead"
         /\ overflow => overflow'
         /\ readerError => readerError'
         /\ reader["stderr"] = "dead" => stderrSeen' = stderrSeen
<1> USE DEF TypeOK, PlacesOK, EventsOK, FlagsOK, Streams
<1> USE DEF Environment, Exit, TimePasses, Write, LetGo, WriteInput, Readers, NoteStderr,
            ReadChunk, AcceptChunk, ReadEnd, ReadError, ReaderEnds, process, readers, writers
<1>1. UNCHANGED parent /\ (worker = "exited" => worker' = "exited")
  OBVIOUS
<1>2. \A s \in Streams : complete[s] => complete'[s]
  OBVIOUS
<1>3. \A s \in Streams : reader[s] = "dead" => reader'[s] = "dead"
  OBVIOUS
<1>4. (overflow => overflow') /\ (readerError => readerError')
  BY Zenon
<1>5. reader["stderr"] = "dead" => stderrSeen' = stderrSeen
  OBVIOUS
<1> QED
  BY <1>1, <1>2, <1>3, <1>4, <1>5

(* What has been accepted is never given back.                             *)
LEMMA UsedGrows ==
  ASSUME TypeOK, Environment \/ WriteInput \/ Readers
  PROVE  Used' >= Used /\ Used \in Nat /\ Used' \in Nat
<1> USE DEF TypeOK, CountsOK, Streams
<1>1. Used \in Nat
  BY DEF Used
<1>2. ASSUME NEW s \in Streams, AcceptChunk(s)
      PROVE  Used' >= Used /\ Used' \in Nat
  <2> DEFINE n == Smaller(chunk[s], Limit - Used)
  <2>1. n \in Nat
    BY <1>1, SmallerIsOne, SizesAssumption DEF Used
  <2>2. accepted' = [accepted EXCEPT ![s] = @ + n]
    BY <1>2 DEF AcceptChunk
  <2> HIDE DEF n
  <2> QED
    BY <2>1, <2>2 DEF Used
<1>3. CASE ~ \E s \in Streams : AcceptChunk(s)
  <2>1. accepted' = accepted
    BY <1>3 DEF Environment, Exit, TimePasses, Write, LetGo, WriteInput, Readers, NoteStderr,
            ReadChunk, ReadEnd, ReadError, ReaderEnds, readers
  <2> QED
    BY <1>1, <2>1 DEF Used
<1> QED
  BY <1>1, <1>2, <1>3

(* What has been reported stays true whatever the threads still do.        *)
LEMMA OthersReport ==
  ASSUME TypeOK, ReaderInv, ReportInv, Environment \/ WriteInput \/ Readers
  PROVE  ReportInv'
<1>1. UNCHANGED <<pc, contained, killed, failure, incomplete, report, bytes>>
  BY OthersGoOn DEF parent
<1>2. (pc \in Joined => \A s \in Streams : incomplete[s] \/ reader[s] = "dead")'
  <2>1. \A s \in Streams : reader[s] = "dead" => reader'[s] = "dead"
    BY OthersGoOn, Zenon
  <2> QED
    BY <1>1, <2>1 DEF ReportInv
<1>3. (bytes <= Used)'
  BY <1>1, UsedGrows DEF ReportInv, TypeOK, CountsOK
<1>4. (pc \in {"report_ends", "report_flags"} /\ ~ incomplete["stderr"] =>
        report["seen"] = stderrSeen)'
  BY <1>1, OthersGoOn DEF ReportInv, Joined, Streams
<1>5. (/\ report["stdout"] => complete["stdout"]
       /\ report["stderr"] => /\ complete["stderr"] /\ reader["stderr"] = "dead"
                             /\ report["seen"] = stderrSeen)'
  <2>1. /\ report["stdout"] => complete["stdout"]
        /\ report["stderr"] => complete["stderr"]
        /\ report["stderr"] => reader["stderr"] = "dead" /\ report["seen"] = stderrSeen
    BY DEF ReportInv
  <2>2. \A s \in Streams : complete[s] => complete'[s]
    BY OthersGoOn, Zenon
  <2>3. reader["stderr"] = "dead" => reader'["stderr"] = "dead" /\ stderrSeen' = stderrSeen
    BY OthersGoOn, Zenon DEF Streams
  <2>4. complete["stdout"] => complete'["stdout"]
    BY <2>2 DEF Streams
  <2>5. complete["stderr"] => complete'["stderr"]
    BY <2>2 DEF Streams
  <2>6. (report["stdout"] => complete["stdout"])'
    BY <1>1, <2>1, <2>4, Zenon
  <2>7. (report["stderr"] => complete["stderr"])'
    BY <1>1, <2>1, <2>5, Zenon
  <2>8. (report["stderr"] => reader["stderr"] = "dead" /\ report["seen"] = stderrSeen)'
    BY <1>1, <2>1, <2>3
  <2> QED
    BY <2>6, <2>7, <2>8
<1>6. (/\ report["exited"] => worker = "exited"
       /\ report["overflow"] => overflow
       /\ report["readError"] => readerError)'
  BY <1>1, OthersGoOn DEF ReportInv
<1> QED
  BY <1>1, <1>2, <1>3, <1>4, <1>5, <1>6 DEF ReportInv

(* What the parent reads into the report, field by field.                  *)
LEMMA Reads ==
  ASSUME TypeOK, NEW r \in [Fields -> BOOLEAN]
  PROVE  /\ ReadProcess(r)["exited"] = (worker = "exited")
         /\ ReadProcess(r)["seen"] = stderrSeen
         /\ \A f \in Fields \ {"exited", "seen"} : ReadProcess(r)[f] = r[f]
         /\ ReadEnds(r)["stdout"] = complete["stdout"]
         /\ ReadEnds(r)["stderr"] = complete["stderr"]
         /\ \A f \in Fields \ {"stdout", "stderr"} : ReadEnds(r)[f] = r[f]
         /\ ReadFlags(r)["overflow"] = overflow
         /\ ReadFlags(r)["readError"] = readerError
         /\ \A f \in Fields \ {"overflow", "readError"} : ReadFlags(r)[f] = r[f]
         /\ Believed(r)["stdout"] = (r["stdout"] /\ ~ incomplete["stdout"])
         /\ Believed(r)["stderr"] = (r["stderr"] /\ ~ incomplete["stderr"])
         /\ \A f \in Fields \ {"stdout", "stderr"} : Believed(r)[f] = r[f]
         /\ ReadProcess(r) \in [Fields -> BOOLEAN] /\ ReadEnds(r) \in [Fields -> BOOLEAN]
         /\ ReadFlags(r) \in [Fields -> BOOLEAN] /\ Believed(r) \in [Fields -> BOOLEAN]
<1> USE DEF Fields
<1>1. /\ ReadProcess(r)["exited"] = (worker = "exited")
      /\ ReadProcess(r)["seen"] = stderrSeen
      /\ \A f \in Fields \ {"exited", "seen"} : ReadProcess(r)[f] = r[f]
      /\ ReadProcess(r) \in [Fields -> BOOLEAN]
  BY DEF ReadProcess, TypeOK, EventsOK
<1>2. /\ ReadEnds(r)["stdout"] = complete["stdout"]
      /\ ReadEnds(r)["stderr"] = complete["stderr"]
      /\ \A f \in Fields \ {"stdout", "stderr"} : ReadEnds(r)[f] = r[f]
      /\ ReadEnds(r) \in [Fields -> BOOLEAN]
  BY DEF ReadEnds, TypeOK, FlagsOK, Streams
<1>3. /\ ReadFlags(r)["overflow"] = overflow
      /\ ReadFlags(r)["readError"] = readerError
      /\ \A f \in Fields \ {"overflow", "readError"} : ReadFlags(r)[f] = r[f]
      /\ ReadFlags(r) \in [Fields -> BOOLEAN]
  BY DEF ReadFlags, TypeOK, EventsOK
<1>4. /\ Believed(r)["stdout"] = (r["stdout"] /\ ~ incomplete["stdout"])
      /\ Believed(r)["stderr"] = (r["stderr"] /\ ~ incomplete["stderr"])
      /\ \A f \in Fields \ {"stdout", "stderr"} : Believed(r)[f] = r[f]
      /\ Believed(r) \in [Fields -> BOOLEAN]
  BY DEF Believed, TypeOK, FlagsOK, Streams
<1> QED
  BY <1>1, <1>2, <1>3, <1>4

(* The steps of the parent that leave the report as it is.                 *)
Steady == SpawnFails \/ AssignJob \/ ResumeFails \/ Watch \/ Kill \/ Await \/ Join \/ Drained
          \/ Verdict

(* The other steps of the parent start the worker or read the events.      *)
LEMMA SteadyOrNot ==
  ASSUME Parent
  PROVE  Steady \/ Starting \/ AwaitUnready \/ Return \/ Report
BY Zenon DEF Parent, Steady, Starting, Watch, Verdict

(* A step that leaves the report alone keeps what is known of it.          *)
LEMMA SteadyReport ==
  ASSUME TypeOK, ReaderInv, ReportInv, VerdictInv, Steady
  PROVE  ReportInv'
<1> DEFINE KilledAt == Joined \cup {"await_unready", "await", "join", "judge"}
<1>a. /\ UNCHANGED <<report, bytes, worker, reader, accepted, complete>>
      /\ UNCHANGED <<stderrSeen, overflow, readerError>>
  BY DEF Steady, SpawnFails, AssignJob, ResumeFails, Watch, Poll, CheckOverflow, CheckErrors,
         CheckDeadline, Check, Reap, Kill, Await, Join, Drained, Verdict, Judge, JudgeCrashes,
         Conclude, SnapshotCrashes, ParentOnly, process, readers
<1>b. Used' = Used
  BY <1>a DEF Used
<1> USE DEF Steady, SpawnFails, AssignJob, ResumeFails, Watch, Poll, CheckOverflow, CheckErrors,
            CheckDeadline, Check, Reap, Kill, Await, Join, Drained, Verdict, Judge,
            JudgeCrashes, Conclude, SnapshotCrashes, Goto
<1>1. (pc \in Joined => \A s \in Streams : incomplete[s] \/ reader[s] = "dead")'
  <2>1. CASE Join
    BY <1>a, <2>1
  <2>2. CASE ~ Join
    <3>1. incomplete' = incomplete /\ (pc' \in Joined => pc \in Joined)
      BY <2>2 DEF Joined
    <3> QED
      BY <1>a, <3>1 DEF ReportInv
  <2> QED
    BY <2>1, <2>2
<1>2. (pc \in KilledAt => killed)'
  <2>1. pc \in KilledAt => killed
    BY DEF ReportInv
  <2>2. killed' \in {killed, TRUE}
    OBVIOUS
  <2>3. pc' \in KilledAt => pc \in KilledAt \/ killed' = TRUE
    BY DEF Joined
  <2> QED
    BY <2>1, <2>2, <2>3 DEF TypeOK, EventsOK
<1>3. (pc \in {"snapshot", "done"} /\ report["terminated"] => killed)'
  <2>1. CASE SpawnFails
    BY <1>a, <2>1 DEF VerdictInv, Nothing, Fields
  <2>2. CASE ~ SpawnFails
    BY <1>a, <2>2 DEF ReportInv
  <2> QED
    BY <2>1, <2>2
<1>4. pc' \notin {"report_ends", "report_flags"}
  OBVIOUS
<1>5. pc' \in Unread \cup {"report_ends"} => pc \in Unread
  BY DEF Unread
<1> HIDE DEF Steady
<1> QED
  BY <1>a, <1>b, <1>1, <1>2, <1>3, <1>4, <1>5 DEF ReportInv

(* Nothing has been observed when the worker is started.                   *)
LEMMA StartingReport ==
  ASSUME TypeOK, ReaderInv, ReportInv, VerdictInv, Starting
  PROVE  ReportInv'
<1>1. pc \in Unread /\ pc' \in {"job", "poll"} /\ report' \in {report, Spawned}
  BY DEF Starting, SpawnPosix, SpawnWindows, Resume, Goto, Unread
<1>2. /\ ~ Spawned["exited"] /\ ~ Spawned["stdout"] /\ ~ Spawned["stderr"]
      /\ ~ Spawned["overflow"] /\ ~ Spawned["readError"]
  BY DEF Spawned, Fields
<1>3. /\ ~ report'["exited"] /\ ~ report'["stdout"] /\ ~ report'["stderr"]
      /\ ~ report'["overflow"] /\ ~ report'["readError"]
  BY <1>1, <1>2 DEF ReportInv
<1>4. UNCHANGED <<bytes, accepted>>
  BY DEF Starting, SpawnPosix, SpawnWindows, Resume, StartThreads, readers
<1> QED
  BY <1>1, <1>3, <1>4 DEF ReportInv, Used, Joined

(* A worker that was never resumed: only its exit is reported.             *)
LEMMA UnreadyReport ==
  ASSUME TypeOK, ReaderInv, ReportInv, VerdictInv, AwaitUnready
  PROVE  ReportInv'
<1>1. /\ pc = "await_unready" /\ pc' = "snapshot"
      /\ report' = [report EXCEPT !["exited"] = (worker = "exited")]
      /\ UNCHANGED <<bytes, worker, reader, accepted, complete, stderrSeen, overflow,
                     readerError, killed>>
  BY DEF AwaitUnready, Goto, ParentOnly, process, readers
<1>2. /\ report'["exited"] = (worker = "exited")
      /\ \A f \in Fields \ {"exited"} : report'[f] = report[f]
  BY <1>1 DEF TypeOK, FlagsOK, Fields
<1>3. pc \in Unread /\ pc \in Joined \cup {"await_unready", "await", "join", "judge"}
  BY <1>1 DEF Unread
<1>4. /\ ~ report'["stdout"] /\ ~ report'["stderr"]
      /\ ~ report'["overflow"] /\ ~ report'["readError"]
  BY <1>2, <1>3 DEF ReportInv, Fields
<1> QED
  BY <1>1, <1>2, <1>3, <1>4 DEF ReportInv, Used, Joined, Unread

(* What is read without a thread left to change it is the last word.       *)
LEMMA ReturnReads ==
  ASSUME TypeOK, Return
  PROVE  /\ report'["exited"] = (worker = "exited")
         /\ report'["seen"] = stderrSeen
         /\ report'["stdout"] = complete["stdout"]
         /\ report'["stderr"] = complete["stderr"]
         /\ report'["overflow"] = overflow
         /\ report'["readError"] = readerError
<1> DEFINE p == ReadProcess(report)
           e == ReadEnds(p)
<1>1. report' = ReadFlags(e) /\ report \in [Fields -> BOOLEAN]
  BY DEF Return, TypeOK, FlagsOK
<1>2. /\ p \in [Fields -> BOOLEAN]
      /\ p["exited"] = (worker = "exited") /\ p["seen"] = stderrSeen
  BY <1>1, Reads
<1> HIDE DEF p
<1>3. /\ e \in [Fields -> BOOLEAN]
      /\ e["exited"] = p["exited"] /\ e["seen"] = p["seen"]
      /\ e["stdout"] = complete["stdout"] /\ e["stderr"] = complete["stderr"]
  BY <1>2, Reads DEF Fields
<1> HIDE DEF e
<1>4. /\ ReadFlags(e)["exited"] = e["exited"] /\ ReadFlags(e)["seen"] = e["seen"]
      /\ ReadFlags(e)["stdout"] = e["stdout"] /\ ReadFlags(e)["stderr"] = e["stderr"]
  <2>1. \A f \in Fields \ {"overflow", "readError"} : ReadFlags(e)[f] = e[f]
    BY <1>3, Reads, Zenon
  <2> QED
    BY <2>1 DEF Fields
<1>5. ReadFlags(e)["overflow"] = overflow /\ ReadFlags(e)["readError"] = readerError
  BY <1>3, Reads
<1> QED
  BY <1>1, <1>2, <1>3, <1>4, <1>5, Zenon

(* A WorkerRun is reported when every thread has ended.                    *)
LEMMA ReturnReport ==
  ASSUME TypeOK, ReaderInv, ReportInv, VerdictInv, Return
  PROVE  ReportInv'
<1>1. /\ pc = "drained" /\ pc' = "judge" /\ AllDead
      /\ report' = ReadFlags(ReadEnds(ReadProcess(report)))
      /\ bytes' = Smaller(Limit, Used)
      /\ UNCHANGED <<worker, reader, accepted, complete, stderrSeen, overflow, readerError,
                     killed>>
  BY DEF Return, Goto, ParentOnly, process, readers
<1>2. report \in [Fields -> BOOLEAN]
  BY DEF TypeOK, FlagsOK
<1>3. /\ report'["exited"] = (worker = "exited")
      /\ report'["seen"] = stderrSeen
      /\ report'["stdout"] = complete["stdout"]
      /\ report'["stderr"] = complete["stderr"]
      /\ report'["overflow"] = overflow
      /\ report'["readError"] = readerError
  BY ReturnReads
<1>4. killed /\ reader["stderr"] = "dead"
  BY <1>1 DEF ReportInv, Joined, AllDead, Streams
<1>5. bytes' <= Used' 
  <2>1. Used \in Nat
    BY DEF TypeOK, CountsOK, Used, Streams
  <2> QED
    BY <1>1, <2>1, SmallerIsOne, SizesAssumption DEF Used
<1> QED
  BY <1>1, <1>3, <1>4, <1>5 DEF ReportInv, Joined, Unread

(* A BoundaryError is reported in three parts, between which threads may   *)
(* run; a stream whose reader was alive after the joins is not believed.   *)
LEMMA RaiseReport ==
  ASSUME TypeOK, ReaderInv, ReportInv, VerdictInv, Report
  PROVE  ReportInv'
<1>1. UNCHANGED <<worker, reader, accepted, complete, stderrSeen, overflow, readerError,
                  killed, incomplete>>
  BY DEF Report, ParentOnly, process, readers
<1>2. report \in [Fields -> BOOLEAN]
  BY DEF TypeOK, FlagsOK
<1>3. pc \in Joined /\ killed
  BY DEF Report, Goto, ReportInv, Joined
<1>4. CASE Goto("report", "report_ends")
  <2>1. report' = ReadProcess(report) /\ bytes' = Smaller(Limit, Used)
    BY <1>4 DEF Report, Goto
  <2>2. /\ report'["exited"] = (worker = "exited") /\ report'["seen"] = stderrSeen
        /\ report'["stdout"] = report["stdout"] /\ report'["stderr"] = report["stderr"]
        /\ report'["overflow"] = report["overflow"]
        /\ report'["readError"] = report["readError"]
    BY <2>1, <1>2, Reads DEF Fields
  <2>3. bytes' <= Used'
    <3>1. Used \in Nat
      BY DEF TypeOK, CountsOK, Used, Streams
    <3> QED
      BY <1>1, <2>1, <3>1, SmallerIsOne, SizesAssumption DEF Used
  <2> QED
    BY <1>1, <1>3, <1>4, <2>2, <2>3 DEF ReportInv, Joined, Unread, Goto
<1>5. CASE Goto("report_ends", "report_flags")
  <2> DEFINE e == ReadEnds(report)
  <2>1. report' = Believed(e) /\ bytes' = bytes
    BY <1>5 DEF Report, Goto
  <2>2. /\ e \in [Fields -> BOOLEAN]
        /\ e["stdout"] = complete["stdout"] /\ e["stderr"] = complete["stderr"]
        /\ \A f \in Fields \ {"stdout", "stderr"} : e[f] = report[f]
    BY <1>2, Reads
  <2> HIDE DEF e
  <2>3. /\ report'["stdout"] = (complete["stdout"] /\ ~ incomplete["stdout"])
        /\ report'["stderr"] = (complete["stderr"] /\ ~ incomplete["stderr"])
        /\ report'["exited"] = report["exited"] /\ report'["seen"] = report["seen"]
        /\ report'["overflow"] = report["overflow"]
        /\ report'["readError"] = report["readError"]
    <3>1. /\ Believed(e)["stdout"] = (e["stdout"] /\ ~ incomplete["stdout"])
          /\ Believed(e)["stderr"] = (e["stderr"] /\ ~ incomplete["stderr"])
      BY <2>2, Reads
    <3>2. /\ Believed(e)["exited"] = e["exited"] /\ Believed(e)["seen"] = e["seen"]
          /\ Believed(e)["overflow"] = e["overflow"]
          /\ Believed(e)["readError"] = e["readError"]
      BY <2>2, Reads DEF Fields
    <3>3. /\ e["exited"] = report["exited"] /\ e["seen"] = report["seen"]
          /\ e["overflow"] = report["overflow"] /\ e["readError"] = report["readError"]
      BY <2>2 DEF Fields
    <3> QED
      BY <2>1, <2>2, <3>1, <3>2, <3>3, Zenon
  <2>4. ~ incomplete["stderr"] => reader["stderr"] = "dead" /\ report["seen"] = stderrSeen
    BY <1>3, <1>5 DEF ReportInv, Streams, Goto
  <2> QED
    BY <1>1, <1>3, <1>5, <2>1, <2>3, <2>4 DEF ReportInv, Joined, Unread, Goto, Used
<1>6. CASE Goto("report_flags", "snapshot")
  <2>1. report' = ReadFlags(report) /\ bytes' = bytes
    BY <1>6 DEF Report, Goto
  <2>2. /\ report'["exited"] = report["exited"] /\ report'["seen"] = report["seen"]
        /\ report'["stdout"] = report["stdout"] /\ report'["stderr"] = report["stderr"]
        /\ report'["overflow"] = overflow /\ report'["readError"] = readerError
    BY <2>1, <1>2, Reads DEF Fields
  <2> QED
    BY <1>1, <1>3, <1>6, <2>1, <2>2 DEF ReportInv, Joined, Unread, Goto, Used
<1> QED
  BY <1>4, <1>5, <1>6 DEF Report

-----------------------------------------------------------------------------
(* The threads change nothing the verdict rests on, but for an overflow    *)
(* that may still happen.                                                  *)
LEMMA OthersVerdict ==
  ASSUME TypeOK, ReaderInv, VerdictInv, pc \notin Returned,
         Environment \/ WriteInput \/ Readers
  PROVE  VerdictInv'
<1>1. UNCHANGED <<pc, contained, killed, failure, incomplete, report, bytes, drift, outcome>>
  BY OthersGoOn DEF parent
<1>2. (pc \in Started /\ failure = "stream_limit_exceeded" => overflow)'
  BY <1>1, OthersGoOn DEF VerdictInv
<1>3. (pc \in {"reap", "join", "drained"} /\ failure = "none" => worker = "exited")'
  BY <1>1, OthersGoOn DEF VerdictInv
<1>4. pc' \notin {"judge", "snapshot"}
  BY <1>1 DEF Returned
<1> QED
  BY <1>1, <1>2, <1>3, <1>4 DEF VerdictInv

(* That the worker was started is recorded once, and stays recorded.       *)
SameStart(r, q) == r["spawned"] = q["spawned"] /\ r["terminated"] = q["terminated"]

(* Reading the events does not touch the record of the start.              *)
LEMMA ReadsKeepStart ==
  ASSUME TypeOK, NEW r \in [Fields -> BOOLEAN]
  PROVE  /\ SameStart(ReadProcess(r), r) /\ SameStart(ReadEnds(r), r)
         /\ SameStart(ReadFlags(r), r) /\ SameStart(Believed(r), r)
<1>1. /\ \A f \in Fields \ {"exited", "seen"} : ReadProcess(r)[f] = r[f]
      /\ \A f \in Fields \ {"stdout", "stderr"} : ReadEnds(r)[f] = r[f]
      /\ \A f \in Fields \ {"overflow", "readError"} : ReadFlags(r)[f] = r[f]
      /\ \A f \in Fields \ {"stdout", "stderr"} : Believed(r)[f] = r[f]
  BY Reads, Zenon
<1> QED
  BY <1>1 DEF Fields, SameStart

(* Only the start of the worker changes that record.                       *)
LEMMA SpawnedOnce ==
  ASSUME TypeOK, Parent
  PROVE  \/ report' = Spawned /\ (SpawnPosix \/ SpawnWindows)
         \/ SameStart(report', report)
<1>1. report \in [Fields -> BOOLEAN]
  BY DEF TypeOK, FlagsOK
<1>2. CASE Return
  <2> DEFINE p == ReadProcess(report)
             e == ReadEnds(p)
  <2>1. p \in [Fields -> BOOLEAN] /\ SameStart(p, report)
    BY <1>1, Reads, ReadsKeepStart
  <2>2. report' = ReadFlags(e)
    BY <1>2 DEF Return
  <2> HIDE DEF p
  <2>3. e \in [Fields -> BOOLEAN] /\ SameStart(e, p)
    BY <2>1, Reads, ReadsKeepStart
  <2> HIDE DEF e
  <2>4. SameStart(ReadFlags(e), e)
    BY <2>3, ReadsKeepStart
  <2> QED
    BY <2>1, <2>2, <2>3, <2>4 DEF SameStart
<1>3. CASE Report
  <2> DEFINE e == ReadEnds(report)
  <2>1. /\ SameStart(ReadProcess(report), report) /\ SameStart(ReadFlags(report), report)
        /\ SameStart(e, report) /\ e \in [Fields -> BOOLEAN]
    BY <1>1, Reads, ReadsKeepStart
  <2>2. report' \in {ReadProcess(report), Believed(e), ReadFlags(report)}
    BY <1>3 DEF Report
  <2> HIDE DEF e
  <2>3. SameStart(Believed(e), e)
    BY <2>1, ReadsKeepStart
  <2> QED
    BY <2>1, <2>2, <2>3 DEF SameStart
<1>4. CASE AwaitUnready
  BY <1>1, <1>4 DEF AwaitUnready, Fields, SameStart
<1>5. CASE Steady
  BY <1>5 DEF Steady, SpawnFails, AssignJob, ResumeFails, Watch, Poll, CheckOverflow,
              CheckErrors, CheckDeadline, Check, Reap, Kill, Await, Join, Drained, Verdict,
              Judge, JudgeCrashes, Conclude, SnapshotCrashes, SameStart
<1>6. CASE Starting
  BY <1>6 DEF Starting, SpawnPosix, SpawnWindows, Resume, SameStart
<1> QED
  BY <1>2, <1>3, <1>4, <1>5, <1>6, SteadyOrNot

(* Where the parent stands tells whether the worker was started and whether *)
(* a failure has been settled on.                                          *)
LEMMA ParentStands ==
  ASSUME TypeOK, ReaderInv, ReportInv, VerdictInv, Parent
  PROVE  /\ pc' # "spawn"
         /\ (report["spawned"] => report["terminated"])'
         /\ (pc \in Setup \cup Started => report["spawned"])'
         /\ (pc \in {"resume"} \cup Started => contained)'
         /\ (pc # "done" => failure # "manifest_drift" /\ outcome = "none")'
<1>1. pc' # "spawn"
  BY DEF Parent, SpawnFails, SpawnPosix, SpawnWindows, AssignJob, Resume, ResumeFails, Poll,
         CheckOverflow, CheckErrors, CheckDeadline, Check, Reap, Kill, Await, AwaitUnready,
         Join, Drained, Return, Report, Judge, JudgeCrashes, Conclude, SnapshotCrashes, Goto
<1>2. Spawned["spawned"] /\ Spawned["terminated"]
  BY DEF Spawned, Fields
<1>3. (report["spawned"] => report["terminated"])'
  BY <1>2, SpawnedOnce DEF SameStart, VerdictInv
<1>4. pc' \in Setup \cup Started =>
        SpawnPosix \/ SpawnWindows \/ pc \in Setup \cup Started
  BY DEF Parent, SpawnFails, SpawnPosix, SpawnWindows, AssignJob, Resume, ResumeFails, Poll,
         CheckOverflow, CheckErrors, CheckDeadline, Check, Reap, Kill, Await, AwaitUnready,
         Join, Drained, Return, Report, Judge, JudgeCrashes, Conclude, SnapshotCrashes, Goto,
         Setup, Started, Joined
<1>5. SpawnPosix \/ SpawnWindows => report' = Spawned
  BY DEF SpawnPosix, SpawnWindows
<1>6. (pc \in Setup \cup Started => report["spawned"])'
  BY <1>2, <1>4, <1>5, SpawnedOnce DEF SameStart, VerdictInv
<1>7. (pc \in {"resume"} \cup Started => contained)'
  <2>1. CASE SpawnPosix
    BY <2>1 DEF SpawnPosix
  <2>2. CASE AssignJob
    BY <2>2 DEF AssignJob, Goto, Started, Joined
  <2>3. CASE ~ SpawnPosix /\ ~ AssignJob
    <3>1. /\ contained' = contained
          /\ pc' \in {"resume"} \cup Started => pc \in {"resume"} \cup Started
      BY <2>3 DEF Parent, SpawnFails, SpawnWindows, Resume, ResumeFails, Poll,
         CheckOverflow, CheckErrors, CheckDeadline, Check, Reap, Kill, Await, AwaitUnready,
         Join, Drained, Return, Report, Judge, JudgeCrashes, Conclude, SnapshotCrashes, Goto,
         Started, Joined
    <3> QED
      BY <3>1 DEF VerdictInv
  <2> QED
    BY <2>1, <2>2, <2>3
<1>8. (pc # "done" => failure # "manifest_drift" /\ outcome = "none")'
  BY DEF Parent, SpawnFails, SpawnPosix, SpawnWindows, AssignJob, Resume, ResumeFails, Poll,
         CheckOverflow, CheckErrors, CheckDeadline, Check, Reap, Kill, Await, AwaitUnready,
         Join, Drained, Return, Report, Judge, JudgeCrashes, Conclude, SnapshotCrashes, Goto,
         Fail, Or, VerdictInv
<1> QED
  BY <1>1, <1>3, <1>6, <1>7, <1>8

(* Which category has been settled on, where.                              *)
LEMMA ParentFailure ==
  ASSUME TypeOK, ReaderInv, ReportInv, VerdictInv, Parent
  PROVE  /\ (pc \in Setup \cup {"spawn", "poll", "overflow?", "errors?", "deadline?", "reap",
                               "judge"} => failure = "none")'
         /\ (pc \in {"kill", "await", "join", "kill_again", "await_again", "drained", "report",
                    "report_ends", "report_flags"} =>
              failure \in {"none", "stream_limit_exceeded", "worker_error", "worker_timeout"})'
         /\ (pc \in {"kill", "await", "kill_again", "await_again", "report", "report_ends",
                    "report_flags"} => failure # "none")'
         /\ (pc \in {"reap", "join", "drained"} /\ failure = "none" => worker = "exited")'
         /\ (pc \in Started /\ failure = "stream_limit_exceeded" => overflow)'
<1> USE DEF Parent, SpawnFails, SpawnPosix, SpawnWindows, AssignJob, Resume, ResumeFails, Poll,
         CheckOverflow, CheckErrors, CheckDeadline, Check, Reap, Kill, Await, AwaitUnready,
         Join, Drained, Return, Report, Judge, JudgeCrashes, Conclude, SnapshotCrashes, Goto,
         Fail, Or
<1>1. (pc \in Setup \cup {"spawn", "poll", "overflow?", "errors?", "deadline?", "reap",
                        "judge"} => failure = "none")'
  BY DEF VerdictInv, Setup
<1>2. (pc \in {"kill", "await", "join", "kill_again", "await_again", "drained", "report",
              "report_ends", "report_flags"} =>
        failure \in {"none", "stream_limit_exceeded", "worker_error", "worker_timeout"})'
  BY DEF VerdictInv
<1>3. (pc \in {"kill", "await", "kill_again", "await_again", "report", "report_ends",
              "report_flags"} => failure # "none")'
  BY DEF VerdictInv
<1>4. (pc \in {"reap", "join", "drained"} /\ failure = "none" => worker = "exited")'
  BY DEF VerdictInv, ParentOnly, process
<1>5. (pc \in Started /\ failure = "stream_limit_exceeded" => overflow)'
  <2>1. overflow' = overflow
    BY DEF StartThreads, ParentOnly, readers
  <2>2. failure' = "stream_limit_exceeded" =>
          overflow \/ failure = "stream_limit_exceeded"
    OBVIOUS
  <2>3. pc' \in Started /\ failure' = "stream_limit_exceeded" /\ ~ overflow => pc \in Started
    BY DEF VerdictInv, Started, Setup, Joined
  <2> QED
    BY <2>1, <2>2, <2>3 DEF VerdictInv
<1> QED
  BY <1>1, <1>2, <1>3, <1>4, <1>5

(* A WorkerRun is returned only when every thread has ended and nothing    *)
(* was found wrong.                                                        *)
LEMMA ReturnsClean ==
  ASSUME TypeOK, ReaderInv, ReportInv, VerdictInv, Parent
  PROVE  (pc = "judge" => Clean)'
<1> SUFFICES ASSUME pc' = "judge"
             PROVE  Clean'
  OBVIOUS
<1>1. Return
  BY DEF Parent, SpawnFails, SpawnPosix, SpawnWindows, AssignJob, Resume, ResumeFails, Poll,
         CheckOverflow, CheckErrors, CheckDeadline, Check, Reap, Kill, Await, AwaitUnready,
         Join, Drained, Return, Report, Judge, JudgeCrashes, Conclude, SnapshotCrashes, Goto,
         Fail, Or
<1>2. /\ pc = "drained" /\ AllDead /\ failure = "none" /\ ~ overflow /\ ~ readerError
      /\ UNCHANGED <<complete, worker, overflow, readerError, killed, accepted>>
      /\ bytes' = Smaller(Limit, Used)
  BY <1>1 DEF Return, Goto, ParentOnly, process, readers
<1>3. \A s \in Streams : complete[s]
  BY <1>2 DEF ReaderInv, StreamInv, AllDead
<1>4. worker = "exited" /\ killed /\ report["spawned"]
  BY <1>2 DEF VerdictInv, ReportInv, Started, Joined
<1>5. /\ report'["exited"] = (worker = "exited")
      /\ report'["stdout"] = complete["stdout"] /\ report'["stderr"] = complete["stderr"]
      /\ report'["overflow"] = overflow /\ report'["readError"] = readerError
  BY <1>1, ReturnReads
<1>6. report'["spawned"]
  BY <1>1, <1>4, SpawnedOnce DEF SameStart, Spawned, Fields
<1>7. bytes' = Used'
  <2>1. Used \in Nat /\ Used <= Limit /\ Limit \in Nat
    BY SizesAssumption DEF TypeOK, CountsOK, Used, Streams
  <2> QED
    BY <1>2, <2>1 DEF Used, Smaller
<1> QED
  BY <1>2, <1>3, <1>4, <1>5, <1>6, <1>7 DEF Clean, Streams

(* A worker whose output is complete and holds nothing on stderr was never *)
(* seen to write there.                                                    *)
LEMMA CleanIsSilent ==
  ASSUME TypeOK, ReaderInv, ReportInv, Clean, accepted["stderr"] = 0
  PROVE  ~ report["seen"]
<1>1. complete["stderr"] /\ ~ overflow /\ StreamInv("stderr")
  BY DEF Clean, ReaderInv, Streams
<1>2. chunk["stderr"] = 0 /\ taken["stderr"] = accepted["stderr"] + chunk["stderr"]
  BY <1>1 DEF StreamInv
<1>3. ~ stderrSeen
  BY <1>2 DEF ReaderInv
<1> QED
  BY <1>3 DEF Clean, ReportInv

(* What is left to build_receipt fits together, on each of the ways there. *)
LEMMA SettledWhenSet ==
  ASSUME TypeOK, ReaderInv, ReportInv, VerdictInv, Parent
  PROVE  (pc = "snapshot" => Settled)'
<1> SUFFICES ASSUME pc' = "snapshot"
             PROVE  Settled'
  OBVIOUS
<1>1. SpawnFails \/ AwaitUnready \/ Report \/ Judge
  BY DEF Parent, SpawnFails, SpawnPosix, SpawnWindows, AssignJob, Resume, ResumeFails, Poll,
         CheckOverflow, CheckErrors, CheckDeadline, Check, Reap, Kill, Await, AwaitUnready,
         Join, Drained, Return, Report, Judge, JudgeCrashes, Conclude, SnapshotCrashes, Goto
<1>2. CASE SpawnFails
  <2>1. UNCHANGED <<report, bytes, contained>> /\ failure' = "process_setup_error" /\ pc = "spawn"
    BY <1>2 DEF SpawnFails, Fail, Goto
  <2>2. report' = Nothing /\ bytes' = 0 /\ ~ contained'
    BY <2>1 DEF VerdictInv
  <2> QED
    BY <2>1, <2>2 DEF Settled, Nothing, Fields
<1>3. CASE AwaitUnready
  <2>1. /\ pc = "await_unready" /\ failure' = "process_setup_error"
        /\ report' = [report EXCEPT !["exited"] = (worker = "exited")]
    BY <1>3 DEF AwaitUnready, Fail, Goto
  <2>2. report["spawned"] /\ ~ report["overflow"]
    BY <2>1 DEF VerdictInv, ReportInv, Setup, Unread
  <2>3. report'["spawned"] /\ ~ report'["overflow"]
    BY <2>1, <2>2 DEF TypeOK, FlagsOK, Fields
  <2> QED
    BY <2>1, <2>3 DEF Settled
<1>4. CASE Report
  <2>1. pc = "report_flags" /\ report' = ReadFlags(report) /\ UNCHANGED <<failure, contained>>
    BY <1>4 DEF Report, Goto
  <2>2. /\ report["spawned"] /\ contained
        /\ failure \in {"stream_limit_exceeded", "worker_error", "worker_timeout"}
        /\ failure = "stream_limit_exceeded" => overflow
    BY <2>1 DEF VerdictInv, Started, Joined
  <2>3. report'["spawned"] = report["spawned"] /\ report'["overflow"] = overflow
    BY <2>1, Reads, ReadsKeepStart DEF TypeOK, FlagsOK, SameStart
  <2> QED
    BY <2>1, <2>2, <2>3 DEF Settled
<1>5. CASE Judge
  <2>1. /\ Clean /\ contained /\ failure = "none"
        /\ UNCHANGED <<report, contained, complete, worker, overflow, killed, bytes, accepted,
                       code>>
        /\ failure' \in {"none", "worker_error", "protocol_error"}
    BY <1>5 DEF Judge, Goto, Fail, VerdictInv, Started, ParentOnly, process, readers
  <2>2. Clean'
    BY <2>1 DEF Clean, Used
  <2>3. failure' = "none" =>
          code /\ accepted["stderr"] = 0 /\ accepted["stdout"] \in 1 .. ResponseMax
    BY <1>5, SizesAssumption DEF Judge, Fail, TypeOK, CountsOK, Streams
  <2>4. failure' = "none" => ~ report["seen"]
    BY <2>1, <2>3, CleanIsSilent
  <2>5. report["spawned"] /\ ~ report["overflow"]
    BY <2>1 DEF Clean
  <2> QED
    BY <2>1, <2>2, <2>3, <2>4, <2>5 DEF Settled
<1> QED
  BY <1>1, <1>2, <1>3, <1>4, <1>5

(* The parent keeps the verdict invariant.                                 *)
LEMMA ParentVerdict ==
  ASSUME TypeOK, ReaderInv, ReportInv, VerdictInv, Parent
  PROVE  VerdictInv'
BY ParentStands, ParentFailure, ReturnsClean, SettledWhenSet DEF VerdictInv

-----------------------------------------------------------------------------
(* The conditions of the validator hold of what the supervisor reports,    *)
(* but for a late overflow.                                                *)
LEMMA Coherence ==
  ASSUME TypeOK, ReaderInv, ReportInv, VerdictInv, Settled, pc = "snapshot",
         NEW changed \in BOOLEAN, NEW category,
         category = (IF changed THEN "manifest_drift" ELSE failure),
         ~ (report["overflow"] /\ category \in {"worker_error", "worker_timeout"})
  PROVE  Coherent(Receipt(category, changed))
<1> USE DEF Receipt
<1>1. ~ report["spawned"] =>
        /\ ~ report["exited"] /\ ~ contained /\ ~ report["terminated"] /\ bytes = 0
        /\ ~ report["seen"] /\ ~ report["stdout"] /\ ~ report["stderr"]
        /\ ~ report["overflow"] /\ ~ report["readError"]
  BY DEF Settled, Nothing, Fields
<1>2. report["spawned"] => report["terminated"]
  BY DEF VerdictInv
<1>3. category = "none" => report["stdout"]
  BY DEF Settled, Clean
<1>4. ~ (report["readError"] /\ report["stdout"] /\ report["stderr"])
  <2>1. report["readError"] => \E s \in Streams : ~ complete[s]
    BY DEF ReportInv, ReaderInv
  <2>2. /\ report["stdout"] => complete["stdout"]
        /\ report["stderr"] => complete["stderr"]
    BY DEF ReportInv
  <2> QED
    BY <2>1, <2>2 DEF Streams
<1>5. report["overflow"] => category \in {"stream_limit_exceeded", "manifest_drift"}
  BY DEF Settled, VerdictInv, TypeOK, ControlOK, Categories
<1> QED
  BY <1>1, <1>2, <1>3, <1>4, <1>5 DEF Coherent

(* So the receipt is valid, but for a late overflow.                       *)
LEMMA Validity ==
  ASSUME TypeOK, ReaderInv, ReportInv, VerdictInv, Settled, pc = "snapshot",
         NEW changed \in BOOLEAN, NEW category,
         category = (IF changed THEN "manifest_drift" ELSE failure),
         ~ (report["overflow"] /\ category \in {"worker_error", "worker_timeout"})
  PROVE  Valid(Receipt(category, changed))
<1> DEFINE r == Receipt(category, changed)
<1>1. Coherent(r)
  BY Coherence
<1>2. failure # "manifest_drift"
  BY DEF VerdictInv
<1>3. CASE category = "none"
  <2>1. failure = "none" /\ ~ changed
    BY <1>3
  <2>2. /\ report["spawned"] /\ report["exited"] /\ contained
        /\ report["stdout"] /\ report["stderr"] /\ ~ report["seen"]
        /\ ~ report["overflow"] /\ ~ report["readError"]
    BY <2>1 DEF Settled, Clean
  <2>3. bytes > 0
    BY <2>1, SizesAssumption DEF Settled, Clean, Used, TypeOK, CountsOK, Streams
  <2>4. Observation(r)
    BY <1>3, <2>1, <2>2, <2>3 DEF Observation, Receipt
  <2>5. r.observed
    BY <1>3 DEF Receipt
  <2> QED
    BY <1>1, <2>4, <2>5 DEF Valid
<1>4. CASE category # "none"
  <2>1. changed = (category = "manifest_drift")
    BY <1>2
  <2>2. category = "stream_limit_exceeded" => report["overflow"]
    BY DEF Settled
  <2>3. category \notin {"process_setup_error", "manifest_drift"} =>
          report["spawned"] /\ contained
    BY DEF Settled
  <2>4. Blocked(r)
    BY <1>4, <2>1, <2>2, <2>3 DEF Blocked, Receipt
  <2>5. ~ r.observed
    BY <1>4 DEF Receipt
  <2> QED
    BY <1>1, <2>4, <2>5 DEF Valid
<1> QED
  BY <1>3, <1>4

(* What a receipt says when build_receipt has been through.                *)
Result == ObservedIsWhole /\ OnlyLateOverflowRefused

(* What is concluded is what the validator allows.                         *)
LEMMA ConcludeResult ==
  ASSUME TypeOK, ReaderInv, ReportInv, VerdictInv, Conclude
  PROVE  Result'
<1>1. PICK changed \in BOOLEAN :
        /\ drift' = changed
        /\ failure' = (IF changed THEN "manifest_drift" ELSE failure)
        /\ outcome' = Concluded(Receipt(failure', changed))
  BY DEF Conclude
<1>2. /\ pc = "snapshot" /\ Settled
      /\ UNCHANGED <<report, worker, code, killed, open, taken, written, chunk, accepted>>
  BY DEF Conclude, Goto, ParentOnly, process, readers, VerdictInv
<1>3. OnlyLateOverflowRefused'
  <2> SUFFICES ASSUME outcome' = "refused"
               PROVE  report["overflow"] /\ failure' \in {"worker_error", "worker_timeout"}
    BY <1>2 DEF OnlyLateOverflowRefused
  <2>1. ~ Valid(Receipt(failure', changed))
    BY <1>1 DEF Concluded
  <2> QED
    BY <1>1, <1>2, <2>1, Validity
<1>4. ObservedIsWhole'
  <2> SUFFICES ASSUME outcome' = "observed"
               PROVE  ObservedIsWhole'
    BY DEF ObservedIsWhole
  <2>1. failure = "none" /\ ~ changed
    <3>1. Receipt(failure', changed).observed
      BY <1>1 DEF Concluded
    <3>2. failure' = "none"
      BY <3>1 DEF Receipt
    <3> QED
      BY <1>1, <3>2
  <2>2. /\ worker = "exited" /\ code /\ killed /\ ~ overflow
        /\ \A s \in Streams : complete[s]
        /\ accepted["stderr"] = 0 /\ accepted["stdout"] \in 1 .. ResponseMax
    BY <1>2, <2>1 DEF Settled, Clean
  <2>3. ASSUME NEW s \in Streams
        PROVE  /\ ~ open[s] /\ taken[s] = written[s] /\ chunk[s] = 0
               /\ accepted[s] = written[s]
    BY <2>2 DEF ReaderInv, StreamInv, TypeOK, CountsOK
  <2>4. /\ \A s \in Streams : AtEnd(s)' /\ accepted'[s] = written'[s]
        /\ written'["stderr"] = 0 /\ written'["stdout"] \in 1 .. ResponseMax
    BY <1>2, <2>2, <2>3 DEF AtEnd, Streams
  <2> QED
    BY <1>1, <1>2, <2>1, <2>2, <2>4 DEF ObservedIsWhole
<1> QED
  BY <1>3, <1>4 DEF Result

(* No other step of the parent concludes anything.                         *)
LEMMA ParentResult ==
  ASSUME TypeOK, ReaderInv, ReportInv, VerdictInv, Parent
  PROVE  Result'
<1>1. CASE Conclude
  BY <1>1, ConcludeResult
<1>2. CASE ~ Conclude
  <2>1. outcome' \in {"none", "crashed"}
    BY <1>2 DEF Parent, SpawnFails, SpawnPosix, SpawnWindows, AssignJob, Resume, ResumeFails,
         Poll, CheckOverflow, CheckErrors, CheckDeadline, Check, Reap, Kill, Await,
         AwaitUnready, Join, Drained, Return, Report, Judge, JudgeCrashes, SnapshotCrashes,
         Goto, VerdictInv
  <2> QED
    BY <2>1 DEF Result, ObservedIsWhole, OnlyLateOverflowRefused
<1> QED
  BY <1>1, <1>2

-----------------------------------------------------------------------------
(* The inductive invariant: what the readers know, what has been reported  *)
(* of it, how the category fits the report, and what was concluded.        *)
Inv == TypeOK /\ ReaderInv /\ ReportInv /\ VerdictInv /\ Result

(* The invariant holds initially.                                          *)
LEMMA InitInv == Init => Inv
<1> SUFFICES ASSUME Init PROVE Inv
  OBVIOUS
<1> USE DEF Init, Streams
<1>1. TypeOK
  BY InitTyped
<1>2. ReaderInv
  BY DEF ReaderInv, StreamInv
<1>3. ReportInv
  BY DEF ReportInv, Joined, Nothing, Fields, Used
<1>4. VerdictInv
  BY DEF VerdictInv, Nothing, Fields, Setup, Started, Joined
<1>5. Result
  BY DEF Result, ObservedIsWhole, OnlyLateOverflowRefused
<1> QED
  BY <1>1, <1>2, <1>3, <1>4, <1>5 DEF Inv

(* Every step keeps the invariant.                                         *)
LEMMA NextInv ==
  ASSUME Inv, [Next]_vars
  PROVE  Inv'
<1> USE DEF Inv
<1>1. CASE UNCHANGED vars
  BY <1>1 DEF TypeOK, CountsOK, PlacesOK, ControlOK, EventsOK, FlagsOK, vars, process,
              readers, writers, parent, ReaderInv, StreamInv, ReportInv, VerdictInv, Clean,
              Settled, Used, Result, ObservedIsWhole, OnlyLateOverflowRefused, AtEnd
<1>2. CASE pc \notin Returned /\ (Environment \/ WriteInput \/ Readers)
  <2>1. TypeOK' /\ ReaderInv' /\ ReportInv' /\ VerdictInv'
    BY <1>2, OthersTyped, ReadersKept, OthersReport, OthersVerdict
  <2>2. outcome' = "none"
    BY <1>2, OthersGoOn DEF parent, VerdictInv, Returned
  <2> QED
    BY <2>1, <2>2 DEF Result, ObservedIsWhole, OnlyLateOverflowRefused
<1>3. CASE Parent
  <2>1. TypeOK' /\ ReaderInv'
    BY <1>3, ParentTyped, ReadersStarted
  <2>2. ReportInv'
    BY <1>3, SteadyOrNot, SteadyReport, StartingReport, UnreadyReport, ReturnReport,
       RaiseReport
  <2> QED
    BY <1>3, <2>1, <2>2, ParentVerdict, ParentResult
<1> QED
  BY <1>1, <1>2, <1>3 DEF Next, Done

(* What the invariant says of stderr_empty.                                *)
LEMMA InvEmptyMeansSilent == Inv => EmptyMeansSilent
<1> SUFFICES ASSUME Inv, report["stderr"], ~ report["seen"]
             PROVE  written["stderr"] = 0 /\ ~ open["stderr"]
  BY DEF EmptyMeansSilent, Receipt
<1> USE DEF Inv
<1>1. complete["stderr"] /\ reader["stderr"] = "dead" /\ ~ stderrSeen
  BY DEF ReportInv
<1>2. ~ open["stderr"] /\ taken["stderr"] = written["stderr"]
  BY <1>1 DEF ReaderInv, StreamInv, Streams
<1>3. taken["stderr"] = 0
  BY <1>1 DEF ReaderInv, TypeOK, CountsOK, Streams
<1> QED
  BY <1>2, <1>3

(* What the invariant says of a receipt.                                   *)
LEMMA InvReportIsTrue == Inv => ReportIsTrue
<1> SUFFICES ASSUME Inv, Emitted PROVE ReportIsTrue
  BY DEF ReportIsTrue
<1> USE DEF Inv
<1>1. pc = "done"
  BY DEF VerdictInv, Emitted
<1>2. (report["exited"] => worker = "exited") /\ (report["terminated"] => killed)
  BY <1>1 DEF ReportInv
<1>3. ASSUME NEW s \in Streams, report[s]
      PROVE  AtEnd(s)
  <2>1. complete[s]
    BY <1>3 DEF ReportInv, Streams
  <2> QED
    BY <2>1 DEF ReaderInv, StreamInv, AtEnd
<1>4. /\ \A s \in Streams : /\ taken[s] \in Nat /\ written[s] \in Nat /\ accepted[s] \in Nat
                           /\ taken[s] <= written[s] /\ accepted[s] <= taken[s]
      /\ Limit \in Nat /\ bytes \in Nat
  BY SizesAssumption DEF ReaderInv, StreamInv, TypeOK, CountsOK
<1>5. report["overflow"] => Written > Limit
  <2>1. report["overflow"] => taken["stdout"] + taken["stderr"] > Limit
    BY DEF ReportInv, ReaderInv
  <2> QED
    BY <1>4, <2>1 DEF Written, Streams
<1>6. bytes <= Written
  BY <1>4 DEF ReportInv, Used, Written, Streams
<1> QED
  BY <1>2, <1>3, <1>5, <1>6, InvEmptyMeansSilent DEF ReportIsTrue

(* Every state satisfies the invariant.                                    *)
THEOREM InvInvariant == Spec => []Inv
<1>1. Inv /\ [Next]_vars => Inv'
  BY NextInv
<1> QED
  BY <1>1, InitInv, PTL DEF Spec

(* A receipt says nothing that is not so, of the process, of its tree or   *)
(* of its output, though the threads it is read from may still run.        *)
THEOREM ReportTrue == Spec => []ReportIsTrue
BY InvInvariant, InvReportIsTrue, PTL

(* An observation rests on the complete output of a worker that exited     *)
(* with code 0.                                                            *)
THEOREM ObservedWhole == Spec => []ObservedIsWhole
<1>1. Inv => ObservedIsWhole
  BY DEF Inv, Result
<1> QED
  BY <1>1, InvInvariant, PTL

(* The validator refuses only what went over the limit after another       *)
(* failure had been settled on.                                            *)
THEOREM RefusedOnlyLate == Spec => []OnlyLateOverflowRefused
<1>1. Inv => OnlyLateOverflowRefused
  BY DEF Inv, Result
<1> QED
  BY <1>1, InvInvariant, PTL

-----------------------------------------------------------------------------
(* Why a category was settled on, said of what cannot be undone: the clock *)
(* does not go back, the writer sets its event with its end, and setting   *)
(* up fails before a reader runs.                                          *)
Fault ==
  \/ writerError \/ readerError
  \/ worker = "exited" /\ ~ code
  \/ written["stderr"] > 0 \/ written["stdout"] > ResponseMax

CauseInv ==
  /\ pc = "drained" => AllDead \/ now = "over"
  /\ writerError => writer = "dead"
  /\ pc \in {"spawn"} \cup Setup => writer = "none"
  /\ \A s \in Streams : reader[s] = "none" => taken[s] = 0
  /\ failure = "worker_timeout" => now # "early"
  /\ failure = "stream_limit_exceeded" => overflow
  /\ failure = "worker_error" => Fault
  /\ failure = "process_setup_error" =>
       pc \in Returned /\ \A s \in Streams : taken[s] = 0

(* The world and the threads leave every cause as it is.                   *)
LEMMA OthersCause ==
  ASSUME Inv, CauseInv, pc \notin Returned, Environment \/ WriteInput \/ Readers
  PROVE  CauseInv'
<1> USE DEF Inv, TypeOK
<1>1. /\ UNCHANGED <<pc, failure>>
      /\ overflow => overflow'
      /\ readerError => readerError'
      /\ \A s \in Streams : reader[s] = "dead" => reader'[s] = "dead"
  BY OthersGoOn DEF parent
<1>2. /\ now # "early" => now' # "early"
      /\ now = "over" => now' = "over"
  BY DEF Environment, Exit, TimePasses, Write, LetGo, WriteInput, Readers, NoteStderr,
         ReadChunk, AcceptChunk, ReadEnd, ReadError, ReaderEnds
<1>3. /\ writer = "dead" => writer' = "dead" /\ writerError' = writerError
      /\ writerError' => writer' = "dead" \/ writerError
      /\ writer = "none" => writer' = "none"
  BY DEF Environment, Exit, TimePasses, Write, LetGo, WriteInput, Readers, NoteStderr,
         ReadChunk, AcceptChunk, ReadEnd, ReadError, ReaderEnds, writers
<1>4. worker = "exited" /\ ~ code => worker' = "exited" /\ ~ code'
  BY DEF Environment, Exit, TimePasses, Write, LetGo, WriteInput, Readers, NoteStderr,
         ReadChunk, AcceptChunk, ReadEnd, ReadError, ReaderEnds, process
<1>5. ASSUME NEW s \in Streams
      PROVE  written[s] \in Nat /\ written'[s] \in Nat /\ written'[s] >= written[s]
  <2>1. written' = written \/ \E u \in Streams : written' = [written EXCEPT ![u] = @ + 1]
    BY DEF Environment, Exit, TimePasses, Write, LetGo, WriteInput, Readers, NoteStderr,
           ReadChunk, AcceptChunk, ReadEnd, ReadError, ReaderEnds, process
  <2> QED
    BY <2>1 DEF CountsOK
<1>6. ASSUME NEW s \in Streams, reader'[s] = "none"
      PROVE  reader[s] = "none" /\ taken'[s] = taken[s]
  BY <1>6 DEF PlacesOK, CountsOK, Environment, Exit, TimePasses, Write, LetGo, WriteInput,
         Readers, NoteStderr, ReadChunk, AcceptChunk, ReadEnd, ReadError, ReaderEnds, readers
<1>7. Fault => Fault'
  BY <1>1, <1>3, <1>4, <1>5, SizesAssumption DEF Fault, CauseInv, Streams
<1>8. AllDead => AllDead'
  BY <1>1, <1>3 DEF AllDead
<1> QED
  BY <1>1, <1>2, <1>3, <1>6, <1>7, <1>8 DEF CauseInv

(* The parent settles on a category when it sees its cause.                *)
LEMMA ParentCause ==
  ASSUME Inv, CauseInv, Parent
  PROVE  CauseInv'
<1> USE DEF Inv, TypeOK
<1>1. CASE Starting
  <2>1. /\ pc' \in {"job", "poll"} /\ failure = "none" /\ failure' = "none"
        /\ writer = "none" /\ ~ writerError /\ writerError' = writerError
        /\ taken' = taken /\ \A s \in Streams : taken[s] = 0
        /\ pc' = "job" => writer' = writer
    BY <1>1 DEF Starting, SpawnPosix, SpawnWindows, Resume, StartThreads, readers, writers,
           Goto, VerdictInv, Setup, CauseInv, ReaderInv
  <2> QED
    BY <2>1 DEF CauseInv, Setup
<1>2. CASE ParentOnly
  <2> USE DEF Parent, SpawnFails, SpawnPosix, SpawnWindows, AssignJob, Resume, ResumeFails,
        Poll, CheckOverflow, CheckErrors, CheckDeadline, Check, Reap, Kill, Await,
        AwaitUnready, Join, Drained, Return, Report, Judge, JudgeCrashes, Conclude,
        SnapshotCrashes, Goto, Fail, Or
  <2>0. UNCHANGED <<now, worker, code, written, reader, taken, overflow, readerError, writer,
                    writerError>>
    BY <1>2 DEF ParentOnly, process, readers, writers
  <2>1. pc' = "drained" => AllDead \/ now = "over"
    OBVIOUS
  <2>2. pc' \in {"spawn"} \cup Setup => pc \in {"spawn"} \cup Setup
    BY DEF Setup
  <2>3. failure' = "worker_timeout" => now # "early"
    BY DEF CauseInv
  <2>4. failure' = "stream_limit_exceeded" => overflow
    BY DEF CauseInv
  <2>5. failure' = "worker_error" => Fault
    <3>1. CASE Judge
      <4>1. worker = "exited" /\ \A s \in Streams : accepted[s] <= written[s]
        BY <3>1 DEF VerdictInv, Clean, ReaderInv, StreamInv, CountsOK
      <4>2. failure' = "worker_error" =>
              \/ ~ code \/ accepted["stderr"] > 0 \/ accepted["stdout"] > ResponseMax
              \/ failure = "worker_error"
        BY <3>1
      <4> QED
        BY <4>1, <4>2, SizesAssumption DEF Fault, CauseInv, Streams, CountsOK
    <3>2. CASE ~ Judge
      BY <3>2 DEF Fault, CauseInv
    <3> QED
      BY <3>1, <3>2
  <2>6. failure' = "process_setup_error" =>
          pc' \in Returned /\ \A s \in Streams : taken[s] = 0
    <3>1. \/ SpawnFails \/ AwaitUnready
          \/ failure' = "process_setup_error" => failure = "process_setup_error"
      OBVIOUS
    <3>2. CASE SpawnFails \/ AwaitUnready
      BY <3>2 DEF Returned, ReaderInv, CauseInv, Setup
    <3>3. failure = "process_setup_error" => pc' \in Returned
      BY DEF CauseInv, Returned
    <3> QED
      BY <3>1, <3>2, <3>3 DEF CauseInv
  <2>7. AllDead' <=> AllDead
    BY <2>0 DEF AllDead
  <2>8. Fault' <=> Fault
    BY <2>0 DEF Fault
  <2> HIDE DEF Parent
  <2> QED
    BY <2>0, <2>1, <2>2, <2>3, <2>4, <2>5, <2>6, <2>7, <2>8 DEF CauseInv
<1> QED
  BY <1>1, <1>2, ParentFrame

(* The inductive invariant of the categories.                              *)
THEOREM CauseInvariant == Spec => []CauseInv
<1>1. Init => CauseInv
  BY DEF Init, CauseInv, Streams
<1>2. Inv /\ CauseInv /\ [Next]_vars => CauseInv'
  <2> SUFFICES ASSUME Inv, CauseInv, [Next]_vars PROVE CauseInv'
    OBVIOUS
  <2>1. CASE UNCHANGED vars
    BY <2>1 DEF CauseInv, Fault, AllDead, vars, process, readers, writers, parent
  <2>2. CASE Next
    BY <2>1, <2>2, OthersCause, ParentCause DEF Next, Done
  <2> QED
    BY <2>1, <2>2
<1> QED
  BY <1>1, <1>2, InvInvariant, PTL DEF Spec

(* The category in a receipt names something that has happened.            *)
THEOREM CauseReal == Spec => []CauseIsReal
<1>1. Inv /\ CauseInv => CauseIsReal
  <2> SUFFICES ASSUME Inv, CauseInv PROVE CauseIsReal
    OBVIOUS
  <2>1. overflow => Written > Limit
    BY SizesAssumption DEF Inv, TypeOK, CountsOK, ReaderInv, StreamInv, Streams, Written
  <2> QED
    BY <2>1 DEF CauseInv, CauseIsReal, Fault
<1> QED
  BY <1>1, CauseInvariant, InvInvariant, PTL
-----------------------------------------------------------------------------
(* The safety part of Ends. Steps of the parent thread that are left, at   *)
(* most, once execution_deadline has passed.                               *)
StepsLeft ==
  CASE pc = "spawn" -> 15
    [] pc = "poll" -> 14
    [] pc = "overflow?" -> 13
    [] pc = "errors?" -> 12
    [] pc = "deadline?" -> 11
    [] pc = "kill" -> 10
    [] pc \in {"reap", "await"} -> 9
    [] pc = "join" -> 8
    [] pc = "drained" -> 7
    [] pc = "kill_again" -> 6
    [] pc \in {"job", "await_again"} -> 5
    [] pc \in {"resume", "report"} -> 4
    [] pc \in {"kill_unready", "report_ends"} -> 3
    [] pc \in {"await_unready", "report_flags", "judge"} -> 2
    [] pc = "snapshot" -> 1
    [] pc = "done" -> 0

LEMMA StepsLeftTyped ==
  /\ TypeOK => StepsLeft \in 0 .. 15
  /\ TypeOK' => StepsLeft' \in 0 .. 15
<1>1. TypeOK => StepsLeft \in 0 .. 15
  BY DEF TypeOK, ControlOK, StepsLeft
<1>2. TypeOK' => StepsLeft' \in 0 .. 15
  BY DEF TypeOK, ControlOK, StepsLeft
<1> QED
  BY <1>1, <1>2

(* Past the deadline, every step of the parent brings it nearer to its     *)
(* return: the polling loop is left when it comes to its deadline.         *)
LEMMA ParentAdvances ==
  ASSUME TypeOK, Parent, now # "early"
  PROVE  StepsLeft' < StepsLeft
<1> USE DEF StepsLeft, Goto
<1>1. CASE Launch
  BY <1>1 DEF Launch, SpawnFails, SpawnPosix, SpawnWindows, AssignJob, Resume, ResumeFails
<1>2. CASE Watch
  BY <1>2 DEF Watch, Poll, CheckOverflow, CheckErrors, CheckDeadline, Check, Reap
<1>3. CASE Kill \/ Await \/ AwaitUnready
  BY <1>3 DEF Kill, Await, AwaitUnready
<1>4. CASE Join \/ Drained \/ Return \/ Report
  BY <1>4 DEF Join, Drained, Return, Report
<1>5. CASE Judge \/ JudgeCrashes \/ SnapshotCrashes
  BY <1>5 DEF Judge, JudgeCrashes, SnapshotCrashes
<1>6. CASE Conclude
  BY <1>6 DEF Conclude
<1> QED
  BY <1>1, <1>2, <1>3, <1>4, <1>5, <1>6, ParentSteps DEF Drain, Verdict

(* Only the environment moves the clock, and never back.                   *)
LEMMA DeadlineStays ==
  ASSUME [Next]_vars, now # "early"
  PROVE  now' # "early"
<1>1. CASE Parent
  BY <1>1, ParentFrame DEF ParentOnly, Starting, SpawnPosix, SpawnWindows, Resume
<1>2. CASE ~ Parent
  BY <1>2 DEF Next, Environment, Exit, TimePasses, Write, LetGo, WriteInput, Readers,
              NoteStderr, ReadChunk, AcceptChunk, ReadEnd, ReadError, ReaderEnds, Done, vars
<1> QED
  BY <1>1, <1>2

(* The worker, what it has started and the threads leave the parent's      *)
(* place alone.                                                            *)
LEMMA OthersWait ==
  ASSUME [Next]_vars, ~ Parent
  PROVE  pc' = pc
BY DEF Next, Environment, Exit, TimePasses, Write, LetGo, WriteInput, Readers, NoteStderr,
       ReadChunk, AcceptChunk, ReadEnd, ReadError, ReaderEnds, Done, vars, parent

(* Once execution_deadline has passed, it stays so, at most fifteen more   *)
(* steps of the parent are left, and nothing the worker, what it has       *)
(* started or the reader threads do takes one of them back.                *)
THEOREM NearsItsEnd ==
  Spec => [][now # "early" =>
               /\ now' # "early"
               /\ StepsLeft \in 0 .. 15 /\ StepsLeft' \in 0 .. StepsLeft
               /\ Parent => StepsLeft' < StepsLeft]_vars
<1> DEFINE Nears == now # "early" =>
                      /\ now' # "early"
                      /\ StepsLeft \in 0 .. 15 /\ StepsLeft' \in 0 .. StepsLeft
                      /\ Parent => StepsLeft' < StepsLeft
<1>1. TypeOK /\ TypeOK' /\ [Next]_vars => [Nears]_vars
  <2> SUFFICES ASSUME TypeOK, TypeOK', [Next]_vars, now # "early" PROVE Nears
    OBVIOUS
  <2>1. StepsLeft \in 0 .. 15 /\ StepsLeft' \in 0 .. 15
    BY StepsLeftTyped
  <2>2. now' # "early"
    BY DeadlineStays
  <2>3. CASE Parent
    BY <2>1, <2>2, <2>3, ParentAdvances
  <2>4. CASE ~ Parent
    <3>1. StepsLeft' = StepsLeft
      BY <2>4, OthersWait DEF StepsLeft
    <3> QED
      BY <2>1, <2>2, <2>4, <3>1
  <2> QED
    BY <2>3, <2>4
<1> QED
  BY <1>1, TypeCorrect, PTL DEF Spec

=============================================================================
