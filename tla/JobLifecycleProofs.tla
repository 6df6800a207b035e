------------------------- MODULE JobLifecycleProofs -------------------------
(***************************************************************************)
(* Proofs about JobLifecycle for any number of jobs, workers, attempts,    *)
(* pauses and restarts, in three parts.                                    *)
(*                                                                         *)
(* Its type invariant, "one executor per job, exactly while the job is     *)
(* pending", and the refinement of JobPromise.  The argument has two       *)
(* levels.  A job's executors (its pipelines, queued tasks and workers)    *)
(* change in nine ways only: the effects defined below.  First each action *)
(* is shown to have one of these effects; then each effect is shown to     *)
(* preserve the invariant and to be a step of the promise.                 *)
(*                                                                         *)
(* A pause gates every expensive step.  It needs no more than the types: a *)
(* step that starts under the flag parks, and only an unparked task goes   *)
(* on.                                                                     *)
(*                                                                         *)
(* The replay buffer and the stage "paused" say what the job does.  This   *)
(* rests on the first part: its one executor is the one that streams or    *)
(* parks.                                                                  *)
(***************************************************************************)
EXTENDS JobLifecycle, FiniteSetTheorems, TLAPS

-----------------------------------------------------------------------------
(* The inductive invariant                                                  *)

ParkedPipeSteps == {"fetch", "fallback", "meta", "persist", "frames", "stream"}
ParkedWorkSteps == {"download", "transcribe", "stream"}

\* A parked task is at a step that has a stage to show on resuming; a worker
\* has a job exactly while it processes one.
PipeShape(r) == r.parked => r.step \in ParkedPipeSteps
WorkShape(r) ==
    /\ r.parked => r.step \in ParkedWorkSteps
    /\ r.job = NoJob <=> r.step \in {"gate", "get"}
Shape ==
    /\ \A j \in Jobs, a \in Attempts : PipeShape(pipe[j][a])
    /\ \A w \in Workers : WorkShape(worker[w])

\* What SingleExecutor, PendingIsExecuted and FinishedIsAtRest say of one job.
Sound(j) ==
    /\ AtMostOne(PipesOf(j)) /\ AtMostOne(TasksOf(j)) /\ AtMostOne(WorkersOn(j))
    /\ PipesOf(j) # {} => TasksOf(j) = {} /\ WorkersOn(j) = {}
    /\ TasksOf(j) # {} => WorkersOn(j) = {}
    /\ Pending(j) => HasExecutor(j)
    /\ status[j] \in {"absent", "done", "failed"} => ~HasExecutor(j)

\* None of its parts is inductive alone: a retry starts one executor only
\* because a failed row is at rest, a pipeline hands over to the queue and the
\* queue to a worker without a double only because the executor is single.
IInv == TypeOK /\ Shape /\ \A j \in Jobs : Sound(j)

-----------------------------------------------------------------------------
(* The effects                                                              *)

\* The types of the variables that say nothing about executors.
RestOK ==
    /\ stage    \in [Jobs -> Stages]
    /\ reason   \in [Jobs -> BOOLEAN]
    /\ kind     \in [Jobs -> AllKinds]
    /\ cached   \in [Jobs -> BOOLEAN]
    /\ attempts \in [Jobs -> 0..MaxAttempts]
    /\ paused   \in BOOLEAN
    /\ buffer   \in [Jobs -> BOOLEAN]
    /\ pauses   \in 0..MaxPauses
    /\ restarts \in 0..MaxRestarts

\* An executor of job j at work writes "running" or nothing.
Works(j) ==
    \/ status' = status
    \/ RowExists(j) /\ status' = [status EXCEPT ![j] = "running"]
\* It writes a final status, unless the row is gone.
Settles(j) ==
    IF RowExists(j) THEN \E s \in {"done", "failed"} : status' = [status EXCEPT ![j] = s]
    ELSE status' = status

Idles == RestOK' /\ UNCHANGED <<status, pipe, queue, worker>>

Deletes(j) ==
    /\ RestOK' /\ UNCHANGED <<pipe, queue, worker>>
    /\ RowExists(j) /\ status' = [status EXCEPT ![j] = "deleted"]

Spawns(j) ==
    /\ RestOK' /\ UNCHANGED <<queue, worker>>
    /\ status[j] \in {"absent", "failed"} /\ status' = [status EXCEPT ![j] = "running"]
    /\ \E a \in Attempts : pipe' = [pipe EXCEPT ![j][a] = [step |-> "start", parked |-> FALSE]]

PipeMoves(j, a) ==
    /\ RestOK' /\ UNCHANGED <<queue, worker>>
    /\ pipe[j][a].step # "none" /\ Works(j)
    /\ \E r \in PipeRecords :
          PipeShape(r) /\ r.step # "none" /\ pipe' = [pipe EXCEPT ![j][a] = r]

PipeEnds(j, a) ==
    /\ RestOK' /\ UNCHANGED <<queue, worker>>
    /\ pipe[j][a].step # "none" /\ Settles(j)
    /\ EndPipe(j, a)

PipeHandsOver(j, a) ==
    /\ RestOK' /\ UNCHANGED worker
    /\ pipe[j][a].step # "none"
    /\ IF RowExists(j) THEN status' = [status EXCEPT ![j] = "queued"] ELSE status' = status
    /\ EndPipe(j, a)
    /\ queue' = Append(queue, j)

WorkerTakes(w) ==
    /\ RestOK' /\ UNCHANGED pipe
    /\ worker[w].job = NoJob
    /\ queue # <<>> /\ queue' = Tail(queue)
    /\ LET j == Head(queue) IN
       IF RowExists(j)
       THEN /\ Works(j)
            /\ \E r \in WorkerRecords :
                  WorkShape(r) /\ r.job = j /\ worker' = [worker EXCEPT ![w] = r]
       ELSE status' = status /\ worker' = [worker EXCEPT ![w] = IdleWork]

WorkerMoves(w) ==
    /\ RestOK' /\ UNCHANGED <<pipe, queue>>
    /\ IF worker[w].job = NoJob THEN status' = status ELSE Works(worker[w].job)
    /\ \E r \in WorkerRecords :
          WorkShape(r) /\ r.job = worker[w].job /\ worker' = [worker EXCEPT ![w] = r]

WorkerEnds(w) ==
    /\ RestOK' /\ UNCHANGED <<pipe, queue>>
    /\ worker[w].job # NoJob /\ Settles(worker[w].job)
    /\ worker' = [worker EXCEPT ![w] = IdleWork]

-----------------------------------------------------------------------------
(* Types                                                                    *)

\* An ended pipeline has a well-formed record.
LEMMA NoTaskType == NoTask \in PipeRecords /\ PipeShape(NoTask)
  BY DEF NoTask, PipeRecords, PipeSteps, PipeShape

\* So has an idle worker.
LEMMA IdleWorkType ==
    IdleWork \in WorkerRecords /\ WorkShape(IdleWork) /\ IdleWork.job = NoJob
  BY DEF IdleWork, WorkerRecords, WorkSteps, WorkShape

\* The invariant types the variables that say nothing about executors.
LEMMA TypeOKRest ==
    TypeOK <=> /\ RestOK
               /\ status \in [Jobs -> Statuses]
               /\ pipe   \in [Jobs -> [Attempts -> PipeRecords]]
               /\ queue  \in Seq(Jobs)
               /\ worker \in [Workers -> WorkerRecords]
  BY DEF TypeOK, RestOK

\* The next state is typed if its parts are.
LEMMA TypeOKNext ==
  ASSUME RestOK', Shape',
         status' \in [Jobs -> Statuses], pipe' \in [Jobs -> [Attempts -> PipeRecords]],
         queue' \in Seq(Jobs), worker' \in [Workers -> WorkerRecords]
  PROVE  TypeOK' /\ Shape'
  BY DEF TypeOK, RestOK

\* A daemon that starts on an empty table satisfies the invariant.
LEMMA InitIInv == Init => IInv
  <1> SUFFICES ASSUME Init PROVE IInv
    OBVIOUS
  <1>1. 0 \in 0..MaxAttempts /\ 0 \in 0..MaxPauses /\ 0 \in 0..MaxRestarts
    BY AttemptsAssumption, BoundsAssumption DEF AttemptsAssumption, BoundsAssumption
  <1>2. /\ pipe \in [Jobs -> [Attempts -> PipeRecords]]
        /\ worker \in [Workers -> WorkerRecords]
        /\ Shape
    BY NoTaskType, IdleWorkType DEF Init, Shape
  <1>3. status \in [Jobs -> Statuses]
    BY DEF Init, Statuses
  <1>4. stage \in [Jobs -> Stages] /\ kind \in [Jobs -> AllKinds]
    BY DEF Init, Stages, AllKinds
  <1>5. reason \in [Jobs -> BOOLEAN] /\ cached \in [Jobs -> BOOLEAN]
    BY DEF Init
  <1>6. buffer \in [Jobs -> BOOLEAN] /\ paused \in BOOLEAN
    BY DEF Init
  <1>6a. queue \in Seq(Jobs)
    BY DEF Init
  <1>7. /\ attempts \in [Jobs -> 0..MaxAttempts]
        /\ pauses \in 0..MaxPauses /\ restarts \in 0..MaxRestarts
    BY <1>1 DEF Init
  <1>8. TypeOK
    BY <1>2, <1>3, <1>4, <1>5, <1>6, <1>6a, <1>7 DEF TypeOK
  <1>9. ASSUME NEW j \in Jobs PROVE Sound(j)
    <2>1. PipesOf(j) = {}
      BY DEF Init, PipesOf, NoTask
    <2>2. TasksOf(j) = {}
      BY DEF Init, TasksOf
    <2>3. WorkersOn(j) = {}
      BY JobsAssumption DEF Init, WorkersOn, IdleWork, JobsAssumption
    <2>4. QED
      BY <2>1, <2>2, <2>3 DEF Sound, AtMostOne, HasExecutor, Pending, Init
  <1>10. QED
    BY <1>2, <1>8, <1>9 DEF IInv

-----------------------------------------------------------------------------
(* Every action has one of the effects                                      *)

\* The stage shown by a step taken up is one of Stages.
LEMMA ResumeStageType ==
  ASSUME NEW step \in ParkedPipeSteps \cup ParkedWorkSteps
  PROVE  ResumeStage(step) \in Stages
  BY DEF ResumeStage, Stages, ParkedPipeSteps, ParkedWorkSteps

\* A row written with SetRow.
LEMMA SetRowEffect ==
  ASSUME TypeOK, NEW j \in Jobs, NEW s, NEW st \in Stages, SetRow(j, s, st)
  PROVE  status' = [status EXCEPT ![j] = s] /\ stage' \in [Jobs -> Stages]
  BY DEF SetRow, TypeOK

\* mark_failed settles a pending row and leaves a deleted one alone.
LEMMA MarkFailedEffect ==
  ASSUME TypeOK, NEW j \in Jobs, MarkFailed(j)
  PROVE  Settles(j)
  BY DEF MarkFailed, Settles, TypeOK

\* Publishing keeps the type of the replay buffer.
LEMMA PublishType ==
  ASSUME TypeOK, NEW j \in Jobs, Publish(j) \/ PublishFinal(j)
  PROVE  buffer' \in [Jobs -> BOOLEAN]
  BY DEF Publish, PublishFinal, TypeOK

\* A checkpoint passed or parked at, and what it writes.
LEMMA PipeProceedsEffect ==
  ASSUME IInv, NEW j \in Jobs, NEW a \in Attempts, NEW step \in ParkedPipeSteps,
         PipeProceeds(j, a, step)
  PROVE  /\ Works(j)
         /\ stage' \in [Jobs -> Stages]
         /\ \E r \in PipeRecords :
               PipeShape(r) /\ r.step # "none" /\ pipe' = [pipe EXCEPT ![j][a] = r]
  <1>1. TypeOK
    BY DEF IInv
  <1>2. Works(j) /\ stage' \in [Jobs -> Stages]
    <2>1. CASE paused
      <3>1. SetRow(j, "running", "paused") /\ RowExists(j)
        BY <2>1 DEF PipeProceeds
      <3>2. QED
        BY <1>1, <3>1, SetRowEffect DEF Works, Stages
    <2>2. CASE ~paused /\ step = "stream"
      <3>1. SetRow(j, "running", "summarizing") /\ RowExists(j)
        BY <2>2 DEF PipeProceeds
      <3>2. QED
        BY <1>1, <3>1, SetRowEffect DEF Works, Stages
    <2>3. CASE ~paused /\ step # "stream"
      BY <1>1, <2>3 DEF PipeProceeds, Works, TypeOK
    <2>4. QED
      BY <2>1, <2>2, <2>3
  <1>3. [step |-> step, parked |-> paused] \in PipeRecords
    BY <1>1 DEF TypeOK, PipeRecords, ParkedPipeSteps, PipeSteps
  <1>4. pipe' = [pipe EXCEPT ![j][a] = [step |-> step, parked |-> paused]]
    BY DEF PipeProceeds
  <1>5. QED
    BY <1>2, <1>3, <1>4 DEF PipeShape, ParkedPipeSteps

\* Without a row to write, or parked with the flag still up, a pipeline does
\* not move; every other way it goes on, to its end or to the queue.
LEMMA PipelineEffect ==
  ASSUME IInv, NEW j \in Jobs, NEW a \in Attempts, PipelineStep(j, a)
  PROVE  PipeMoves(j, a) \/ PipeEnds(j, a) \/ PipeHandsOver(j, a)
  <1>1. TypeOK /\ Shape
    BY DEF IInv
  <1>2. RestOK /\ PipeShape(pipe[j][a]) /\ pipe[j][a] \in PipeRecords
    BY <1>1, TypeOKRest DEF Shape, TypeOK
  <1>3. "stream" \in ParkedPipeSteps /\ "persist" \in ParkedPipeSteps
        /\ "meta" \in ParkedPipeSteps /\ "fallback" \in ParkedPipeSteps
        /\ "frames" \in ParkedPipeSteps
    BY DEF ParkedPipeSteps
  <1>4. ASSUME NEW step \in ParkedPipeSteps, PipeProceeds(j, a, step),
               pipe[j][a].step # "none",
               UNCHANGED <<reason, kind, cached, counts, queue, worker, paused, buffer>>
        PROVE  PipeMoves(j, a)
    <2>1. RestOK'
      BY <1>2, <1>4, PipeProceedsEffect DEF RestOK, counts
    <2>2. QED
      BY <1>4, <2>1, PipeProceedsEffect DEF PipeMoves
  <1>5. CASE PipelineStarts(j, a)
    <2>1. pipe[j][a].step # "none"
      BY <1>5 DEF PipelineStarts, PipeAt
    <2>2. CASE /\ pipe' = [pipe EXCEPT ![j][a] = [step |-> "fetch", parked |-> paused]]
               /\ SetRow(j, "running", IF paused THEN "paused" ELSE "extracting")
      <3>1. Works(j) /\ stage' \in [Jobs -> Stages]
        BY <1>1, <1>5, <2>2, SetRowEffect DEF PipelineStarts, Works, Stages
      <3>2. RestOK'
        BY <1>2, <1>5, <3>1 DEF RestOK, PipelineStarts, counts
      <3>3. /\ [step |-> "fetch", parked |-> paused] \in PipeRecords
            /\ PipeShape([step |-> "fetch", parked |-> paused])
        BY <1>1 DEF TypeOK, PipeRecords, PipeSteps, PipeShape, ParkedPipeSteps
      <3>4. QED
        BY <1>5, <2>1, <2>2, <3>1, <3>2, <3>3 DEF PipelineStarts, PipeMoves
    <2>3. CASE PipePersists(j, a)
      BY <1>3, <1>4, <1>5, <2>1, <2>3 DEF PipelineStarts, PipePersists
    <2>4. QED
      BY <1>5, <2>2, <2>3 DEF PipelineStarts
  <1>6. CASE PipelineResumes(j, a)
    <2> DEFINE step == pipe[j][a].step
               next == [step |-> IF step = "persist" THEN "stream" ELSE step, parked |-> FALSE]
    <2>1. step \in ParkedPipeSteps /\ step # "none"
      BY <1>2, <1>6 DEF PipelineResumes, PipeShape, ParkedPipeSteps
    <2>2. Works(j) /\ stage' \in [Jobs -> Stages]
      BY <1>1, <1>6, <2>1, SetRowEffect, ResumeStageType DEF PipelineResumes, Works
    <2>3. RestOK'
      BY <1>2, <1>6, <2>2 DEF RestOK, PipelineResumes, counts
    <2>4. next \in PipeRecords /\ PipeShape(next) /\ next.step # "none"
      BY <2>1 DEF PipeRecords, PipeSteps, PipeShape, ParkedPipeSteps
    <2>5. pipe' = [pipe EXCEPT ![j][a] = next]
      BY <1>6 DEF PipelineResumes
    <2>6. QED
      BY <1>6, <2>1, <2>2, <2>3, <2>4, <2>5 DEF PipelineResumes, PipeMoves
  <1>7. CASE TextFetched(j, a)
    BY <1>3, <1>4, <1>7 DEF TextFetched, PipePersists, PipeAt
  <1>8. CASE CaptionsFetched(j, a)
    BY <1>3, <1>4, <1>8 DEF CaptionsFetched, PipeAt
  <1>9. CASE CaptionsUnavailable(j, a)
    BY <1>3, <1>4, <1>9 DEF CaptionsUnavailable, PipeAt
  <1>10. CASE DeferToWhisper(j, a)
    <2>1. pipe[j][a].step # "none"
      BY <1>10 DEF DeferToWhisper, PipeAt
    <2>2. CASE RowExists(j)
      <3>1. SetRow(j, "queued", "queued") /\ UNCHANGED buffer
        BY <1>10, <2>2 DEF DeferToWhisper
      <3>2. status' = [status EXCEPT ![j] = "queued"] /\ stage' \in [Jobs -> Stages]
        BY <1>1, <3>1, SetRowEffect DEF Stages
      <3>3. reason' \in [Jobs -> BOOLEAN]
        BY <1>2, <1>10, <2>2 DEF DeferToWhisper, RestOK
      <3>4. RestOK'
        BY <1>2, <1>10, <3>1, <3>2, <3>3 DEF RestOK, DeferToWhisper, counts
      <3>5. QED
        BY <1>10, <2>1, <2>2, <3>2, <3>4 DEF DeferToWhisper, PipeHandsOver
    <2>3. CASE ~RowExists(j)
      <3>1. PublishFinal(j) /\ UNCHANGED <<status, stage, reason>>
        BY <1>10, <2>3 DEF DeferToWhisper
      <3>2. RestOK'
        BY <1>1, <1>2, <1>10, <3>1, PublishType DEF RestOK, DeferToWhisper, counts
      <3>3. QED
        BY <1>10, <2>1, <2>3, <3>1, <3>2 DEF DeferToWhisper, PipeHandsOver
    <2>4. QED
      BY <2>2, <2>3
  <1>11. CASE MetadataFetched(j, a)
    BY <1>3, <1>4, <1>11 DEF MetadataFetched, PipeAt
  <1>12. CASE FramesAnalysed(j, a)
    BY <1>3, <1>4, <1>12 DEF FramesAnalysed, PipeAt
  <1>13. CASE SummaryDelta(j, a)
    <2>1. RestOK'
      BY <1>1, <1>2, <1>13, PublishType DEF RestOK, SummaryDelta, row, counts
    <2>2. pipe[j][a] = [step |-> "stream", parked |-> FALSE]
      BY <1>13 DEF SummaryDelta, PipeAt
    <2>3. pipe' = [pipe EXCEPT ![j][a] = pipe[j][a]]
      BY <1>1, <1>13 DEF SummaryDelta, TypeOK
    <2>4. UNCHANGED <<status, queue, worker>>
      BY <1>13 DEF SummaryDelta, row
    <2>5. pipe[j][a].step # "none" /\ Works(j)
      BY <2>2, <2>4 DEF Works
    <2>6. QED
      BY <1>2, <2>1, <2>3, <2>4, <2>5 DEF PipeMoves
  <1>14. CASE PipelineDone(j, a)
    <2>1. Settles(j) /\ stage' \in [Jobs -> Stages]
      BY <1>1, <1>14, SetRowEffect DEF PipelineDone, Settles, Stages
    <2>2. RestOK'
      BY <1>1, <1>2, <1>14, <2>1, PublishType DEF RestOK, PipelineDone, counts
    <2>3. QED
      BY <1>14, <2>1, <2>2 DEF PipelineDone, PipeEnds, PipeAt
  <1>15. CASE PipelineRaises(j, a)
    <2>1. pipe[j][a].step # "none"
      BY <1>2, <1>15 DEF PipelineRaises, PipeAt, PipeShape, ParkedPipeSteps
    <2>2. RestOK'
      BY <1>1, <1>2, <1>15, PublishType DEF RestOK, PipelineRaises, counts
    <2>3. QED
      <3>1. Settles(j)
        BY <1>1, <1>15, MarkFailedEffect DEF PipelineRaises
      <3>2. EndPipe(j, a) /\ UNCHANGED <<queue, worker>>
        BY <1>15 DEF PipelineRaises
      <3>3. QED
        BY <2>1, <2>2, <3>1, <3>2 DEF PipeEnds
  <1>16. QED
    BY <1>5, <1>6, <1>7, <1>8, <1>9, <1>10, <1>11, <1>12, <1>13, <1>14, <1>15 DEF PipelineStep

\* A heavy step of a worker taken up or parked before, and what it writes.
LEMMA WorkProceedsEffect ==
  ASSUME IInv, NEW w \in Workers, NEW step \in ParkedWorkSteps, NEW now \in WorkerRecords,
         now.job \in Jobs, WorkProceeds(w, step, now)
  PROVE  /\ RowExists(now.job) /\ Works(now.job)
         /\ stage' \in [Jobs -> Stages] /\ reason' \in [Jobs -> BOOLEAN]
         /\ \E r \in WorkerRecords :
               WorkShape(r) /\ r.job = now.job /\ worker' = [worker EXCEPT ![w] = r]
  <1>1. TypeOK /\ now.job # NoJob
    BY JobsAssumption DEF IInv, JobsAssumption
  <1>2. RowExists(now.job)
    BY DEF WorkProceeds
  <1>3. (IF paused THEN "paused" ELSE ResumeStage(step)) \in Stages
    BY ResumeStageType DEF Stages
  <1>4. SetRow(now.job, "running", IF paused THEN "paused" ELSE ResumeStage(step))
    BY DEF WorkProceeds
  <1>5. Works(now.job) /\ stage' \in [Jobs -> Stages]
    BY <1>1, <1>2, <1>3, <1>4, SetRowEffect DEF Works
  <1>6. reason' \in [Jobs -> BOOLEAN]
    BY <1>1 DEF WorkProceeds, TypeOK
  <1> DEFINE r == [now EXCEPT !.step = step, !.parked = paused]
  <1>7. step \in WorkSteps /\ paused \in BOOLEAN /\ step \notin {"gate", "get"}
    BY <1>1 DEF TypeOK, ParkedWorkSteps, WorkSteps
  <1>8. r \in WorkerRecords /\ r.job = now.job /\ r.step = step /\ r.parked = paused
    BY <1>7 DEF WorkerRecords
  <1>9. WorkShape(r)
    BY <1>1, <1>7, <1>8 DEF WorkShape
  <1>10. worker' = [worker EXCEPT ![w] = r]
    BY DEF WorkProceeds
  <1>11. QED
    BY <1>2, <1>5, <1>6, <1>8, <1>9, <1>10

\* Taking a task either starts a step, or finds that the row is gone.
LEMMA WorkerTakesEffect ==
  ASSUME IInv, NEW w \in Workers, WorkerTakesTask(w)
  PROVE  WorkerTakes(w)
  <1>1. TypeOK /\ RestOK /\ WorkShape(worker[w])
    BY TypeOKRest DEF IInv, Shape
  <1> DEFINE j   == Head(queue)
             now == [IdleWork EXCEPT !.job = j, !.held = cached[j]]
  <1>2. /\ worker[w].job = NoJob
        /\ queue # <<>> /\ queue' = Tail(queue) /\ UNCHANGED <<kind, cached, counts, pipe, paused>>
    BY <1>1 DEF WorkerTakesTask, WorkAt, WorkShape
  <1>3. j \in Jobs
    BY <1>1, <1>2 DEF TypeOK
  <1>4. now \in WorkerRecords /\ now.job = j
    BY <1>1, <1>3 DEF TypeOK, IdleWork, WorkerRecords, WorkSteps
  <1>5. buffer' \in [Jobs -> BOOLEAN]
    BY <1>1, <1>3 DEF WorkerTakesTask, TypeOK, RowExists
  <1>6. ASSUME NEW step \in ParkedWorkSteps, WorkProceeds(w, step, now)
        PROVE  WorkerTakes(w)
    <2>1. RestOK'
      BY <1>1, <1>2, <1>3, <1>4, <1>5, <1>6, WorkProceedsEffect DEF RestOK, counts
    <2>2. /\ RowExists(j) /\ Works(j)
          /\ \E r \in WorkerRecords :
                WorkShape(r) /\ r.job = j /\ worker' = [worker EXCEPT ![w] = r]
      <3>1. now.job \in Jobs
        BY <1>3, <1>4
      <3>2. /\ RowExists(now.job) /\ Works(now.job)
            /\ \E r \in WorkerRecords :
                  WorkShape(r) /\ r.job = now.job /\ worker' = [worker EXCEPT ![w] = r]
        <4> HIDE DEF now
        <4> QED
          BY <1>4, <1>6, <3>1, WorkProceedsEffect
      <3>3. QED
        BY <1>4, <3>2
    <2>3. QED
      BY <1>2, <2>1, <2>2 DEF WorkerTakes
  <1>7. CASE cached[j] /\ WorkProceeds(w, "transcribe", now)
    BY <1>6, <1>7 DEF ParkedWorkSteps
  <1>8. CASE /\ RowExists(j) /\ ~cached[j] /\ kind[j] = "youtube"
             /\ WorkProceeds(w, "download", now)
    BY <1>6, <1>8 DEF ParkedWorkSteps
  <1>9. CASE /\ RowExists(j) /\ ~cached[j] /\ kind[j] = "media"
             /\ worker' = [worker EXCEPT ![w] = [now EXCEPT !.step = "probe"]]
             /\ UNCHANGED <<status, stage, reason>>
    <2> DEFINE r == [now EXCEPT !.step = "probe"]
    <2>1. RestOK'
      BY <1>1, <1>2, <1>5, <1>9 DEF RestOK, counts
    <2>2. r \in WorkerRecords /\ r.job = j /\ r.step = "probe" /\ r.parked = FALSE
      BY <1>4 DEF WorkerRecords, WorkSteps, IdleWork
    <2>3. WorkShape(r)
      BY <1>3, <2>2, JobsAssumption DEF WorkShape, JobsAssumption
    <2>4. QED
      BY <1>2, <1>9, <2>1, <2>2, <2>3 DEF WorkerTakes, Works
  <1>10. CASE /\ ~RowExists(j)
              /\ worker' = [worker EXCEPT ![w] = IdleWork]
              /\ UNCHANGED <<status, stage, reason>>
    <2>1. RestOK'
      BY <1>1, <1>2, <1>5, <1>10 DEF RestOK, counts
    <2>2. QED
      BY <1>2, <1>10, <2>1 DEF WorkerTakes
  <1>11. QED
    BY <1>7, <1>8, <1>9, <1>10 DEF WorkerTakesTask

\* A worker takes a task, goes on with its job, or lets go of it.
LEMMA WorkerEffect ==
  ASSUME IInv, NEW w \in Workers, WorkerStep(w)
  PROVE  WorkerTakes(w) \/ WorkerMoves(w) \/ WorkerEnds(w)
  <1> DEFINE me == worker[w]
             j  == worker[w].job
  <1>1. TypeOK /\ RestOK /\ WorkShape(me) /\ me \in WorkerRecords
    BY TypeOKRest DEF IInv, Shape, TypeOK
  <1>2. j \in Jobs \/ j = NoJob
    BY <1>1 DEF WorkerRecords
  <1>3. /\ "download" \in ParkedWorkSteps /\ "transcribe" \in ParkedWorkSteps
        /\ "stream" \in ParkedWorkSteps
    BY DEF ParkedWorkSteps
  <1>4. ASSUME NEW step \in WorkSteps \ {"gate", "get"}, WorkAt(w, step)
        PROVE  j \in Jobs
    BY <1>1, <1>2, <1>4 DEF WorkAt, WorkShape
  <1>5. ASSUME j \in Jobs, NEW step \in ParkedWorkSteps,
               NEW now \in WorkerRecords, now.job = j, WorkProceeds(w, step, now),
               cached' \in [Jobs -> BOOLEAN],
               UNCHANGED <<kind, counts, pipe, queue, paused, buffer>>
        PROVE  WorkerMoves(w)
    <2>1. /\ stage' \in [Jobs -> Stages] /\ reason' \in [Jobs -> BOOLEAN]
          /\ Works(j)
          /\ \E r \in WorkerRecords :
                WorkShape(r) /\ r.job = j /\ worker' = [worker EXCEPT ![w] = r]
      BY <1>5, WorkProceedsEffect
    <2>2. RestOK'
      BY <1>1, <1>5, <2>1 DEF RestOK, counts
    <2>3. j # NoJob
      BY <1>5, JobsAssumption DEF JobsAssumption
    <2>4. QED
      BY <1>5, <2>1, <2>2, <2>3 DEF WorkerMoves
  \* A step that is not heavy: no write to the row.
  <1>6. ASSUME NEW r \in WorkerRecords, WorkShape(r), r.job = j,
               worker' = [worker EXCEPT ![w] = r], RestOK', UNCHANGED <<status, pipe, queue>>
        PROVE  WorkerMoves(w)
    BY <1>6 DEF WorkerMoves, Works
  <1>7. CASE WorkerPassesGate(w)
    <2> DEFINE r == [me EXCEPT !.step = "get"]
    <2>1. r \in WorkerRecords /\ r.job = j /\ WorkShape(r)
      BY <1>1, <1>7 DEF WorkerRecords, WorkSteps, WorkShape, WorkerPassesGate, WorkAt
    <2>2. RestOK' /\ UNCHANGED <<status, pipe, queue>>
      BY <1>1, <1>7 DEF WorkerPassesGate, RestOK, row, counts
    <2>3. worker' = [worker EXCEPT ![w] = r]
      BY <1>7 DEF WorkerPassesGate
    <2>4. QED
      BY <1>6, <2>1, <2>2, <2>3
  <1>8. CASE WorkerTakesTask(w)
    BY <1>8, WorkerTakesEffect
  <1>9. CASE WorkerResumes(w)
    <2>1. me.step \in ParkedWorkSteps /\ j \in Jobs
      BY <1>1, <1>2, <1>9 DEF WorkerResumes, WorkShape, ParkedWorkSteps
    <2>2. QED
      BY <1>1, <1>5, <1>9, <2>1 DEF WorkerResumes, RestOK
  <1>10. CASE ClipProbed(w)
    <2>1. j \in Jobs
      BY <1>4, <1>10 DEF ClipProbed, WorkSteps
    <2>2. QED
      BY <1>1, <1>3, <1>5, <1>10, <2>1 DEF ClipProbed, RestOK
  <1>11. CASE AudioDownloaded(w)
    <2> DEFINE now == [me EXCEPT !.held = TRUE]
               r   == [now EXCEPT !.step = "measure"]
    <2>1. j \in Jobs
      BY <1>4, <1>11 DEF AudioDownloaded, WorkSteps
    <2>2. now \in WorkerRecords /\ now.job = j /\ r \in WorkerRecords /\ r.job = j
      BY <1>1 DEF WorkerRecords, WorkSteps
    <2>3. WorkShape(r)
      BY <1>1, <1>11, <2>1, JobsAssumption
      DEF WorkShape, AudioDownloaded, WorkAt, JobsAssumption, WorkerRecords
    <2>4. cached' \in [Jobs -> BOOLEAN]
      <3>1. RowExists(j) \in BOOLEAN
        BY DEF RowExists
      <3>2. cached' = [cached EXCEPT ![j] = RowExists(j)]
        BY <1>11 DEF AudioDownloaded
      <3>3. QED
        BY <1>1, <3>1, <3>2 DEF RestOK
    <2>5. CASE WorkProceeds(w, "transcribe", now)
      BY <1>3, <1>5, <1>11, <2>1, <2>2, <2>4, <2>5 DEF AudioDownloaded
    <2>6. CASE /\ worker' = [worker EXCEPT ![w] = r]
               /\ UNCHANGED <<status, stage, reason>>
      <3>1. RestOK' /\ UNCHANGED <<status, pipe, queue>>
        BY <1>1, <1>11, <2>4, <2>6 DEF AudioDownloaded, RestOK, counts
      <3>2. QED
        BY <1>6, <2>2, <2>3, <2>6, <3>1
    <2>7. QED
      BY <1>11, <2>5, <2>6 DEF AudioDownloaded
  <1>12. CASE FileMeasured(w)
    <2>1. j \in Jobs
      BY <1>4, <1>12 DEF FileMeasured, WorkSteps
    <2>2. [me EXCEPT !.spent = TRUE] \in WorkerRecords /\ [me EXCEPT !.spent = TRUE].job = j
      BY <1>1 DEF WorkerRecords
    <2>3. QED
      BY <1>1, <1>3, <1>5, <1>12, <2>1, <2>2 DEF FileMeasured, RestOK
  <1>13. CASE Transcribed(w)
    <2> DEFINE now == [me EXCEPT !.spent = TRUE]
               r   == [now EXCEPT !.step = "metadata"]
    <2>1. j \in Jobs
      BY <1>4, <1>13 DEF Transcribed, WorkSteps
    <2>2. now \in WorkerRecords /\ now.job = j /\ r \in WorkerRecords /\ r.job = j
      BY <1>1 DEF WorkerRecords, WorkSteps
    <2>3. WorkShape(r)
      BY <1>1, <1>13, <2>1, JobsAssumption
      DEF WorkShape, Transcribed, WorkAt, JobsAssumption, WorkerRecords
    <2>4. CASE kind[j] # "youtube"
      BY <1>1, <1>3, <1>5, <1>13, <2>1, <2>2, <2>4 DEF Transcribed, RestOK
    <2>5. CASE kind[j] = "youtube"
      <3>1. worker' = [worker EXCEPT ![w] = r] /\ UNCHANGED <<status, stage, reason>>
        BY <1>13, <2>5 DEF Transcribed
      <3>2. RestOK' /\ UNCHANGED <<status, pipe, queue>>
        BY <1>1, <1>13, <3>1 DEF Transcribed, RestOK, counts
      <3>3. QED
        BY <1>6, <2>2, <2>3, <3>1, <3>2
    <2>6. QED
      BY <2>4, <2>5
  <1>14. CASE WorkerMetadataFetched(w)
    <2>1. j \in Jobs
      BY <1>4, <1>14 DEF WorkerMetadataFetched, WorkSteps
    <2>2. QED
      BY <1>1, <1>3, <1>5, <1>14, <2>1 DEF WorkerMetadataFetched, RestOK
  <1>15. CASE WorkerSummaryDelta(w)
    <2>1. j \in Jobs
      BY <1>4, <1>15 DEF WorkerSummaryDelta, WorkSteps
    <2>2. RestOK' /\ UNCHANGED <<status, pipe, queue, worker>>
      BY <1>1, <1>15, <2>1, PublishType DEF WorkerSummaryDelta, RestOK, row, counts
    <2>3. worker' = [worker EXCEPT ![w] = me]
      BY <1>1, <2>2 DEF TypeOK
    <2>4. QED
      BY <1>1, <1>6, <2>2, <2>3
  <1>16. CASE WorkerDone(w)
    <2>1. j \in Jobs /\ j # NoJob
      BY <1>4, <1>16, JobsAssumption DEF WorkerDone, WorkSteps, JobsAssumption
    <2>2. Settles(j) /\ stage' \in [Jobs -> Stages]
      BY <1>1, <1>16, <2>1, SetRowEffect DEF WorkerDone, Settles, Stages
    <2>3. cached' \in [Jobs -> BOOLEAN]
      BY <1>1, <1>16, <2>1 DEF WorkerDone, CleanUpAudio, RestOK, WorkerRecords
    <2>4. RestOK'
      BY <1>1, <1>16, <2>1, <2>2, <2>3, PublishType DEF RestOK, WorkerDone, counts
    <2>5. QED
      BY <1>16, <2>1, <2>2, <2>4 DEF WorkerDone, WorkerEnds
  <1>17. CASE WorkerRaises(w)
    <2>1. j \in Jobs /\ j # NoJob
      BY <1>2, <1>17 DEF WorkerRaises
    <2>2. Settles(j)
      BY <1>1, <1>17, <2>1, MarkFailedEffect DEF WorkerRaises
    <2>3. cached' \in [Jobs -> BOOLEAN]
      BY <1>1, <1>17, <2>1 DEF WorkerRaises, CleanUpAudio, RestOK, WorkerRecords
    <2>4. RestOK'
      BY <1>1, <1>17, <2>1, <2>3, PublishType DEF RestOK, WorkerRaises, counts
    <2>5. worker' = [worker EXCEPT ![w] = IdleWork] /\ UNCHANGED <<pipe, queue>>
      BY <1>17 DEF WorkerRaises
    <2>6. QED
      BY <2>1, <2>2, <2>4, <2>5 DEF WorkerEnds
  <1>18. QED
    BY <1>7, <1>8, <1>9, <1>10, <1>11, <1>12, <1>13, <1>14, <1>15, <1>16, <1>17 DEF WorkerStep

-----------------------------------------------------------------------------
(* What the effects do to the executors of each job                         *)

\* What writing one pipeline record does to the pipelines of each job.
LEMMA PipeUpdate ==
  ASSUME TypeOK, Shape, NEW j \in Jobs, NEW a \in Attempts,
         NEW r \in PipeRecords, PipeShape(r), pipe' = [pipe EXCEPT ![j][a] = r]
  PROVE  /\ pipe' \in [Jobs -> [Attempts -> PipeRecords]]
         /\ \A k \in Jobs, b \in Attempts : PipeShape(pipe'[k][b])
         /\ PipesOf(j)' = IF r.step = "none" THEN PipesOf(j) \ {a} ELSE PipesOf(j) \cup {a}
         /\ \A k \in Jobs \ {j} : PipesOf(k)' = PipesOf(k)
  <1>1. pipe' \in [Jobs -> [Attempts -> PipeRecords]]
    BY DEF TypeOK
  <1>2. ASSUME NEW k \in Jobs, NEW b \in Attempts
        PROVE  pipe'[k][b] = IF k = j /\ b = a THEN r ELSE pipe[k][b]
    BY DEF TypeOK
  <1>3. QED
    BY <1>1, <1>2 DEF PipesOf, Shape

\* What writing one worker record does to the workers of each job.
LEMMA WorkerUpdate ==
  ASSUME TypeOK, Shape, NEW w \in Workers,
         NEW r \in WorkerRecords, WorkShape(r), worker' = [worker EXCEPT ![w] = r]
  PROVE  /\ worker' \in [Workers -> WorkerRecords]
         /\ \A v \in Workers : WorkShape(worker'[v])
         /\ \A k \in Jobs : WorkersOn(k)' =
               IF r.job = k THEN WorkersOn(k) \cup {w} ELSE WorkersOn(k) \ {w}
  <1>1. worker' \in [Workers -> WorkerRecords]
    BY DEF TypeOK
  <1>2. ASSUME NEW v \in Workers
        PROVE  worker'[v] = IF v = w THEN r ELSE worker[v]
    BY DEF TypeOK
  <1>3. QED
    BY <1>1, <1>2 DEF WorkersOn, Shape

\* Appending a task adds one index, of that job.
LEMMA TaskAdded ==
  ASSUME TypeOK, NEW j \in Jobs, queue' = Append(queue, j)
  PROVE  /\ queue' \in Seq(Jobs)
         /\ TasksOf(j)' = TasksOf(j) \cup {Len(queue) + 1}
         /\ \A k \in Jobs \ {j} : TasksOf(k)' = TasksOf(k)
  <1>1. queue \in Seq(Jobs) /\ queue' \in Seq(Jobs) /\ Len(queue) \in Nat
    BY DEF TypeOK
  <1>2. DOMAIN queue = 1..Len(queue) /\ DOMAIN queue' = 1..(Len(queue) + 1)
    BY <1>1
  <1>3. \A i \in 1..(Len(queue) + 1) : queue'[i] = IF i = Len(queue) + 1 THEN j ELSE queue[i]
    BY <1>1
  <1>4. QED
    BY <1>1, <1>2, <1>3 DEF TasksOf

\* Taking the head shifts the indices of all other tasks by one.
LEMMA TaskTaken ==
  ASSUME TypeOK, queue # <<>>, queue' = Tail(queue)
  PROVE  /\ queue' \in Seq(Jobs) /\ Head(queue) \in Jobs
         /\ 1 \in TasksOf(Head(queue))
         /\ \A k \in Jobs : TasksOf(k)' = {i \in 1..(Len(queue) - 1) : i + 1 \in TasksOf(k)}
  <1>1. queue \in Seq(Jobs) /\ queue' \in Seq(Jobs) /\ Len(queue) \in Nat /\ Len(queue) > 0
    BY DEF TypeOK
  <1>2. DOMAIN queue = 1..Len(queue) /\ DOMAIN queue' = 1..(Len(queue) - 1)
    BY <1>1
  <1>3. \A i \in 1..(Len(queue) - 1) : queue'[i] = queue[i + 1]
    BY <1>1
  <1>4. Head(queue) = queue[1]
    BY <1>1
  <1>5. QED
    BY <1>1, <1>2, <1>3, <1>4 DEF TasksOf

\* The abstract state of one job, and how a step may change it.
Abs(j) == IF Pending(j) THEN "open" ELSE status[j]
Change(j) ==
    LET before == Abs(j)          after == Abs(j)'
        had    == HasExecutor(j)  has   == HasExecutor(j)' IN
    \/ after = before /\ (has <=> had)
    \/ before \in {"absent", "failed"} /\ after = "open" /\ ~had /\ has
    \/ before = "open" /\ after \in {"done", "failed"} /\ had /\ ~has
    \/ before = "deleted" /\ after = "deleted" /\ had /\ ~has
    \/ before \in {"open", "done", "failed"} /\ after = "deleted" /\ (has <=> had)
\* Only job j is concerned.
OneJob(j) ==
    \A k \in Jobs \ {j} : status'[k] = status[k] /\ (HasExecutor(k)' <=> HasExecutor(k))

\* Conclusion of every effect: one job changed as the promise allows, or none.
Kept(j) == IInv' /\ OneJob(j) /\ Change(j)
Quiet   == IInv' /\ status' = status /\ \A k \in Jobs : HasExecutor(k)' <=> HasExecutor(k)

\* A job whose executors and status did not change stays sound.
LEMMA Untouched ==
  ASSUME NEW k \in Jobs, Sound(k), status'[k] = status[k],
         PipesOf(k)' = PipesOf(k), TasksOf(k)' = TasksOf(k), WorkersOn(k)' = WorkersOn(k)
  PROVE  Sound(k)' /\ (HasExecutor(k)' <=> HasExecutor(k))
  BY DEF Sound, AtMostOne, HasExecutor, Pending

\* Executors that are not written do not change.
LEMMA SameQueue == ASSUME queue' = queue PROVE \A k \in Jobs : TasksOf(k)' = TasksOf(k)
  BY DEF TasksOf
\* The same for the pipelines.
LEMMA SamePipes == ASSUME pipe' = pipe PROVE \A k \in Jobs : PipesOf(k)' = PipesOf(k)
  BY DEF PipesOf
\* The same for the workers.
LEMMA SameWorkers == ASSUME worker' = worker PROVE \A k \in Jobs : WorkersOn(k)' = WorkersOn(k)
  BY DEF WorkersOn

-----------------------------------------------------------------------------
(* Every effect keeps the invariant                                         *)

\* Statuses written by an executor are statuses.
LEMMA StatusType ==
  ASSUME TypeOK, NEW j \in Jobs, Works(j) \/ Settles(j)
  PROVE  status' \in [Jobs -> Statuses]
  BY DEF TypeOK, Works, Settles, Statuses

\* If one job is sound after a step and the others are untouched, all are.
LEMMA KeptByOne ==
  ASSUME IInv, NEW j \in Jobs, TypeOK', Shape', Sound(j)', Change(j),
         \A k \in Jobs \ {j} :
            /\ status'[k] = status[k]
            /\ PipesOf(k)' = PipesOf(k) /\ TasksOf(k)' = TasksOf(k)
            /\ WorkersOn(k)' = WorkersOn(k)
  PROVE  Kept(j)
  <1>1. \A k \in Jobs \ {j} : Sound(k)' /\ (HasExecutor(k)' <=> HasExecutor(k))
    BY Untouched DEF IInv
  <1>2. QED
    BY <1>1 DEF Kept, IInv, OneJob

\* A step that concerns no job keeps the invariant.
LEMMA IdlesKeeps ==
  ASSUME IInv, Idles
  PROVE  Quiet
  <1>1. TypeOK' /\ Shape'
    <2>1. Shape'
      BY DEF IInv, Idles, Shape
    <2>2. QED
      BY <2>1, TypeOKRest, TypeOKNext DEF IInv, Idles
  <1>2. \A k \in Jobs : Sound(k)' /\ (HasExecutor(k)' <=> HasExecutor(k))
    BY SameQueue, SamePipes, SameWorkers, Untouched DEF IInv, Idles
  <1>3. QED
    BY <1>1, <1>2 DEF Quiet, IInv, Idles

\* Deleting a row leaves its executors to find out.
LEMMA DeletesKeeps ==
  ASSUME IInv, NEW j \in Jobs, Deletes(j)
  PROVE  Kept(j)
  <1>1. TypeOK /\ Shape /\ Sound(j)
    BY DEF IInv
  <1>2. status' \in [Jobs -> Statuses]
    BY <1>1 DEF Deletes, TypeOK, Statuses
  <1>3. TypeOK' /\ Shape'
    <2>1. Shape'
      BY <1>1 DEF Deletes, Shape
    <2>2. QED
      BY <1>1, <1>2, <2>1, TypeOKRest, TypeOKNext DEF Deletes
  <1>4. \A k \in Jobs : /\ PipesOf(k)' = PipesOf(k) /\ TasksOf(k)' = TasksOf(k)
                        /\ WorkersOn(k)' = WorkersOn(k)
                        /\ k # j => status'[k] = status[k]
    BY <1>1, SameQueue, SamePipes, SameWorkers DEF Deletes, TypeOK
  <1>5. status'[j] = "deleted" /\ RowExists(j)
    BY <1>1 DEF Deletes, TypeOK
  <1>6. Sound(j)' /\ Change(j)
    BY <1>1, <1>4, <1>5 DEF Sound, HasExecutor, AtMostOne, Pending, Change, Abs, RowExists
  <1>7. QED
    BY <1>3, <1>4, <1>6, KeptByOne

\* Create and retry start one executor, for a job that has none.
LEMMA SpawnsKeeps ==
  ASSUME IInv, NEW j \in Jobs, Spawns(j)
  PROVE  Kept(j)
  <1>1. TypeOK /\ Shape /\ Sound(j)
    BY DEF IInv
  <1>2. PICK a \in Attempts : pipe' = [pipe EXCEPT ![j][a] = [step |-> "start", parked |-> FALSE]]
    BY DEF Spawns
  <1> DEFINE r == [step |-> "start", parked |-> FALSE]
  <1>3. r \in PipeRecords /\ PipeShape(r) /\ r.step # "none"
    BY DEF PipeRecords, PipeSteps, PipeShape
  <1>4. /\ pipe' \in [Jobs -> [Attempts -> PipeRecords]]
        /\ \A k \in Jobs, b \in Attempts : PipeShape(pipe'[k][b])
        /\ PipesOf(j)' = PipesOf(j) \cup {a}
        /\ \A k \in Jobs \ {j} : PipesOf(k)' = PipesOf(k)
    <2> HIDE DEF r
    <2> QED
      BY <1>1, <1>2, <1>3, PipeUpdate DEF r
  <1>5. status' \in [Jobs -> Statuses] /\ status'[j] = "running"
        /\ \A k \in Jobs \ {j} : status'[k] = status[k]
    BY <1>1 DEF Spawns, TypeOK, Statuses
  <1>6. \A k \in Jobs : TasksOf(k)' = TasksOf(k) /\ WorkersOn(k)' = WorkersOn(k)
    BY SameQueue, SameWorkers DEF Spawns
  <1>7. TypeOK' /\ Shape'
    <2>1. Shape'
      BY <1>1, <1>4 DEF Spawns, Shape
    <2>2. QED
      BY <1>1, <1>4, <1>5, <2>1, TypeOKRest, TypeOKNext DEF Spawns
  <1>8. status[j] \in {"absent", "failed"} /\ ~HasExecutor(j)
    BY <1>1 DEF Spawns, Sound
  <1>9. Sound(j)' /\ Change(j)
    BY <1>4, <1>5, <1>6, <1>8 DEF Sound, HasExecutor, AtMostOne, Pending, Change, Abs
  <1>10. QED
    BY <1>4, <1>5, <1>6, <1>7, <1>9, KeptByOne

\* A pipeline that goes on remains the only executor.
LEMMA PipeMovesKeeps ==
  ASSUME IInv, NEW j \in Jobs, NEW a \in Attempts, PipeMoves(j, a)
  PROVE  Kept(j)
  <1>1. TypeOK /\ Shape /\ Sound(j) /\ a \in PipesOf(j)
    BY DEF IInv, PipeMoves, PipesOf
  <1>2. PICK r \in PipeRecords :
            PipeShape(r) /\ r.step # "none" /\ pipe' = [pipe EXCEPT ![j][a] = r]
    BY DEF PipeMoves
  <1>3. /\ pipe' \in [Jobs -> [Attempts -> PipeRecords]]
        /\ \A k \in Jobs, b \in Attempts : PipeShape(pipe'[k][b])
        /\ PipesOf(j)' = PipesOf(j)
        /\ \A k \in Jobs \ {j} : PipesOf(k)' = PipesOf(k)
    <2>1. PipesOf(j)' = IF r.step = "none" THEN PipesOf(j) \ {a} ELSE PipesOf(j) \cup {a}
      BY <1>1, <1>2, PipeUpdate
    <2>2. PipesOf(j)' = PipesOf(j)
      BY <1>1, <1>2, <2>1
    <2>3. QED
      BY <1>1, <1>2, <2>2, PipeUpdate
  <1>4. \A k \in Jobs : TasksOf(k)' = TasksOf(k) /\ WorkersOn(k)' = WorkersOn(k)
    BY SameQueue, SameWorkers DEF PipeMoves
  <1>5. \A k \in Jobs \ {j} : status'[k] = status[k]
    BY <1>1 DEF PipeMoves, Works, TypeOK
  <1>6. TypeOK' /\ Shape'
    <2>1. Shape'
      BY <1>1, <1>3 DEF PipeMoves, Shape
    <2>2. QED
      BY <1>1, <1>3, <2>1, StatusType, TypeOKRest, TypeOKNext DEF PipeMoves
  <1>7. status'[j] = status[j] \/ (Pending(j) /\ status'[j] = "running")
    BY <1>1 DEF PipeMoves, Works, TypeOK, RowExists, Pending, Sound, HasExecutor
  <1>8. Sound(j)' /\ Change(j)
    BY <1>1, <1>3, <1>4, <1>7 DEF Sound, HasExecutor, AtMostOne, Pending, Change, Abs
  <1>9. QED
    BY <1>3, <1>4, <1>5, <1>6, <1>8, KeptByOne

\* An executor with a row has a pending one, so settling it is the promise's step.
LEMMA SettlesStatus ==
  ASSUME IInv, NEW j \in Jobs, HasExecutor(j), Settles(j)
  PROVE  /\ \A k \in Jobs \ {j} : status'[k] = status[k]
         /\ \/ Pending(j) /\ status'[j] \in {"done", "failed"}
            \/ status[j] = "deleted" /\ status'[j] = "deleted"
  <1>1. TypeOK /\ Sound(j)
    BY DEF IInv
  <1>2. RowExists(j) => Pending(j)
    BY <1>1 DEF Sound, RowExists, Pending
  <1>3. ~RowExists(j) => status[j] = "deleted"
    BY <1>1 DEF Sound, RowExists, TypeOK, Statuses
  <1>4. QED
    BY <1>1, <1>2, <1>3 DEF Settles, TypeOK

\* A pipeline that ends settles the row in the same step.
LEMMA PipeEndsKeeps ==
  ASSUME IInv, NEW j \in Jobs, NEW a \in Attempts, PipeEnds(j, a)
  PROVE  Kept(j)
  <1>1. TypeOK /\ Shape /\ Sound(j) /\ a \in PipesOf(j)
    BY DEF IInv, PipeEnds, PipesOf
  <1>2. /\ pipe' \in [Jobs -> [Attempts -> PipeRecords]]
        /\ \A k \in Jobs, b \in Attempts : PipeShape(pipe'[k][b])
        /\ PipesOf(j)' = PipesOf(j) \ {a}
        /\ \A k \in Jobs \ {j} : PipesOf(k)' = PipesOf(k)
    <2>1. NoTask.step = "none" /\ pipe' = [pipe EXCEPT ![j][a] = NoTask]
      BY DEF PipeEnds, EndPipe, NoTask
    <2>2. QED
      BY <1>1, <2>1, PipeUpdate, NoTaskType
  <1>3. \A k \in Jobs : TasksOf(k)' = TasksOf(k) /\ WorkersOn(k)' = WorkersOn(k)
    BY SameQueue, SameWorkers DEF PipeEnds
  <1>4. HasExecutor(j) /\ Settles(j)
    BY <1>1 DEF HasExecutor, PipeEnds
  <1>5. TypeOK' /\ Shape'
    <2>1. Shape'
      BY <1>1, <1>2 DEF PipeEnds, Shape
    <2>2. QED
      BY <1>1, <1>2, <2>1, StatusType, TypeOKRest, TypeOKNext DEF PipeEnds
  <1>6. ~HasExecutor(j)'
    BY <1>1, <1>2, <1>3 DEF Sound, AtMostOne, HasExecutor
  <1>7. Sound(j)' /\ Change(j)
    BY <1>4, <1>6, SettlesStatus DEF Sound, HasExecutor, AtMostOne, Pending, Change, Abs
  <1>8. QED
    BY <1>2, <1>3, <1>4, <1>5, <1>7, SettlesStatus, KeptByOne

\* The pipeline's last act puts the task: one executor becomes another.
LEMMA PipeHandsOverKeeps ==
  ASSUME IInv, NEW j \in Jobs, NEW a \in Attempts, PipeHandsOver(j, a)
  PROVE  Kept(j)
  <1>1. TypeOK /\ Shape /\ Sound(j) /\ a \in PipesOf(j)
    BY DEF IInv, PipeHandsOver, PipesOf
  <1>2. /\ pipe' \in [Jobs -> [Attempts -> PipeRecords]]
        /\ \A k \in Jobs, b \in Attempts : PipeShape(pipe'[k][b])
        /\ PipesOf(j)' = PipesOf(j) \ {a}
        /\ \A k \in Jobs \ {j} : PipesOf(k)' = PipesOf(k)
    <2>1. NoTask.step = "none" /\ pipe' = [pipe EXCEPT ![j][a] = NoTask]
      BY DEF PipeHandsOver, EndPipe, NoTask
    <2>2. QED
      BY <1>1, <2>1, PipeUpdate, NoTaskType
  <1>3. /\ queue' \in Seq(Jobs)
        /\ TasksOf(j)' = TasksOf(j) \cup {Len(queue) + 1}
        /\ \A k \in Jobs \ {j} : TasksOf(k)' = TasksOf(k)
    BY <1>1, TaskAdded DEF PipeHandsOver
  <1>4. \A k \in Jobs : WorkersOn(k)' = WorkersOn(k)
    BY SameWorkers DEF PipeHandsOver
  <1>5. /\ status' \in [Jobs -> Statuses]
        /\ \A k \in Jobs \ {j} : status'[k] = status[k]
    BY <1>1 DEF PipeHandsOver, TypeOK, Statuses
  <1>6. TypeOK' /\ Shape'
    <2>1. Shape'
      BY <1>1, <1>2 DEF PipeHandsOver, Shape
    <2>2. QED
      BY <1>1, <1>2, <1>3, <1>5, <2>1, TypeOKRest, TypeOKNext DEF PipeHandsOver
  <1>7. \/ Pending(j) /\ status'[j] = "queued"
        \/ status[j] = "deleted" /\ status'[j] = "deleted"
    BY <1>1 DEF PipeHandsOver, TypeOK, Statuses, RowExists, Pending, Sound, HasExecutor
  <1>8. PipesOf(j)' = {} /\ TasksOf(j)' = {Len(queue) + 1} /\ WorkersOn(j)' = {}
    BY <1>1, <1>2, <1>3, <1>4 DEF Sound, AtMostOne
  <1>9. Sound(j)' /\ Change(j)
    <2>1. HasExecutor(j) /\ HasExecutor(j)'
      BY <1>1, <1>8 DEF HasExecutor
    <2>2. Change(j)
      BY <1>7, <2>1 DEF Change, Abs, Pending
    <2>3. QED
      BY <1>7, <1>8, <2>1, <2>2 DEF Sound, AtMostOne, Pending
  <1>10. QED
    BY <1>2, <1>3, <1>4, <1>5, <1>6, <1>9, KeptByOne

\* A worker that goes on remains the only executor.
LEMMA WorkerMovesKeeps ==
  ASSUME IInv, NEW w \in Workers, WorkerMoves(w)
  PROVE  Quiet \/ \E j \in Jobs : Kept(j)
  <1>1. TypeOK /\ Shape /\ \A j \in Jobs : Sound(j)
    BY DEF IInv
  <1>2. PICK r \in WorkerRecords :
            WorkShape(r) /\ r.job = worker[w].job /\ worker' = [worker EXCEPT ![w] = r]
    BY DEF WorkerMoves
  <1>3. /\ worker' \in [Workers -> WorkerRecords]
        /\ \A v \in Workers : WorkShape(worker'[v])
        /\ \A k \in Jobs : WorkersOn(k)' =
              IF r.job = k THEN WorkersOn(k) \cup {w} ELSE WorkersOn(k) \ {w}
    BY <1>1, <1>2, WorkerUpdate
  <1>4. \A k \in Jobs : WorkersOn(k)' = WorkersOn(k)
    BY <1>2, <1>3 DEF WorkersOn
  <1>5. \A k \in Jobs : PipesOf(k)' = PipesOf(k) /\ TasksOf(k)' = TasksOf(k)
    BY SamePipes, SameQueue DEF WorkerMoves
  <1>6. Shape'
    BY <1>1, <1>3 DEF WorkerMoves, Shape
  <1>7. worker[w].job \in Jobs \cup {NoJob}
    BY <1>1 DEF TypeOK, WorkerRecords
  <1>8. CASE worker[w].job = NoJob
    <2>1. status' = status
      BY <1>8 DEF WorkerMoves
    <2>2. TypeOK'
      BY <1>1, <1>3, <1>6, <2>1, TypeOKRest, TypeOKNext DEF WorkerMoves
    <2>3. \A k \in Jobs : Sound(k)' /\ (HasExecutor(k)' <=> HasExecutor(k))
      BY <1>1, <1>4, <1>5, <2>1, Untouched
    <2>4. QED
      BY <1>6, <2>1, <2>2, <2>3 DEF Quiet, IInv
  <1>9. CASE worker[w].job \in Jobs
    <2> PICK j \in Jobs : j = worker[w].job
      BY <1>9
    <2>1. j # NoJob /\ w \in WorkersOn(j)
      BY <1>9, JobsAssumption DEF JobsAssumption, WorkersOn
    <2>2. Works(j)
      BY <2>1 DEF WorkerMoves
    <2>3. TypeOK'
      BY <1>1, <1>3, <1>6, <1>9, <2>2, StatusType, TypeOKRest, TypeOKNext DEF WorkerMoves
    <2>4. \A k \in Jobs \ {j} : status'[k] = status[k]
      BY <1>1, <2>2 DEF Works, TypeOK
    <2>5. status'[j] = status[j] \/ (Pending(j) /\ status'[j] = "running")
      BY <1>1, <1>9, <2>1, <2>2 DEF Works, TypeOK, RowExists, Pending, Sound, HasExecutor
    <2>6. HasExecutor(j) /\ HasExecutor(j)'
      BY <1>4, <1>9, <2>1 DEF HasExecutor
    <2>7. Sound(j)
      BY <1>1, <1>9
    <2>8. Sound(j)' /\ Change(j)
      BY <1>4, <1>5, <1>9, <2>5, <2>6, <2>7 DEF Sound, AtMostOne, Pending, Change, Abs
    <2>9. QED
      BY <1>4, <1>5, <1>6, <1>9, <2>3, <2>4, <2>8, KeptByOne
  <1>10. QED
    BY <1>7, <1>8, <1>9

\* A worker that lets go settles the row in the same step.
LEMMA WorkerEndsKeeps ==
  ASSUME IInv, NEW w \in Workers, WorkerEnds(w)
  PROVE  \E j \in Jobs : Kept(j)
  <1> PICK j \in Jobs : j = worker[w].job
    BY DEF IInv, WorkerEnds, TypeOK, WorkerRecords
  <1>1. TypeOK /\ Shape /\ \A k \in Jobs : Sound(k)
    BY DEF IInv
  <1>2. j \in Jobs /\ j # NoJob /\ w \in WorkersOn(j)
    BY <1>1 DEF WorkerEnds, TypeOK, WorkerRecords, WorkersOn
  <1>3. /\ worker' \in [Workers -> WorkerRecords]
        /\ \A v \in Workers : WorkShape(worker'[v])
        /\ \A k \in Jobs : WorkersOn(k)' =
              IF IdleWork.job = k THEN WorkersOn(k) \cup {w} ELSE WorkersOn(k) \ {w}
    BY <1>1, WorkerUpdate, IdleWorkType DEF WorkerEnds
  <1>4. \A k \in Jobs : WorkersOn(k)' = WorkersOn(k) \ {w}
    BY <1>3, IdleWorkType, JobsAssumption DEF JobsAssumption
  <1>5. \A k \in Jobs \ {j} : WorkersOn(k)' = WorkersOn(k)
    BY <1>2, <1>4 DEF WorkersOn
  <1>6. \A k \in Jobs : PipesOf(k)' = PipesOf(k) /\ TasksOf(k)' = TasksOf(k)
    BY SamePipes, SameQueue DEF WorkerEnds
  <1>7. HasExecutor(j) /\ Settles(j)
    BY <1>2 DEF HasExecutor, WorkerEnds
  <1>8. TypeOK' /\ Shape'
    <2>1. Shape'
      BY <1>1, <1>3 DEF WorkerEnds, Shape
    <2>2. QED
      BY <1>1, <1>2, <1>3, <1>7, <2>1, StatusType, TypeOKRest, TypeOKNext DEF WorkerEnds
  <1>9. Sound(j)
    BY <1>1, <1>2
  <1>10. PipesOf(j)' = {} /\ TasksOf(j)' = {} /\ WorkersOn(j)' = {}
    BY <1>2, <1>4, <1>6, <1>9 DEF Sound, AtMostOne
  <1>11. Sound(j)' /\ Change(j)
    BY <1>2, <1>7, <1>10, SettlesStatus DEF Sound, HasExecutor, AtMostOne, Pending, Change, Abs
  <1>12. QED
    BY <1>2, <1>5, <1>6, <1>7, <1>8, <1>11, SettlesStatus, KeptByOne

\* The task taken was the job's only executor; the worker is now, or nobody.
LEMMA WorkerTakesKeeps ==
  ASSUME IInv, NEW w \in Workers, WorkerTakes(w)
  PROVE  \E j \in Jobs : Kept(j)
  <1>1. TypeOK /\ Shape /\ \A k \in Jobs : Sound(k)
    BY DEF IInv
  <1>2. queue # <<>> /\ queue' = Tail(queue) /\ worker[w].job = NoJob /\ RestOK'
        /\ UNCHANGED pipe
    BY DEF WorkerTakes
  <1>3. PICK j \in Jobs : j = Head(queue)
    BY <1>1, <1>2, TaskTaken
  <1>4. /\ queue' \in Seq(Jobs) /\ 1 \in TasksOf(j)
        /\ \A k \in Jobs : TasksOf(k)' = {i \in 1..(Len(queue) - 1) : i + 1 \in TasksOf(k)}
    BY <1>1, <1>2, <1>3, TaskTaken
  <1>5. \A k \in Jobs : PipesOf(k)' = PipesOf(k)
    BY <1>2, SamePipes
  <1>6. \A k \in Jobs : w \notin WorkersOn(k)
    BY <1>2, JobsAssumption DEF WorkersOn, JobsAssumption
  <1>7. Sound(j) /\ TasksOf(j)' = {} /\ PipesOf(j) = {} /\ WorkersOn(j) = {}
    <2>1. Sound(j)
      BY <1>1
    <2>2. \A i \in TasksOf(j) : i = 1
      BY <1>4, <2>1 DEF Sound, AtMostOne
    <2>3. QED
      BY <1>4, <2>1, <2>2 DEF Sound
  \* The tasks of the others only move up.
  <1>8. ASSUME NEW k \in Jobs \ {j}
        PROVE  AtMostOne(TasksOf(k)') /\ (TasksOf(k)' = {} <=> TasksOf(k) = {})
    <2>1. Sound(k) /\ 1 \notin TasksOf(k)
      <3>1. queue \in Seq(Jobs) /\ Head(queue) = queue[1]
        BY <1>1, <1>2 DEF TypeOK
      <3>2. QED
        BY <1>1, <1>3, <3>1 DEF TasksOf
    <2>2. AtMostOne(TasksOf(k)')
      BY <1>4, <2>1 DEF Sound, AtMostOne
    <2>3. ASSUME NEW i \in TasksOf(k) PROVE i - 1 \in TasksOf(k)'
      <3>1. queue \in Seq(Jobs) /\ i \in 1..Len(queue) /\ i # 1 /\ Len(queue) \in Nat
        BY <1>1, <2>1 DEF TypeOK, TasksOf
      <3>2. i - 1 \in 1..(Len(queue) - 1) /\ (i - 1) + 1 = i
        BY <3>1
      <3>3. QED
        BY <1>4, <3>2
    <2>4. QED
      BY <1>4, <2>2, <2>3
  <1>9. /\ worker' \in [Workers -> WorkerRecords] /\ Shape'
        /\ status' \in [Jobs -> Statuses]
        /\ \A k \in Jobs \ {j} : WorkersOn(k)' = WorkersOn(k) /\ status'[k] = status[k]
        /\ \/ /\ RowExists(j) /\ Works(j)
              /\ WorkersOn(j)' = {w}
           \/ /\ ~RowExists(j) /\ status' = status
              /\ WorkersOn(j)' = {}
    <2>1. ASSUME NEW r \in WorkerRecords, WorkShape(r), worker' = [worker EXCEPT ![w] = r]
          PROVE  /\ worker' \in [Workers -> WorkerRecords] /\ Shape'
                 /\ \A k \in Jobs : WorkersOn(k)' =
                       IF r.job = k THEN WorkersOn(k) \cup {w} ELSE WorkersOn(k) \ {w}
      <3>1. /\ worker' \in [Workers -> WorkerRecords]
            /\ \A v \in Workers : WorkShape(worker'[v])
            /\ \A k \in Jobs : WorkersOn(k)' =
                  IF r.job = k THEN WorkersOn(k) \cup {w} ELSE WorkersOn(k) \ {w}
        BY <1>1, <2>1, WorkerUpdate
      <3>2. QED
        BY <1>1, <1>2, <3>1 DEF Shape
    <2>2. CASE RowExists(j)
      <3>1. PICK r \in WorkerRecords :
                WorkShape(r) /\ r.job = j /\ worker' = [worker EXCEPT ![w] = r]
        BY <1>3, <2>2 DEF WorkerTakes
      <3>2. /\ worker' \in [Workers -> WorkerRecords] /\ Shape'
            /\ WorkersOn(j)' = {w}
            /\ \A k \in Jobs \ {j} : WorkersOn(k)' = WorkersOn(k)
        <4>1. /\ worker' \in [Workers -> WorkerRecords] /\ Shape'
              /\ \A k \in Jobs : WorkersOn(k)' =
                    IF r.job = k THEN WorkersOn(k) \cup {w} ELSE WorkersOn(k) \ {w}
          BY <2>1, <3>1
        <4>2. ASSUME NEW k \in Jobs \ {j} PROVE WorkersOn(k)' = WorkersOn(k)
          BY <1>6, <3>1, <4>1
        <4>3. WorkersOn(j)' = {w}
          BY <1>7, <3>1, <4>1
        <4>4. QED
          BY <4>1, <4>2, <4>3
      <3>3. Works(j)
        BY <1>3, <2>2 DEF WorkerTakes
      <3>4. \A k \in Jobs \ {j} : status'[k] = status[k]
        BY <1>1, <3>3 DEF Works, TypeOK
      <3>5. status' \in [Jobs -> Statuses]
        BY <1>1, <3>3, StatusType
      <3>6. QED
        BY <2>2, <3>2, <3>3, <3>4, <3>5
    <2>3. CASE ~RowExists(j)
      <3>1. status' = status /\ worker' = [worker EXCEPT ![w] = IdleWork]
        BY <1>3, <2>3 DEF WorkerTakes
      <3>2. /\ worker' \in [Workers -> WorkerRecords] /\ Shape'
            /\ \A k \in Jobs : WorkersOn(k)' = WorkersOn(k)
        BY <1>6, <2>1, <3>1, IdleWorkType, JobsAssumption DEF JobsAssumption
      <3>3. QED
        BY <1>1, <1>7, <2>3, <3>1, <3>2 DEF TypeOK
    <2>4. QED
      BY <2>2, <2>3
  <1>10. TypeOK'
    BY <1>2, <1>4, <1>9, <1>1, TypeOKNext DEF TypeOK
  <1>11. \A k \in Jobs \ {j} : Sound(k)' /\ (HasExecutor(k)' <=> HasExecutor(k))
    BY <1>1, <1>5, <1>8, <1>9 DEF Sound, HasExecutor, Pending
  <1>12. HasExecutor(j)
    BY <1>4 DEF HasExecutor
  <1>13. Sound(j)' /\ Change(j)
    <2>1. CASE /\ RowExists(j) /\ Works(j)
               /\ WorkersOn(j)' = {w}
      <3>1. Pending(j) /\ Pending(j)'
        BY <1>1, <1>7, <1>12, <2>1 DEF Works, TypeOK, RowExists, Pending, Sound
      <3>2. QED
        BY <1>5, <1>7, <1>12, <2>1, <3>1
        DEF Sound, AtMostOne, HasExecutor, Pending, Change, Abs
    <2>2. CASE /\ ~RowExists(j) /\ status' = status
               /\ WorkersOn(j)' = {}
      <3>1. status[j] = "deleted"
        BY <1>1, <1>7, <1>12, <2>2 DEF Sound, RowExists, TypeOK, Statuses
      <3>2. QED
        BY <1>5, <1>7, <1>12, <2>2, <3>1
        DEF Sound, AtMostOne, HasExecutor, Pending, Change, Abs
    <2>3. QED
      BY <1>9, <2>1, <2>2
  <1>14. QED
    BY <1>9, <1>10, <1>11, <1>13 DEF Kept, IInv, OneJob

\* The queue of a restart holds exactly the jobs it is made of, each once.
LEMMA SetToSeqsOnce ==
  ASSUME NEW S, IsFiniteSet(S), NEW q \in SetToSeqs(S)
  PROVE  /\ q \in Seq(S) /\ DOMAIN q = 1..Cardinality(S)
         /\ \A i, k \in DOMAIN q : q[i] = q[k] => i = k
         /\ \A x \in S : \E i \in DOMAIN q : q[i] = x
  <1> DEFINE n == Cardinality(S)
  <1>1. n \in Nat
    BY FS_CardinalityType
  <1>2. q \in [1..n -> S] /\ \A i, k \in 1..n : q[i] = q[k] => i = k
    BY DEF SetToSeqs
  <1>3. q \in Seq(S) /\ DOMAIN q = 1..n
    BY <1>1, <1>2
  <1>4. q \in Injection(1..n, S)
    BY <1>2 DEF Injection, IsInjective
  <1>5. Cardinality(1..n) = Cardinality(S)
    BY <1>1, FS_Interval
  <1>6. q \in Surjection(1..n, S)
    BY <1>4, <1>5, FS_Injection
  <1>7. \A x \in S : \E i \in 1..n : q[i] = x
    BY <1>6 DEF Surjection
  <1>8. QED
    BY <1>2, <1>3, <1>7

\* After a restart a job is held exactly if the table says it is pending.
LEMMA RestartKeeps ==
  ASSUME IInv, Restart
  PROVE  /\ IInv'
         /\ \A j \in Jobs :
               /\ HasExecutor(j)' <=> Pending(j)'
               /\ \/ status'[j] = status[j]
                  \/ Pending(j) /\ status'[j] = "failed"
  <1> DEFINE S == {j \in Jobs : Pending(j) /\ kind[j] = "youtube"}
  <1>1. TypeOK /\ Shape
    BY DEF IInv
  <1>2. IsFiniteSet(S)
    BY JobsAssumption, FS_Subset DEF JobsAssumption
  <1>3. queue' \in SetToSeqs(S)
    BY DEF Restart, StartsWith
  <1>4. /\ queue' \in Seq(S)
        /\ \A i, k \in DOMAIN queue' : queue'[i] = queue'[k] => i = k
        /\ \A x \in S : \E i \in DOMAIN queue' : queue'[i] = x
    <2> HIDE DEF S
    <2> QED
      BY <1>2, <1>3, SetToSeqsOnce
  <1>5. /\ pipe' = [j \in Jobs |-> [a \in Attempts |-> NoTask]]
        /\ worker' = [w \in Workers |-> IdleWork]
        /\ status' = [j \in Jobs |->
              IF Pending(j) /\ kind[j] # "youtube" THEN "failed" ELSE status[j]]
    BY DEF Restart, StartsWith
  <1>6. \A j \in Jobs : PipesOf(j)' = {} /\ WorkersOn(j)' = {}
    BY <1>5, IdleWorkType, JobsAssumption DEF PipesOf, WorkersOn, NoTask, JobsAssumption
  <1>7. ASSUME NEW j \in Jobs
        PROVE  AtMostOne(TasksOf(j)') /\ (TasksOf(j)' # {} <=> j \in S)
    <2>1. AtMostOne(TasksOf(j)')
      BY <1>4 DEF TasksOf, AtMostOne
    <2>2. ASSUME NEW i \in TasksOf(j)' PROVE j \in S
      BY <1>4 DEF TasksOf
    <2>3. ASSUME j \in S PROVE TasksOf(j)' # {}
      BY <1>4, <2>3 DEF TasksOf
    <2>4. QED
      BY <2>1, <2>2, <2>3
  <1>8. ASSUME NEW j \in Jobs
        PROVE  /\ Pending(j)' <=> j \in S
               /\ \/ status'[j] = status[j]
                  \/ Pending(j) /\ status'[j] = "failed"
    BY <1>5 DEF Pending
  <1>9. \A j \in Jobs : Sound(j)' /\ (HasExecutor(j)' <=> Pending(j)')
    BY <1>6, <1>7, <1>8 DEF Sound, AtMostOne, HasExecutor, Pending
  <1>10. Shape'
    BY <1>5, NoTaskType, IdleWorkType DEF Shape
  <1>11. /\ pipe' \in [Jobs -> [Attempts -> PipeRecords]]
         /\ worker' \in [Workers -> WorkerRecords]
    BY <1>5, NoTaskType, IdleWorkType
  <1>12. status' \in [Jobs -> Statuses]
    BY <1>1, <1>5 DEF TypeOK, Statuses
  <1>13. queue' \in Seq(Jobs)
    BY <1>4
  <1>14. RestOK'
    <2>1. cached' \in [Jobs -> BOOLEAN]
      BY <1>1 DEF Restart, StartsWith, TypeOK
    <2>2. restarts' \in 0..MaxRestarts
      BY <1>1, BoundsAssumption DEF Restart, StartsWith, TypeOK, BoundsAssumption
    <2>3. buffer' \in [Jobs -> BOOLEAN] /\ paused' \in BOOLEAN
      BY DEF Restart, StartsWith
    <2>4. QED
      BY <1>1, <2>1, <2>2, <2>3 DEF Restart, StartsWith, TypeOK, RestOK
  <1>15. QED
    BY <1>8, <1>9, <1>10, <1>11, <1>12, <1>13, <1>14, TypeOKNext DEF IInv

-----------------------------------------------------------------------------
(* The invariant, and the promise                                           *)

\* A step that concerns one job is a step of the promise, or none.
LEMMA KeptRefines ==
  ASSUME IInv, NEW j \in Jobs, Kept(j)
  PROVE  [Promise!Next]_<<AbsState, AbsHeld>>
  <1>1. \A k \in Jobs \ {j} :
            AbsState'[k] = AbsState[k] /\ AbsHeld'[k] = AbsHeld[k]
    <2>1. \A k \in Jobs : HasExecutor(k) \in BOOLEAN /\ HasExecutor(k)' \in BOOLEAN
      BY DEF HasExecutor
    <2>2. \A k \in Jobs \ {j} : AbsHeld'[k] = AbsHeld[k]
      BY <2>1 DEF Kept, OneJob, AbsHeld
    <2>3. \A k \in Jobs \ {j} : AbsState'[k] = AbsState[k]
      BY DEF Kept, OneJob, AbsState, Pending
    <2>4. QED
      BY <2>2, <2>3
  <1>2. /\ AbsState[j] = Abs(j) /\ AbsState'[j] = Abs(j)'
        /\ AbsHeld[j] = HasExecutor(j) /\ AbsHeld'[j] = HasExecutor(j)'
    BY DEF AbsState, AbsHeld, Abs
  <1>3. /\ AbsState = [k \in Jobs |-> AbsState[k]] /\ AbsState' = [k \in Jobs |-> AbsState'[k]]
        /\ AbsHeld = [k \in Jobs |-> AbsHeld[k]] /\ AbsHeld' = [k \in Jobs |-> AbsHeld'[k]]
    BY DEF AbsState, AbsHeld
  <1>4. ASSUME NEW from, NEW to, NEW now, Abs(j) = from, Abs(j)' = to, HasExecutor(j)' = now
        PROVE  Promise!Move(j, from, to, now)
    <2>1. AbsState' = [AbsState EXCEPT ![j] = to]
      BY <1>1, <1>2, <1>3, <1>4
    <2>2. AbsHeld' = [AbsHeld EXCEPT ![j] = now]
      BY <1>1, <1>2, <1>3, <1>4
    <2>3. QED
      BY <1>2, <1>4, <2>1, <2>2 DEF Promise!Move
  <1>5. HasExecutor(j) \in BOOLEAN /\ HasExecutor(j)' \in BOOLEAN
    BY DEF HasExecutor
  <1>6. CASE Abs(j)' = Abs(j) /\ (HasExecutor(j)' <=> HasExecutor(j))
    BY <1>1, <1>2, <1>3, <1>5, <1>6
  <1>7. CASE /\ Abs(j) \in {"absent", "failed"} /\ Abs(j)' = "open"
             /\ ~HasExecutor(j) /\ HasExecutor(j)'
    BY <1>2, <1>4, <1>5, <1>7 DEF Promise!Next, Promise!Accept, Promise!Retry
  <1>8. CASE /\ Abs(j) = "open" /\ Abs(j)' \in {"done", "failed"}
             /\ HasExecutor(j) /\ ~HasExecutor(j)'
    BY <1>2, <1>4, <1>5, <1>8 DEF Promise!Next, Promise!Settle
  <1>9. CASE /\ Abs(j) = "deleted" /\ Abs(j)' = "deleted"
             /\ HasExecutor(j) /\ ~HasExecutor(j)'
    BY <1>2, <1>4, <1>5, <1>9 DEF Promise!Next, Promise!LetGo
  <1>10. CASE /\ Abs(j) \in {"open", "done", "failed"} /\ Abs(j)' = "deleted"
              /\ (HasExecutor(j)' <=> HasExecutor(j))
    <2>1. AbsState' = [AbsState EXCEPT ![j] = "deleted"] /\ AbsHeld' = AbsHeld
      BY <1>1, <1>2, <1>3, <1>5, <1>10
    <2>2. QED
      BY <1>2, <1>10, <2>1 DEF Promise!Next, Promise!Delete
  <1>11. Change(j)
    BY DEF Kept
  <1>12. QED
    BY <1>6, <1>7, <1>8, <1>9, <1>10, <1>11 DEF Change

\* A restart is the promise's Recover.
LEMMA RestartRefines ==
  ASSUME IInv, Restart
  PROVE  Promise!Recover
  <1>1. \A j \in Jobs : /\ HasExecutor(j)' <=> Pending(j)'
                        /\ \/ status'[j] = status[j]
                           \/ Pending(j) /\ status'[j] = "failed"
    BY RestartKeeps
  <1> DEFINE lost == {j \in Jobs : Pending(j) /\ status'[j] = "failed"}
  <1>2. lost \in SUBSET {j \in Jobs : AbsState[j] = "open"}
    BY DEF AbsState
  <1>3. AbsState' = [j \in Jobs |-> IF j \in lost THEN "failed" ELSE AbsState[j]]
    BY <1>1 DEF AbsState, Pending
  <1>4. AbsHeld' = [j \in Jobs |-> AbsState'[j] = "open"]
    <2>1. \A j \in Jobs : AbsState'[j] = "open" <=> Pending(j)'
      BY RestartKeeps DEF AbsState, Pending, IInv, TypeOK, Statuses
    <2>2. QED
      BY <1>1, <2>1 DEF AbsHeld, HasExecutor
  <1>5. QED
    BY <1>2, <1>3, <1>4 DEF Promise!Recover

\* A step that concerns no job is a stutter of the promise.
LEMMA QuietRefines ==
  ASSUME Quiet
  PROVE  UNCHANGED <<AbsState, AbsHeld>>
  <1>1. \A k \in Jobs : HasExecutor(k) \in BOOLEAN /\ HasExecutor(k)' \in BOOLEAN
    BY DEF HasExecutor
  <1>2. AbsHeld' = AbsHeld
    BY <1>1 DEF Quiet, AbsHeld
  <1>3. AbsState' = AbsState
    BY DEF Quiet, AbsState, Pending
  <1>4. QED
    BY <1>2, <1>3

\* Both levels together: what every step of the daemon keeps and implements.
LEMMA StepKeeps ==
  ASSUME IInv, [Next]_vars
  PROVE  IInv' /\ [Promise!Next]_<<AbsState, AbsHeld>>
  <1>1. TypeOK /\ RestOK
    BY TypeOKRest DEF IInv
  <1>2. ASSUME NEW j \in Jobs, Kept(j)
        PROVE  IInv' /\ [Promise!Next]_<<AbsState, AbsHeld>>
    BY <1>2, KeptRefines DEF Kept
  <1>3. ASSUME Idles
        PROVE  IInv' /\ [Promise!Next]_<<AbsState, AbsHeld>>
    BY <1>3, IdlesKeeps, QuietRefines DEF Quiet
  <1>4. ASSUME NEW j \in Jobs, CreateJob(j) \/ RetryJob(j)
        PROVE  IInv' /\ [Promise!Next]_<<AbsState, AbsHeld>>
    <2>1. SetRow(j, "running", "extracting") /\ Spawn(j) /\ status[j] \in {"absent", "failed"}
      BY <1>4 DEF CreateJob, RetryJob
    <2>2. status' = [status EXCEPT ![j] = "running"] /\ stage' \in [Jobs -> Stages]
      BY <1>1, <2>1, SetRowEffect DEF Stages
    <2>3. attempts' \in [Jobs -> 0..MaxAttempts] /\ attempts[j] + 1 \in Attempts
      BY <1>1, <2>1, AttemptsAssumption DEF Spawn, RestOK, Attempts, AttemptsAssumption
    <2>4. kind' \in [Jobs -> AllKinds]
      BY <1>1, <1>4, KindsAssumption DEF CreateJob, RetryJob, RestOK, KindsAssumption
    <2>5. RestOK'
      BY <1>1, <1>4, <2>2, <2>3, <2>4 DEF CreateJob, RetryJob, RestOK
    <2>6. UNCHANGED <<queue, worker>>
      BY <1>4 DEF CreateJob, RetryJob
    <2>7. Spawns(j)
      BY <2>1, <2>2, <2>3, <2>5, <2>6 DEF Spawn, Spawns
    <2>8. QED
      BY <1>2, <2>7, SpawnsKeeps
  <1>5. ASSUME NEW j \in Jobs, DeleteJob(j)
        PROVE  IInv' /\ [Promise!Next]_<<AbsState, AbsHeld>>
    <2>1. RestOK'
      BY <1>1, <1>5 DEF DeleteJob, RestOK, counts
    <2>2. Deletes(j)
      BY <1>5, <2>1 DEF DeleteJob, Deletes
    <2>3. QED
      BY <1>2, <2>2, DeletesKeeps
  <1>6. ASSUME Pause \/ Resume
        PROVE  IInv' /\ [Promise!Next]_<<AbsState, AbsHeld>>
    <2>1. pauses' \in 0..MaxPauses
      BY <1>1, <1>6, BoundsAssumption DEF Pause, Resume, RestOK, counts, BoundsAssumption
    <2>2. RestOK'
      BY <1>1, <1>6, <2>1 DEF Pause, Resume, RestOK, row, counts
    <2>3. Idles
      BY <1>6, <2>2 DEF Pause, Resume, Idles, row
    <2>4. QED
      BY <1>3, <2>3
  <1>7. ASSUME NEW j \in Jobs, NEW a \in Attempts, PipelineStep(j, a)
        PROVE  IInv' /\ [Promise!Next]_<<AbsState, AbsHeld>>
    BY <1>2, <1>7, PipelineEffect, PipeMovesKeeps, PipeEndsKeeps, PipeHandsOverKeeps
  <1>8. ASSUME NEW w \in Workers, WorkerStep(w)
        PROVE  IInv' /\ [Promise!Next]_<<AbsState, AbsHeld>>
    <2>1. Quiet \/ \E j \in Jobs : Kept(j)
      BY <1>8, WorkerEffect, WorkerTakesKeeps, WorkerMovesKeeps, WorkerEndsKeeps
    <2>2. QED
      BY <1>2, <2>1, QuietRefines DEF Quiet
  <1>9. ASSUME Restart
        PROVE  IInv' /\ [Promise!Next]_<<AbsState, AbsHeld>>
    BY <1>9, RestartKeeps, RestartRefines DEF Promise!Next
  <1>10. ASSUME UNCHANGED vars
         PROVE  IInv' /\ [Promise!Next]_<<AbsState, AbsHeld>>
    <2>1. Idles
      BY <1>1, <1>10 DEF vars, row, counts, RestOK, Idles
    <2>2. QED
      BY <1>3, <2>1
  <1>11. QED
    BY <1>4, <1>5, <1>6, <1>7, <1>8, <1>9, <1>10 DEF Next

\* The inductive invariant holds in every state the daemon can reach.
THEOREM Invariance == Spec => []IInv
  BY InitIInv, StepKeeps, PTL DEF Spec

\* Every variable keeps its type, for any number of jobs, workers, attempts,
\* pauses and restarts.
THEOREM TypeCorrect == Spec => []TypeOK
  <1>1. IInv => TypeOK
    BY DEF IInv
  <1>2. QED
    BY <1>1, Invariance, PTL

\* A job is never worked on twice at once (whatever the order in which it is
\* created, deferred, retried, deleted, and queued again by a restart).
THEOREM OneExecutor == Spec => []SingleExecutor
  <1>1. IInv => SingleExecutor
    BY DEF IInv, Sound, SingleExecutor
  <1>2. QED
    BY <1>1, Invariance, PTL

\* A queued or running row is never left without anybody working for it.
THEOREM NothingStranded == Spec => []PendingIsExecuted
  <1>1. IInv => PendingIsExecuted
    BY DEF IInv, Sound, PendingIsExecuted
  <1>2. QED
    BY <1>1, Invariance, PTL

\* A finished row is not worked on any more, until a retry.
THEOREM Rest == Spec => []FinishedIsAtRest
  <1>1. IInv => FinishedIsAtRest
    BY DEF IInv, Sound, FinishedIsAtRest
  <1>2. QED
    BY <1>1, Invariance, PTL

\* The daemon as a whole implements the promise about a job.
THEOREM Implements == Spec => PromiseSpec
  <1>1. Init => Promise!Init
    <2> SUFFICES ASSUME Init PROVE Promise!Init
      OBVIOUS
    <2>1. \A j \in Jobs : ~HasExecutor(j)
      BY InitIInv DEF IInv, Sound, Init
    <2>2. AbsHeld = [j \in Jobs |-> FALSE]
      BY <2>1 DEF AbsHeld, HasExecutor
    <2>3. AbsState = [j \in Jobs |-> "absent"]
      BY DEF Init, AbsState, Pending
    <2>4. QED
      BY <2>2, <2>3 DEF Promise!Init
  <1>2. QED
    BY <1>1, Invariance, StepKeeps, PTL DEF Spec, PromiseSpec, Promise!Spec

-----------------------------------------------------------------------------
(* A pause gates every expensive step                                       *)

\* The two halves of PauseGatesHeavySteps, for one step.
PipesGated ==
    \A j \in Jobs, a \in Attempts :
        pipe'[j][a].step \in Heavy /\ ~pipe'[j][a].parked => pipe'[j][a] = pipe[j][a]
WorkersGated ==
    \A w \in Workers :
        worker'[w].step \in Heavy /\ ~worker'[w].parked =>
            worker'[w].step = worker[w].step /\ ~worker[w].parked

\* A pipeline that is written parks, or is at no heavy step.
LEMMA PipeWrite ==
  ASSUME TypeOK, NEW j \in Jobs, NEW a \in Attempts, NEW r \in PipeRecords,
         pipe' = [pipe EXCEPT ![j][a] = r], r.parked \/ r.step \notin Heavy
  PROVE  PipesGated
  <1>1. \A k \in Jobs, b \in Attempts :
           pipe'[k][b] = IF k = j /\ b = a THEN r ELSE pipe[k][b]
    BY DEF TypeOK
  <1>2. QED
    BY <1>1 DEF PipesGated

\* The same for a worker.
LEMMA WorkerWrite ==
  ASSUME TypeOK, NEW w \in Workers, NEW r \in WorkerRecords,
         worker' = [worker EXCEPT ![w] = r], r.parked \/ r.step \notin Heavy
  PROVE  WorkersGated
  <1>1. \A v \in Workers : worker'[v] = IF v = w THEN r ELSE worker[v]
    BY DEF TypeOK
  <1>2. QED
    BY <1>1 DEF WorkersGated

\* Whoever is not written is gated.
LEMMA NotWritten ==
  /\ UNCHANGED pipe => PipesGated
  /\ UNCHANGED worker => WorkersGated
  BY DEF PipesGated, WorkersGated

\* A pipeline that reaches a checkpoint under the flag parks there.
LEMMA PipeParks ==
  ASSUME TypeOK, paused, NEW j \in Jobs, NEW a \in Attempts, NEW step \in PipeSteps,
         PipeProceeds(j, a, step)
  PROVE  PipesGated
  <1> DEFINE r == [step |-> step, parked |-> paused]
  <1>1. r \in PipeRecords /\ r.parked
    BY DEF PipeRecords
  <1>2. pipe' = [pipe EXCEPT ![j][a] = r]
    BY DEF PipeProceeds
  <1>3. QED
    BY <1>1, <1>2, PipeWrite

\* So does a worker.
LEMMA WorkParks ==
  ASSUME TypeOK, paused, NEW w \in Workers, NEW step \in WorkSteps,
         NEW now \in WorkerRecords, WorkProceeds(w, step, now)
  PROVE  WorkersGated
  <1> DEFINE r == [now EXCEPT !.step = step, !.parked = paused]
  <1>1. paused \in BOOLEAN
    BY DEF TypeOK
  <1>2. r \in WorkerRecords /\ r.parked
    BY <1>1 DEF WorkerRecords
  <1>3. worker' = [worker EXCEPT ![w] = r]
    BY DEF WorkProceeds
  <1>4. QED
    BY <1>2, <1>3, WorkerWrite

\* Every pipeline step under the flag is gated.
LEMMA PipelineGated ==
  ASSUME TypeOK, paused, NEW j \in Jobs, NEW a \in Attempts, PipelineStep(j, a)
  PROVE  PipesGated /\ WorkersGated
  <1>1. worker' = worker
    BY DEF PipelineStep, PipelineStarts, PipelineResumes, TextFetched, CaptionsFetched,
           CaptionsUnavailable, DeferToWhisper, MetadataFetched, FramesAnalysed,
           SummaryDelta, PipelineDone, PipelineRaises
  <1>2. paused \in BOOLEAN /\ {"persist", "stream", "meta", "fallback", "frames"} \subseteq PipeSteps
    BY DEF TypeOK, PipeSteps
  <1>3. ASSUME PipePersists(j, a) PROVE PipesGated
    BY <1>2, <1>3, PipeParks DEF PipePersists
  <1>4. ASSUME EndPipe(j, a) PROVE PipesGated
    <2>1. NoTask \in PipeRecords /\ NoTask.step \notin Heavy
      BY DEF NoTask, PipeRecords, PipeSteps, Heavy
    <2>2. QED
      BY <1>4, <2>1, PipeWrite DEF EndPipe
  <1>5. CASE PipelineStarts(j, a)
    <2>1. CASE pipe' = [pipe EXCEPT ![j][a] = [step |-> "fetch", parked |-> paused]]
      <3>1. [step |-> "fetch", parked |-> paused] \in PipeRecords
        BY <1>2 DEF PipeRecords, PipeSteps
      <3>2. QED
        BY <1>1, <2>1, <3>1, PipeWrite, NotWritten
    <2>2. QED
      BY <1>1, <1>3, <1>5, <2>1, NotWritten DEF PipelineStarts
  <1>6. CASE PipelineResumes(j, a)
    BY <1>6 DEF PipelineResumes
  <1>7. CASE TextFetched(j, a)
    BY <1>1, <1>3, <1>7, NotWritten DEF TextFetched
  <1>8. CASE CaptionsFetched(j, a)
    BY <1>1, <1>2, <1>8, PipeParks, NotWritten DEF CaptionsFetched
  <1>9. CASE CaptionsUnavailable(j, a)
    BY <1>1, <1>2, <1>9, PipeParks, NotWritten DEF CaptionsUnavailable
  <1>10. CASE DeferToWhisper(j, a)
    BY <1>1, <1>4, <1>10, NotWritten DEF DeferToWhisper
  <1>11. CASE MetadataFetched(j, a)
    BY <1>1, <1>2, <1>11, PipeParks, NotWritten DEF MetadataFetched
  <1>12. CASE FramesAnalysed(j, a)
    BY <1>1, <1>2, <1>12, PipeParks, NotWritten DEF FramesAnalysed
  <1>13. CASE SummaryDelta(j, a)
    BY <1>1, <1>13, NotWritten DEF SummaryDelta
  <1>14. CASE PipelineDone(j, a)
    BY <1>1, <1>4, <1>14, NotWritten DEF PipelineDone
  <1>15. CASE PipelineRaises(j, a)
    BY <1>1, <1>4, <1>15, NotWritten DEF PipelineRaises
  <1>16. QED
    BY <1>5, <1>6, <1>7, <1>8, <1>9, <1>10, <1>11, <1>12, <1>13, <1>14, <1>15 DEF PipelineStep

\* Every worker step under the flag is gated.
LEMMA WorkerGated ==
  ASSUME TypeOK, paused, NEW w \in Workers, WorkerStep(w)
  PROVE  PipesGated /\ WorkersGated
  <1>1. pipe' = pipe
    BY DEF WorkerStep, WorkerPassesGate, WorkerTakesTask, WorkerResumes, ClipProbed,
           AudioDownloaded, FileMeasured, Transcribed, WorkerMetadataFetched,
           WorkerSummaryDelta, WorkerDone, WorkerRaises
  <1>2. PipesGated
    BY <1>1, NotWritten
  <1>3. worker[w] \in WorkerRecords /\ paused \in BOOLEAN
    BY DEF TypeOK
  <1>4. {"download", "transcribe", "stream", "probe", "measure", "metadata"} \subseteq WorkSteps
    BY DEF WorkSteps
  <1>5. ASSUME NEW r \in WorkerRecords, r.step \notin Heavy, worker' = [worker EXCEPT ![w] = r]
        PROVE  WorkersGated
    BY <1>5, WorkerWrite
  <1>6. IdleWork \in WorkerRecords /\ IdleWork.step \notin Heavy
    BY IdleWorkType DEF IdleWork, Heavy
  <1>7. CASE WorkerPassesGate(w)
    BY <1>7 DEF WorkerPassesGate
  <1>8. CASE WorkerTakesTask(w)
    <2>1. PICK now \in WorkerRecords : now = [IdleWork EXCEPT !.job = Head(queue),
                                                              !.held = cached[Head(queue)]]
      <3>1. Head(queue) \in Jobs /\ cached[Head(queue)] \in BOOLEAN
        BY <1>8 DEF TypeOK, WorkerTakesTask
      <3>2. QED
        BY <1>6, <3>1 DEF WorkerRecords
    <2>2. \/ WorkProceeds(w, "transcribe", now) \/ WorkProceeds(w, "download", now)
          \/ worker' = [worker EXCEPT ![w] = [now EXCEPT !.step = "probe"]]
          \/ worker' = [worker EXCEPT ![w] = IdleWork]
      BY <1>8, <2>1 DEF WorkerTakesTask
    <2>3. [now EXCEPT !.step = "probe"] \in WorkerRecords
          /\ [now EXCEPT !.step = "probe"].step \notin Heavy
      BY <1>4 DEF WorkerRecords, Heavy
    <2>4. QED
      BY <1>2, <1>4, <1>5, <1>6, <2>2, <2>3, WorkParks
  <1>9. CASE WorkerResumes(w)
    BY <1>9 DEF WorkerResumes
  <1>10. CASE ClipProbed(w)
    BY <1>2, <1>3, <1>4, <1>10, WorkParks DEF ClipProbed
  <1>11. CASE AudioDownloaded(w)
    <2>1. PICK now \in WorkerRecords : now = [worker[w] EXCEPT !.held = TRUE]
      BY <1>3 DEF WorkerRecords
    <2>2. \/ WorkProceeds(w, "transcribe", now)
          \/ worker' = [worker EXCEPT ![w] = [now EXCEPT !.step = "measure"]]
      BY <1>11, <2>1 DEF AudioDownloaded
    <2>3. [now EXCEPT !.step = "measure"] \in WorkerRecords
          /\ [now EXCEPT !.step = "measure"].step \notin Heavy
      BY <1>4 DEF WorkerRecords, Heavy
    <2>4. QED
      BY <1>2, <1>4, <1>5, <2>2, <2>3, WorkParks
  <1>12. CASE FileMeasured(w)
    <2>1. [worker[w] EXCEPT !.spent = TRUE] \in WorkerRecords
      BY <1>3 DEF WorkerRecords
    <2>2. QED
      BY <1>2, <1>3, <1>4, <1>12, <2>1, WorkParks DEF FileMeasured
  <1>13. CASE Transcribed(w)
    <2>1. PICK now \in WorkerRecords : now = [worker[w] EXCEPT !.spent = TRUE]
      BY <1>3 DEF WorkerRecords
    <2>2. \/ WorkProceeds(w, "stream", now)
          \/ worker' = [worker EXCEPT ![w] = [now EXCEPT !.step = "metadata"]]
      BY <1>13, <2>1 DEF Transcribed
    <2>3. [now EXCEPT !.step = "metadata"] \in WorkerRecords
          /\ [now EXCEPT !.step = "metadata"].step \notin Heavy
      BY <1>4 DEF WorkerRecords, Heavy
    <2>4. QED
      BY <1>2, <1>4, <1>5, <2>2, <2>3, WorkParks
  <1>14. CASE WorkerMetadataFetched(w)
    BY <1>2, <1>3, <1>4, <1>14, WorkParks DEF WorkerMetadataFetched
  <1>15. CASE WorkerSummaryDelta(w)
    BY <1>2, <1>15, NotWritten DEF WorkerSummaryDelta
  <1>16. CASE WorkerDone(w)
    BY <1>2, <1>5, <1>6, <1>16 DEF WorkerDone
  <1>17. CASE WorkerRaises(w)
    BY <1>2, <1>5, <1>6, <1>17 DEF WorkerRaises
  <1>18. QED
    BY <1>7, <1>8, <1>9, <1>10, <1>11, <1>12, <1>13, <1>14, <1>15, <1>16, <1>17 DEF WorkerStep

\* A new pipeline is at its start, before its first checkpoint.
LEMMA SpawnGated ==
  ASSUME TypeOK, NEW j \in Jobs, Spawn(j), worker' = worker
  PROVE  PipesGated /\ WorkersGated
  <1> DEFINE r == [step |-> "start", parked |-> FALSE]
  <1>1. r \in PipeRecords /\ r.step \notin Heavy
    BY DEF PipeRecords, PipeSteps, Heavy
  <1>2. attempts[j] + 1 \in Attempts
    BY AttemptsAssumption DEF TypeOK, Spawn, Attempts, AttemptsAssumption
  <1>3. pipe' = [pipe EXCEPT ![j][attempts[j] + 1] = r]
    BY DEF Spawn
  <1>4. QED
    BY <1>1, <1>2, <1>3, PipeWrite, NotWritten

\* While paused, no download, transcription, frame analysis or summary begins
\* (control.py, and the checkpoints of pipeline.py and runner.py).
THEOREM PauseGates == Spec => PauseGatesHeavySteps
  <1>1. ASSUME TypeOK, paused, paused', [Next]_vars
        PROVE  PipesGated /\ WorkersGated
    <2>1. CASE UNCHANGED vars
      BY <2>1, NotWritten DEF vars
    <2>2. ASSUME NEW j \in Jobs, CreateJob(j) \/ RetryJob(j) \/ DeleteJob(j)
          PROVE  PipesGated /\ WorkersGated
      <3>1. CASE CreateJob(j)
        BY <1>1, <3>1, SpawnGated DEF CreateJob
      <3>2. CASE RetryJob(j)
        BY <1>1, <3>2, SpawnGated DEF RetryJob
      <3>3. CASE DeleteJob(j)
        BY <3>3, NotWritten DEF DeleteJob
      <3>4. QED
        BY <2>2, <3>1, <3>2, <3>3
    <2>3. CASE Pause \/ Resume
      BY <1>1, <2>3 DEF Pause, Resume
    <2>4. ASSUME NEW j \in Jobs, NEW a \in Attempts, PipelineStep(j, a)
          PROVE  PipesGated /\ WorkersGated
      BY <1>1, <2>4, PipelineGated
    <2>5. ASSUME NEW w \in Workers, WorkerStep(w)
          PROVE  PipesGated /\ WorkersGated
      BY <1>1, <2>5, WorkerGated
    <2>6. CASE Restart
      BY <1>1, <2>6 DEF Restart, StartsWith
    <2>7. QED
      BY <1>1, <2>1, <2>2, <2>3, <2>4, <2>5, <2>6 DEF Next
  <1>2. TypeOK /\ [Next]_vars =>
           [ paused /\ paused' =>
               /\ \A j \in Jobs, a \in Attempts :
                     pipe'[j][a].step \in Heavy /\ ~pipe'[j][a].parked => pipe'[j][a] = pipe[j][a]
               /\ \A w \in Workers :
                     worker'[w].step \in Heavy /\ ~worker'[w].parked =>
                         worker'[w].step = worker[w].step /\ ~worker[w].parked ]_vars
    BY <1>1 DEF PipesGated, WorkersGated
  <1>3. QED
    BY <1>2, TypeCorrect, PTL DEF Spec, PauseGatesHeavySteps

-----------------------------------------------------------------------------
(* What a job shows: the replay buffer and the stage "paused"               *)

Streaming(j) ==
    \/ \E a \in Attempts : PipeAt(j, a, "stream")
    \/ \E w \in WorkersOn(j) : WorkAt(w, "stream")
Waits(j) ==
    \/ \E a \in Attempts : pipe[j][a].parked
    \/ \E w \in WorkersOn(j) : worker[w].parked
    \/ TasksOf(j) # {}

\* What BufferIsStreaming and PausedStageIsParked say of one job; and a row that
\* waits in the queue while it says "running" is one that a restart put there.
Shown(j) ==
    /\ buffer[j] => Streaming(j)
    /\ status[j] = "running" /\ stage[j] = "paused" => Waits(j)
    /\ status[j] = "running" /\ TasksOf(j) # {} => kind[j] = "youtube"

\* It is inductive only next to IInv: the task that parks, goes on or ends is
\* the one the buffer or the stage is about because the executor is single.
SInv == IInv /\ \A j \in Jobs : Shown(j)

\* Nothing that is shown of a job has changed, nor what it is about.
LEMMA SameShown ==
  ASSUME NEW k \in Jobs, Shown(k), IInv,
         status'[k] = status[k], stage'[k] = stage[k], kind'[k] = kind[k],
         buffer'[k] = buffer[k], pipe'[k] = pipe[k],
         TasksOf(k)' = {} <=> TasksOf(k) = {},
         \A v \in Workers : worker[v].job = k => worker'[v] = worker[v]
  PROVE  Shown(k)'
  <1>1. Streaming(k) => Streaming(k)'
    BY DEF Streaming, PipeAt, WorkAt, WorkersOn
  <1>2. Waits(k) => Waits(k)'
    BY DEF Waits, WorkersOn
  <1>3. QED
    BY <1>1, <1>2 DEF Shown

\* A pipeline is all there is of a job that has one.
LEMMA PipeAlone ==
  ASSUME SInv, NEW j \in Jobs, NEW a \in Attempts, pipe[j][a].step # "none"
  PROVE  /\ TasksOf(j) = {}
         /\ buffer[j] => PipeAt(j, a, "stream")
         /\ status[j] = "running" /\ stage[j] = "paused" => pipe[j][a].parked
  <1>1. Sound(j) /\ Shown(j) /\ Shape /\ a \in PipesOf(j)
    BY DEF SInv, IInv, PipesOf
  <1>2. TasksOf(j) = {} /\ WorkersOn(j) = {} /\ \A b \in PipesOf(j) : b = a
    BY <1>1 DEF Sound, AtMostOne
  <1>3. \A b \in Attempts : PipeAt(j, b, "stream") \/ pipe[j][b].parked => b \in PipesOf(j)
    BY <1>1 DEF Shape, PipeShape, ParkedPipeSteps, PipeAt, PipesOf
  <1>4. QED
    BY <1>1, <1>2, <1>3 DEF Shown, Streaming, Waits

\* So is a worker.
LEMMA WorkerAlone ==
  ASSUME SInv, NEW w \in Workers, NEW j \in Jobs, worker[w].job = j
  PROVE  /\ TasksOf(j) = {}
         /\ buffer[j] => WorkAt(w, "stream")
         /\ status[j] = "running" /\ stage[j] = "paused" => worker[w].parked
  <1>1. Sound(j) /\ Shown(j) /\ Shape /\ w \in WorkersOn(j)
    BY DEF SInv, IInv, WorkersOn
  <1>2. TasksOf(j) = {} /\ PipesOf(j) = {} /\ \A v \in WorkersOn(j) : v = w
    BY <1>1 DEF Sound, AtMostOne
  <1>3. \A b \in Attempts : PipeAt(j, b, "stream") \/ pipe[j][b].parked => b \in PipesOf(j)
    BY <1>1 DEF Shape, PipeShape, ParkedPipeSteps, PipeAt, PipesOf
  <1>4. QED
    BY <1>1, <1>2, <1>3 DEF Shown, Streaming, Waits

\* A job that nobody works on, or that waits in the queue, has no buffer.
LEMMA NotStreaming ==
  ASSUME SInv, NEW j \in Jobs, TasksOf(j) # {} \/ ~HasExecutor(j)
  PROVE  ~buffer[j]
  <1>1. Sound(j) /\ Shown(j) /\ Shape
    BY DEF SInv, IInv
  <1>2. PipesOf(j) = {} /\ WorkersOn(j) = {}
    BY <1>1 DEF Sound, HasExecutor
  <1>3. \A b \in Attempts : PipeAt(j, b, "stream") => b \in PipesOf(j)
    BY <1>1 DEF PipeAt, PipesOf
  <1>4. QED
    BY <1>1, <1>2, <1>3 DEF Shown, Streaming

\* The rows and buffers of all other jobs are left alone.
RowsBut(j) ==
    \A k \in Jobs \ {j} :
        /\ status'[k] = status[k] /\ stage'[k] = stage[k]
        /\ kind'[k] = kind[k] /\ buffer'[k] = buffer[k]

\* A pipeline of a job without a task is written.
LEMMA PipeWritten ==
  ASSUME SInv, NEW j \in Jobs, NEW a \in Attempts, NEW r \in PipeRecords,
         pipe' = [pipe EXCEPT ![j][a] = r], UNCHANGED <<queue, worker>>, RowsBut(j),
         TasksOf(j) = {},
         buffer'[j] => r.step = "stream" /\ ~r.parked,
         status'[j] = "running" /\ stage'[j] = "paused" => r.parked
  PROVE  \A k \in Jobs : Shown(k)'
  <1>1. pipe \in [Jobs -> [Attempts -> PipeRecords]]
    BY DEF SInv, IInv, TypeOK
  <1>2. \A k \in Jobs \ {j} : pipe'[k] = pipe[k]
    BY <1>1
  <1>3. pipe'[j][a] = r
    BY <1>1
  <1>4. \A k \in Jobs : TasksOf(k)' = TasksOf(k)
    BY SameQueue
  <1>5. ASSUME NEW k \in Jobs \ {j} PROVE Shown(k)'
    BY <1>2, <1>4, SameShown DEF RowsBut, SInv
  <1>6. Shown(j)'
    <2>1. buffer'[j] => Streaming(j)'
      <3>1. buffer'[j] => r = [step |-> "stream", parked |-> FALSE]
        BY DEF PipeRecords
      <3>2. QED
        BY <1>3, <3>1 DEF Streaming, PipeAt
    <2>2. status'[j] = "running" /\ stage'[j] = "paused" => Waits(j)'
      BY <1>3 DEF Waits
    <2>3. QED
      BY <1>4, <2>1, <2>2 DEF Shown
  <1>7. QED
    BY <1>5, <1>6

\* A worker of a job that has left the queue, or of none, is written.
LEMMA WorkerWritten ==
  ASSUME SInv, NEW j \in Jobs, NEW w \in Workers, NEW r \in WorkerRecords,
         worker' = [worker EXCEPT ![w] = r], UNCHANGED pipe, RowsBut(j),
         worker[w].job \in {j, NoJob}, r.job \in {j, NoJob},
         \A k \in Jobs \ {j} : TasksOf(k)' = {} <=> TasksOf(k) = {},
         TasksOf(j)' = {},
         buffer'[j] => r.job = j /\ r.step = "stream" /\ ~r.parked,
         status'[j] = "running" /\ stage'[j] = "paused" => r.job = j /\ r.parked
  PROVE  \A k \in Jobs : Shown(k)'
  <1>1. worker \in [Workers -> WorkerRecords] /\ NoJob \notin Jobs
    BY JobsAssumption DEF SInv, IInv, TypeOK, JobsAssumption
  <1>2. worker'[w] = r /\ \A v \in Workers : v # w => worker'[v] = worker[v]
    BY <1>1
  <1>3. ASSUME NEW k \in Jobs \ {j} PROVE Shown(k)'
    <2>1. \A v \in Workers : worker[v].job = k => worker'[v] = worker[v]
      BY <1>1, <1>2
    <2>2. QED
      BY <2>1, SameShown DEF RowsBut, SInv
  <1>4. Shown(j)'
    <2>1. r.job = j => w \in WorkersOn(j)'
      BY <1>2 DEF WorkersOn
    <2>2. buffer'[j] => Streaming(j)'
      BY <1>2, <2>1 DEF Streaming, WorkAt
    <2>3. status'[j] = "running" /\ stage'[j] = "paused" => Waits(j)'
      BY <1>2, <2>1 DEF Waits
    <2>4. QED
      BY <2>2, <2>3 DEF Shown
  <1>5. QED
    BY <1>3, <1>4

\* A row written with SetRow, and the others.
LEMMA RowWritten ==
  ASSUME TypeOK, NEW j \in Jobs, NEW s, NEW st, SetRow(j, s, st),
         UNCHANGED kind, \A k \in Jobs \ {j} : buffer'[k] = buffer[k]
  PROVE  status'[j] = s /\ stage'[j] = st /\ RowsBut(j)
  BY DEF SetRow, TypeOK, RowsBut

\* mark_failed leaves no running row.
LEMMA FailureWritten ==
  ASSUME TypeOK, NEW j \in Jobs, MarkFailed(j), PublishFinal(j), UNCHANGED <<stage, kind>>
  PROVE  status'[j] # "running" /\ ~buffer'[j] /\ RowsBut(j)
  BY DEF MarkFailed, PublishFinal, TypeOK, RowsBut, RowExists

\* No stage but that of a parked task is "paused".
LEMMA ResumeStageShows ==
  ASSUME NEW step \in ParkedPipeSteps \cup ParkedWorkSteps
  PROVE  ResumeStage(step) # "paused"
  BY DEF ResumeStage, ParkedPipeSteps, ParkedWorkSteps

\* A pipeline at a step that is not the stream goes to a checkpoint.
LEMMA ProceedsShown ==
  ASSUME SInv, NEW j \in Jobs, NEW a \in Attempts, NEW step \in ParkedPipeSteps,
         PipeProceeds(j, a, step), pipe[j][a].step \notin {"none", "stream"}, ~pipe[j][a].parked,
         UNCHANGED <<kind, buffer, queue, worker>>
  PROVE  \A k \in Jobs : Shown(k)'
  <1> DEFINE r == [step |-> step, parked |-> paused]
  <1>1. TypeOK /\ paused \in BOOLEAN
    BY DEF SInv, IInv, TypeOK
  <1>2. r \in PipeRecords /\ r.step = step /\ r.parked = paused
    BY <1>1 DEF PipeRecords, ParkedPipeSteps, PipeSteps
  <1>3. pipe' = [pipe EXCEPT ![j][a] = r]
    BY DEF PipeProceeds
  <1> HIDE DEF r
  <1>4. TasksOf(j) = {} /\ ~buffer[j] /\ ~(status[j] = "running" /\ stage[j] = "paused")
    BY PipeAlone DEF PipeAt
  <1>5. RowsBut(j) /\ (status'[j] = "running" /\ stage'[j] = "paused" => paused)
    <2>1. CASE paused
      BY <1>1, <2>1, RowWritten DEF PipeProceeds
    <2>2. CASE ~paused /\ step = "stream"
      BY <1>1, <2>2, RowWritten DEF PipeProceeds
    <2>3. CASE ~paused /\ step # "stream"
      BY <1>4, <2>3 DEF PipeProceeds, RowsBut
    <2>4. QED
      BY <2>1, <2>2, <2>3
  <1>6. QED
    BY <1>2, <1>3, <1>4, <1>5, PipeWritten

\* What every step of a pipeline shows.
LEMMA PipelineShows ==
  ASSUME SInv, NEW j \in Jobs, NEW a \in Attempts, PipelineStep(j, a)
  PROVE  \A k \in Jobs : Shown(k)'
  <1>1. /\ TypeOK /\ IInv /\ paused \in BOOLEAN /\ PipeShape(pipe[j][a])
        /\ pipe[j][a] \in PipeRecords
    BY DEF SInv, IInv, TypeOK, Shape
  <1>2. {"fetch", "fallback", "meta", "persist", "frames", "stream"} \subseteq ParkedPipeSteps
    BY DEF ParkedPipeSteps
  <1>3. ASSUME EndPipe(j, a), pipe[j][a].step # "none", UNCHANGED <<queue, worker>>,
               RowsBut(j), ~buffer'[j], status'[j] # "running"
        PROVE  \A k \in Jobs : Shown(k)'
    <2>1. NoTask \in PipeRecords
      BY NoTaskType
    <2>2. TasksOf(j) = {}
      BY <1>3, PipeAlone
    <2>3. QED
      BY <1>3, <2>1, <2>2, PipeWritten DEF EndPipe
  <1>4. CASE PipelineStarts(j, a)
    <2>1. pipe[j][a].step = "start" /\ ~pipe[j][a].parked
      BY <1>4 DEF PipelineStarts, PipeAt
    <2>2. CASE /\ pipe' = [pipe EXCEPT ![j][a] = [step |-> "fetch", parked |-> paused]]
               /\ SetRow(j, "running", IF paused THEN "paused" ELSE "extracting")
      <3> DEFINE r == [step |-> "fetch", parked |-> paused]
      <3>1. r \in PipeRecords /\ r.parked = paused
        BY <1>1 DEF PipeRecords, PipeSteps
      <3>2. TasksOf(j) = {} /\ ~buffer[j]
        BY <2>1, PipeAlone DEF PipeAt
      <3>3. /\ UNCHANGED <<kind, buffer, queue, worker>>
            /\ stage'[j] = (IF paused THEN "paused" ELSE "extracting") /\ RowsBut(j)
        BY <1>1, <1>4, <2>2, RowWritten DEF PipelineStarts
      <3>4. pipe' = [pipe EXCEPT ![j][a] = r]
        BY <2>2
      <3> HIDE DEF r
      <3>5. QED
        BY <3>1, <3>2, <3>3, <3>4, PipeWritten
    <2>3. CASE PipePersists(j, a)
      BY <1>2, <1>4, <2>1, <2>3, ProceedsShown DEF PipePersists, PipelineStarts
    <2>4. QED
      BY <1>4, <2>2, <2>3 DEF PipelineStarts
  <1>5. CASE PipelineResumes(j, a)
    <2> DEFINE step == pipe[j][a].step
               next == [step |-> IF step = "persist" THEN "stream" ELSE step, parked |-> FALSE]
    <2>1. step \in ParkedPipeSteps /\ step # "none"
      BY <1>1, <1>5 DEF PipelineResumes, PipeShape, ParkedPipeSteps
    <2>2. TasksOf(j) = {} /\ ~buffer[j]
      BY <1>5, <2>1, PipeAlone DEF PipelineResumes, PipeAt
    <2>3. stage'[j] = ResumeStage(step) /\ RowsBut(j)
      BY <1>1, <1>5, RowWritten DEF PipelineResumes
    <2>4. stage'[j] # "paused"
      BY <2>1, <2>3, ResumeStageShows
    <2>5. next \in PipeRecords
      BY <2>1 DEF PipeRecords, PipeSteps, ParkedPipeSteps
    <2>6. pipe' = [pipe EXCEPT ![j][a] = next] /\ UNCHANGED <<buffer, queue, worker>>
      BY <1>5 DEF PipelineResumes
    <2> HIDE DEF next
    <2>7. QED
      BY <2>2, <2>3, <2>4, <2>5, <2>6, PipeWritten
  <1>6. CASE TextFetched(j, a)
    BY <1>2, <1>6, ProceedsShown DEF TextFetched, PipePersists, PipeAt
  <1>7. CASE CaptionsFetched(j, a)
    BY <1>2, <1>7, ProceedsShown DEF CaptionsFetched, PipeAt
  <1>8. CASE CaptionsUnavailable(j, a)
    BY <1>2, <1>8, ProceedsShown DEF CaptionsUnavailable, PipeAt
  <1>9. CASE DeferToWhisper(j, a)
    <2>1. /\ pipe[j][a].step \notin {"none", "stream"} /\ UNCHANGED worker
          /\ pipe' = [pipe EXCEPT ![j][a] = NoTask] /\ queue' = Append(queue, j)
      BY <1>9 DEF DeferToWhisper, PipeAt, EndPipe
    <2>2. ~buffer[j]
      BY <2>1, PipeAlone DEF PipeAt
    <2>3. RowsBut(j) /\ ~buffer'[j] /\ status'[j] # "running"
      <3>1. CASE RowExists(j)
        <4>1. SetRow(j, "queued", "queued") /\ UNCHANGED <<buffer, kind>>
          BY <1>9, <3>1 DEF DeferToWhisper
        <4>2. QED
          BY <1>1, <2>2, <4>1, RowWritten
      <3>2. CASE ~RowExists(j)
        BY <1>1, <1>9, <3>2 DEF DeferToWhisper, PublishFinal, RowsBut, RowExists, TypeOK
      <3>3. QED
        BY <3>1, <3>2
    <2>4. ASSUME NEW k \in Jobs \ {j} PROVE Shown(k)'
      <3>1. pipe'[k] = pipe[k]
        BY <1>1, <2>1 DEF TypeOK
      <3>2. TasksOf(k)' = TasksOf(k)
        BY <1>1, <2>1, TaskAdded
      <3>3. QED
        BY <2>1, <2>3, <3>1, <3>2, SameShown DEF RowsBut, SInv
    <2>5. Shown(j)'
      BY <2>3 DEF Shown
    <2>6. QED
      BY <2>4, <2>5
  <1>10. CASE MetadataFetched(j, a)
    BY <1>2, <1>10, ProceedsShown DEF MetadataFetched, PipeAt
  <1>11. CASE FramesAnalysed(j, a)
    BY <1>2, <1>11, ProceedsShown DEF FramesAnalysed, PipeAt
  <1>12. CASE SummaryDelta(j, a)
    <2>1. /\ PipeAt(j, a, "stream") /\ buffer' = [buffer EXCEPT ![j] = TRUE]
          /\ UNCHANGED <<status, stage, kind, pipe, queue, worker>>
      BY <1>12 DEF SummaryDelta, Publish, row
    <2>2. ASSUME NEW k \in Jobs \ {j} PROVE Shown(k)'
      BY <1>1, <2>1, SameShown, SameQueue DEF TypeOK, SInv
    <2>3. Shown(j)'
      <3>1. Shown(j) /\ Streaming(j)' /\ (Waits(j)' <=> Waits(j)) /\ TasksOf(j)' = TasksOf(j)
        BY <2>1 DEF SInv, Streaming, Waits, PipeAt, WorkersOn, TasksOf
      <3>2. QED
        BY <2>1, <3>1 DEF Shown
    <2>4. QED
      BY <2>2, <2>3
  <1>13. CASE PipelineDone(j, a)
    <2>1. /\ pipe[j][a].step # "none" /\ SetRow(j, "done", "none")
          /\ buffer' = [buffer EXCEPT ![j] = FALSE] /\ EndPipe(j, a)
          /\ UNCHANGED <<kind, queue, worker>>
      BY <1>13 DEF PipelineDone, PipeAt, PublishFinal
    <2>2. ~buffer'[j] /\ \A k \in Jobs \ {j} : buffer'[k] = buffer[k]
      BY <1>1, <2>1 DEF TypeOK
    <2>3. QED
      BY <1>1, <1>3, <2>1, <2>2, RowWritten
  <1>14. CASE PipelineRaises(j, a)
    <2>1. pipe[j][a].step # "none"
      BY <1>1, <1>14 DEF PipelineRaises, PipeAt, PipeShape, ParkedPipeSteps
    <2>2. QED
      BY <1>1, <1>3, <1>14, <2>1, FailureWritten DEF PipelineRaises
  <1>15. QED
    BY <1>4, <1>5, <1>6, <1>7, <1>8, <1>9, <1>10, <1>11, <1>12, <1>13, <1>14 DEF PipelineStep

\* A worker goes to a checkpoint with a job that streams nothing yet.
LEMMA WorkProceedsShown ==
  ASSUME SInv, NEW w \in Workers, NEW step \in ParkedWorkSteps, NEW now \in WorkerRecords,
         now.job \in Jobs, worker[w].job \in {now.job, NoJob}, WorkProceeds(w, step, now),
         \A k \in Jobs \ {now.job} : TasksOf(k)' = {} <=> TasksOf(k) = {},
         TasksOf(now.job)' = {}, ~buffer'[now.job],
         \A k \in Jobs \ {now.job} : buffer'[k] = buffer[k],
         UNCHANGED <<kind, pipe>>
  PROVE  \A k \in Jobs : Shown(k)'
  <1> DEFINE j == now.job
             r == [now EXCEPT !.step = step, !.parked = paused]
  <1>1. TypeOK /\ paused \in BOOLEAN /\ step \in WorkSteps
    BY DEF SInv, IInv, TypeOK, ParkedWorkSteps, WorkSteps
  <1>2. r \in WorkerRecords /\ r.job = j /\ r.parked = paused
    BY <1>1 DEF WorkerRecords
  <1>3. worker' = [worker EXCEPT ![w] = r]
    BY DEF WorkProceeds
  <1>4. RowsBut(j) /\ (stage'[j] = "paused" => paused)
    <2>1. SetRow(j, "running", IF paused THEN "paused" ELSE ResumeStage(step))
      BY DEF WorkProceeds
    <2>2. RowsBut(j) /\ stage'[j] = IF paused THEN "paused" ELSE ResumeStage(step)
      BY <1>1, <2>1, RowWritten
    <2>3. QED
      BY <2>2, ResumeStageShows
  <1> HIDE DEF j, r
  <1>5. QED
    BY <1>2, <1>3, <1>4, WorkerWritten DEF j

\* A worker that has a job goes to a checkpoint from another step.
LEMMA WorkGoesOn ==
  ASSUME SInv, NEW w \in Workers, NEW step \in ParkedWorkSteps, NEW now \in WorkerRecords,
         now.job = worker[w].job, now.job \in Jobs, WorkProceeds(w, step, now),
         ~WorkAt(w, "stream"), UNCHANGED <<kind, buffer, pipe, queue>>
  PROVE  \A k \in Jobs : Shown(k)'
  <1>1. TasksOf(now.job) = {} /\ ~buffer[now.job]
    BY WorkerAlone
  <1>2. \A k \in Jobs : TasksOf(k)' = TasksOf(k)
    BY SameQueue
  <1>3. /\ \A k \in Jobs \ {now.job} : TasksOf(k)' = {} <=> TasksOf(k) = {}
        /\ TasksOf(now.job)' = {} /\ ~buffer'[now.job]
        /\ \A k \in Jobs \ {now.job} : buffer'[k] = buffer[k]
    BY <1>1, <1>2
  <1>4. QED
    BY <1>3, WorkProceedsShown

\* A worker goes to a step without a checkpoint, and writes no row.
LEMMA WorkStepsOn ==
  ASSUME SInv, NEW w \in Workers, NEW r \in WorkerRecords, worker' = [worker EXCEPT ![w] = r],
         r.job = worker[w].job, r.job \in Jobs, ~WorkAt(w, "stream"), ~worker[w].parked,
         UNCHANGED <<status, stage, kind, buffer, pipe, queue>>
  PROVE  \A k \in Jobs : Shown(k)'
  <1> DEFINE j == worker[w].job
  <1>1. /\ j \in Jobs /\ TasksOf(j) = {} /\ ~buffer[j]
        /\ ~(status[j] = "running" /\ stage[j] = "paused")
    BY WorkerAlone
  <1>2. \A k \in Jobs : TasksOf(k)' = TasksOf(k)
    BY SameQueue
  <1>3. RowsBut(j)
    BY DEF RowsBut
  <1> HIDE DEF j
  <1>4. QED
    BY <1>1, <1>2, <1>3, WorkerWritten DEF j

\* A worker lets go of its job; the row is final, or gone.
LEMMA WorkerReleases ==
  ASSUME SInv, NEW w \in Workers, worker[w].job \in Jobs, worker' = [worker EXCEPT ![w] = IdleWork],
         RowsBut(worker[w].job), ~buffer'[worker[w].job], status'[worker[w].job] # "running",
         UNCHANGED <<pipe, queue>>
  PROVE  \A k \in Jobs : Shown(k)'
  <1> DEFINE j == worker[w].job
  <1>1. TasksOf(j) = {} /\ IdleWork \in WorkerRecords /\ IdleWork.job = NoJob
    BY WorkerAlone, IdleWorkType
  <1>2. \A k \in Jobs : TasksOf(k)' = TasksOf(k)
    BY SameQueue
  <1> HIDE DEF j
  <1>3. QED
    BY <1>1, <1>2, WorkerWritten DEF j

\* What taking a task shows: the job had nothing but the task.
LEMMA TakingShows ==
  ASSUME SInv, NEW w \in Workers, WorkerTakesTask(w)
  PROVE  \A k \in Jobs : Shown(k)'
  <1>1. /\ TypeOK /\ WorkShape(worker[w]) /\ IInv /\ queue # <<>> /\ queue' = Tail(queue)
        /\ queue \in Seq(Jobs) /\ Len(queue) \in Nat
    BY DEF SInv, IInv, Shape, TypeOK, WorkerTakesTask
  <1>0. PICK j \in Jobs : j = Head(queue)
    BY <1>1, TaskTaken
  <1> DEFINE now == [IdleWork EXCEPT !.job = j, !.held = cached[j]]
  <1>2. /\ 1 \in TasksOf(j)
        /\ \A k \in Jobs : TasksOf(k)' = {i \in 1..(Len(queue) - 1) : i + 1 \in TasksOf(k)}
    BY <1>0, <1>1, TaskTaken
  <1>3. worker[w].job = NoJob
    BY <1>1 DEF WorkerTakesTask, WorkAt, WorkShape
  <1>4. ~buffer[j] /\ (status[j] = "running" => kind[j] = "youtube")
    BY <1>2, NotStreaming DEF SInv, Shown
  <1>5. /\ ~buffer'[j] /\ \A k \in Jobs \ {j} : buffer'[k] = buffer[k]
        /\ UNCHANGED <<kind, pipe>>
    BY <1>0, <1>1, <1>4 DEF WorkerTakesTask, TypeOK
  <1>6. TasksOf(j)' = {}
    <2>1. \A i \in TasksOf(j) : i = 1
      BY <1>1, <1>2 DEF IInv, Sound, AtMostOne
    <2>2. QED
      BY <1>1, <1>2, <2>1
  <1>7. ASSUME NEW k \in Jobs \ {j} PROVE TasksOf(k)' = {} <=> TasksOf(k) = {}
    <2>1. TasksOf(k)' # {} => TasksOf(k) # {}
      BY <1>2
    <2>2. ASSUME NEW i \in TasksOf(k) PROVE TasksOf(k)' # {}
      <3>1. queue \in Seq(Jobs) /\ i \in 1..Len(queue) /\ Len(queue) \in Nat /\ queue[i] = k
        BY <1>1 DEF TasksOf, TypeOK
      <3>2. i # 1
        BY <1>0, <1>1, <3>1
      <3>3. i - 1 \in 1..(Len(queue) - 1) /\ (i - 1) + 1 \in TasksOf(k)
        BY <3>1, <3>2
      <3>4. QED
        BY <1>2, <3>3
    <2>3. QED
      BY <2>1, <2>2
  <1>8. now \in WorkerRecords /\ now.job = j
    BY <1>1, <1>2 DEF TypeOK, IdleWork, WorkerRecords, WorkSteps
  <1>9. ASSUME NEW step \in ParkedWorkSteps, WorkProceeds(w, step, now)
        PROVE  \A k \in Jobs : Shown(k)'
    <2> HIDE DEF now
    <2>1. QED
      BY <1>2, <1>3, <1>5, <1>6, <1>7, <1>8, <1>9, WorkProceedsShown
  <1>10. {"transcribe", "download"} \subseteq ParkedWorkSteps
    BY DEF ParkedWorkSteps
  <1>11. CASE /\ RowExists(j) /\ ~cached[j] /\ kind[j] = "media"
              /\ worker' = [worker EXCEPT ![w] = [now EXCEPT !.step = "probe"]]
              /\ UNCHANGED <<status, stage, reason>>
    <2> DEFINE r == [now EXCEPT !.step = "probe"]
    <2>1. r \in WorkerRecords /\ r.job = j
      BY <1>8 DEF WorkerRecords, WorkSteps
    <2>2. status'[j] # "running" /\ RowsBut(j)
      BY <1>4, <1>5, <1>11 DEF RowsBut
    <2>3. worker' = [worker EXCEPT ![w] = r]
      BY <1>11
    <2> HIDE DEF now, r
    <2>4. QED
      BY <1>2, <1>3, <1>5, <1>6, <1>7, <2>1, <2>2, <2>3, WorkerWritten
  <1>12. CASE /\ ~RowExists(j)
              /\ worker' = [worker EXCEPT ![w] = IdleWork]
              /\ UNCHANGED <<status, stage, reason>>
    <2>1. status'[j] # "running" /\ RowsBut(j)
      BY <1>5, <1>12 DEF RowsBut, RowExists
    <2>2. QED
      BY <1>2, <1>3, <1>5, <1>6, <1>7, <1>12, <2>1, IdleWorkType, WorkerWritten
  <1>13. QED
    BY <1>0, <1>9, <1>10, <1>11, <1>12 DEF WorkerTakesTask

\* What every step of a worker shows.
LEMMA WorkerShows ==
  ASSUME SInv, NEW w \in Workers, WorkerStep(w)
  PROVE  \A k \in Jobs : Shown(k)'
  <1> DEFINE me == worker[w]
             j  == worker[w].job
  <1>1. /\ TypeOK /\ WorkShape(me) /\ me \in WorkerRecords /\ IInv
        /\ (j \in Jobs \/ j = NoJob) /\ NoJob \notin Jobs
    BY JobsAssumption DEF SInv, IInv, Shape, TypeOK, WorkerRecords, JobsAssumption
  <1>2. {"download", "transcribe", "stream"} \subseteq ParkedWorkSteps
    BY DEF ParkedWorkSteps
  <1>3. CASE WorkerPassesGate(w)
    <2>1. /\ UNCHANGED <<status, stage, kind, buffer, pipe, queue>> /\ j = NoJob
          /\ worker' = [worker EXCEPT ![w].step = "get"]
      BY <1>1, <1>3 DEF WorkerPassesGate, WorkAt, WorkShape, row
    <2>2. \A k \in Jobs : \A v \in Workers : worker[v].job = k => worker'[v] = worker[v]
      BY <1>1, <2>1 DEF TypeOK
    <2>3. ASSUME NEW k \in Jobs PROVE Shown(k)'
      BY <1>1, <2>1, <2>2, SameShown, SameQueue DEF SInv
    <2>4. QED
      BY <2>3
  <1>4. CASE WorkerTakesTask(w)
    BY <1>4, TakingShows
  <1>5. CASE WorkerResumes(w)
    <2>1. me.parked /\ WorkProceeds(w, me.step, me)
          /\ UNCHANGED <<kind, buffer, pipe, queue>>
      BY <1>5 DEF WorkerResumes
    <2>2. me.step \in ParkedWorkSteps /\ j \in Jobs /\ ~WorkAt(w, "stream")
      BY <1>1, <2>1 DEF WorkShape, ParkedWorkSteps, WorkAt
    <2>3. QED
      BY <1>1, <2>1, <2>2, WorkGoesOn
  <1>6. CASE ClipProbed(w)
    <2>1. WorkAt(w, "probe") /\ UNCHANGED <<kind, buffer, pipe, queue>>
          /\ \E step \in {"download", "stream"} : WorkProceeds(w, step, me)
      BY <1>6 DEF ClipProbed
    <2>2. j \in Jobs /\ ~WorkAt(w, "stream")
      BY <1>1, <2>1 DEF WorkShape, WorkAt
    <2>3. QED
      BY <1>1, <1>2, <2>1, <2>2, WorkGoesOn
  <1>7. CASE AudioDownloaded(w)
    <2> DEFINE now == [me EXCEPT !.held = TRUE]
               r   == [now EXCEPT !.step = "measure"]
    <2>1. /\ WorkAt(w, "download") /\ UNCHANGED <<kind, buffer, pipe, queue>>
          /\ \/ WorkProceeds(w, "transcribe", now)
             \/ worker' = [worker EXCEPT ![w] = r] /\ UNCHANGED <<status, stage>>
      BY <1>7 DEF AudioDownloaded
    <2>2. j \in Jobs /\ ~WorkAt(w, "stream") /\ ~me.parked
      BY <1>1, <2>1 DEF WorkShape, WorkAt
    <2>3. /\ now \in WorkerRecords /\ now.job = j
          /\ r \in WorkerRecords /\ r.job = j
      BY <1>1 DEF WorkerRecords, WorkSteps
    <2> HIDE DEF now, r
    <2>4. CASE WorkProceeds(w, "transcribe", now)
      BY <1>2, <2>1, <2>2, <2>3, <2>4, WorkGoesOn
    <2>5. CASE worker' = [worker EXCEPT ![w] = r] /\ UNCHANGED <<status, stage>>
      BY <2>1, <2>2, <2>3, <2>5, WorkStepsOn
    <2>6. QED
      BY <2>1, <2>4, <2>5
  <1>8. CASE FileMeasured(w)
    <2> DEFINE now == [me EXCEPT !.spent = TRUE]
    <2>1. /\ WorkAt(w, "measure") /\ UNCHANGED <<kind, buffer, pipe, queue>>
          /\ WorkProceeds(w, "transcribe", me) \/ WorkProceeds(w, "stream", now)
      BY <1>8 DEF FileMeasured
    <2>2. j \in Jobs /\ ~WorkAt(w, "stream")
      BY <1>1, <2>1 DEF WorkShape, WorkAt
    <2>3. now \in WorkerRecords /\ now.job = j
      BY <1>1 DEF WorkerRecords
    <2> HIDE DEF now
    <2>4. QED
      BY <1>1, <1>2, <2>1, <2>2, <2>3, WorkGoesOn
  <1>9. CASE Transcribed(w)
    <2> DEFINE now == [me EXCEPT !.spent = TRUE]
               r   == [now EXCEPT !.step = "metadata"]
    <2>1. /\ WorkAt(w, "transcribe") /\ UNCHANGED <<kind, buffer, pipe, queue>>
          /\ \/ WorkProceeds(w, "stream", now)
             \/ worker' = [worker EXCEPT ![w] = r] /\ UNCHANGED <<status, stage>>
      BY <1>9 DEF Transcribed
    <2>2. j \in Jobs /\ ~WorkAt(w, "stream") /\ ~me.parked
      BY <1>1, <2>1 DEF WorkShape, WorkAt
    <2>3. /\ now \in WorkerRecords /\ now.job = j
          /\ r \in WorkerRecords /\ r.job = j
      BY <1>1 DEF WorkerRecords, WorkSteps
    <2> HIDE DEF now, r
    <2>4. CASE WorkProceeds(w, "stream", now)
      BY <1>2, <2>1, <2>2, <2>3, <2>4, WorkGoesOn
    <2>5. CASE worker' = [worker EXCEPT ![w] = r] /\ UNCHANGED <<status, stage>>
      BY <2>1, <2>2, <2>3, <2>5, WorkStepsOn
    <2>6. QED
      BY <2>1, <2>4, <2>5
  <1>10. CASE WorkerMetadataFetched(w)
    <2>1. WorkAt(w, "metadata") /\ UNCHANGED <<kind, buffer, pipe, queue>>
          /\ WorkProceeds(w, "stream", me)
      BY <1>10 DEF WorkerMetadataFetched
    <2>2. j \in Jobs /\ ~WorkAt(w, "stream")
      BY <1>1, <2>1 DEF WorkShape, WorkAt
    <2>3. QED
      BY <1>1, <1>2, <2>1, <2>2, WorkGoesOn
  <1>11. CASE WorkerSummaryDelta(w)
    <2>1. /\ WorkAt(w, "stream") /\ buffer' = [buffer EXCEPT ![j] = TRUE]
          /\ UNCHANGED <<status, stage, kind, pipe, queue, worker>>
      BY <1>11 DEF WorkerSummaryDelta, Publish, row
    <2>2. PICK i \in Jobs : i = j
      BY <1>1, <2>1 DEF WorkShape, WorkAt
    <2>3. ASSUME NEW k \in Jobs \ {i} PROVE Shown(k)'
      BY <1>1, <2>1, <2>2, SameShown, SameQueue DEF TypeOK, SInv
    <2>4. Shown(i)'
      <3>1. Shown(i) /\ Streaming(i)' /\ (Waits(i)' <=> Waits(i)) /\ TasksOf(i)' = TasksOf(i)
        BY <2>1, <2>2 DEF SInv, Streaming, Waits, WorkAt, WorkersOn, TasksOf
      <3>2. QED
        BY <2>1, <3>1 DEF Shown
    <2>5. QED
      BY <2>3, <2>4
  <1>12. CASE WorkerDone(w)
    <2>1. /\ WorkAt(w, "stream") /\ SetRow(j, "done", "none")
          /\ buffer' = [buffer EXCEPT ![j] = FALSE]
          /\ worker' = [worker EXCEPT ![w] = IdleWork] /\ UNCHANGED <<kind, pipe, queue>>
      BY <1>12 DEF WorkerDone, PublishFinal
    <2>2. j \in Jobs
      BY <1>1, <2>1 DEF WorkShape, WorkAt
    <2>3. ~buffer'[j] /\ \A k \in Jobs \ {j} : buffer'[k] = buffer[k]
      BY <1>1, <2>1, <2>2 DEF TypeOK
    <2>4. status'[j] = "done" /\ RowsBut(j)
      BY <1>1, <2>1, <2>2, <2>3, RowWritten
    <2>5. QED
      BY <2>1, <2>2, <2>3, <2>4, WorkerReleases
  <1>13. CASE WorkerRaises(w)
    <2>1. /\ j \in Jobs /\ MarkFailed(j) /\ PublishFinal(j)
          /\ worker' = [worker EXCEPT ![w] = IdleWork]
          /\ UNCHANGED <<stage, kind, pipe, queue>>
      BY <1>1, <1>13 DEF WorkerRaises
    <2>2. QED
      BY <1>1, <2>1, FailureWritten, WorkerReleases
  <1>14. QED
    BY <1>3, <1>4, <1>5, <1>6, <1>7, <1>8, <1>9, <1>10, <1>11, <1>12, <1>13 DEF WorkerStep

\* A new pipeline starts from a job at rest.
LEMMA SpawningShows ==
  ASSUME SInv, NEW j \in Jobs, CreateJob(j) \/ RetryJob(j)
  PROVE  \A k \in Jobs : Shown(k)'
  <1> DEFINE r == [step |-> "start", parked |-> FALSE]
             a == attempts[j] + 1
  <1>1. /\ TypeOK /\ Spawn(j) /\ SetRow(j, "running", "extracting") /\ status[j] \in {"absent", "failed"}
        /\ UNCHANGED <<buffer, queue, worker>>
    BY DEF CreateJob, RetryJob, SInv, IInv
  <1>2. ~HasExecutor(j) /\ TasksOf(j) = {}
    BY <1>1 DEF SInv, IInv, Sound, HasExecutor
  <1>3. ~buffer'[j]
    BY <1>1, <1>2, NotStreaming
  <1>4. RowsBut(j) /\ stage'[j] = "extracting"
    BY <1>1 DEF CreateJob, RetryJob, SetRow, RowsBut, TypeOK
  <1>5. a \in Attempts /\ r \in PipeRecords /\ pipe' = [pipe EXCEPT ![j][a] = r]
    BY <1>1, AttemptsAssumption DEF Spawn, TypeOK, Attempts, AttemptsAssumption, PipeRecords,
                                    PipeSteps
  <1> HIDE DEF a, r
  <1>6. PICK b \in Attempts : b = a
    BY <1>5
  <1>7. pipe' = [pipe EXCEPT ![j][b] = r]
    BY <1>5, <1>6
  <1>8. QED
    BY <1>1, <1>2, <1>3, <1>4, <1>5, <1>7, PipeWritten

\* A restart empties the buffers; a row that is running is queued.
LEMMA RestartShows ==
  ASSUME SInv, Restart
  PROVE  \A k \in Jobs : Shown(k)'
  <1>1. /\ pipe' = [j \in Jobs |-> [a \in Attempts |-> NoTask]]
        /\ worker' = [w \in Workers |-> IdleWork] /\ buffer' = [j \in Jobs |-> FALSE]
        /\ status' = [j \in Jobs |->
              IF Pending(j) /\ kind[j] # "youtube" THEN "failed" ELSE status[j]]
        /\ UNCHANGED kind
    BY DEF Restart, StartsWith
  <1>2. ASSUME NEW k \in Jobs PROVE Shown(k)'
    <2>1. PipesOf(k)' = {} /\ WorkersOn(k)' = {}
      BY <1>1, IdleWorkType, JobsAssumption DEF PipesOf, WorkersOn, NoTask, JobsAssumption
    <2>2. HasExecutor(k)' <=> Pending(k)'
      BY RestartKeeps DEF SInv
    <2>3. status'[k] = "running" => TasksOf(k)' # {} /\ kind'[k] = "youtube"
      BY <1>1, <2>1, <2>2 DEF HasExecutor, Pending
    <2>4. QED
      BY <1>1, <2>3 DEF Shown, Waits
  <1>3. QED
    BY <1>2

\* A step that touches neither executors nor buffers, and no row but one that is
\* deleted.
LEMMA QuietShows ==
  ASSUME SInv, UNCHANGED <<stage, kind, buffer, pipe, queue, worker>>,
         \A k \in Jobs : status'[k] \in {status[k], "deleted"}
  PROVE  \A k \in Jobs : Shown(k)'
  <1>1. ASSUME NEW k \in Jobs PROVE Shown(k)'
    <2>1. /\ Shown(k) /\ (Streaming(k)' <=> Streaming(k)) /\ (Waits(k)' <=> Waits(k))
          /\ TasksOf(k)' = TasksOf(k)
      BY DEF SInv, Streaming, Waits, PipeAt, WorkAt, WorkersOn, TasksOf
    <2>2. QED
      BY <2>1 DEF Shown
  <1>2. QED
    BY <1>1

\* What is shown of the jobs is true in every state.
THEOREM ShownHolds == Spec => []SInv
  <1>1. Init => SInv
    <2>1. ASSUME Init, NEW j \in Jobs PROVE Shown(j)
      BY <2>1 DEF Init, Shown
    <2>2. QED
      BY <2>1, InitIInv DEF SInv
  <1>2. SInv /\ [Next]_vars => SInv'
    <2> SUFFICES ASSUME SInv, [Next]_vars PROVE SInv'
      OBVIOUS
    <2>1. IInv'
      BY StepKeeps DEF SInv
    <2>2. TypeOK
      BY DEF SInv, IInv
    <2>3. ASSUME NEW j \in Jobs, CreateJob(j) \/ RetryJob(j) PROVE \A k \in Jobs : Shown(k)'
      BY <2>3, SpawningShows
    <2>4. ASSUME NEW j \in Jobs, DeleteJob(j) PROVE \A k \in Jobs : Shown(k)'
      BY <2>2, <2>4, QuietShows DEF DeleteJob, TypeOK
    <2>5. ASSUME Pause \/ Resume PROVE \A k \in Jobs : Shown(k)'
      BY <2>5, QuietShows DEF Pause, Resume, row
    <2>6. ASSUME NEW j \in Jobs, NEW a \in Attempts, PipelineStep(j, a)
          PROVE  \A k \in Jobs : Shown(k)'
      BY <2>6, PipelineShows
    <2>7. ASSUME NEW w \in Workers, WorkerStep(w) PROVE \A k \in Jobs : Shown(k)'
      BY <2>7, WorkerShows
    <2>8. ASSUME Restart PROVE \A k \in Jobs : Shown(k)'
      BY <2>8, RestartShows
    <2>9. ASSUME UNCHANGED vars PROVE \A k \in Jobs : Shown(k)'
      BY <2>9, QuietShows DEF vars, row
    <2>10. \A k \in Jobs : Shown(k)'
      BY <2>3, <2>4, <2>5, <2>6, <2>7, <2>8, <2>9 DEF Next
    <2>11. QED
      BY <2>1, <2>10 DEF SInv
  <1>3. QED
    BY <1>1, <1>2, PTL DEF Spec

\* The replay buffer of a job holds text only while its summary is streaming
\* (broker.py), whoever streamed, was retried, deleted or restarted before.
THEOREM BufferFollowsStream == Spec => []BufferIsStreaming
  <1>1. SInv => BufferIsStreaming
    BY DEF SInv, Shown, Streaming, BufferIsStreaming
  <1>2. QED
    BY <1>1, ShownHolds, PTL

\* A row that shows "paused" while running is parked, or waits in the queue.
THEOREM PausedIsParked == Spec => []PausedStageIsParked
  <1>1. SInv => PausedStageIsParked
    BY DEF SInv, Shown, Waits, PausedStageIsParked
  <1>2. QED
    BY <1>1, ShownHolds, PTL

=============================================================================
