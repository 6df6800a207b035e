---------------------------- MODULE JobLifecycle ----------------------------
(***************************************************************************)
(* One job from POST /jobs to its final row: the extraction pipelines      *)
(* (workers/pipeline.py), the deferred Whisper queue (workers/queue.py),   *)
(* the Whisper worker pool (workers/runner.py), the global pause           *)
(* (workers/control.py), deletion and retry (api/jobs.py), and the restart *)
(* of the daemon (main.py, queue.re_enqueue_pending).                      *)
(*                                                                         *)
(* The daemon runs on one asyncio loop: the code between two awaits that   *)
(* really suspend is one action here.  Every slow call (yt-dlp, captions,  *)
(* Whisper, LLM) is a step during which any other task may run.            *)
(***************************************************************************)
EXTENDS Integers, Sequences, SequencesExt

CONSTANTS
    Jobs,         \* job ids (nanoids: never reused)
    Workers,      \* the whisper_worker coroutines (whisper.max_concurrent_jobs)
    Kinds,        \* the kinds of job submitted, a subset of AllKinds
    MaxAttempts,  \* bound: pipelines spawned for one job (create + retries)
    MaxPauses,    \* bound: calls of POST /workers/pause
    MaxRestarts,  \* bound: restarts of the daemon
    NoJob         \* the job of a worker that processes nothing

AllKinds == {"page", "pdf", "file_pdf", "youtube", "media"}

ASSUME JobsAssumption     == IsFiniteSet(Jobs) /\ NoJob \notin Jobs
ASSUME KindsAssumption    == Kinds \subseteq AllKinds
ASSUME AttemptsAssumption == MaxAttempts \in Nat
ASSUME BoundsAssumption   == MaxPauses \in Nat /\ MaxRestarts \in Nat

VARIABLES
    status,    \* Job.status, or "absent" before the insert, "deleted" after the delete
    stage,     \* Job.progress_stage
    reason,    \* Job.queued_reason is not NULL
    kind,      \* Job.kind
    cached,    \* Job.audio_path is set (and the file is there)
    attempts,  \* run_pipeline tasks spawned for the job so far
    pipe,      \* where the a-th pipeline of a job is
    queue,     \* WhisperQueue: job ids of the waiting WhisperTasks, FIFO
    worker,    \* where each Whisper worker is
    paused,    \* WorkerControl._paused
    buffer,    \* broker._stream_buffers has text for the job
    pauses,    \* pauses so far
    restarts   \* restarts so far

row    == <<status, stage, reason, kind, cached>>
counts == <<attempts, pauses, restarts>>
vars   == <<row, counts, pipe, queue, worker, paused, buffer>>

Attempts == 1..MaxAttempts
Statuses == {"absent", "queued", "running", "done", "failed", "deleted"}
Stages   == {"none", "extracting", "fetching_captions", "queued", "downloading",
             "transcribing", "analyzing_frames", "summarizing", "paused"}

\* A pipeline awaits its slow call ("start": the task has not run yet), or is
\* parked in _checkpoint_pause before it.
PipeSteps == {"none", "start", "fetch", "fallback", "meta", "persist", "frames", "stream"}
\* A worker polls the pause flag, waits for a task, or awaits a slow call of
\* _process_one; held: audio_path is not None; spent: transcribe_done.
WorkSteps == {"gate", "get", "probe", "download", "measure", "transcribe", "metadata", "stream"}

PipeRecords   == [step : PipeSteps, parked : BOOLEAN]
WorkerRecords == [step : WorkSteps, parked : BOOLEAN, job : Jobs \cup {NoJob},
                  held : BOOLEAN, spent : BOOLEAN]

NoTask   == [step |-> "none", parked |-> FALSE]
IdleWork == [step |-> "gate", parked |-> FALSE, job |-> NoJob, held |-> FALSE, spent |-> FALSE]

RowExists(j) == status[j] \in {"queued", "running", "done", "failed"}
Pending(j)   == status[j] \in {"queued", "running"}

\* http(s) PDFs and pages are refetched; a media URL and the bytes of a local
\* PDF are not kept.
CanRetry(j)    == kind[j] \notin {"media", "file_pdf"}
\* Kinds whose transcript may come from captions or Whisper.
HasCaptions(j) == kind[j] \in {"youtube", "media"}

-----------------------------------------------------------------------------
(* The writes of storage/repo.py the model tells apart.                    *)

SetRow(j, s, st) ==
    /\ status' = [status EXCEPT ![j] = s]
    /\ stage'  = [stage EXCEPT ![j] = st]

\* Fault: mark_failed as an upsert.
MarkFailedUpserts(j) == status' = [status EXCEPT ![j] = "failed"]

\* mark_failed leaves the stage; a missing row is a KeyError its callers swallow.
MarkFailed(j) ==
    status' = [status EXCEPT ![j] = IF RowExists(j) THEN "failed" ELSE @]

Publish(j)       == buffer' = [buffer EXCEPT ![j] = TRUE]   \* delta event
PublishFinalKeeps(j) == UNCHANGED buffer   \* Fault: the last event does not clear
PublishFinal(j)  == buffer' = [buffer EXCEPT ![j] = FALSE]  \* done or error event

\* Stage left on the row after a pause, when the step is taken up ("persist" is
\* no slow step: the summary stage follows at once).
ResumeStage(step) ==
    CASE step \in {"fetch", "meta"} -> "extracting"
      [] step = "fallback"          -> "fetching_captions"
      [] step = "frames"            -> "analyzing_frames"
      [] step = "download"          -> "downloading"
      [] step = "transcribe"        -> "transcribing"
      [] step \in {"persist", "stream"} -> "summarizing"

-----------------------------------------------------------------------------
(* api/jobs.py: create, retry, delete; the user and the retention sweep.    *)

\* run_pipeline is spawned as a task that has not run yet.
Spawn(j) ==
    /\ attempts[j] < MaxAttempts
    /\ attempts' = [attempts EXCEPT ![j] = @ + 1]
    /\ pipe' = [pipe EXCEPT ![j][attempts[j] + 1] = [step |-> "start", parked |-> FALSE]]

\* POST /jobs for a URL whose newest row is absent or failed.
CreateJob(j) ==
    /\ status[j] = "absent"
    /\ \E k \in Kinds : kind' = [kind EXCEPT ![j] = k]
    /\ SetRow(j, "running", "extracting")
    /\ Spawn(j)
    /\ UNCHANGED <<reason, cached, queue, worker, paused, buffer, pauses, restarts>>

\* Fault: retry does not insist on a failed row.
RetryJobUnguarded(j) ==
    /\ RowExists(j)
    /\ CanRetry(j)
    /\ SetRow(j, "running", "extracting")
    /\ Spawn(j)
    /\ UNCHANGED <<reason, kind, cached, queue, worker, paused, buffer, pauses, restarts>>

\* POST /jobs/{id}/retry: reset_for_retry keeps queued_reason and the audio.
RetryJob(j) ==
    /\ status[j] = "failed"
    /\ CanRetry(j)
    /\ SetRow(j, "running", "extracting")
    /\ Spawn(j)
    /\ UNCHANGED <<reason, kind, cached, queue, worker, paused, buffer, pauses, restarts>>

\* DELETE /jobs/{id}, POST /jobs/delete and the age sweep, in any status: the
\* row and its audio go, the tasks that work on it are not told.
DeleteJob(j) ==
    /\ RowExists(j)
    /\ status' = [status EXCEPT ![j] = "deleted"]
    /\ cached' = [cached EXCEPT ![j] = FALSE]
    /\ UNCHANGED <<stage, reason, kind, counts, pipe, queue, worker, paused, buffer>>

Pause ==
    /\ ~paused /\ pauses < MaxPauses
    /\ paused' = TRUE
    /\ pauses' = pauses + 1
    /\ UNCHANGED <<row, attempts, restarts, pipe, queue, worker, buffer>>

Resume ==
    /\ paused
    /\ paused' = FALSE
    /\ UNCHANGED <<row, counts, pipe, queue, worker, buffer>>

-----------------------------------------------------------------------------
(* workers/pipeline.py                                                      *)

PipeAt(j, a, step) == pipe[j][a] = [step |-> step, parked |-> FALSE]

EndPipe(j, a) == pipe' = [pipe EXCEPT ![j][a] = NoTask]

\* _checkpoint_pause before a step: park and show "paused", or go on; the
\* summary step also writes its stage.  Without a row the write raises.
PipeProceeds(j, a, step) ==
    /\ pipe' = [pipe EXCEPT ![j][a] = [step |-> step, parked |-> paused]]
    /\ paused \/ step = "stream" => RowExists(j)
    /\ IF paused THEN SetRow(j, "running", "paused")
       ELSE IF step = "stream" THEN SetRow(j, "running", "summarizing")
       ELSE UNCHANGED <<status, stage>>

\* Text in hand: persist it and summarize, after the checkpoint in between.
PipePersists(j, a) == PipeProceeds(j, a, IF paused THEN "persist" ELSE "stream")

\* The task runs for the first time: checkpoint, then the slow extraction.  A
\* page submitted with its text has nothing to fetch (a retry has no text).
PipelineStarts(j, a) ==
    /\ PipeAt(j, a, "start")
    /\ RowExists(j)
    /\ \/ /\ pipe' = [pipe EXCEPT ![j][a] = [step |-> "fetch", parked |-> paused]]
          /\ SetRow(j, "running", IF paused THEN "paused" ELSE "extracting")
       \/ /\ kind[j] = "page" /\ a = 1
          /\ PipePersists(j, a)
    /\ UNCHANGED <<reason, kind, cached, counts, queue, worker, paused, buffer>>

\* Fault: the stage is not written back after the pause.
PipelineResumesSilently(j, a) ==
    /\ pipe[j][a].parked /\ ~paused
    /\ RowExists(j)
    /\ pipe' = [pipe EXCEPT ![j][a].parked = FALSE]
    /\ UNCHANGED <<row, counts, queue, worker, paused, buffer>>

\* wait_if_paused sees the flag down.
PipelineResumes(j, a) ==
    /\ pipe[j][a].parked /\ ~paused
    /\ RowExists(j)
    /\ LET step == pipe[j][a].step IN
       /\ SetRow(j, "running", ResumeStage(step))
       /\ pipe' = [pipe EXCEPT ![j][a] =
                     [step |-> IF step = "persist" THEN "stream" ELSE step, parked |-> FALSE]]
    /\ UNCHANGED <<reason, kind, cached, counts, queue, worker, paused, buffer>>

\* Pages and PDFs: the text is there.
TextFetched(j, a) ==
    /\ PipeAt(j, a, "fetch") /\ ~HasCaptions(j)
    /\ PipePersists(j, a)
    /\ UNCHANGED <<reason, kind, cached, counts, queue, worker, paused, buffer>>

\* Captions found, by the API, by yt-dlp, or among the sniffed streams: the
\* metadata probe is next.
CaptionsFetched(j, a) ==
    /\ PipeAt(j, a, "fetch") \/ PipeAt(j, a, "fallback")
    /\ HasCaptions(j)
    /\ PipeProceeds(j, a, "meta")
    /\ UNCHANGED <<reason, kind, cached, counts, queue, worker, paused, buffer>>

\* The caption API gave up: yt-dlp's captions are tried before Whisper.
CaptionsUnavailable(j, a) ==
    /\ PipeAt(j, a, "fetch") /\ kind[j] = "youtube"
    /\ PipeProceeds(j, a, "fallback")
    /\ UNCHANGED <<reason, kind, cached, counts, queue, worker, paused, buffer>>

\* No captions at all: put the WhisperTask, then write status=queued.  The put
\* does not suspend, but it comes first: without a row the task stays queued.
\* Only a YouTube job records a reason.
DeferToWhisper(j, a) ==
    /\ \/ PipeAt(j, a, "fallback")
       \/ PipeAt(j, a, "fetch") /\ kind[j] = "media"
    /\ queue' = Append(queue, j)
    /\ EndPipe(j, a)
    /\ IF RowExists(j)
       THEN /\ SetRow(j, "queued", "queued")
            /\ reason' = [reason EXCEPT ![j] = @ \/ kind[j] = "youtube"]
            /\ UNCHANGED buffer
       ELSE /\ PublishFinal(j)
            /\ UNCHANGED <<status, stage, reason>>
    /\ UNCHANGED <<kind, cached, counts, worker, paused>>

\* Title and language known; the text is persisted.  Moments worth a look are
\* analysed before the summary, if there are any.
MetadataFetched(j, a) ==
    /\ PipeAt(j, a, "meta")
    /\ RowExists(j)
    /\ \E step \in {"frames", "stream"} : PipeProceeds(j, a, step)
    /\ UNCHANGED <<reason, kind, cached, counts, queue, worker, paused, buffer>>

FramesAnalysed(j, a) ==
    /\ PipeAt(j, a, "frames")
    /\ PipeProceeds(j, a, "stream")
    /\ UNCHANGED <<reason, kind, cached, counts, queue, worker, paused, buffer>>

SummaryDelta(j, a) ==
    /\ PipeAt(j, a, "stream") /\ ~buffer[j]
    /\ Publish(j)
    /\ UNCHANGED <<row, counts, pipe, queue, worker, paused>>

\* mark_done, done event.
PipelineDone(j, a) ==
    /\ PipeAt(j, a, "stream") /\ buffer[j]
    /\ RowExists(j)
    /\ SetRow(j, "done", "none")
    /\ PublishFinal(j)
    /\ EndPipe(j, a)
    /\ UNCHANGED <<reason, kind, cached, counts, queue, worker, paused>>

\* A slow call raises or returns nothing, or a write finds the row deleted:
\* mark_failed (whose KeyError is swallowed), error event.  Failures of the
\* caption fallback and of the frame analysis are caught on the spot, and only
\* a later write can raise there.
PipelineRaises(j, a) ==
    /\ \/ \E step \in {"start", "fetch", "meta", "stream"} : PipeAt(j, a, step)
       \/ ~RowExists(j) /\ PipeAt(j, a, "frames")
       \/ ~RowExists(j) /\ PipeAt(j, a, "fallback") /\ paused
       \/ ~RowExists(j) /\ pipe[j][a].parked /\ ~paused
    /\ MarkFailed(j)
    /\ PublishFinal(j)
    /\ EndPipe(j, a)
    /\ UNCHANGED <<stage, reason, kind, cached, counts, queue, worker, paused>>

PipelineStep(j, a) ==
    \/ PipelineStarts(j, a)      \/ PipelineResumes(j, a)
    \/ TextFetched(j, a)         \/ CaptionsFetched(j, a)
    \/ CaptionsUnavailable(j, a) \/ DeferToWhisper(j, a)
    \/ MetadataFetched(j, a)     \/ FramesAnalysed(j, a)
    \/ SummaryDelta(j, a)        \/ PipelineDone(j, a)
    \/ PipelineRaises(j, a)

-----------------------------------------------------------------------------
(* workers/runner.py: whisper_worker and _process_one                       *)

WorkAt(w, step) == worker[w].step = step /\ ~worker[w].parked

\* Fault: the worker forgets the checkpoint.
WorkProceedsUngated(w, step, now) ==
    LET j == now.job IN
    /\ RowExists(j)
    /\ worker' = [worker EXCEPT ![w] = [now EXCEPT !.step = step, !.parked = FALSE]]
    /\ SetRow(j, "running", ResumeStage(step))
    /\ reason' = IF step = "download" THEN [reason EXCEPT ![j] = FALSE] ELSE reason

\* A write of _process_one that finds no row raises; the checkpoint and the
\* stage write before a step come together unless the worker parks.
WorkProceeds(w, step, now) ==
    LET j == now.job IN
    /\ RowExists(j)
    /\ worker' = [worker EXCEPT ![w] = [now EXCEPT !.step = step, !.parked = paused]]
    /\ SetRow(j, "running", IF paused THEN "paused" ELSE ResumeStage(step))
    /\ reason' = IF step = "download" /\ ~paused THEN [reason EXCEPT ![j] = FALSE] ELSE reason

\* The worker leaves the pause gate and blocks in queue.get().
WorkerPassesGate(w) ==
    /\ WorkAt(w, "gate") /\ ~paused
    /\ worker' = [worker EXCEPT ![w].step = "get"]
    /\ UNCHANGED <<row, counts, pipe, queue, paused, buffer>>

\* get() returns, whatever the pause flag is now.  Audio kept by an earlier
\* attempt is reused, without the write that leaves status=queued; a media clip
\* has its duration probed first.  A media job never comes here with cached
\* audio: it is not retried, and a restart fails it.
WorkerTakesTask(w) ==
    /\ WorkAt(w, "get") /\ queue # <<>>
    /\ queue' = Tail(queue)
    /\ LET j   == Head(queue)
           now == [IdleWork EXCEPT !.job = j, !.held = cached[j]] IN
       \/ /\ cached[j]
          /\ WorkProceeds(w, "transcribe", now)
       \/ /\ RowExists(j) /\ ~cached[j] /\ kind[j] = "youtube"
          /\ WorkProceeds(w, "download", now)
       \/ /\ RowExists(j) /\ ~cached[j] /\ kind[j] = "media"
          /\ worker' = [worker EXCEPT ![w] = [now EXCEPT !.step = "probe"]]
          /\ UNCHANGED <<status, stage, reason>>
       \/ /\ ~RowExists(j)
          /\ worker' = [worker EXCEPT ![w] = IdleWork]
          /\ UNCHANGED <<status, stage, reason>>
    /\ buffer' = [buffer EXCEPT ![Head(queue)] = @ /\ RowExists(Head(queue))]
    /\ UNCHANGED <<kind, cached, counts, pipe, paused>>

WorkerResumes(w) ==
    /\ worker[w].parked /\ ~paused
    /\ WorkProceeds(w, worker[w].step, worker[w])
    /\ UNCHANGED <<kind, cached, counts, pipe, queue, paused, buffer>>

\* The clip is long enough, or of unknown length: download it; too short:
\* summarize the page's text instead (_fallback_to_page_text).
ClipProbed(w) ==
    /\ WorkAt(w, "probe")
    /\ \E step \in {"download", "stream"} : WorkProceeds(w, step, worker[w])
    /\ UNCHANGED <<kind, cached, counts, pipe, queue, paused, buffer>>

\* set_audio (skipped when the row is gone), then transcription; a media file
\* of unknown length is measured first.
AudioDownloaded(w) ==
    /\ WorkAt(w, "download")
    /\ LET j   == worker[w].job
           now == [worker[w] EXCEPT !.held = TRUE] IN
       /\ cached' = [cached EXCEPT ![j] = RowExists(j)]
       /\ \/ WorkProceeds(w, "transcribe", now)
          \/ /\ kind[j] = "media"
             /\ worker' = [worker EXCEPT ![w] = [now EXCEPT !.step = "measure"]]
             /\ UNCHANGED <<status, stage, reason>>
    /\ UNCHANGED <<kind, counts, pipe, queue, paused, buffer>>

\* Too short after all: the audio has no further use, the page's text is
\* summarized.
FileMeasured(w) ==
    /\ WorkAt(w, "measure")
    /\ \/ WorkProceeds(w, "transcribe", worker[w])
       \/ WorkProceeds(w, "stream", [worker[w] EXCEPT !.spent = TRUE])
    /\ UNCHANGED <<kind, cached, counts, pipe, queue, paused, buffer>>

\* From here on the audio has no further use.  YouTube's metadata is still to
\* be fetched; a media job has it, or falls back to the page's text.
Transcribed(w) ==
    /\ WorkAt(w, "transcribe")
    /\ LET now == [worker[w] EXCEPT !.spent = TRUE] IN
       IF kind[worker[w].job] = "youtube"
       THEN /\ worker' = [worker EXCEPT ![w] = [now EXCEPT !.step = "metadata"]]
            /\ UNCHANGED <<status, stage, reason>>
       ELSE WorkProceeds(w, "stream", now)
    /\ UNCHANGED <<kind, cached, counts, pipe, queue, paused, buffer>>

WorkerMetadataFetched(w) ==
    /\ WorkAt(w, "metadata")
    /\ WorkProceeds(w, "stream", worker[w])
    /\ UNCHANGED <<kind, cached, counts, pipe, queue, paused, buffer>>

WorkerSummaryDelta(w) ==
    /\ WorkAt(w, "stream") /\ ~buffer[worker[w].job]
    /\ Publish(worker[w].job)
    /\ UNCHANGED <<row, counts, pipe, queue, worker, paused>>

\* The finally block: audio of no further use is unlinked, the row's reference
\* cleared; other audio stays for a retry.
CleanUpAudio(w, spent) ==
    cached' = [cached EXCEPT ![worker[w].job] = @ /\ ~(spent /\ worker[w].held)]

\* mark_done, done event, clean-up; back to the gate after the cooldown.
WorkerDone(w) ==
    LET j == worker[w].job IN
    /\ WorkAt(w, "stream") /\ buffer[j]
    /\ RowExists(j)
    /\ SetRow(j, "done", "none")
    /\ PublishFinal(j)
    /\ CleanUpAudio(w, worker[w].spent)
    /\ worker' = [worker EXCEPT ![w] = IdleWork]
    /\ UNCHANGED <<reason, kind, counts, pipe, queue, paused>>

\* Fault: an exception ends the worker's loop.
WorkerRaisesAndDies(w) ==
    LET j == worker[w].job IN
    /\ j # NoJob /\ ~worker[w].parked
    /\ CleanUpAudio(w, worker[w].spent)
    /\ MarkFailed(j)
    /\ PublishFinal(j)
    /\ worker' = [worker EXCEPT ![w] = [IdleWork EXCEPT !.step = "dead"]]
    /\ UNCHANGED <<stage, reason, kind, counts, pipe, queue, paused>>

\* A slow call raises or returns nothing, or a write finds the row deleted:
\* clean-up, mark_failed, error event; the worker lives on.  A clip found to be
\* too short or without speech, and without page text to fall back on, raises
\* once its audio has no further use.
WorkerRaises(w) ==
    LET j == worker[w].job IN
    /\ j # NoJob
    /\ worker[w].parked => ~paused /\ ~RowExists(j)
    /\ \/ CleanUpAudio(w, worker[w].spent)
       \/ /\ kind[j] = "media" /\ (WorkAt(w, "measure") \/ WorkAt(w, "transcribe"))
          /\ CleanUpAudio(w, TRUE)
    /\ MarkFailed(j)
    /\ PublishFinal(j)
    /\ worker' = [worker EXCEPT ![w] = IdleWork]
    /\ UNCHANGED <<stage, reason, kind, counts, pipe, queue, paused>>

WorkerStep(w) ==
    \/ WorkerPassesGate(w)    \/ WorkerTakesTask(w)
    \/ WorkerResumes(w)       \/ ClipProbed(w)
    \/ AudioDownloaded(w)     \/ FileMeasured(w)
    \/ Transcribed(w)         \/ WorkerMetadataFetched(w)
    \/ WorkerSummaryDelta(w)  \/ WorkerDone(w)
    \/ WorkerRaises(w)

-----------------------------------------------------------------------------
(* main.py: the daemon stops and starts                                     *)

\* Daemon memory after a start, with the given jobs queued.
StartsWith(pending) ==
    /\ restarts < MaxRestarts
    /\ restarts' = restarts + 1
    /\ \/ UNCHANGED cached
       \/ cached' = [j \in Jobs |->
             cached[j] /\ \A w \in Workers :
                 ~(worker[w].job = j /\ worker[w].spent /\ worker[w].held)]
    /\ queue' \in SetToSeqs(pending)
    /\ status' = [j \in Jobs |->
          IF Pending(j) /\ kind[j] # "youtube" THEN "failed" ELSE status[j]]
    /\ pipe'   = [j \in Jobs |-> [a \in Attempts |-> NoTask]]
    /\ worker' = [w \in Workers |-> IdleWork]
    /\ buffer' = [j \in Jobs |-> FALSE]
    /\ paused' = FALSE
    /\ UNCHANGED <<stage, reason, kind, attempts, pauses>>

\* Faults: a row that was running is forgotten; a failed row is queued as well.
RestartForgets == StartsWith({j \in Jobs : status[j] = "queued" /\ kind[j] = "youtube"})
RestartRevives == StartsWith({j \in Jobs : (Pending(j) \/ status[j] = "failed")
                                           /\ kind[j] = "youtube"})

\* A shutdown cancels the workers, whose finally blocks clean up; a kill does
\* not.  What lives in memory is lost.  At startup pending YouTube jobs are
\* queued again, in the order the table returns them and with their status as
\* it is; other pending jobs are failed.
Restart == StartsWith({j \in Jobs : Pending(j) /\ kind[j] = "youtube"})

-----------------------------------------------------------------------------
Init ==
    /\ status   = [j \in Jobs |-> "absent"]
    /\ stage    = [j \in Jobs |-> "none"]
    /\ reason   = [j \in Jobs |-> FALSE]
    /\ kind     = [j \in Jobs |-> "page"]
    /\ cached   = [j \in Jobs |-> FALSE]
    /\ attempts = [j \in Jobs |-> 0]
    /\ pipe     = [j \in Jobs |-> [a \in Attempts |-> NoTask]]
    /\ queue    = <<>>
    /\ worker   = [w \in Workers |-> IdleWork]
    /\ paused   = FALSE
    /\ buffer   = [j \in Jobs |-> FALSE]
    /\ pauses   = 0
    /\ restarts = 0

Next ==
    \/ \E j \in Jobs : CreateJob(j) \/ RetryJob(j) \/ DeleteJob(j)
    \/ Pause \/ Resume
    \/ \E j \in Jobs, a \in Attempts : PipelineStep(j, a)
    \/ \E w \in Workers : WorkerStep(w)
    \/ Restart

\* Every slow call ends (each client sets a timeout) and the loop schedules
\* every ready task.  The user's actions and the restarts are not fair.
Fairness ==
    /\ \A j \in Jobs, a \in Attempts : WF_vars(PipelineStep(j, a))
    /\ \A w \in Workers : WF_vars(WorkerStep(w))

Spec     == Init /\ [][Next]_vars
FairSpec == Spec /\ Fairness

-----------------------------------------------------------------------------
(* Properties                                                               *)

TypeOK ==
    /\ status   \in [Jobs -> Statuses]
    /\ stage    \in [Jobs -> Stages]
    /\ reason   \in [Jobs -> BOOLEAN]
    /\ kind     \in [Jobs -> AllKinds]
    /\ cached   \in [Jobs -> BOOLEAN]
    /\ attempts \in [Jobs -> 0..MaxAttempts]
    /\ pipe     \in [Jobs -> [Attempts -> PipeRecords]]
    /\ queue    \in Seq(Jobs)
    /\ worker   \in [Workers -> WorkerRecords]
    /\ paused   \in BOOLEAN
    /\ buffer   \in [Jobs -> BOOLEAN]
    /\ pauses   \in 0..MaxPauses
    /\ restarts \in 0..MaxRestarts

\* Whoever works for a job: a pipeline that has not ended, a waiting
\* WhisperTask, a worker.
PipesOf(j)   == {a \in Attempts : pipe[j][a].step # "none"}
TasksOf(j)   == {i \in DOMAIN queue : queue[i] = j}
WorkersOn(j) == {w \in Workers : worker[w].job = j}
HasExecutor(j) == PipesOf(j) # {} \/ TasksOf(j) # {} \/ WorkersOn(j) # {}

AtMostOne(S)   == \A x, y \in S : x = y

\* A job is never worked on twice at once: not by the pipeline of a retry and
\* the task of an earlier attempt, not by a task queued twice, not by two
\* workers.  (retry_job and re_enqueue_pending both start work for an old row.)
SingleExecutor ==
    \A j \in Jobs :
        /\ AtMostOne(PipesOf(j)) /\ AtMostOne(TasksOf(j)) /\ AtMostOne(WorkersOn(j))
        /\ PipesOf(j) # {} => TasksOf(j) = {} /\ WorkersOn(j) = {}
        /\ TasksOf(j) # {} => WorkersOn(j) = {}

\* A row that says queued or running is being worked on: nothing strands it,
\* in any order of pause, deletion of others, failure and restart.
PendingIsExecuted == \A j \in Jobs : Pending(j) => HasExecutor(j)

\* A row that says done or failed is not worked on any more, so that a retry
\* starts from rest and a result is not overwritten.
FinishedIsAtRest ==
    \A j \in Jobs : status[j] \in {"absent", "done", "failed"} => ~HasExecutor(j)

\* The replay buffer (GET /jobs/{id}'s partial_summary) only holds text while
\* a summary of that job is streaming: a retry does not append to old text.
BufferIsStreaming ==
    \A j \in Jobs : buffer[j] =>
        \/ \E a \in Attempts : PipeAt(j, a, "stream")
        \/ \E w \in WorkersOn(j) : WorkAt(w, "stream")

\* A row that shows "paused" while running is parked at a checkpoint, or was
\* when the daemon stopped and waits in the queue: no row stays "paused" under
\* work that goes on.
PausedStageIsParked ==
    \A j \in Jobs : status[j] = "running" /\ stage[j] = "paused" =>
        \/ \E a \in Attempts : pipe[j][a].parked
        \/ \E w \in WorkersOn(j) : worker[w].parked
        \/ TasksOf(j) # {}

\* While paused, no expensive step begins: no download, transcription, frame
\* analysis or summary (the probes of _process_one are not gated).
Heavy == {"download", "transcribe", "frames", "stream"}
PauseGatesHeavySteps ==
    [][ paused /\ paused' =>
        /\ \A j \in Jobs, a \in Attempts :
              pipe'[j][a].step \in Heavy /\ ~pipe'[j][a].parked => pipe'[j][a] = pipe[j][a]
        /\ \A w \in Workers :
              worker'[w].step \in Heavy /\ ~worker'[w].parked =>
                  worker'[w].step = worker[w].step /\ ~worker[w].parked ]_vars

\* A job that is pending is eventually finished or deleted, provided the
\* workers are not left paused for ever.
PendingSettles ==
    ([]<>~paused) => \A j \in Jobs : Pending(j) ~> ~Pending(j)

\* What a job looks like from outside: the abstract promise (JobPromise) that
\* the pipelines, the queue, the workers, the deletions and the restarts
\* together implement.
AbsState == [j \in Jobs |-> IF Pending(j) THEN "open" ELSE status[j]]
AbsHeld  == [j \in Jobs |-> HasExecutor(j)]
Promise  == INSTANCE JobPromise WITH state <- AbsState, held <- AbsHeld
PromiseSpec == Promise!Spec

=============================================================================
