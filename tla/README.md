# A verification of the tldr daemon

TLA+ models of the daemon in `src/daemon/src`, TLC configurations that check
them on small instances, and TLAPS proofs for instances of any size. Line
numbers refer to the sources under `src/`; `api/`, `workers/`, `llm/` and
`storage/` are short for the packages of `src/daemon/src`.

Run a check with `tlc -config <run>.cfg <module>` (the table below names both)
and a proof with `tlapm <module>.tla`.

## 1. The system

The daemon is one Python process with one asyncio loop, a SQLite table of jobs,
a directory of audio files and a directory of frames. A browser extension posts
URLs, PDFs and media clips to it; the daemon extracts text (captions, page
text, PDF text, or a Whisper transcript of downloaded audio), looks at video
frames, streams a summary from an OpenAI-compatible backend and answers
questions about the result.

| Component | State it keeps | Operations | Talks to |
|---|---|---|---|
| Jobs API (`api/jobs.py`) | none (the create lock) | create, retry, delete, export, import, translate | job table; spawns pipelines and translations; broker |
| Pipelines (`workers/pipeline.py`) | one task per attempt | fetch, persist, frames, summarise; hand over to Whisper | job table, queue, LLM client, broker, pause |
| Whisper queue (`workers/queue.py`) | FIFO of tasks | put, get, re-enqueue at startup | job table, workers |
| Whisper workers (`workers/runner.py`) | one coroutine each | download, measure, transcribe, summarise, clean up | queue, audio directory, job table, LLM client, pause |
| Pause (`workers/control.py`) | one flag, not persisted | pause, resume; polled by everybody | – |
| Job table (`storage/repo.py`, `db.py`) | rows: status, stage, reason, audio path, texts | short synchronous transactions | – |
| Audio directory and retention (`workers/retention.py`, `youtube.py`) | files named for media ids | write, unlink, sweep orphans after a grace period | job table |
| LLM client (`llm/client.py`) | semaphore, cached client, cached dialect | complete, stream, adapt after a 400, reset | pause, configuration |
| Translation (`workers/translator.py`, `llm/chunking.py`) | a row and a task per (job, language) | request, retry, recover; bisect what does not line up | job table, LLM client, pause |
| Transcription (`workers/transcribe.py`, `vad.py`) | per call: chunks, segments, gaps | cut, send, recut, merge | Whisper backend, two semaphores |
| Frames and vision (`workers/frames.py`, `deixis.py`, `timecodes.py`, `llm/vision.py`) | frame directories, a budget per job | find moments, fetch frames, look at them | job table, LLM client |
| Summary (`llm/summary.py`, `repetition.py`) | per call | one pass or map-reduce, loop guard | LLM client |
| Events (`workers/broker.py`, `api/events.py`) | replay buffers, one bounded queue per subscriber | publish, subscribe, replay | extension |
| Questions (`api/ai.py`, `llm/qa.py`) | messages | stream an answer with tool rounds | LLM client, which they may use during a pause |
| Library bundle (`storage/bundle.py`) | – | export, import | job table, frames |
| Configuration (`api/config.py`, `config.py`) | a YAML file, a cached object | read, patch, test a backend | LLM client |
| Extension (`src/extension`) | side panel, library, options | snapshot plus event stream | API |

**What is hard.** Everything runs on one loop, so the code between two awaits
that suspend is atomic and every await is an interleaving point. The hard cases
are: deletion, retry, pause and restart while an executor of the same job is in
a slow call; the handover pipeline → queue → worker; fields of a row that one
attempt leaves behind and another reads; a file name shared by two jobs; slots
that are given and taken under cancellation; a shared mutable object corrected
by concurrent calls; budgets that run out half-way. `PROJECT.json` lists them
under `hazards`, each at its line with the property that watches it.

**What makes each component correct.**

- *Jobs*: an accepted job is worked on by exactly one executor until it is done
  or failed; no row says queued or running with nobody working for it; a
  deleted job stays deleted; work in progress is eventually finished.
- *Pause*: nothing expensive starts while the flag is up; no call is lost and no
  question is delayed for it; the shown stage is true.
- *Audio*: what a retry relies on is on disk; nothing is unlinked in use;
  nothing leaks.
- *LLM client*: slots are neither lost nor invented; the request shape is
  learned once, from the right backend, within the attempts.
- *Transcription*: every part of the audio that could be cut is transcribed, in
  its place; a language is forced on the backend for a good reason only;
  segments do not overlap; a hole is filled, or marked and counted; everybody
  gets a slot.
- *Frames*: a job stays within its budget of frames; the conveyor shows every
  moment it fetched, in order; frames go with their job.
- *Summary*: every segment reaches the last prompt, and the prompt fits; a
  stream is the filtered text, however it is cut up.
- *Translation*: no line is lost; what was not translated is counted; one worker
  per row; every request settles.
- *Events*: a replay holds the text of the current attempt only; a subscriber
  that keeps up misses nothing.
- *Library*: one job per URL; an import does not disturb work in progress.

## 2. The modules

| Module | Models | Uses |
|---|---|---|
| `JobLifecycle` | pipelines, queue, worker pool, pause, create/retry/delete, restart | `INSTANCE JobPromise` |
| `JobPromise` | abstract: what a job looks like from outside | |
| `MCJobLifecycle` | symmetry for TLC | `JobLifecycle` |
| `JobLifecycleProofs` | theorems | `JobLifecycle` |
| `AudioStore` | audio files, the rows that refer to them, the sweep, crashes | |
| `AudioStoreProofs` | theorems | `AudioStore` |
| `LlmSlots` | the semaphore of the LLM client and the pause | |
| `Dialect`, `MCDialect` | learning the request shape of a backend | |
| `LlmClientProofs` | theorems about both | `LlmSlots`, `Dialect` |
| `Transcription` | one transcription: slots, uploads, chunks, the pinned language | |
| `TranscriptionProofs` | theorems | `Transcription` |
| `Segments` | pure: loops, windows, slices, clipping of timed segments | |
| `Coverage`, `MCCoverage` | the rechecks of one unit of audio, and the restoration | `Segments` |
| `CoverageProofs` | theorems | `Coverage` |
| `Frames` | frame directories, the budget, the conveyor, questions, clicks, import, sweep | |
| `FramesProofs` | theorems | `Frames` |
| `StreamFilters` | pure: the two filters of a streamed summary, and what they stand for | |
| `Summary` | chunks, partial summaries, folds, the stream | `StreamFilters` |
| `TranslateGroup`, `MCTranslateGroup` | bisection of a transcript under a call budget | |
| `LlmTextProofs` | theorems about both | `Summary`, `TranslateGroup` |
| `Translation` | the rows of translations and their tasks | |
| `Library` | the rows of one URL: submission, retry, deletion, import, restart | `Translation` |
| `LibraryProofs` | theorems | `Library`, `Translation` |

`Dialect` prefixes the names it would share with `LlmSlots`, and `Summary` those it
would share with `TranslateGroup` (`DialectSpec`, `SummarySpec`, ...), so that one
module can prove things about both. Operators commented "Fault" are plausible bugs of the operator that follows
them; no specification uses them. `PROJECT.json` names, for every checked
property, one whose substitution breaks it.

The modules meet where the code does: a job is `JobLifecycle`; its slow calls
are opened up one by one. The step "transcribe" is `Transcription`, one of whose
units is `Coverage`; the step "summarise" is `Summary`, the frame analysis before
it the conveyor of `Frames`; every call of theirs to the LLM passes `LlmSlots`
and `Dialect`. `Library` sees the job from the library's side, with
`JobLifecycle` reduced to four statuses, and a translation task's "work" is
`TranslateGroup`.

### JobLifecycle

State: the columns of a row that steer control (`status`, `stage`, `reason` =
`queued_reason` is set, `kind`, `cached` = `audio_path` is set), one pipeline
record per attempt (`pipe`), the FIFO `queue`, one record per Whisper worker
(`worker`), the `paused` flag and whether the replay `buffer` has text. A step
is the code between two awaits that suspend: the result of the slow call that
has ended, every write up to the next slow call, and the checkpoint before it.
`PipelineStep` goes through `run_pipeline` and the four `_run_*` functions,
`WorkerStep` through `whisper_worker` and `_process_one` including the fallback
to page text and the `finally` block that removes audio. A pause checkpoint is a
conjunct of the step that reaches it (`PipeProceeds`, `WorkProceeds`): the task
goes on, or parks with stage "paused". `Restart` merges shutdown, kill and
startup: tasks and queue are lost, pending YouTube rows are queued again in any
order, other pending rows are failed. Slow calls may return or raise at will;
texts, percentages and events other than the buffer are left out. An http PDF
behaves like a page after its fetch, so the safety run leaves kind "pdf" out.

`JobPromise` says the same in a page: a job is open, done, failed or deleted; an
open job is held; only its holder settles it; only a failed job nobody holds is
taken up again; a restart holds or fails what was open.

### AudioStore

A closer look at `audio_path`: `file[m]` is what the directory has for a media
id, as `none`, `partial` (yt-dlp's part file) or `whole`, and `old[m]` whether
it is past the sweep's grace period (24 h). yt-dlp names the file for the media
id (`youtube.py:373`), not for the job, and jobs may be about one media id, at once
or one after the other (`create_job` does not look at it). They share the file, and
a job that is through, its worker's clean-up or its deletion, takes the file from the
others: the properties name this exception (`RivalWas`, and the last conjunct of
`InUseIsLeft`) and no other. `Ages` assumes that no download or transcription lasts
for the whole grace period.

### LlmSlots

`asyncio.Semaphore` is modelled by what its methods do (FIFO waiters, no
overtaking, a woken waiter runs later, a cancelled woken waiter passes its permit
on): the operators from `WakeNext` to `GiveBack`, external to the repository.
The actions are `_acquire_llm_slot` with its two looks at the pause, the life of
a stream (`StreamOpens`, `ChunkArrives`, `ConsumerResumes`, `Returns`), a
consumer that drops the generator in the middle (`Abandons`, then `Closed` by the
loop), and a client that disconnects from a question. A completion is a stream
without chunks.

### Dialect

One object per cached dialect, shared by the calls in flight: the set of
dimensions it sends in the corrected form. A backend is the set of dimensions it
refuses; a configuration pins some. A 400 blames one wrong dimension at a time.
`ResetCaches` is PATCH /config; `ProbeBegins` and `ProbeGoesOn` are the
connectivity test with its throwaway object and its copy. The model assumes that
a 400 which names a dimension is about that dimension (`client.py:149-159` looks
for words in the text).

### Transcription

One transcription in detail (`Me`) among others of which all that matters is that
they ask for a slot again and again. `Ask`, `Send` and `Back` are `_call_whisper`
with its global semaphore, external to the repository but for its use; the
per-job lock is the single request of `Me`. `Begin` and `Split` choose between a
whole upload and chunks, `StartOver` is the fallback after a 413. What varies is
the answer: the language it reports, the one its text looks like, an error, a
413. `units` is what could be cut, so a failed cut is a gap in it. The rechecks of
a unit are a counter here and `Coverage` in detail.

### Segments and Coverage

Time is cut into cells of one unit; the half-open interval `[a, b)` of the code is
a pair of natural numbers. Texts are values with relations: short, nearly the
same, an annotation only. `Segments` holds the functions of `timecodes.py`
(`Collapse`, `Discarded`) and `transcribe.py` (`Windows`, `Slices`, `Clip`). Loops,
filters and sorts are written as sets of positions, `At` and `ByStart` list them by
rank: no definition there is recursive, which is what lets a proof reason about
segments of any number; `Picked` is the list that a filter makes of positions.
`Coverage` has the state of `_ensure_coverage`. Whisper's answer to a cut is any
sequence of segments inside the cut, of positive length, in order and without
overlap. That is an assumption about the backend: the code asserts the order of the
starts only (`transcribe.py:2469`), and `OnlyRestoredOverlap` and `HeardStays` do not
hold without it (two identical segments, one inside the other, are taken for a loop).
The voice detector examines the candidates in order until its budget is spent or a
request fails. Of each window it says how many of `Parts` equal parts are speech
(`Heard`), from none to all, and of a window without speech whether it is loud; what
is speech is spread evenly over the slices of the window (`vad.py:313`,
`transcribe.py:1638`), so that slices are worth parts of a second (`Worth`).
Thresholds in seconds are constants in cells; fractions (80 % overlap) are kept.

### Frames

Files of one job by moment: `files[m]` frames in directory `t<m>`. A fetch has one
step per await: `Planned` (what its caller does before), `Starts` (clearing,
counting, capping), `Downloaded`, `Extracted` or `FetchFails`. The three callers
are instances of it: the conveyor with its one-ahead prefetch (`at`, `shown`), the
LOOK step of questions, the clicks of viewers. A vision call has read its frames
before it waits. Findings and messages are the sets of frames they refer to; `lost`
is the history of the moments that a fetch cleared without reusing what was there,
or whose frames an import refers to and does not have. Import copies files before
its row, without a look at the budget of frames (`bundle.py:564-598` counts bytes),
and cleans up after a failed insert; the sweep removes any directory without a row,
that of a running import included. After a crash a running YouTube job is queued
again and comes to the conveyor once more.

### StreamFilters and Summary

A text is a sequence of characters, of which six are enough for a line, a newline
(`"/"`), spaces (`"~"`), a timecode and a link; where its lines matter it is the sequence of
its lines, and `Join` makes one from the other. `Trim` and `Cap` are the filters on a
whole text, given by the positions they keep; `GuardFeed` and `CapFeed` work on a
stream, one character at a time. The repository has both forms and promises that they
agree. `Summary` counts tokens, not characters, up to the streamed call: segments are
cut into chunks with a tail of overlap, mapped, folded and streamed; a partial summary
is the set of segments it was made from and a size. The tail has whole items, so it may
be larger than the overlap (`chunking.py:176-178`), up to all of the chunk before:
`Split` takes any size, and `MaxTail` only bounds it. A text that brackets make
different again after the split fails (`chunking.py:257-266`), which `Fail` has. `Pack` gives the groups of a fold by
their last items.

### TranslateGroup

The groups are given by their last lines (`Ends`), and the recursion of
`_translate_group` is its stack of segments. An answer either
lines up or does not: exactly if the segment contains none of the `bad` lines,
or at will if `bad` is `Anything`. One action per outcome of a call: `Aligned`,
`RetriesLine`, `Bisects`, `GivesUp`, and `OutOfBudget` without a call. An
exception ends the whole translation and belongs to its row (`Result`).

### Translation and Library

A row per (job, language) with its status, text and error, and the task that
works for it. A row's code is a supported language, which can be asked for, or one that is
`Unknown` to `normalize_lang`, which only an import brings (`bundle.py:694-696` takes
any code). Other spellings of a supported language (`en-US`) are left out: the task of such a row
works for the row of the normalized code, and leaves this one queued as if it were
unknown. `Enqueue`, `RetryAll` and `Resume` reset
rows and spawn tasks, and get no task for an unknown code
(`translator.py:278-285`, `325-332`);
`Reads`, `GivesUp` and `Finishes` are what a task does between its awaits, `Dies`
an exception outside its `try`. `doubled` and `orphaned` are history. `Library`
adds the jobs: ids in the order they are given out, the time of creation (an
import may bring an old one along), `POST /jobs` with its look at the newest row,
the import in its thread between the check and the insert, and the restart. An
imported partial translation has an error only if the bundle has one
(`bundle.py:710-714`).

## 3. The runs

| Run | Module, configuration | Question | Bounds |
|---|---|---|---|
| `lifecycle_safety` | `MCJobLifecycle`, `JobLifecycle_safety.cfg` | one executor per job; pending rows executed; finished rows at rest; buffer and stage as stated; pause gates; implements `JobPromise` | 2 jobs of 4 kinds, 2 workers, 2 attempts, 1 pause, 1 restart |
| `lifecycle_liveness` | `JobLifecycle`, `JobLifecycle_liveness.cfg` | pending jobs settle | 2 jobs, 1 worker, 1 attempt, 1 pause, 1 restart |
| `audio_store` | `AudioStore`, `AudioStore_safety.cfg` | kept audio is there; files in use are left; orphans go | a YouTube and a media job, about one media id or two, 2 starts, 1 crash |
| `llm_slots` | `LlmSlots`, `LlmSlots.cfg` | slots conserved; nothing patient starts in a pause; questions and, after the pause, everybody is served | 2 patient callers, 2 questions, 2 slots, any number of pauses |
| `dialect` | `MCDialect`, `Dialect_safety.cfg` | attempts suffice; no cross-talk; learned once | 2 calls, 3 objects, 3 kinds of backend |
| `transcription` | `Transcription`, `Transcription.cfg` | pins are justified; every cut is merged; nobody starves | 3 askers, 1 slot, 3 chunks, 2 rechecks a unit, 2 languages |
| `coverage` | `MCCoverage`, `Coverage_safety.cfg` | only restored segments overlap; text beats a hole; silence stays silent; what was heard stays | 6 cells, 3 segments, 1 per answer, 2 texts, 2 rechecks, a detector that hears halves of a window |
| `coverage_badge` | `MCCoverage`, `Coverage_badge.cfg` | (expected to fail, see below) | 3 rechecks, no detector |
| `frames` | `Frames`, `Frames_safety.cfg` | no fetch alone goes beyond the budget; the conveyor keeps in step; what is stored can be shown; orphans go | 3 moments of 2 frames, budget 5, 2 questions or clicks, 2 runs, 1 crash, an import |
| `summary` | `Summary`, `Summary.cfg` | nothing left out; the last prompt fits; the stream is the filtered text | 5 segments of up to 3 tokens, limit 5, tails of up to 3; texts of 7 characters |
| `translate_group` | `MCTranslateGroup`, `TranslateGroup.cfg` | nothing lost, fallback counted; only lines next to bad lines fall back | groups of 8 and 5 lines, every set of bad lines and an LLM that fails at will; depth 2; 14 calls |
| `library` | `Library`, `Library_safety.cfg` | one usable row; one task per row; live rows have tasks; rows well-formed; requests settle | 2 rows of one URL, 1 language asked for and 1 not supported, 3 requests, 1 retry, import, restart, dead task |

**Why the bounds are enough.**
*Jobs.* Two jobs and two workers are the smallest instance in which an executor
of one job meets the queue entry of another, two workers compete for a task and a
task waits behind another; two attempts let a retry meet what the first attempt
left; one pause and one restart at any point give all their interleavings with
one attempt. Actions about one job only touch its own row, so a third job adds no
new kind of meeting; the proofs remove the bound. The liveness run needs one
worker, for a queue that is really contended, and no symmetry.
*Slots.* With two slots and two callers of each kind, paused callers can be given
every permit ahead of a question, and an abandoned stream and a woken waiter
overlap. Three dimensions are all a dialect has; two calls and three objects give
an old object, a new one and one under test. Two other transcriptions on one slot
can overtake a third if the order of the line is not kept; three chunks are the
first, whose language may be pinned, the second, which may agree with it, and one
that only follows.
*Coverage.* Six cells and three segments hold a loop whose middle a recheck finds silent,
with text on both sides of it (the one way in which segments come to overlap), a window
with a slice that leads and one that does not, a target that begins before its window,
and segments that straddle either edge; two rechecks let a second splice meet the
first. With two parts a window is speech, half speech or none, and half of a window
is worth a part of a cell in each of its slices. An answer of two segments is a first
pass cut short, as far as a splice is concerned; the theorems have no such bound. The
slices of a third recheck are what
`coverage_badge` needs and the safety run leaves out.
*Frames.* A budget of five over moments of two is spent half-way through the last
one, and leaves the conveyor two moments of three, so that questions look at one
that it never fetched. An import that copies all three has six frames and is over it.
*Summary.* Limits of 5 and partials of up to 2 make prompts that need two rounds of
folding. Seven characters hold a line, its repetition and the one that makes a
loop, or two timecodes on a line with what follows.
*Translation.* At depth 2, groups of 8 and 5 lines end in pairs given up at the depth
limit and in single lines that are retried, and an LLM that always fails exhausts
the 14 calls in the second group. Two rows of a URL are what an import beside a
submission, or a retry beside a new row, gives; three requests are a first one, one
after a failure and one beside it.

**Fairness.** The loop runs every ready task, so pipeline and worker steps, polls,
the resumption of consumers and the closing of dropped generators in `LlmSlots`, the
fetches in `Frames`, the tasks in `Library`, the sweeps and the passing of time are
weakly fair: what is awaited returns or raises in the end. Calls of the LLM have a
timeout. Downloads rely on the socket timeouts of yt-dlp; ffmpeg and the requests to
Whisper (`timeout=None`, `transcribe.py:2903`) have none, so that they end is an
assumption about the tool and the backend.
`Returns` is strongly fair in `LlmSlots`: between two chunks the call is at its next
chunk again and again, and `max_tokens` bounds how often. `ConsumerResumes` is fair
for callers whose consumer is in the daemon; for an SSE client that stays connected
and does not read nothing guarantees it (`hazards`, `api/ai.py:117`).
The jobs of `Library` finish because those of
`JobLifecycle` do (`PendingSettles`). Users never have to act: `PendingSettles` and
`PatientServed` assume only that the daemon is not left paused for ever;
`QuestionsServed` not even that.

**Stopping.** `CHECK_DEADLOCK FALSE` is set where the bounded model really ends:
all jobs settled and the bounds used up, the transcript resolved, the summary
done.

### Where the code and its comments differ

`coverage_badge` looks for, and finds, a counterexample to what a comment says:
rechecks may find overlapping stretches silent (the second one after a splice
has moved the edges of its window), `_uncovered_by_confirmed_silence`
(`transcribe.py:1785`) subtracts each of them from the window, and the number of
missing seconds is smaller than the stretches marked as not recognized, against
`transcribe.py:2791-2796`.

The other differences met while modelling. The models follow the code; where a
difference bounds a property, the property says so.

- *Jobs.* A retry that reuses cached audio takes the branch at `runner.py:251` and
  never clears `queued_reason`: the job ends done with a reason, which
  `bundle.py:212-214` and `runner.py:325-331` rule out. A worker already waiting in
  `queue.get()` takes a task put during the pause (`runner.py:678-680`, against
  `api/workers.py:7`); it parks before the download, as `PauseGatesHeavySteps`
  shows. Deduplication reads the newest row only (`api/jobs.py:511`): after a
  retry or an import a URL may have two rows that could be used (497-500), which
  is why `OneUsableRow` is about URLs that were only submitted.
- *Audio.* `transcribe_done` is set before the summary, so a failed summary loses
  the audio that `runner.py:639-641` keeps for the retry. A retry that succeeds
  with captions never reaches the clean-up in the runner: a done job keeps its
  audio, against `db.py:116-118`. Two jobs about one media id share a file
  (`youtube.py:373`): the clean-up or the deletion of one takes the audio kept for
  the other, and when a job is deleted while it runs and its URL is submitted again,
  the old worker's `finally` (`runner.py:653-657`) unlinks what the new one reads.
  `KeptAudioIsThere` and `InUseIsLeft` name these, and say there is nothing else.
- *Transcription.* "Absorb into ONE segment" (the docstring at 1918-1940) is about one
  restored piece and its left neighbour. When a loop such as (0,1), (1,5), (5,6) is
  collapsed, a recheck of (1,3) fails and one of (3,5) finds silence, the pieces (1,3) and
  (5,6) are restored; the neighbour of the second is the segment (1,5) of the first pass, so
  it is widened back to 1, over the silence, and overlaps the restored (0,3). The pruning
  at 2097-2111 looks at the segments that stood, not at the restored ones; only the
  starts are asserted (2113), and those are in order. `OnlyRestoredOverlap` names this
  exception, and `NoOverlap` proves that there is no other. The final `collapse_repeated_segments` (`transcribe.py:1001`) may
  discard again what the restoration put back after a neighbour with the same
  text (1918-1933). A segment that reaches into a recheck's target from before is
  dropped whole: up to `MinRecheck` seconds of what was heard stay lost, hence the
  last line of `HeardStays`. A first pass whose segments overlap passes the assertion
  at 2469; section 2 says what then fails. A first pass out of order trips the assertion
  at 2469 and ends the job. A chunk that `_split_audio` fails to cut (3080) is
  neither transcribed nor counted in `missing_seconds` (898-902). After a 413 with
  an unknown duration, or when nothing can be cut, the same upload is repeated,
  "rather than a repeat of the same request" (968-975). The text of one chunk
  never pins a language, though the module's docstring (224-232) still describes
  that path. `config.py:193-197` says that one slot gives no fairness; the FIFO
  semaphore alternates, and `NobodyStarves` holds with one.
- *Frames.* The LOOK step clears the frames of a moment that a stored answer may
  show (`frames.py:785`, against `schemas.py:630-633`), as does a second run of the
  conveyor; `StoredFramesServed` says that nothing else does, once the row is there.
  During an import there is no row yet, and the sweep may take the frames copied so
  far. Fetches that overlap each count the disk before the other has written, so
  together they exceed the budget (`frames.py:90-97`), and an import may bring more
  than the budget; `AloneWithinBudget` is about what a fetch adds that does not
  overlap another. A run that finds nothing leaves the findings of an earlier run on
  the row, against `repo.py:560-565`.
- *Streams and summaries.* `cap_markers_in_stream` promises the same text as the
  function on the whole (`timecodes.py:994-1003`); the spaces around a dropped
  timecode differ. `split_for_summary` "guarantees" that no chunk exceeds the target
  (`chunking.py:7-11`); the tail of the chunk before comes on top. That the check after
  the split fails "should be impossible" (`chunking.py:262`); a text long enough to be
  split that has an unbalanced bracket of its own, as in "[0, 1)", does it, and its
  summary fails. A last line without a newline is let through by the flush even when it is a repetition.
- *Translation.* Two bad regions of two lines in a group of 64 can cost more than the
  budget of 35 calls (a region across a cut is followed into both halves; a single
  line is retried), and lines fall back that the comment at `translator.py:116-125`
  says are absorbed; `OnlyNearBadLinesFallBack` is about runs within the budget. An imported
  row in an unsupported language is reset by a retry of all translations, which erases
  a partial text, and then has no task: it stays queued, and no restart repairs it
  (`translator.py:278-285`, `325-332`; `bundle.py:694-696`). `LiveRowHasTask` and
  `RowSettles` are about supported languages. A partial row from a bundle may be
  without the error that `db.py:228-230` describes; `RowsWellFormed` says so.

## 4. The proofs

All theorems are about the specification without fairness, for any value of the
constants that satisfies the named assumptions.

| Module | Theorems | Argument |
|---|---|---|
| `JobLifecycleProofs` | `TypeCorrect`, `OneExecutor`, `NothingStranded`, `Rest`, `Implements` | one executor per job; see below |
| | `BufferFollowsStream`, `PausedIsParked` | what a job shows is what its one executor does; see below |
| | `PauseGates` | a step that reaches an expensive call under the flag parks, and only an unparked task goes on; types suffice |
| `AudioStoreProofs` | `TypeCorrect`, `KeptAudio`, `InUse` | a job's column, its worker and the disk agree (`Agrees`), unless a rival about the same media id was settled; see below |
| `LlmClientProofs` | of `LlmSlots`: `TypeCorrect`, `SlotsAreConserved`, `PauseHolds`, `NobodyIsForgotten` | see below |
| | of `Dialect`: `DialectTypeCorrect`, `AttemptsAreEnough`, `NoCrossTalk`, `LearnedOnce` | see below |
| `TranscriptionProofs` | `TypeCorrect`, `PinJustified`, `CutsAreMerged` | what has been heard is a function of the place in the plan; see below |
| `CoverageProofs` | `NoOverlap`, `ApartUntilTheEnd`, `SilenceIsKept`, `NoHoleWithText`, `NothingHeardIsLost` | until the unit ends its segments are apart, and a piece of a window is apart from them; see below |
| `FramesProofs` | `TypeCorrect`, `BudgetHolds`, `ConveyorKeepsStep`, `StoredAreServed` | a fetch alone reserves what it may write; see below |
| `LlmTextProofs` | of `TranslateGroup`: `TypeCorrect`, `InputIsNeverLost`, `BadLinesAreIsolated` | a segment is as short as its depth makes it; see below |
| | of `Summary`: `SummaryTypes`, `EverySegmentIsThere`, `LastPromptIsFolded` | partial summaries are in order; every fold halves them; see below |
| | of its stream: `StreamIsTrimmed`, `StreamIsCapped` | each filter's state is a function of the text so far; see below |
| `LibraryProofs` | `TypeCorrect`, `NobodyTwice`, `LiveRowsHaveTasks`, `RowsAreWellFormed`, `OneRowIsUsable` | a row, its task and its job are described together; see below |

The assumptions are those the modules name, which TLC evaluates in every run:
finite sets of jobs, callers and ids, bounds that are numbers, thresholds of loops that lie
close together, distinct names, a
budget of frames that has room for one moment, two or more chunks (one chunk is
the whole), groups of lines that are not empty. One theorem assumes more, in its statement:
`LastPromptIsFolded`, that the text has no more segments than `MaxFolds + 1` doublings make.

*JobLifecycle.* None of the three properties is inductive: a retry starts the
only executor because a failed row is at rest; a pipeline's handover leaves one
task because the pipeline was the only executor; a restart re-enqueues each row
once because the queue is empty. `IInv` is their conjunction with the types and
the shape of the records (who may be parked; an idle worker has no job). The
proof has two levels: every action is shown to have one of nine effects on a
job's executors (`Works`, `Settles`, `Spawns`, `PipeHandsOver`, ...), then every
effect is shown to preserve `IInv` and to be a step of `JobPromise` or a stutter.
The second level yields the refinement theorem `Implements`.

*What a job shows.* `SInv` adds to `IInv` that a buffer with text has a stream, a
running row that says "paused" has somebody parked or a task in the queue, and a
running row in the queue is a YouTube row (a restart put it there). It is
inductive only on top of `IInv`: when a task unparks, leaves its stream or dies, the
row it clears is right because no second executor can be the one that the buffer
or the stage is about (`PipeAlone`, `WorkerAlone`).

*AudioStore.* A kept file is still there when the row is read because of what is on disk
while the job is queued again, downloads and transcribes (`Agrees`): the column is set
only for a whole file, the worker that reads one has it in the column, and yt-dlp's part
file is too young for the sweep. Nobody but a job about the same media id unlinks a whole
file that a row refers to, and that job is settled by then; once settled it stays so
for good (`RivalWas`), a retry included, which `starts` tells.

*LlmSlots.* `Sound` says that the line holds sleeping callers, each once;
`Permits` that free slots, holders and dropped streams add up. Each method of the
semaphore is a lemma about any sound state, each action applies them;
cardinalities change by one caller at a time (`OneMoves`). Soundness of the line
is needed because a caller in the line twice would be woken twice and counted
once. `NoWakeupLost` says that who sleeps beside a free slot has somebody woken before
him. It is not that nobody sleeps there: a newcomer looks for woken callers too, and
lines up behind them. Every way a slot comes back (return, error, disconnect,
a woken caller that is closed) wakes the next of the line, and a woken caller that
takes the slot wakes the one after if there is another slot. It is what
`QuestionsServed` and `PatientServed`, which stay with TLC, would break on first.

*Dialect.* `Paid`: a call has made at most one attempt more than the corrections
its request carries. A refusal adds a correction that was not there, there are
three dimensions, so the fourth attempt cannot fail for one of them.

*Transcription.* `HeardOK` ties `heard` to `pc` and `pos`: of the first two units, as
many answers are in as have been passed. So when the second unit's text is
compared with `cand`, there is exactly one entry, `cand` is what its text looked
like (`PinOK`), and the audio is in chunks because it has a second unit. `UnitsOK`
says that `merged` is the units before `pos`, and the one at `pos` when all is done;
`SlotsOK` that the job asks only for an answer that is due, without which a recheck
could exceed its budget. The language properties need nothing about the others;
the queue of requests is carried along for the types.

*Coverage.* Until the unit ends, `working` is `Tidy`: a sequence of segments of positive
length, none of them restored, each ending before the next begins. A splice keeps what
ends before its target, adds an answer clipped to the target, and what begins after it;
the argument needs that filtering, clipping and sorting such a sequence gives one
(`TidyAt`, `TidyClip`, `TidySplice`). What lists a finite set in an order is shown once to
be a bijection between ranks and members (`ListedIsList`): every statement about `At`,
`ByStart` and the restored segments rests on it. At the end, the pieces to restore lie
apart from each other (`PiecesApart`), and a segment that stands is either outside a window
or, as the first of a loop, before it (`WholeSegment`), so a restored segment can reach
only into the range it was widened to, which is pruned; two restored ones
overlap only if the widening of the second went across a silence that separates the
pieces (`LaterPieceFits`). `SilenceIsKept` and `NoHoleWithText` follow from the same
description of the restored list, the first because a widening stays within a segment that
stood there, the second because the last restored segment of a piece is drawn out to the
end of it. `NothingHeardIsLost` needs no history of the splices: a cell that the first pass
heard is covered by a segment that no loop drops, and then by what replaces or widens over
that segment; or it is in a piece, whose first-pass text is put back; or its window is too
short. The one thing that could lose it is that the text of a piece is collapsed again, on
its own: a gap is clipped to a stretch of neighbours (`ClipStretch`), and what a loop of a
stretch drops, a loop of the whole drops (`LoopOfPart`). This is so because the thresholds
are close together (`ThresholdsAssumption`; 6, 1 and 3 in `timecodes.py:437-479`): were a
near run kept that is two segments longer than an exact one may be, a part of it could be
a loop, and the property would be false.

*Frames.* `TypeOK` and the budget are not enough: a fetch that counts the disk, and
writes after two awaits, keeps the budget only if nobody else fetched in
between. `AloneFits` says that while no two fetches have overlapped at most one is in
flight, and that what is on disk beside its moment leaves room for what it wants.
An import may have left more than the budget: then nothing is left to want, so `BudgetHolds`
is about the steps that add frames, which only the fetch of `AloneFits` takes.
`BeltOK` describes the one-ahead prefetch: which moment is being fetched, as the
conveyor stands between looking and taking. Cardinalities are taken apart by moment
(`Parts`). `StoredAreServed` needs that not only what is stored is on disk, or in `lost`,
but also what a run has found so far, and what a vision call looks at or is about to
(`Served`): those are stored later. It is inductive since every step of a job that is
there keeps its files or says in `lost` that it does not (`FilesStay`).

*TranslateGroup.* `GoesOn` says that the segments on the stack follow each other from
the last resolved line to the end of the transcript; `Placed`, that a segment at depth
`d` lies in a group and is shorter than a `2^d`-th of it, up to rounding. The powers of
two are a recursive function, `Pieces`; that it exists and doubles is proved by a
least counterexample (`LeastNumber`, from the well-foundedness of `<`), which takes the
place of an induction. A segment that falls back at the depth limit contains a bad
line and so is within that distance of it (`OnlyNearSoFar`, which is about the state
before the budget is spent).

*Summary.* `MapInv` says, for each phase, that the chunks made so far and the one under
construction, or the partial summaries so far, hold every segment up to `next` once
and in order; a fold keeps that because a group is a stretch of neighbours (`PackMakesGroups`) and
the groups follow each other. For `LastPromptFits`, two neighbouring groups of `Pack` together
exceed the limit, so when any two partial summaries fit it no group of a round but the last
has a single member: each round halves their number, and `FewEnough` says that what is
left is at most the doublings the remaining rounds can undo.

*The filters.* `Follows` describes the guard after the complete lines `C` and `L` characters
of the next: it has counted the countable lines of `C`, holds `L` exactly if `L` begins a
line seen, and what it let out, with what it holds, joins `Trim(C)` and `L`. `Trim` is given
by positions, so a line more adds its position or does not (`KeptMore`), and the text that
closes a loop differs from it in blank lines only (`BareLines`). `Capped` describes the cap
after a text `u`: `u` is some `v` followed by what is held, the count is that of the
timecodes on the last line of `v`, up to the maximum, and but for spaces all of `Cap(v)` is
out. Whether a bracket begins a timecode is only known two characters later; the lemmas
`PlainMore`, `MarkerMore` and `LinkMore` say what each ending does to the whole-text
function. Nothing here is an induction over the text: a step adds one character, and where
a recursive function has to be unrolled (`Join`, `Tokens`, `Pack`, `Pass`), its existence and
values come from `Recursion` and `UpTo`, both proved from the least counterexample.

*Library.* `KeyOK` relates the status, the text and the error of a row to its task and
to its job: who has a task is live, or its job is gone. A row in a language that is not
supported never has a task, and only a job that was `brought` by an import has such a
row, or a partial one without an error. A task is spawned only
for a row that is not live, hence for one without a task, hence `doubled` stays
empty. `OneUsableRow` needs that ids are given out in order (`IdsInOrder`) and that,
without retries and imports, only the job that came last can be anything but
failed (`OnlyTheLast`): a submission looks at that row alone.

**Only model-checked.**

- Liveness is not within the prover's reach: `PendingSettles`, `OrphansGo` (of audio
  files and of frame directories), `QuestionsServed`, `PatientServed`, `NobodyStarves`,
  `RowSettles`.
- `BadgeCoversMarkers` is false, and its run shows so.

## 5. The plan

1. `EventStream`: bounded subscriber queues, dropped events, replay; and
   `SidePanel`, the extension's snapshot-plus-stream reducer over it
   (`sidepanel/app.js`), against the abstract row it displays.
2. `Transcription` with `Coverage` as its units, and a refinement of `JobPromise` by
   `Library`.

## 6. Not modelled

The browser extension, apart from the requests it makes; the event queues of
subscribers; reading and rewriting the YAML configuration, locating binaries,
health and diagnostics endpoints, the command line, the service and self-update,
cookies and language tables, the options page and the install scripts: sequential
I/O, views or conversions without a protocol. The export of a library only reads,
and the format of a bundle is parsing; prompts, the choice of moments by the
heuristics of `deixis.py` and the layout of timecodes are text. Migrations run before
anything else. The table never fails in the models, except for a translation task
(`Dies`): an error while writing `mark_failed` leaves a row running until the next
restart (`runner.py:696`), which then repairs it. A 400 whose text mentions a
dimension it is not about would correct the wrong one (`client.py:152`); `Dialect`
assumes it does not. PROJECT.json says of every component whether it is modelled.
