----------------------------- MODULE AudioStore -----------------------------
(***************************************************************************)
(* The audio directory: files that Whisper workers download, keep for a    *)
(* retry and unlink (workers/runner.py, workers/youtube.py), the rows that *)
(* refer to them (storage/repo.py), deletion, restart, and the sweep that  *)
(* removes what no row refers to (workers/retention.py).                   *)
(*                                                                         *)
(* A file is named for the media id that yt-dlp reports, not for the job,  *)
(* so that jobs about one media id share it: a URL submitted again after   *)
(* its job failed or was deleted, or two spellings of a URL at once.  Its  *)
(* age is known only as older than the sweep's grace period or not.        *)
(***************************************************************************)
EXTENDS Integers

CONSTANTS
    Jobs,      \* job ids
    YouTube,   \* those of kind youtube, which can be retried and queued again
    Media,     \* yt-dlp media ids
    MaxStarts, \* bound: attempts per job (creation and retries)
    MaxCrashes \* bound: restarts of the daemon

ASSUME KindAssumption   == YouTube \subseteq Jobs
ASSUME MediaAssumption  == Media # {}
ASSUME StartsAssumption == MaxStarts \in Nat /\ MaxCrashes \in Nat

VARIABLES
    row,     \* the job's row: "absent", "open" (queued or running), "done", "failed", "deleted"
    media,   \* the media id behind the job's URL
    ref,     \* Job.audio_path is set
    work,    \* what a Whisper worker (or its queue) does for the job
    file,    \* what is on disk for a media id: "none", "partial" or "whole"
    old,     \* it was last written longer ago than the grace period
    starts,  \* attempts so far
    crashes  \* restarts so far

vars == <<row, media, ref, work, file, old, starts, crashes>>

Rows  == {"absent", "open", "done", "failed", "deleted"}
\* "none"; a pipeline or the queue has the job; yt-dlp writes the file; Whisper
\* reads it; the summary streams, and the file has no further use.
Works == {"none", "queued", "download", "transcribe", "summarize"}

TypeOK ==
    /\ row     \in [Jobs -> Rows]
    /\ media   \in [Jobs -> Media]
    /\ ref     \in [Jobs -> BOOLEAN]
    /\ work    \in [Jobs -> Works]
    /\ file    \in [Media -> {"none", "partial", "whole"}]
    /\ old     \in [Media -> BOOLEAN]
    /\ starts  \in [Jobs -> 0..MaxStarts]
    /\ crashes \in 0..MaxCrashes

HasRow(j)   == row[j] \in {"open", "done", "failed"}
FileOf(j)   == file[media[j]]
UsersOf(m)  == {j \in Jobs : media[j] = m /\ work[j] \in {"download", "transcribe"}}
Referrers(m) == {j \in Jobs : media[j] = m /\ HasRow(j) /\ ref[j]}

Write(m, what) ==
    /\ file' = [file EXCEPT ![m] = what]
    /\ old'  = [old EXCEPT ![m] = FALSE]

-----------------------------------------------------------------------------
\* POST /jobs: about any media id, whoever else is or was about it.
Submit(j) ==
    /\ row[j] = "absent" /\ starts[j] < MaxStarts
    /\ \E m \in Media : media' = [media EXCEPT ![j] = m]
    /\ row'    = [row EXCEPT ![j] = "open"]
    /\ work'   = [work EXCEPT ![j] = "queued"]
    /\ starts' = [starts EXCEPT ![j] = @ + 1]
    /\ UNCHANGED <<ref, file, old, crashes>>

\* POST /jobs/{id}/retry: reset_for_retry keeps the audio.
Retry(j) ==
    /\ row[j] = "failed" /\ j \in YouTube /\ starts[j] < MaxStarts
    /\ row'    = [row EXCEPT ![j] = "open"]
    /\ work'   = [work EXCEPT ![j] = "queued"]
    /\ starts' = [starts EXCEPT ![j] = @ + 1]
    /\ UNCHANGED <<media, ref, file, old, crashes>>

\* Fault: the row is deleted and its file forgotten.
DeleteForgetsFile(j) ==
    /\ HasRow(j)
    /\ row' = [row EXCEPT ![j] = "deleted"]
    /\ ref' = [ref EXCEPT ![j] = FALSE]
    /\ UNCHANGED <<media, work, file, old, starts, crashes>>

\* delete_job, delete_jobs_older_than: the file that the row refers to goes
\* with it, the worker is not told.
Delete(j) ==
    /\ HasRow(j)
    /\ row'  = [row EXCEPT ![j] = "deleted"]
    /\ ref'  = [ref EXCEPT ![j] = FALSE]
    /\ file' = [file EXCEPT ![media[j]] = IF ref[j] /\ @ = "whole" THEN "none" ELSE @]
    /\ UNCHANGED <<media, work, old, starts, crashes>>

\* Captions were found: done without a worker, the columns left as they are.
SettledByCaptions(j) ==
    /\ work[j] = "queued" /\ row[j] = "open"
    /\ row'  = [row EXCEPT ![j] = "done"]
    /\ work' = [work EXCEPT ![j] = "none"]
    /\ UNCHANGED <<media, ref, file, old, starts, crashes>>

\* A worker has the task: audio that is referenced and there is reused.  A
\* whole file stays beside what yt-dlp writes anew.
TakeUp(j) ==
    /\ work[j] = "queued"
    /\ IF ~HasRow(j)
       THEN work' = [work EXCEPT ![j] = "none"] /\ UNCHANGED <<file, old>>
       ELSE IF ref[j] /\ FileOf(j) = "whole"
       THEN work' = [work EXCEPT ![j] = "transcribe"] /\ UNCHANGED <<file, old>>
       ELSE /\ work' = [work EXCEPT ![j] = "download"]
            /\ IF FileOf(j) = "whole" THEN UNCHANGED <<file, old>>
               ELSE Write(media[j], "partial")
    /\ UNCHANGED <<row, media, ref, starts, crashes>>

\* Fault: the path is not recorded.
DownloadedUnrecorded(j) ==
    /\ work[j] = "download"
    /\ work' = [work EXCEPT ![j] = "transcribe"]
    /\ Write(media[j], "whole")
    /\ UNCHANGED <<row, media, ref, starts, crashes>>

\* yt-dlp returns, the path is recorded (set_audio) and transcription begins;
\* if the row is gone, the write of the stage raises and the file is left.
Downloaded(j) ==
    /\ work[j] = "download"
    /\ Write(media[j], "whole")
    /\ ref'  = [ref EXCEPT ![j] = HasRow(j)]
    /\ work' = [work EXCEPT ![j] = IF HasRow(j) THEN "transcribe" ELSE "none"]
    /\ UNCHANGED <<row, media, starts, crashes>>

\* Whisper is through, or the clip turned out to be unusable: transcribe_done.
Transcribed(j) ==
    /\ work[j] = "transcribe"
    /\ work' = [work EXCEPT ![j] = "summarize"]
    /\ UNCHANGED <<row, media, ref, file, old, starts, crashes>>

\* The worker's finally block once the file has no further use: unlink it and
\* clear the column, whether the summary came out or not.
Finished(j) ==
    /\ work[j] = "summarize"
    /\ \E s \in {"done", "failed"} :
          row' = [row EXCEPT ![j] = IF HasRow(j) THEN s ELSE @]
    /\ work' = [work EXCEPT ![j] = "none"]
    /\ ref'  = [ref EXCEPT ![j] = FALSE]
    /\ file' = [file EXCEPT ![media[j]] = IF @ = "whole" THEN "none" ELSE @]
    /\ UNCHANGED <<media, old, starts, crashes>>

\* Any slow call before that raises: what is on disk, and in the column, stays.
Raised(j) ==
    /\ work[j] \in {"queued", "download", "transcribe"}
    /\ row'  = [row EXCEPT ![j] = IF HasRow(j) THEN "failed" ELSE @]
    /\ work' = [work EXCEPT ![j] = "none"]
    /\ UNCHANGED <<media, ref, file, old, starts, crashes>>

\* Killed and started again: pending YouTube jobs are queued, others failed.
Crash ==
    /\ crashes < MaxCrashes
    /\ crashes' = crashes + 1
    /\ work' = [j \in Jobs |-> IF row[j] = "open" /\ j \in YouTube THEN "queued" ELSE "none"]
    /\ row'  = [j \in Jobs |-> IF row[j] = "open" /\ j \notin YouTube THEN "failed" ELSE row[j]]
    /\ UNCHANGED <<media, ref, file, old, starts>>

\* The grace period (24 h) passes since a file was last written.  No download or
\* transcription takes that long; a file kept for a retry may be much older.
Ages(m) ==
    /\ file[m] # "none" /\ ~old[m]
    /\ UsersOf(m) = {}
    /\ old' = [old EXCEPT ![m] = TRUE]
    /\ UNCHANGED <<row, media, ref, work, file, starts, crashes>>

\* Fault: the sweep goes by age alone.
SweepByAge(m) ==
    /\ file[m] # "none" /\ old[m]
    /\ file' = [file EXCEPT ![m] = "none"]
    /\ UNCHANGED <<row, media, ref, work, old, starts, crashes>>

\* Fault: the sweep has no grace period.
SweepAtOnce(m) ==
    /\ file[m] # "none" /\ Referrers(m) = {}
    /\ file' = [file EXCEPT ![m] = "none"]
    /\ UNCHANGED <<row, media, ref, work, old, starts, crashes>>

\* Fault: the sweep only removes what yt-dlp did not complete.
SweepPartsOnly(m) ==
    /\ file[m] = "partial" /\ old[m]
    /\ file' = [file EXCEPT ![m] = "none"]
    /\ UNCHANGED <<row, media, ref, work, old, starts, crashes>>

\* _sweep_orphaned_audio, every six hours.  A partial file has another name
\* than the one a row refers to.
Sweep(m) ==
    /\ file[m] # "none" /\ old[m]
    /\ file[m] = "partial" \/ Referrers(m) = {}
    /\ file' = [file EXCEPT ![m] = "none"]
    /\ UNCHANGED <<row, media, ref, work, old, starts, crashes>>

-----------------------------------------------------------------------------
Init ==
    /\ row     = [j \in Jobs |-> "absent"]
    /\ media   = [j \in Jobs |-> CHOOSE m \in Media : TRUE]
    /\ ref     = [j \in Jobs |-> FALSE]
    /\ work    = [j \in Jobs |-> "none"]
    /\ file    = [m \in Media |-> "none"]
    /\ old     = [m \in Media |-> FALSE]
    /\ starts  = [j \in Jobs |-> 0]
    /\ crashes = 0

WorkOn(j) ==
    \/ SettledByCaptions(j) \/ TakeUp(j) \/ Downloaded(j)
    \/ Transcribed(j) \/ Finished(j) \/ Raised(j)

Next ==
    \/ \E j \in Jobs : Submit(j) \/ Retry(j) \/ Delete(j) \/ WorkOn(j)
    \/ \E m \in Media : Ages(m) \/ Sweep(m)
    \/ Crash

\* Slow calls end; time passes; the sweep runs every six hours.
Fairness ==
    /\ \A j \in Jobs : WF_vars(WorkOn(j))
    /\ \A m \in Media : WF_vars(Ages(m)) /\ WF_vars(Sweep(m))

Spec     == Init /\ [][Next]_vars
FairSpec == Spec /\ Fairness

-----------------------------------------------------------------------------
\* Another job about the same media id has come to an end or was deleted, at
\* least once: its clean-up or its deletion may have taken the file.
Settled(k)  == row[k] \in {"done", "failed", "deleted"} \/ (row[k] = "open" /\ starts[k] > 1)
RivalWas(j) == \E k \in Jobs \ {j} : media[k] = media[j] /\ Settled(k)

\* The audio kept on a failed row, for a retry to reuse (runner.py:640-641), is
\* on disk whatever is swept, raised, retried or crashes, and however many jobs
\* are about the same media id, until one of those ends or is deleted.
KeptAudioIsThere ==
    \A j \in Jobs : row[j] = "failed" /\ ref[j] => FileOf(j) = "whole" \/ RivalWas(j)

\* While a job that is not deleted is at work, nobody removes what yt-dlp has half
\* written for it, and the file that Whisper reads is removed only by another job
\* about the same media id, as its worker cleans up (runner.py:653-657; that job
\* may itself be deleted by then) or as it is deleted: never by the sweep, by a
\* job about other media, by a retry or by a restart.
InUseIsLeft ==
    [][ \A j \in Jobs :
          /\ row[j] = "open" /\ row'[j] = "open"
          /\ \/ work[j] = "download" /\ FileOf(j) = "partial"
             \/ work[j] = "transcribe" /\ FileOf(j) = "whole"
          /\ file'[media[j]] = "none"
          => /\ work[j] = "transcribe"
             /\ \E k \in Jobs \ {j} :
                   /\ media[k] = media[j]
                   /\ \/ work[k] = "summarize" /\ work'[k] = "none"
                      \/ HasRow(k) /\ row'[k] = "deleted" ]_vars

\* Nothing leaks: a file that no row refers to and no worker uses is removed in
\* the end, or somebody takes it up again.
OrphansGo ==
    \A m \in Media :
        (file[m] # "none" /\ Referrers(m) = {} /\ UsersOf(m) = {})
            ~> (file[m] = "none" \/ Referrers(m) # {} \/ UsersOf(m) # {})

=============================================================================
