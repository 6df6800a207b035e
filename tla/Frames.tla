--------------------------------- MODULE Frames ---------------------------------
(***************************************************************************)
(* The video frames of one job (workers/frames.py): JPEG files under       *)
(* frames/<job>/t<second>/, with no row of their own.  What is on disk is  *)
(* the count the budget of the job is checked against.  Three callers      *)
(* fetch frames, each around its own awaits: the conveyor of the summary   *)
(* (workers/pipeline.py), which downloads the next moment while a vision   *)
(* call looks at this one, the LOOK step of a question (llm/qa.py) and the *)
(* user's click on a moment (api/jobs.py).  Frames are deleted with the    *)
(* row, swept when there is no row, and written by an import before its    *)
(* row is there (storage/bundle.py).                                       *)
(***************************************************************************)
EXTENDS Naturals, FiniteSets

CONSTANTS
    Last,          \* the moments are 1..Last, in the order of the transcript
    NumFrames,     \* DEFAULT_NUM_FRAMES
    Budget,        \* MAX_FRAMES_PER_JOB
    Askers,        \* questions that may look at frames, at the same time
    Viewers,       \* clicks on a moment, at the same time
    MaxRuns,       \* bound: how often the pipeline gets to the conveyor
    MaxAsked,      \* bound: questions and clicks that fetch frames
    MaxCrashes     \* bound: restarts of the daemon

ASSUME FramesAssumption ==
    /\ {Last, NumFrames, Budget} \subseteq Nat \ {0} /\ NumFrames <= Budget
    /\ {MaxRuns, MaxAsked, MaxCrashes} \subseteq Nat
    /\ "conveyor" \notin Askers \cup Viewers /\ Askers \cap Viewers = {}

Moments  == 1..Last
Fetchers == {"conveyor"} \cup Askers \cup Viewers
Refs     == Moments \X (1..NumFrames)   \* a frame_url

VARIABLES
    row,        \* the status of the job, "absent" before an import, "gone" after
    importing,  \* an import is writing the frames of the row it will insert
    jobDir,     \* frames/<job> exists
    dirs,       \* the moments whose t<second> directory exists
    files,      \* files[m]: how many frames it holds, numbered from 1
    fetch,      \* fetch[f]: what the caller f awaits
    at,         \* the moment the conveyor is at, 0 when it does not run
    shown,      \* how many frames its vision call looks at, 0 when there is none
    found,      \* the findings of this run of the conveyor
    findings,   \* Job.moment_findings_json: the frames it refers to
    messages,   \* the frames the stored messages refer to
    overlapped, \* history: a fetch was started while another was in flight
    lost,       \* history: moments whose frames were cleared for a fetch that does
                \*   not reuse them, or were missing when an import referred to them
    runs, asked, crashes

disk == <<jobDir, dirs, files>>
belt == <<at, shown, found>>
refs == <<findings, messages>>
hist == <<overlapped, lost>>
vars == <<row, importing, disk, fetch, belt, refs, hist, runs, asked, crashes>>

Idle     == [pc |-> "idle", m |-> 0, want |-> 0, got |-> 0]
Fetching == {"download", "extract"}
Present  == row \in {"running", "failed", "done"}
InFlight == {f \in Fetchers : fetch[f].pc \in Fetching}
Capped(a, b) == IF a < b THEN a ELSE b
Bigger(a, b) == IF a < b THEN b ELSE a
Shows(r) == r[2] <= files[r[1]]
Total    == Cardinality({r \in Refs : Shows(r)})   \* the *.jpg under frames/<job>

\* The conveyor takes moments in order while the default fits into the budget.
Selected == Capped(Last, Budget \div NumFrames)

-----------------------------------------------------------------------------
(* fetch_frames                                                             *)

\* Fault: what is left of the budget does not limit the request.
StartsUncapped(f, m) ==
    LET kept == Total - files[m] IN
    /\ jobDir' = TRUE
    /\ dirs'   = dirs \ {m}
    /\ files'  = [files EXCEPT ![m] = 0]
    /\ fetch'  = [fetch EXCEPT ![f] =
          [pc |-> IF kept < Budget THEN "download" ELSE "done", m |-> m,
           want |-> NumFrames, got |-> 0]]
    /\ overlapped' = (overlapped \/ InFlight # {})

\* Up to the first await: the directory of the job is made, the frames of this
\* moment are cleared, and what is left of the budget caps the request.  A spent
\* budget is an empty result.
Starts(f, m) ==
    LET left == Budget - Capped(Budget, Total - files[m]) IN
    /\ jobDir' = TRUE
    /\ dirs'   = dirs \ {m}
    /\ files'  = [files EXCEPT ![m] = 0]
    /\ fetch'  = [fetch EXCEPT ![f] =
          [pc |-> IF left > 0 THEN "download" ELSE "done", m |-> m,
           want |-> IF left > 0 THEN Capped(NumFrames, left) ELSE 0, got |-> 0]]
    /\ overlapped' = (overlapped \/ InFlight # {})

\* History: what a fetch that does not reuse the frames of a moment takes away.
Loses(m) == lost' = IF Present /\ files[m] # 0 THEN lost \cup {m} ELSE lost

\* What runs before the fetch, with an await of its own, after which the row may
\* be gone: the pause checkpoint of the conveyor, the PLAN call of a question.
Planned(f, m) ==
    fetch' = [fetch EXCEPT ![f] = [pc |-> "plan", m |-> m, want |-> 0, got |-> 0]]

Begins(f) ==
    /\ fetch[f].pc = "plan"
    /\ Starts(f, fetch[f].m) /\ Loses(fetch[f].m)
    /\ UNCHANGED <<row, importing, belt, refs, runs, asked, crashes>>

\* The section is on disk (in a scratch directory of its own): ffmpeg runs in a
\* thread, into a directory made for it.
Downloaded(f) ==
    /\ fetch[f].pc = "download"
    /\ fetch'  = [fetch EXCEPT ![f].pc = "extract"]
    /\ jobDir' = TRUE
    /\ dirs'   = dirs \cup {fetch[f].m}
    /\ UNCHANGED <<row, importing, files, belt, refs, hist, runs, asked, crashes>>

\* A call that is through; nobody keeps the frames a click was served.
Ends(f, n) ==
    fetch' = [fetch EXCEPT ![f] =
       IF f \in Viewers THEN Idle
       ELSE [pc |-> "done", m |-> @.m, want |-> @.want, got |-> n]]

\* How many frames ffmpeg may leave: fewer where the section is short.
FrameCounts(f) == 1..fetch[f].want

\* ffmpeg is through; the result is whatever the directory holds.
Extracted(f) ==
    LET m == fetch[f].m IN
    /\ fetch[f].pc = "extract" /\ m \in dirs
    /\ \E k \in FrameCounts(f) :
          /\ files' = [files EXCEPT ![m] = Bigger(@, k)]
          /\ Ends(f, files'[m])
    /\ UNCHANGED <<row, importing, jobDir, dirs, belt, refs, hist, runs, asked,
                   crashes>>

\* Every attempt at the section failed, or ffmpeg did: at once or half-way, or
\* because its directory was taken from under it.  No caller asks for the full
\* download.
FetchFails(f) ==
    LET m == fetch[f].m IN
    /\ fetch[f].pc \in Fetching
    /\ files' \in {files} \cup (IF fetch[f].pc = "extract" /\ m \in dirs
                                THEN {[files EXCEPT ![m] = Bigger(@, 1)]} ELSE {})
    /\ Ends(f, 0)
    /\ UNCHANGED <<row, importing, jobDir, dirs, belt, refs, hist, runs, asked,
                   crashes>>

\* What a vision call over n frames of a moment picks to be shown.  It has read
\* them before it waits, and does not look at them again; it may fail, and find
\* nothing, or no frame to show.
Picks(m, n) == {{}} \cup {{<<m, k>>} : k \in 1..n}

-----------------------------------------------------------------------------
(* The conveyor (_run_frame_analysis)                                       *)

ConveyorStarts ==
    /\ row = "running" /\ at = 0
    /\ at'    = 1
    /\ found' = {}
    /\ Planned("conveyor", 1)
    /\ UNCHANGED <<row, importing, disk, shown, refs, hist, runs, asked, crashes>>

\* Fault: the moment after next is prefetched.
NextMomentSkipping == at + 2

NextMoment == at + 1

\* The frames of this moment are there: the download of the next one starts, then
\* the vision call, which reads every one of them first.  A moment without frames,
\* or whose frames were taken away since, is passed over.
ConveyorTakes ==
    LET task == fetch["conveyor"] IN
    /\ at # 0 /\ shown = 0 /\ task.pc = "done" /\ task.m = at
    /\ IF NextMoment <= Selected
       THEN Starts("conveyor", NextMoment) /\ Loses(NextMoment)
       ELSE /\ fetch' = [fetch EXCEPT !["conveyor"] = Idle]
            /\ UNCHANGED <<disk, hist>>
    /\ shown' = IF task.got <= files[at] THEN task.got ELSE 0
    /\ at'    = IF shown' = 0 THEN at + 1 ELSE at
    /\ UNCHANGED <<row, importing, found, refs, runs, asked, crashes>>

\* A moment is kept when the vision call finds something in it.
ConveyorLooks ==
    /\ shown # 0
    /\ found' \in {found \cup rs : rs \in Picks(at, shown)}
    /\ at'    = at + 1
    /\ shown' = 0
    /\ UNCHANGED <<row, importing, disk, fetch, refs, hist, runs, asked, crashes>>

\* set_moment_findings, only for a run that found something; the row may be gone.
\* The summary follows, and the job is done, or failed.
ConveyorEnds ==
    /\ at > Selected /\ shown = 0
    /\ at' = 0
    /\ findings' = IF found # {} /\ Present THEN found ELSE findings
    /\ row' \in IF Present THEN {"done", "failed"} ELSE {row}
    /\ UNCHANGED <<importing, disk, fetch, shown, found, messages, hist, runs, asked,
                   crashes>>

Retry ==
    /\ row = "failed" /\ runs < MaxRuns
    /\ row'  = "running"
    /\ runs' = runs + 1
    /\ UNCHANGED <<importing, disk, fetch, belt, refs, hist, asked, crashes>>

-----------------------------------------------------------------------------
(* A question's LOOK step, and a click on a moment                          *)

\* The job is loaded when the question comes in, and must be done.
QuestionAsked(f, m) ==
    /\ row = "done" /\ fetch[f].pc = "idle" /\ asked < MaxAsked
    /\ asked' = asked + 1
    /\ Planned(f, m)
    /\ UNCHANGED <<row, importing, disk, belt, refs, hist, runs, crashes>>

\* The vision call is through, then the answer: the message refers to the frame it
\* found most telling, if any, whatever became of the file since the call read it.
\* No message is added to a job that is gone.
QuestionAnswered(f) ==
    LET task == fetch[f] IN
    /\ task.pc = "done"
    /\ fetch' = [fetch EXCEPT ![f] = Idle]
    /\ \E rs \in Picks(task.m, task.got) :
          messages' = IF Present THEN messages \cup rs ELSE messages
    /\ UNCHANGED <<row, importing, disk, belt, findings, hist, runs, asked, crashes>>

\* Fault: a click fetches the frames that are there once more.
ViewerClicksAnew(f, m) ==
    /\ Present /\ fetch[f].pc = "idle" /\ asked < MaxAsked
    /\ asked' = asked + 1
    /\ Starts(f, m)
    /\ UNCHANGED <<row, importing, belt, refs, lost, runs, crashes>>

\* Frames that are there are served as they are (reuse_existing).
ViewerClicks(f, m) ==
    /\ Present /\ fetch[f].pc = "idle" /\ files[m] = 0 /\ asked < MaxAsked
    /\ asked' = asked + 1
    /\ Starts(f, m)
    /\ UNCHANGED <<row, importing, belt, refs, lost, runs, crashes>>

-----------------------------------------------------------------------------
(* Import, deletion, the sweep, a crash                                     *)

RemoveTree ==
    /\ jobDir' = FALSE
    /\ dirs'   = {}
    /\ files'  = [m \in Moments |-> 0]

ImportBegins ==
    /\ row = "absent" /\ ~importing
    /\ importing' = TRUE
    /\ jobDir'    = TRUE
    /\ UNCHANGED <<row, dirs, files, fetch, belt, refs, hist, runs, asked, crashes>>

\* One moment's frames are copied, as many as the bundle has, without a look at
\* the budget; the directories above are made as needed.
ImportCopies(m) ==
    /\ importing /\ m \notin dirs
    /\ jobDir' = TRUE
    /\ dirs'   = dirs \cup {m}
    /\ \E n \in 1..NumFrames : files' = [files EXCEPT ![m] = n]
    /\ UNCHANGED <<row, importing, fetch, belt, refs, hist, runs, asked, crashes>>

\* insert_imported_job: the row with the findings and messages of the bundle, in
\* one transaction.  They refer to frames (here one each, the first of a moment)
\* that need not be there: the bundle lacks them, or the sweep ran during the copy.
ImportInserts ==
    /\ importing
    /\ importing' = FALSE
    /\ row'       = "done"
    /\ \E S, T \in {{}} \cup {{<<m, 1>>} : m \in Moments} :
          /\ findings' = S
          /\ messages' = T
          /\ lost'     = lost \cup {r[1] : r \in {s \in S \cup T : ~Shows(s)}}
    /\ UNCHANGED <<disk, fetch, belt, overlapped, runs, asked, crashes>>

\* The copies go with a failed insert; a copy that fails itself leaves them.
ImportFails ==
    /\ importing
    /\ importing' = FALSE
    /\ row'       = "gone"
    /\ RemoveTree \/ UNCHANGED disk
    /\ UNCHANGED <<fetch, belt, refs, hist, runs, asked, crashes>>

\* repo.delete_job, by the user or by age: the row, then the frames.  What is
\* still in flight goes on.
Delete ==
    /\ Present
    /\ row'      = "gone"
    /\ findings' = {}
    /\ messages' = {}
    /\ lost'     = {}
    /\ RemoveTree
    /\ UNCHANGED <<importing, fetch, belt, overlapped, runs, asked, crashes>>

\* Fault: a directory is swept only while it holds frames.
SweepsFilledOnly ==
    /\ jobDir /\ ~Present /\ Total > 0
    /\ RemoveTree
    /\ UNCHANGED <<row, importing, fetch, belt, refs, hist, runs, asked, crashes>>

\* _sweep_orphaned_frame_dirs: any directory without a row, however young.
Sweep ==
    /\ jobDir /\ ~Present
    /\ RemoveTree
    /\ UNCHANGED <<row, importing, fetch, belt, refs, hist, runs, asked, crashes>>

\* The daemon dies, perhaps between the deletion of the row and of the frames, or
\* half-way through an import; at the start a job that was running is queued again
\* (YouTube), and comes to the conveyor once more, or failed (queue.py:171-205).
Crash ==
    /\ crashes < MaxCrashes
    /\ crashes'   = crashes + 1
    /\ row'      \in CASE row = "running" -> {"running", "failed", "gone"}
                       [] row \in {"done", "failed"} -> {row, "gone"}
                       [] OTHER -> {IF importing THEN "gone" ELSE row}
    /\ importing' = FALSE
    /\ fetch'     = [f \in Fetchers |-> Idle]
    /\ at' = 0 /\ shown' = 0 /\ found' = {}
    /\ findings'  = IF row' = "gone" THEN {} ELSE findings
    /\ messages'  = IF row' = "gone" THEN {} ELSE messages
    /\ lost'      = IF row' = "gone" THEN {} ELSE lost
    /\ UNCHANGED <<disk, overlapped, runs, asked>>

-----------------------------------------------------------------------------
\* A job the pipeline works on, or one that will come with a bundle.
Init ==
    /\ row \in {"running", "absent"}
    /\ importing = FALSE
    /\ jobDir = FALSE /\ dirs = {} /\ files = [m \in Moments |-> 0]
    /\ fetch = [f \in Fetchers |-> Idle]
    /\ at = 0 /\ shown = 0 /\ found = {}
    /\ findings = {} /\ messages = {}
    /\ overlapped = FALSE /\ lost = {}
    /\ runs = 1 /\ asked = 0 /\ crashes = 0

FetchEnds(f) == Downloaded(f) \/ Extracted(f) \/ FetchFails(f)

Next ==
    \/ \E f \in Fetchers : Begins(f) \/ FetchEnds(f)
    \/ ConveyorStarts \/ ConveyorTakes \/ ConveyorLooks \/ ConveyorEnds \/ Retry
    \/ \E f \in Askers  : QuestionAnswered(f) \/ \E m \in Moments : QuestionAsked(f, m)
    \/ \E f \in Viewers : \E m \in Moments : ViewerClicks(f, m)
    \/ ImportBegins \/ ImportInserts \/ ImportFails \/ \E m \in Moments : ImportCopies(m)
    \/ Delete \/ Sweep \/ Crash

Spec == Init /\ [][Next]_vars

\* The sweep comes round every six hours; downloads and ffmpeg end or fail, and
\* an import gets to its end.
Fairness ==
    /\ WF_vars(Sweep)
    /\ \A f \in Fetchers : WF_vars(Begins(f) \/ FetchEnds(f))
    /\ WF_vars(ConveyorTakes) /\ WF_vars(ConveyorLooks) /\ WF_vars(ConveyorEnds)
    /\ WF_vars(ImportInserts \/ ImportFails)

FairSpec == Spec /\ Fairness

-----------------------------------------------------------------------------
(* Properties                                                               *)

TypeOK ==
    /\ row \in {"absent", "running", "failed", "done", "gone"}
    /\ {importing, jobDir, overlapped} \subseteq BOOLEAN
    /\ dirs \subseteq Moments /\ lost \subseteq Moments
    /\ files \in [Moments -> 0..NumFrames]
    /\ fetch \in [Fetchers -> [pc : {"idle", "plan", "done"} \cup Fetching, m : 0..Last,
                               want : 0..NumFrames, got : 0..NumFrames]]
    /\ at \in 0..(Last + 1)
    /\ shown \in 0..NumFrames
    /\ {found, findings, messages} \subseteq SUBSET Refs
    /\ \A m \in Moments : files[m] # 0 => m \in dirs
    /\ dirs # {} => jobDir

\* Whatever adds frames, other than the copies of an import, leaves the job within
\* its budget (frames.py:90-97), unless fetches overlapped: across callers,
\* retries, replaced frames, crashes, and jobs that were imported with more.
AloneWithinBudget ==
    [][~overlapped' /\ ~importing /\ Total' > Total => Total' <= Budget]_vars

\* The conveyor waits only for the frames of the moment it is at, while its
\* vision call is at the one before at the most: it neither skips a moment nor
\* waits for a download nobody started (pipeline.py:935-951).
ConveyorInStep ==
    at # 0 =>
        /\ at <= Selected /\ shown = 0 => fetch["conveyor"].m = at
        /\ shown # 0 /\ at < Selected => fetch["conveyor"].m = at + 1

\* A frame that a finding or a message of the job refers to is on disk, unless a
\* LOOK step or a run of the conveyor cleared its moment to fetch it again
\* (frames.py:785, so that the chat history need not render the identical
\* thumbnail of schemas.py:630-633), or it never came with the bundle.  No click,
\* failed fetch, sweep or crash takes one away, and nobody stores a reference to a
\* frame that has gone for another reason while the vision call had it.
StoredFramesServed ==
    Present => \A r \in findings \cup messages : Shows(r) \/ r[1] \in lost

\* The directory of a job that is gone goes too, whoever made it again in the
\* meantime (retention.py:98-104).
OrphansGo == (row = "gone" /\ jobDir) ~> (~jobDir \/ row # "gone")

=============================================================================
