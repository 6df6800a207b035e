------------------------------- MODULE Translation -------------------------------
(***************************************************************************)
(* The translations of transcripts (workers/translator.py): a row per      *)
(* (job, language) and the task that works for it.  A request may come     *)
(* before the transcript, and the task then polls the job for it.  Between *)
(* its awaits a task runs on the event loop, as does everything that       *)
(* resets a row and spawns a task for it.  How a transcript is translated  *)
(* is TranslateGroup; what becomes of the jobs is Library, which extends   *)
(* this module.                                                            *)
(*                                                                         *)
(* A row is stored under the code of its language.  Requests are refused   *)
(* for languages that are not supported, but an import takes any code; the *)
(* codes of a bundle are supported or Unknown here, never other spellings  *)
(* (en-US) of a supported one.                                             *)
(***************************************************************************)
EXTENDS Naturals, FiniteSets

CONSTANTS
    Ids,        \* job ids, 1..n, in the order they are given out
    Langs,      \* supported languages, which can be asked for
    Unknown,    \* codes a bundle may bring that normalize_lang does not know
    Other,      \* a language nobody asks for
    MaxAsked,   \* bound: tasks spawned on request
    MaxDeaths   \* bound: tasks that end before their try

ASSUME TranslationAssumption ==
    /\ IsFiniteSet(Ids) /\ Ids = 1..Cardinality(Ids)
    /\ Langs \cap Unknown = {} /\ Other \notin Langs \cup Unknown
    /\ MaxAsked \in Nat /\ MaxDeaths \in Nat

VARIABLES
    jobs,       \* the job table: [status, text, lang, created] for each id
    rows,       \* transcript_translation: [status, text, error] for each key
    task,       \* what the task for a row is at, "none" without one
    doubled,    \* history: the keys a task was spawned for beside another one
    orphaned,   \* history: the keys whose task ended without settling the row
    asked, deaths

translation == <<rows, task, doubled, orphaned, asked, deaths>>

Keys     == Ids \X (Langs \cup Unknown)
Known(k) == k[2] \in Langs
NoRow    == [status |-> "none", text |-> FALSE, error |-> FALSE]
Live     == {"queued", "running"}
Readable == {"done", "partial"}
Pending  == {"extracting", "summarizing"}
Gone(j)  == jobs[j].status = "none"

\* The tasks that would be there beside the ones just spawned.
Spawned(ks) ==
    /\ task'    = [k \in Keys |-> IF k \in ks THEN "wait" ELSE task[k]]
    /\ doubled' = doubled \cup {k \in ks : task[k] # "none"}

-----------------------------------------------------------------------------
(* Requests                                                                 *)

\* Fault: what the last run left on the row stays there.
ResetKeepingError(row) == [row EXCEPT !.status = "queued", !.text = FALSE]

Reset(row) == [status |-> "queued", text |-> FALSE, error |-> FALSE]

\* Fault: whatever is there, the request starts it anew.
StartsAtAll(k) == TRUE

\* Nothing to do for the language of the transcript, once it is known, nor for a
\* row that is under way or can be read.
StartsWork(k) == jobs[k[1]].lang # k[2] /\ rows[k].status \in {"none", "failed"}

Enqueue(k) ==
    /\ Known(k) /\ ~Gone(k[1]) /\ StartsWork(k) /\ asked < MaxAsked
    /\ rows'     = [rows EXCEPT ![k] = Reset(@)]
    /\ Spawned({k})
    /\ asked'    = asked + 1
    /\ orphaned' = orphaned \ {k}
    /\ UNCHANGED <<jobs, deaths>>

\* A row in an unknown language is reset as well, and gets no task.
RetryAll(j) ==
    LET ks == {k \in Keys : k[1] = j /\ rows[k].status \in {"failed", "partial"}} IN
    /\ ~Gone(j) /\ ks # {} /\ asked < MaxAsked
    /\ rows'  = [k \in Keys |-> IF k \in ks THEN Reset(rows[k]) ELSE rows[k]]
    /\ Spawned({k \in ks : Known(k)})
    /\ asked' = asked + 1
    /\ UNCHANGED <<jobs, orphaned, deaths>>

-----------------------------------------------------------------------------
(* The task (_run)                                                          *)

\* _update_status: the text and the error are written when they are given; a row
\* that went with its job is not made again.
Updated(k, status, text, error) ==
    rows' = [rows EXCEPT ![k] =
       IF @.status = "none" THEN @
       ELSE [status |-> status, text |-> @.text \/ text, error |-> @.error \/ error]]

\* Fault: only a job that is gone ends the wait for a transcript.
WaitsForNothingMore(k) == Gone(k[1])

\* The transcript may never come.
WaitsInVain(k) == Gone(k[1]) \/ (~jobs[k[1]].text /\ jobs[k[1]].status = "failed")

\* A poll that finds the transcript: the task goes on with what it read.
Reads(k) ==
    /\ task[k] = "wait" /\ ~Gone(k[1]) /\ jobs[k[1]].text
    /\ task' = [task EXCEPT ![k] = "work"]
    /\ Updated(k, "running", FALSE, FALSE)
    /\ UNCHANGED <<jobs, doubled, orphaned, asked, deaths>>

\* A poll that finds out that it waits in vain.
GivesUp(k) ==
    /\ task[k] = "wait" /\ WaitsInVain(k)
    /\ task' = [task EXCEPT ![k] = "none"]
    /\ Updated(k, "failed", FALSE, TRUE)
    /\ UNCHANGED <<jobs, doubled, orphaned, asked, deaths>>

\* Fault: a translation in which lines fell back has no text to show.
ResultWithoutText(k) ==
    \/ Updated(k, "done", TRUE, FALSE)
    \/ Updated(k, "partial", FALSE, TRUE)
    \/ Updated(k, "failed", FALSE, TRUE)

\* Every line was translated, or some fell back, or nothing came of it.
Result(k) ==
    \/ Updated(k, "done", TRUE, FALSE)
    \/ Updated(k, "partial", TRUE, TRUE)
    \/ Updated(k, "failed", FALSE, TRUE)

Finishes(k) ==
    /\ task[k] = "work"
    /\ task' = [task EXCEPT ![k] = "none"]
    /\ Result(k)
    /\ UNCHANGED <<jobs, doubled, orphaned, asked, deaths>>

\* An exception of the database or of the prompt file, outside the try: the task
\* ends with the row as it is, queued before the first write, else running.
Dies(k) ==
    /\ task[k] = "wait" /\ deaths < MaxDeaths
    /\ deaths'   = deaths + 1
    /\ task'     = [task EXCEPT ![k] = "none"]
    /\ orphaned' = orphaned \cup {k}
    /\ \/ UNCHANGED rows
       \/ ~Gone(k[1]) /\ jobs[k[1]].text /\ Updated(k, "running", FALSE, FALSE)
    /\ UNCHANGED <<jobs, doubled, asked>>

-----------------------------------------------------------------------------
\* Fault: a row that had not been begun is left alone.
StillToDoRunning(k) == rows[k].status = "running"

StillToDo(k) == rows[k].status \in Live

\* re_enqueue_running_on_startup, in a process without tasks: no task for a row in
\* an unknown language.
Resume ==
    /\ rows' = [k \in Keys |-> IF StillToDo(k) THEN [rows[k] EXCEPT !.status = "queued"]
                               ELSE rows[k]]
    /\ task' = [k \in Keys |-> IF StillToDo(k) /\ Known(k) THEN "wait" ELSE "none"]
    /\ orphaned' = {}
    /\ UNCHANGED <<doubled, asked, deaths>>

\* The rows of a job go with it.
Cascades(js) ==
    /\ rows'     = [k \in Keys |-> IF k[1] \in js THEN NoRow ELSE rows[k]]
    /\ orphaned' = {k \in orphaned : k[1] \notin js}
    /\ UNCHANGED <<task, doubled, asked, deaths>>

\* What GET /transcript makes of it: the text, nothing yet, or 404.
Transcript(k) ==
    CASE jobs[k[1]].lang = k[2] -> IF jobs[k[1]].text THEN "text" ELSE "pending"
      [] rows[k].status = "none" -> "not found"
      [] rows[k].status \in Readable -> IF rows[k].text THEN "text" ELSE "null"
      [] OTHER -> "pending"

TaskSteps(k) == Reads(k) \/ GivesUp(k) \/ Finishes(k)

TranslationInit ==
    /\ rows = [k \in Keys |-> NoRow]
    /\ task = [k \in Keys |-> "none"]
    /\ doubled = {} /\ orphaned = {}
    /\ asked = 0 /\ deaths = 0

TranslationNext ==
    \/ \E k \in Keys : Enqueue(k) \/ TaskSteps(k) \/ Dies(k)
    \/ \E j \in Ids : RetryAll(j)

=============================================================================
