--------------------------------- MODULE Library ---------------------------------
(***************************************************************************)
(* The rows the library keeps of one URL (storage/repo.py, api/jobs.py,    *)
(* storage/bundle.py), with their translations (Translation): submissions, *)
(* which return the row that is there if it can be used, retries,          *)
(* deletions, retention, imports and restarts.  What a pipeline does       *)
(* between is JobLifecycle; here it is extracting, summarizing, and then   *)
(* done or failed.                                                         *)
(***************************************************************************)
EXTENDS Translation

CONSTANTS
    MaxRetries,   \* bound: retries
    MaxImports,   \* bound: imports
    MaxRestarts   \* bound: restarts of the daemon

ASSUME LibraryAssumption == {MaxRetries, MaxImports, MaxRestarts} \subseteq Nat

VARIABLES
    importing,    \* an import is between its check for a duplicate and its insert
    used,         \* the ids given out so far
    revived,      \* history: a row was retried or imported
    brought,      \* history: the ids that imports gave out
    retries, imports, restarts

library == <<importing, used, revived, brought, retries, imports, restarts>>
vars    == <<jobs, translation, library>>

Absent  == [status |-> "none", text |-> FALSE, lang |-> Other, created |-> 0]
Present == {j \in Ids : jobs[j].status # "none"}
NextId  == Cardinality(used) + 1

\* list_jobs(url, limit=1) orders by created_at, which an import brings along.
Newest == {j \in Present : \A i \in Present : jobs[i].created <= jobs[j].created}

-----------------------------------------------------------------------------
(* Jobs                                                                     *)

\* Fault: only a finished job stands in for a new one.
StandsInDone(j) == jobs[j].status = "done"

StandsIn(j) == jobs[j].status \in Pending \cup {"done"}

\* POST /jobs.  A submission that returns the row that is there changes nothing.
Create ==
    /\ NextId \in Ids
    /\ Present = {} \/ \E j \in Newest : ~StandsIn(j)
    /\ jobs' = [jobs EXCEPT ![NextId] = [status |-> "extracting", text |-> FALSE,
                                         lang |-> Other, created |-> NextId]]
    /\ used' = used \cup {NextId}
    /\ UNCHANGED <<translation, importing, revived, brought, retries, imports, restarts>>

\* set_extracted: the transcript and its language.
Extracts(j) ==
    /\ jobs[j].status = "extracting"
    /\ \E l \in Langs \cup {Other} :
          jobs' = [jobs EXCEPT ![j].status = "summarizing", ![j].text = TRUE, ![j].lang = l]
    /\ UNCHANGED <<translation, library>>

Completes(j) ==
    /\ jobs[j].status = "summarizing"
    /\ jobs' = [jobs EXCEPT ![j].status = "done"]
    /\ UNCHANGED <<translation, library>>

Fails(j) ==
    /\ jobs[j].status \in Pending
    /\ jobs' = [jobs EXCEPT ![j].status = "failed"]
    /\ UNCHANGED <<translation, library>>

\* reset_for_retry leaves the transcript of the last attempt on the row.
Retry(j) ==
    /\ jobs[j].status = "failed" /\ retries < MaxRetries
    /\ jobs'    = [jobs EXCEPT ![j].status = "extracting"]
    /\ revived' = TRUE
    /\ retries' = retries + 1
    /\ UNCHANGED <<translation, importing, used, brought, imports, restarts>>

\* Single, selected and by age (the ids come in the order of added_at).
Delete(js) ==
    /\ js # {} /\ js \subseteq Present
    /\ Cardinality(js) = 1 \/ \A j \in js, i \in Present : i < j => i \in js
    /\ jobs' = [j \in Ids |-> IF j \in js THEN Absent ELSE jobs[j]]
    /\ Cascades(js)
    /\ UNCHANGED library

-----------------------------------------------------------------------------
(* Import                                                                   *)

\* In a thread of its own: a done row of the URL is a duplicate.
ImportBegins ==
    /\ ~importing /\ NextId \in Ids /\ imports < MaxImports
    /\ \A j \in Present : jobs[j].status # "done"
    /\ importing' = TRUE
    /\ imports'   = imports + 1
    /\ UNCHANGED <<jobs, translation, used, revived, brought, retries, restarts>>

\* An export writes translations that can be read; anything else in a bundle, a
\* live status among it, becomes "done".
Normalized(status) == IF status \in Readable THEN status ELSE "done"

\* The error is the bundle's, of a partial row only; it may have none.
ImportedRow(status, error) ==
    IF status = "none" THEN NoRow
    ELSE [status |-> Normalized(status), text |-> TRUE,
          error |-> error /\ Normalized(status) = "partial"]

ImportedRows == {ImportedRow(status, error) :
    status \in {"none", "queued"} \cup Readable, error \in BOOLEAN}

\* The row, its messages and its translations in one transaction; created_at is
\* the bundle's, and so are the codes of the languages.
ImportInserts ==
    /\ importing /\ NextId \in Ids
    /\ \E created \in {0, NextId}, l \in Langs \cup {Other},
          bundled \in [Langs \cup Unknown -> ImportedRows] :
          /\ jobs' = [jobs EXCEPT ![NextId] = [status |-> "done", text |-> TRUE, lang |-> l,
                                               created |-> created]]
          /\ rows' = [k \in Keys |-> IF k[1] = NextId THEN bundled[k[2]] ELSE rows[k]]
    /\ used'      = used \cup {NextId}
    /\ importing' = FALSE
    /\ revived'   = TRUE
    /\ brought'   = brought \cup {NextId}
    /\ UNCHANGED <<task, doubled, orphaned, asked, deaths, retries, imports, restarts>>

ImportFails ==
    /\ importing
    /\ importing' = FALSE
    /\ UNCHANGED <<jobs, translation, used, revived, brought, retries, imports, restarts>>

-----------------------------------------------------------------------------
\* A pending job is queued again, or failed.
Restart ==
    /\ restarts < MaxRestarts
    /\ restarts'  = restarts + 1
    /\ importing' = FALSE
    /\ \E lost \in SUBSET {j \in Ids : jobs[j].status \in Pending} :
          jobs' = [j \in Ids |->
             [jobs[j] EXCEPT !.status = IF j \in lost THEN "failed"
                                        ELSE IF @ = "summarizing" THEN "extracting" ELSE @]]
    /\ Resume
    /\ UNCHANGED <<used, revived, brought, retries, imports>>

Init ==
    /\ jobs = [j \in Ids |-> Absent]
    /\ TranslationInit
    /\ importing = FALSE /\ used = {} /\ revived = FALSE /\ brought = {}
    /\ retries = 0 /\ imports = 0 /\ restarts = 0

JobSteps(j) == Extracts(j) \/ Completes(j) \/ Fails(j)

Next ==
    \/ TranslationNext /\ UNCHANGED library
    \/ Create \/ ImportBegins \/ ImportInserts \/ ImportFails \/ Restart
    \/ \E j \in Ids : JobSteps(j) \/ Retry(j)
    \/ \E js \in SUBSET Ids : Delete(js)

Spec == Init /\ [][Next]_vars

\* Tasks go on polling and calling the LLM; jobs are finished (PendingSettles of
\* JobLifecycle).
Fairness ==
    /\ \A k \in Keys : WF_vars(TaskSteps(k) /\ UNCHANGED library)
    /\ \A j \in Ids : WF_vars(JobSteps(j))

FairSpec == Spec /\ Fairness

-----------------------------------------------------------------------------
(* Properties                                                               *)

TypeOK ==
    /\ jobs \in [Ids -> [status : {"none", "failed", "done"} \cup Pending, text : BOOLEAN,
                         lang : Langs \cup {Other}, created : 0..Cardinality(Ids)]]
    /\ rows \in [Keys -> [status : {"none", "failed"} \cup Live \cup Readable,
                          text : BOOLEAN, error : BOOLEAN]]
    /\ task \in [Keys -> {"none", "wait", "work"}]
    /\ {doubled, orphaned} \subseteq SUBSET Keys
    /\ {importing, revived} \subseteq BOOLEAN
    /\ used \subseteq Ids /\ Present \subseteq used /\ brought \subseteq used

\* A submission does not start a second pipeline for a URL that has one, nor for
\* one that is done (api/jobs.py:497-500), as long as every row came about by a
\* submission.
OneUsableRow ==
    ~revived => Cardinality({j \in Present : jobs[j].status # "failed"}) <= 1

\* Nobody translates a row twice at once, although requests, retry-all and the
\* startup all spawn tasks (translator.py:153-340).
OneTaskPerRow == doubled = {}

\* A row in a supported language is under way exactly while a task works for it,
\* unless its task ended before its try, until a restart or the deletion of the
\* job; an import brings no live row along (translator.py:286-340,
\* bundle.py:697-707).  A row in a language that is not supported comes with an
\* import alone and never has a task: once retry-all has reset it, it is under way
\* for good (translator.py:278-285, 325-332).
LiveRowHasTask ==
    \A k \in Keys :
        /\ rows[k].status \in Live => task[k] # "none" \/ k \in orphaned \/ ~Known(k)
        /\ task[k] # "none" => Known(k) /\ (rows[k].status \in Live \/ Gone(k[1]))
        /\ ~Known(k) /\ rows[k].status # "none" => k[1] \in brought

\* The text is there when a row can be read and at no other time, the error is
\* there for failed and, unless the row came with an import (bundle.py:710-714),
\* for partial, and at no other time (db.py:228-230), and what GET /transcript
\* hands out as ready is there.
RowsWellFormed ==
    \A k \in Keys :
        /\ rows[k].text <=> rows[k].status \in Readable
        /\ rows[k].error => rows[k].status \in {"partial", "failed"}
        /\ rows[k].status = "failed" => rows[k].error
        /\ rows[k].status = "partial" => rows[k].error \/ k[1] \in brought
        /\ Transcript(k) # "null"

\* What is under way in a supported language is settled in the end, also when the
\* request came before the transcript, and when that never comes
\* (translator.py:979-1035).
RowSettles ==
    \A k \in Ids \X Langs :
        (rows[k].status \in Live /\ k \notin orphaned)
            ~> (rows[k].status \notin Live \/ k \in orphaned)

=============================================================================
