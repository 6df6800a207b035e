----------------------------- MODULE LibraryProofs -----------------------------
(* The rows of Library and their translations, proved for any number of     *)
(* jobs and of languages.                                                   *)
EXTENDS Library, FiniteSetTheorems, TLAPS

Job == [status : {"none", "failed", "done"} \cup Pending, text : BOOLEAN,
        lang : Langs \cup {Other}, created : 0..Cardinality(Ids)]
Row == [status : {"none", "failed"} \cup Live \cup Readable, text : BOOLEAN, error : BOOLEAN]

\* What holds of a row, its task and its job together.
KeyOK(k) ==
    /\ rows[k].text <=> rows[k].status \in Readable
    /\ rows[k].error => rows[k].status \in {"partial", "failed"}
    /\ rows[k].status = "failed" => rows[k].error
    /\ rows[k].status = "partial" => rows[k].error \/ k[1] \in brought
    /\ rows[k].status \in Live => task[k] # "none" \/ k \in orphaned \/ ~Known(k)
    /\ task[k] # "none" => Known(k) /\ (rows[k].status \in Live \/ Gone(k[1]))
    /\ ~Known(k) /\ rows[k].status # "none" => k[1] \in brought
    /\ rows[k].status # "none" => ~Gone(k[1])
    /\ task[k] # "none" => k[1] \in used

KeysOK == \A k \in Keys : KeyOK(k)

IdsInOrder == used = 1..Cardinality(used)

\* Without retries and imports only the job that came last can be anything but
\* failed: a submission that would have found a usable row got that one.
OnlyTheLast ==
    ~revived => \A j \in Present :
        /\ jobs[j].created = j
        /\ jobs[j].status # "failed" => j = Cardinality(used)

IInv ==
    /\ TypeOK
    /\ IdsInOrder
    /\ OnlyTheLast
    /\ doubled = {}
    /\ KeysOK

-----------------------------------------------------------------------------
(* Ids                                                                      *)

\* The ids given out are finitely many, and the next one is new.
LEMMA NextIsNew ==
    ASSUME used \subseteq Ids, IdsInOrder
    PROVE  /\ Cardinality(used) \in Nat
           /\ NextId \notin used
           /\ used \cup {NextId} = 1..NextId
           /\ Cardinality(used \cup {NextId}) = NextId
<1>1. IsFiniteSet(used)
  BY FS_Subset, TranslationAssumption
<1>2. Cardinality(used) \in Nat
  BY <1>1, FS_CardinalityType
<1> DEFINE n == Cardinality(used)
<1>3. used = 1..n /\ n \in Nat /\ NextId = n + 1
  BY <1>2 DEF IdsInOrder, NextId
<1>4. Cardinality(used \cup {NextId}) = n + 1
  <2>1. NextId \notin used
    BY <1>3
  <2>2. QED BY <1>1, <2>1, FS_AddElement
<1>5. QED BY <1>2, <1>3, <1>4

-----------------------------------------------------------------------------
(* Steps of the translations                                                *)

\* A row that is written to: the others stay.
LEMMA UpdatedEffect ==
    ASSUME TypeOK, NEW k \in Keys, NEW status \in {"failed"} \cup Live \cup Readable,
           NEW text \in BOOLEAN, NEW error \in BOOLEAN, Updated(k, status, text, error)
    PROVE  /\ rows' \in [Keys -> Row]
           /\ \A l \in Keys : l # k => rows'[l] = rows[l]
           /\ rows[k].status = "none" => rows'[k] = rows[k]
           /\ rows[k].status # "none" =>
                 rows'[k] = [status |-> status, text |-> rows[k].text \/ text,
                             error |-> rows[k].error \/ error]
<1> DEFINE new == IF rows[k].status = "none" THEN rows[k]
                  ELSE [status |-> status, text |-> rows[k].text \/ text,
                        error |-> rows[k].error \/ error]
<1>1. rows \in [Keys -> Row]
  BY DEF TypeOK, Row
<1>2. rows[k] \in Row /\ rows[k].text \in BOOLEAN /\ rows[k].error \in BOOLEAN
  BY <1>1 DEF Row
<1>3. new \in Row
  BY <1>2 DEF Row
<1>4. rows' = [rows EXCEPT ![k] = new]
  BY DEF Updated
<1> HIDE DEF new
<1>5. /\ rows' \in [Keys -> Row] /\ rows'[k] = new
      /\ \A l \in Keys : l # k => rows'[l] = rows[l]
  BY <1>1, <1>3, <1>4
<1>6. QED BY <1>5 DEF new

\* What is left to show of a step that concerns the translations alone.
TranslationsOK ==
    /\ rows \in [Keys -> Row]
    /\ task \in [Keys -> {"none", "wait", "work"}]
    /\ orphaned \subseteq Keys
    /\ doubled = {}
    /\ KeysOK

\* A step of the queue changes the translations and their tasks only.
LEMMA TranslationsOnly ==
    ASSUME IInv, UNCHANGED <<jobs, library>>, TranslationsOK'
    PROVE  IInv'
<1>1. Present' = Present
  BY DEF Present
<1>2. TypeOK'
  BY <1>1 DEF IInv, TypeOK, TranslationsOK, library, Job, Row
<1>3. IdsInOrder' /\ OnlyTheLast'
  BY <1>1 DEF IInv, IdsInOrder, OnlyTheLast, library
<1>4. QED BY <1>2, <1>3 DEF IInv, TranslationsOK

\* A row under way has a task only while nobody may start it: tasks that are
\* spawned for rows that are not live, of jobs that are there, are alone.
LEMMA SpawnedAlone ==
    ASSUME IInv, NEW ks \in SUBSET Keys, Spawned(ks),
           \A k \in ks : rows[k].status \notin Live /\ ~Gone(k[1])
    PROVE  /\ task' \in [Keys -> {"none", "wait", "work"}]
           /\ \A k \in ks : task'[k] = "wait"
           /\ \A k \in Keys \ ks : task'[k] = task[k]
           /\ doubled' = {}
<1>1. \A k \in ks : task[k] = "none"
  BY DEF IInv, KeysOK, KeyOK
<1>2. task \in [Keys -> {"none", "wait", "work"}] /\ doubled = {}
  BY DEF IInv, TypeOK
<1>3. doubled' = {}
  BY <1>1, <1>2 DEF Spawned
<1>4. task' = [k \in Keys |-> IF k \in ks THEN "wait" ELSE task[k]]
  BY DEF Spawned
<1>5. QED BY <1>2, <1>3, <1>4

\* The rows that are reset are queued, without text and error.
LEMMA ResetEffect ==
    ASSUME NEW row
    PROVE  Reset(row) = [status |-> "queued", text |-> FALSE, error |-> FALSE] /\ Reset(row) \in Row
BY DEF Reset, Row, Live

\* A request for a translation.
LEMMA EnqueueStep ==
    ASSUME IInv, NEW k \in Keys, Enqueue(k), UNCHANGED library
    PROVE  IInv'
<1>1. rows \in [Keys -> Row] /\ orphaned \subseteq Keys /\ used \subseteq Ids /\ Present \subseteq used
  BY DEF IInv, TypeOK, Row
<1>2. rows[k].status \notin Live /\ ~Gone(k[1]) /\ Known(k)
  BY DEF Enqueue, StartsWork, Live
<1>3. /\ task' \in [Keys -> {"none", "wait", "work"}] /\ doubled' = {}
      /\ task'[k] = "wait" /\ \A l \in Keys : l # k => task'[l] = task[l]
  <2>1. Spawned({k})
    BY DEF Enqueue
  <2>2. QED BY <1>2, <2>1, SpawnedAlone
<1>4. /\ rows' \in [Keys -> Row]
      /\ rows'[k] = [status |-> "queued", text |-> FALSE, error |-> FALSE]
      /\ \A l \in Keys : l # k => rows'[l] = rows[l]
  <2>1. rows' = [rows EXCEPT ![k] = Reset(rows[k])]
    BY DEF Enqueue
  <2>2. QED BY <1>1, <2>1, ResetEffect
<1>5. orphaned' = orphaned \ {k} /\ UNCHANGED <<jobs, used, brought>>
  BY DEF Enqueue, library
<1>6. k[1] \in used
  <2>1. k[1] \in Ids
    BY DEF Keys
  <2>2. QED BY <1>1, <1>2, <2>1 DEF Present, Gone
<1>7. ASSUME NEW l \in Keys
      PROVE  KeyOK(l)'
  <2>1. CASE l = k
    BY <1>2, <1>3, <1>4, <1>5, <1>6, <2>1 DEF KeyOK, Live, Readable, Gone, Known
  <2>2. CASE l # k
    <3>1. KeyOK(l)
      BY DEF IInv, KeysOK
    <3>2. QED BY <1>3, <1>4, <1>5, <2>2, <3>1 DEF KeyOK, Gone, Known
  <2>3. QED BY <2>1, <2>2
<1>8. TranslationsOK'
  BY <1>1, <1>3, <1>4, <1>5, <1>7 DEF TranslationsOK, KeysOK, Keys
<1>9. QED BY <1>5, <1>8, TranslationsOnly

\* Everything of a job that failed or is partial, anew.
LEMMA RetryAllStep ==
    ASSUME IInv, NEW j \in Ids, RetryAll(j), UNCHANGED library
    PROVE  IInv'
<1> DEFINE ks    == {k \in Keys : k[1] = j /\ rows[k].status \in {"failed", "partial"}}
           begun == {k \in ks : Known(k)}
<1>1. rows \in [Keys -> Row] /\ orphaned \subseteq Keys /\ used \subseteq Ids /\ Present \subseteq used
  BY DEF IInv, TypeOK, Row
<1>2. ~Gone(j) /\ j \in used
  BY <1>1 DEF RetryAll, Present, Gone
<1>3. \A k \in ks : rows[k].status \notin Live /\ ~Gone(k[1]) /\ k[1] \in used
  BY <1>2 DEF Live
<1>4. /\ task' \in [Keys -> {"none", "wait", "work"}] /\ doubled' = {}
      /\ \A k \in begun : task'[k] = "wait"
      /\ \A k \in Keys \ begun : task'[k] = task[k]
  <2>1. Spawned(begun) /\ begun \in SUBSET Keys
    BY DEF RetryAll
  <2>2. \A k \in begun : rows[k].status \notin Live /\ ~Gone(k[1])
    BY <1>3
  <2> HIDE DEF begun
  <2>3. QED BY <2>1, <2>2, SpawnedAlone
<1>5. /\ rows' \in [Keys -> Row]
      /\ \A k \in ks : rows'[k] = [status |-> "queued", text |-> FALSE, error |-> FALSE]
      /\ \A k \in Keys \ ks : rows'[k] = rows[k]
  <2>1. rows' = [k \in Keys |-> IF k \in ks THEN Reset(rows[k]) ELSE rows[k]] /\ ks \in SUBSET Keys
    BY DEF RetryAll
  <2> HIDE DEF ks
  <2>2. QED BY <1>1, <2>1, ResetEffect
<1>6. UNCHANGED <<jobs, used, brought, orphaned>>
  BY DEF RetryAll, library
<1>0. \A k \in Keys : k \in begun <=> k \in ks /\ Known(k)
  OBVIOUS
<1>10. \A k \in ks : rows[k].status \in {"failed", "partial"}
  OBVIOUS
<1> HIDE DEF ks, begun
<1>7. ASSUME NEW l \in Keys
      PROVE  KeyOK(l)'
  <2>0. KeyOK(l)
    BY DEF IInv, KeysOK
  <2>1. CASE l \in ks
    <3>1. CASE Known(l)
      BY <1>3, <1>4, <1>5, <1>6, <1>0, <2>1, <3>1 DEF KeyOK, Live, Readable, Gone, Known
    <3>2. CASE ~Known(l)
      <4>1. task'[l] = "none" /\ l[1] \in brought
        BY <1>4, <1>10, <1>0, <2>0, <2>1, <3>2 DEF KeyOK
      <4>2. QED BY <1>3, <1>5, <1>6, <2>1, <3>2, <4>1 DEF KeyOK, Live, Readable, Gone, Known
    <3>3. QED BY <3>1, <3>2
  <2>2. CASE l \notin ks
    BY <1>4, <1>5, <1>6, <1>0, <2>0, <2>2 DEF KeyOK, Gone, Known
  <2>3. QED BY <2>1, <2>2
<1>8. TranslationsOK'
  BY <1>1, <1>4, <1>5, <1>6, <1>7 DEF TranslationsOK, KeysOK, Keys
<1>9. QED BY <1>6, <1>8, TranslationsOnly

\* A task has a row under way, without text and error, or none with a job that
\* is gone.
LEMMA RowOfTask ==
    ASSUME IInv, NEW k \in Keys, task[k] # "none"
    PROVE  /\ rows \in [Keys -> Row] /\ task \in [Keys -> {"none", "wait", "work"}]
           /\ orphaned \subseteq Keys
           /\ rows[k].text = FALSE /\ rows[k].error = FALSE
           /\ \/ rows[k].status \in Live /\ ~Gone(k[1])
              \/ rows[k].status = "none" /\ Gone(k[1])
           /\ k[1] \in used /\ Known(k)
<1>1. rows \in [Keys -> Row] /\ task \in [Keys -> {"none", "wait", "work"}] /\ orphaned \subseteq Keys
  BY DEF IInv, TypeOK, Row
<1>2. KeyOK(k)
  BY DEF IInv, KeysOK
<1>3. rows[k].text \in BOOLEAN /\ rows[k].error \in BOOLEAN
  BY <1>1 DEF Row
<1>4. QED BY <1>1, <1>2, <1>3 DEF KeyOK, Live, Readable

\* A task settles its row.
LEMMA TaskSettles ==
    ASSUME IInv, UNCHANGED <<jobs, library, doubled, orphaned>>,
           NEW k \in Keys, task[k] # "none", task' = [task EXCEPT ![k] = "none"],
           NEW status \in Readable \cup {"failed"}, NEW text \in BOOLEAN, NEW error \in BOOLEAN,
           Updated(k, status, text, error),
           text <=> status \in Readable, error <=> status \in {"partial", "failed"}
    PROVE  IInv'
<1>1. /\ task \in [Keys -> {"none", "wait", "work"}] /\ orphaned \subseteq Keys
      /\ rows[k].text = FALSE /\ rows[k].error = FALSE
      /\ \/ rows[k].status \in Live /\ ~Gone(k[1])
         \/ rows[k].status = "none" /\ Gone(k[1])
      /\ Known(k)
  BY RowOfTask
<1>2. /\ rows' \in [Keys -> Row]
      /\ \A l \in Keys : l # k => rows'[l] = rows[l]
      /\ rows[k].status = "none" => rows'[k] = rows[k]
      /\ rows[k].status # "none" => rows'[k] = [status |-> status, text |-> text, error |-> error]
  <2>1. TypeOK
    BY DEF IInv
  <2>2. QED BY <1>1, <2>1, UpdatedEffect
<1>3. /\ task' \in [Keys -> {"none", "wait", "work"}] /\ task'[k] = "none"
      /\ \A l \in Keys : l # k => task'[l] = task[l]
  BY <1>1
<1>4. doubled = {}
  BY DEF IInv
<1>5. ASSUME NEW l \in Keys
      PROVE  KeyOK(l)'
  <2>1. KeyOK(l)
    BY DEF IInv, KeysOK
  <2>2. CASE l = k /\ rows[k].status = "none"
    BY <1>1, <1>2, <1>3, <2>1, <2>2 DEF KeyOK, Live, Readable, Gone, Known, library
  <2>3. CASE l = k /\ rows[k].status # "none"
    BY <1>1, <1>2, <1>3, <2>3 DEF KeyOK, Live, Readable, Gone, Known, library
  <2>4. CASE l # k
    BY <1>2, <1>3, <2>1, <2>4 DEF KeyOK, Gone, Known, library
  <2>5. QED BY <2>2, <2>3, <2>4
<1>6. TranslationsOK'
  BY <1>1, <1>2, <1>3, <1>4, <1>5 DEF TranslationsOK, KeysOK, Keys
<1>7. QED BY <1>6, TranslationsOnly

\* A task goes on with its row running, or ends with the row as it is or running:
\* then the key is an orphan.
LEMMA TaskRuns ==
    ASSUME IInv, UNCHANGED <<jobs, library, doubled>>,
           NEW k \in Keys, task[k] # "none",
           rows' = rows \/ Updated(k, "running", FALSE, FALSE),
           \/ task' = [task EXCEPT ![k] = "work"] /\ orphaned' = orphaned
           \/ task' = [task EXCEPT ![k] = "none"] /\ orphaned' = orphaned \cup {k}
    PROVE  IInv'
<1>1. /\ rows \in [Keys -> Row] /\ task \in [Keys -> {"none", "wait", "work"}]
      /\ orphaned \subseteq Keys
      /\ rows[k].text = FALSE /\ rows[k].error = FALSE
      /\ \/ rows[k].status \in Live /\ ~Gone(k[1])
         \/ rows[k].status = "none" /\ Gone(k[1])
      /\ k[1] \in used /\ Known(k)
  BY RowOfTask
<1>2. /\ rows' \in [Keys -> Row]
      /\ \A l \in Keys : l # k => rows'[l] = rows[l]
      /\ \/ rows'[k] = rows[k]
         \/ /\ rows[k].status # "none"
            /\ rows'[k] = [status |-> "running", text |-> FALSE, error |-> FALSE]
  <2>1. CASE rows' = rows
    BY <1>1, <2>1
  <2>2. CASE Updated(k, "running", FALSE, FALSE)
    <3>1. TypeOK /\ "running" \in {"failed"} \cup Live \cup Readable
      BY DEF IInv, Live
    <3>2. QED BY <1>1, <2>2, <3>1, UpdatedEffect
  <2>3. QED BY <2>1, <2>2
<1>3. /\ task' \in [Keys -> {"none", "wait", "work"}]
      /\ \A l \in Keys : l # k => task'[l] = task[l]
      /\ orphaned' \subseteq Keys /\ orphaned \subseteq orphaned'
      /\ task'[k] # "none" \/ k \in orphaned'
  BY <1>1
<1>4. \A l \in Keys : l # k => (l \in orphaned' <=> l \in orphaned)
  OBVIOUS
<1>5. doubled = {}
  BY DEF IInv
<1>6. ASSUME NEW l \in Keys
      PROVE  KeyOK(l)'
  <2>1. KeyOK(l)
    BY DEF IInv, KeysOK
  <2>2. CASE l = k
    BY <1>1, <1>2, <1>3, <2>2 DEF KeyOK, Live, Readable, Gone, Known, library
  <2>3. CASE l # k
    BY <1>2, <1>3, <1>4, <2>1, <2>3 DEF KeyOK, Gone, Known, library
  <2>4. QED BY <2>2, <2>3
<1>7. TranslationsOK'
  BY <1>2, <1>3, <1>5, <1>6 DEF TranslationsOK, KeysOK, Keys
<1>8. QED BY <1>7, TranslationsOnly

\* Whatever the tasks and the requests do.
LEMMA TranslationStep ==
    ASSUME IInv, TranslationNext, UNCHANGED library
    PROVE  IInv'
<1>1. ASSUME NEW k \in Keys, Reads(k)
      PROVE  IInv'
  BY <1>1, TaskRuns DEF Reads
<1>2. ASSUME NEW k \in Keys, GivesUp(k)
      PROVE  IInv'
  BY <1>2, TaskSettles DEF GivesUp, Readable
<1>3. ASSUME NEW k \in Keys, Finishes(k)
      PROVE  IInv'
  <2>1. /\ UNCHANGED <<jobs, doubled, orphaned>> /\ task[k] # "none"
        /\ task' = [task EXCEPT ![k] = "none"]
    BY <1>3 DEF Finishes
  <2>2. CASE Updated(k, "done", TRUE, FALSE)
    BY <2>1, <2>2, TaskSettles DEF Readable
  <2>3. CASE Updated(k, "partial", TRUE, TRUE)
    BY <2>1, <2>3, TaskSettles DEF Readable
  <2>4. CASE Updated(k, "failed", FALSE, TRUE)
    BY <2>1, <2>4, TaskSettles DEF Readable
  <2>5. QED BY <1>3, <2>2, <2>3, <2>4 DEF Finishes, Result
<1>4. ASSUME NEW k \in Keys, Dies(k)
      PROVE  IInv'
  BY <1>4, TaskRuns DEF Dies
<1>5. ASSUME NEW k \in Keys, Enqueue(k)
      PROVE  IInv'
  BY <1>5, EnqueueStep
<1>6. ASSUME NEW j \in Ids, RetryAll(j)
      PROVE  IInv'
  BY <1>6, RetryAllStep
<1>7. QED BY <1>1, <1>2, <1>3, <1>4, <1>5, <1>6 DEF TranslationNext, TaskSteps

-----------------------------------------------------------------------------
(* Steps of the jobs                                                        *)

\* What a state needs beside the keys.
JobsOK ==
    /\ jobs \in [Ids -> Job]
    /\ {importing, revived} \subseteq BOOLEAN
    /\ used \subseteq Ids /\ Present \subseteq used /\ brought \subseteq used
    /\ IdsInOrder
    /\ OnlyTheLast

\* The invariant, taken apart.
LEMMA InParts ==
    ASSUME IInv
    PROVE  JobsOK /\ TranslationsOK
BY DEF JobsOK, TranslationsOK, IInv, TypeOK, Job, Row

\* The same after a step, put together.
LEMMA FromParts ==
    ASSUME JobsOK', TranslationsOK'
    PROVE  IInv'
BY DEF JobsOK, TranslationsOK, IInv, TypeOK, Job, Row

\* Jobs move, none comes and none goes.
LEMMA JobsMove ==
    ASSUME IInv, UNCHANGED <<translation, used, brought>>, \A j \in Ids : Gone(j)' <=> Gone(j)
    PROVE  TranslationsOK' /\ Present' = Present /\ IdsInOrder'
<1>1. Present' = Present
  BY DEF Present, Gone
<1>2. IdsInOrder'
  BY DEF IInv, IdsInOrder
<1>3. UNCHANGED <<rows, task, doubled, orphaned>>
  BY DEF translation
<1>4. ASSUME NEW k \in Keys
      PROVE  KeyOK(k)'
  <2>1. KeyOK(k) /\ k[1] \in Ids
    BY DEF IInv, KeysOK, Keys
  <2>2. Gone(k[1])' <=> Gone(k[1])
    BY <2>1
  <2>3. QED BY <1>3, <2>1, <2>2 DEF KeyOK, Known
<1>5. TranslationsOK'
  BY <1>3, <1>4, InParts DEF TranslationsOK, KeysOK, Keys
<1>6. QED BY <1>1, <1>2, <1>5

\* One job goes on.
LEMMA JobStep ==
    ASSUME IInv, NEW j \in Ids, JobSteps(j)
    PROVE  IInv'
<1>1. JobsOK
  BY InParts
<1>2. /\ UNCHANGED <<translation, library>>
      /\ jobs[j].status \in Pending
      /\ jobs' \in [Ids -> Job]
      /\ \A i \in Ids : i # j => jobs'[i] = jobs[i]
      /\ jobs'[j].status \in {"summarizing", "done", "failed"}
      /\ jobs'[j].created = jobs[j].created
  <2>1. CASE Extracts(j)
    <3>1. PICK l \in Langs \cup {Other} :
             jobs' = [jobs EXCEPT ![j].status = "summarizing", ![j].text = TRUE, ![j].lang = l]
      BY <2>1 DEF Extracts
    <3> DEFINE f == [jobs EXCEPT ![j].status = "summarizing"]
               g == [f EXCEPT ![j].text = TRUE]
               h == [g EXCEPT ![j].lang = l]
    <3>2. /\ f \in [Ids -> Job] /\ \A i \in Ids : i # j => f[i] = jobs[i]
          /\ f[j].status = "summarizing" /\ f[j].created = jobs[j].created
      BY <1>1 DEF JobsOK, Job, Pending
    <3> HIDE DEF f
    <3>3. /\ g \in [Ids -> Job] /\ \A i \in Ids : i # j => g[i] = jobs[i]
          /\ g[j].status = "summarizing" /\ g[j].created = jobs[j].created
      BY <3>2 DEF Job
    <3> HIDE DEF g
    <3>4. /\ h \in [Ids -> Job] /\ \A i \in Ids : i # j => h[i] = jobs[i]
          /\ h[j].status = "summarizing" /\ h[j].created = jobs[j].created
      BY <3>3 DEF Job
    <3>5. jobs' = h
      BY <3>1 DEF f, g
    <3> HIDE DEF h
    <3>6. UNCHANGED <<translation, library>> /\ jobs[j].status = "extracting"
      BY <2>1 DEF Extracts
    <3>7. QED BY <3>4, <3>5, <3>6 DEF Pending
  <2>2. CASE Completes(j)
    BY <1>1, <2>2 DEF Completes, JobsOK, Job, Pending
  <2>3. CASE Fails(j)
    BY <1>1, <2>3 DEF Fails, JobsOK, Job, Pending
  <2>4. QED BY <2>1, <2>2, <2>3 DEF JobSteps
<1>3. \A i \in Ids : Gone(i)' <=> Gone(i)
  BY <1>2 DEF Gone, Pending
<1>4. TranslationsOK' /\ Present' = Present /\ IdsInOrder'
  BY <1>2, <1>3, JobsMove DEF library
<1>5. OnlyTheLast'
  BY <1>1, <1>2, <1>4 DEF JobsOK, OnlyTheLast, Present, Pending, library
<1>6. JobsOK'
  BY <1>1, <1>2, <1>4, <1>5 DEF JobsOK, library
<1>7. QED BY <1>4, <1>6, FromParts

\* A failed job is tried again.
LEMMA RetryStep ==
    ASSUME IInv, NEW j \in Ids, Retry(j)
    PROVE  IInv'
<1>1. JobsOK
  BY InParts
<1>2. /\ jobs' \in [Ids -> Job] /\ jobs[j].status = "failed" /\ jobs'[j].status = "extracting"
      /\ \A i \in Ids : i # j => jobs'[i] = jobs[i]
  BY <1>1 DEF Retry, JobsOK, Job, Pending
<1>3. UNCHANGED <<translation, used, importing, brought>> /\ revived' = TRUE
  BY DEF Retry
<1>4. \A i \in Ids : Gone(i)' <=> Gone(i)
  BY <1>2 DEF Gone
<1>5. TranslationsOK' /\ Present' = Present /\ IdsInOrder'
  BY <1>3, <1>4, JobsMove
<1>6. JobsOK'
  BY <1>1, <1>2, <1>3, <1>5 DEF JobsOK, OnlyTheLast
<1>7. QED BY <1>5, <1>6, FromParts

\* A submission that finds no row it could return.
LEMMA CreateStep ==
    ASSUME IInv, Create
    PROVE  IInv'
<1>1. JobsOK /\ TranslationsOK
  BY InParts
<1>2. /\ Cardinality(used) \in Nat /\ NextId \notin used /\ NextId \in Ids
      /\ used' = 1..NextId /\ Cardinality(used') = NextId
      /\ NextId = Cardinality(used) + 1 /\ used = 1..Cardinality(used)
  <2>1. used' = used \cup {NextId} /\ NextId \in Ids
    BY DEF Create
  <2>2. QED BY <1>1, <2>1, NextIsNew DEF JobsOK, IdsInOrder, NextId
<1>3. /\ jobs' \in [Ids -> Job] /\ jobs'[NextId].status = "extracting"
      /\ jobs'[NextId].created = NextId
      /\ \A i \in Ids : i # NextId => jobs'[i] = jobs[i]
  <2>1. NextId \in 0..Cardinality(Ids)
    <3>1. Cardinality(Ids) \in Nat
      BY FS_CardinalityType, TranslationAssumption
    <3>2. QED BY <1>2, <3>1, TranslationAssumption
  <2>2. jobs' = [jobs EXCEPT ![NextId] = [status |-> "extracting", text |-> FALSE,
                                          lang |-> Other, created |-> NextId]]
    BY DEF Create
  <2>3. QED BY <1>1, <1>2, <2>1, <2>2 DEF JobsOK, Job, Pending
<1>4. Present' = Present \cup {NextId} /\ NextId \notin Present
  BY <1>1, <1>2, <1>3 DEF JobsOK, Present
<1>5. UNCHANGED <<rows, task, doubled, orphaned, importing, revived, brought>>
  BY DEF Create, translation
<1>6. ASSUME NEW k \in Keys
      PROVE  KeyOK(k)'
  <2>1. KeyOK(k) /\ k[1] \in Ids
    BY DEF IInv, KeysOK, Keys
  <2>2. k[1] \in used => k[1] \in used'
    BY <1>2
  <2>3. CASE k[1] = NextId
    <3>1. task[k] = "none" /\ rows[k].status = "none"
      BY <1>2, <1>4, <2>1, <2>3 DEF KeyOK, Present, Gone
    <3>2. QED BY <1>5, <2>1, <3>1 DEF KeyOK, Live, Known
  <2>4. CASE k[1] # NextId
    <3>1. Gone(k[1])' <=> Gone(k[1])
      BY <1>3, <2>1, <2>4 DEF Gone
    <3>2. QED BY <1>5, <2>1, <2>2, <3>1 DEF KeyOK, Known
  <2>5. QED BY <2>3, <2>4
<1>7. TranslationsOK'
  BY <1>1, <1>5, <1>6 DEF TranslationsOK, KeysOK, Keys
<1>8. ASSUME ~revived, NEW j \in Present
      PROVE  jobs[j].status = "failed" /\ jobs[j].created = j
  <2>1. PICK i \in Newest : ~StandsIn(i)
    BY DEF Create
  <2>2. i \in Present /\ jobs[j].created <= jobs[i].created
    BY <2>1 DEF Newest
  <2>3. jobs[i].status = "failed"
    BY <1>1, <2>1, <2>2 DEF StandsIn, JobsOK, Job, Present
  <2>4. jobs[j].created = j /\ jobs[i].created = i /\ i \in used /\ j \in used
    BY <1>1, <1>8, <2>2 DEF JobsOK, OnlyTheLast
  <2>5. CASE jobs[j].status # "failed"
    <3>1. j = Cardinality(used)
      BY <1>1, <1>8, <2>5 DEF JobsOK, OnlyTheLast
    <3>2. i = j
      BY <1>2, <2>2, <2>4, <3>1
    <3>3. QED BY <2>3, <2>5, <3>2
  <2>6. QED BY <2>4, <2>5
<1>9. OnlyTheLast'
  <2>1. ASSUME ~revived, NEW j \in Present'
        PROVE  jobs'[j].created = j /\ (jobs'[j].status # "failed" => j = NextId)
    <3>1. CASE j = NextId
      BY <1>3, <3>1
    <3>2. CASE j # NextId
      <4>1. j \in Present /\ j \in Ids
        BY <1>4, <3>2 DEF Present
      <4>2. QED BY <1>3, <1>8, <2>1, <3>2, <4>1
    <3>3. QED BY <3>1, <3>2
  <2>2. QED BY <1>2, <1>5, <2>1 DEF OnlyTheLast
<1>10. JobsOK'
  <2>1. used' \subseteq Ids
    BY <1>1, <1>2 DEF JobsOK, Create
  <2>2. Present' \subseteq used'
    BY <1>1, <1>4 DEF JobsOK, Create
  <2>3. IdsInOrder'
    BY <1>2 DEF IdsInOrder
  <2>4. brought' \subseteq used'
    BY <1>1, <1>5 DEF JobsOK, Create
  <2>5. QED BY <1>1, <1>3, <1>5, <1>9, <2>1, <2>2, <2>3, <2>4 DEF JobsOK
<1>11. QED BY <1>7, <1>10, FromParts

\* Any selection of jobs is deleted, with their translations.
LEMMA DeleteStep ==
    ASSUME IInv, NEW js \in SUBSET Ids, Delete(js)
    PROVE  IInv'
<1>1. JobsOK /\ TranslationsOK
  BY InParts
<1>2. /\ jobs' = [j \in Ids |-> IF j \in js THEN Absent ELSE jobs[j]]
      /\ rows' = [k \in Keys |-> IF k[1] \in js THEN NoRow ELSE rows[k]]
      /\ orphaned' = {k \in orphaned : k[1] \notin js}
      /\ UNCHANGED <<task, doubled, library>>
  BY DEF Delete, Cascades
<1>3. Absent \in Job /\ NoRow \in Row
  <2>1. 0 \in 0..Cardinality(Ids)
    BY FS_CardinalityType, TranslationAssumption
  <2>2. QED BY <2>1 DEF Absent, Job, NoRow, Row
<1>4. jobs' \in [Ids -> Job] /\ rows' \in [Keys -> Row]
  BY <1>1, <1>2, <1>3 DEF JobsOK, TranslationsOK
<1>5. \A j \in Ids : IF j \in js THEN Gone(j)' ELSE jobs'[j] = jobs[j]
  BY <1>2 DEF Gone, Absent
<1>6. Present' = Present \ js
  BY <1>5 DEF Present, Gone
<1>7. ASSUME NEW k \in Keys
      PROVE  KeyOK(k)'
  <2>1. KeyOK(k) /\ k[1] \in Ids
    BY DEF IInv, KeysOK, Keys
  <2>2. CASE k[1] \in js
    <3>1. rows'[k] = NoRow /\ Gone(k[1])'
      BY <1>2, <1>5, <2>1, <2>2
    <3>2. QED BY <1>2, <2>1, <3>1 DEF KeyOK, NoRow, Live, Readable, Known, library
  <2>3. CASE k[1] \notin js
    <3>1. rows'[k] = rows[k] /\ (Gone(k[1])' <=> Gone(k[1])) /\ (k \in orphaned' <=> k \in orphaned)
      BY <1>2, <1>5, <2>1, <2>3 DEF Gone
    <3>2. QED BY <1>2, <2>1, <3>1 DEF KeyOK, Known, library
  <2>4. QED BY <2>2, <2>3
<1>8. TranslationsOK'
  BY <1>1, <1>2, <1>4, <1>7 DEF TranslationsOK, KeysOK, Keys
<1>9. JobsOK'
  <2>1. OnlyTheLast'
    BY <1>1, <1>2, <1>5, <1>6 DEF JobsOK, OnlyTheLast, Present, library
  <2>2. QED BY <1>1, <1>2, <1>4, <1>6, <2>1 DEF JobsOK, IdsInOrder, library
<1>10. QED BY <1>8, <1>9, FromParts

\* What an import makes of a translation in the bundle is no live row.
LEMMA ImportedRowOK ==
    ASSUME NEW row \in ImportedRows
    PROVE  /\ row \in Row
           /\ row.status \in {"none"} \cup Readable
           /\ row.text <=> row.status \in Readable
           /\ row.error => row.status = "partial"
<1>1. PICK status \in {"none", "queued"} \cup Readable, error \in BOOLEAN :
         row = ImportedRow(status, error)
  BY DEF ImportedRows
<1>2. CASE status = "none"
  BY <1>1, <1>2 DEF ImportedRow, NoRow, Row, Readable
<1>3. CASE status # "none"
  <2>1. Normalized(status) \in Readable
    BY DEF Normalized, Readable
  <2> DEFINE marked == error /\ Normalized(status) = "partial"
  <2>2. row = [status |-> Normalized(status), text |-> TRUE, error |-> marked]
    BY <1>1, <1>3 DEF ImportedRow
  <2>3. marked \in BOOLEAN /\ (marked => Normalized(status) = "partial")
    OBVIOUS
  <2> HIDE DEF marked, Normalized
  <2>4. row.status = Normalized(status) /\ row.text = TRUE /\ row.error = marked
    BY <2>2
  <2>5. row \in Row
    BY <2>1, <2>2, <2>3 DEF Row
  <2>6. QED BY <2>1, <2>3, <2>4, <2>5
<1>4. QED BY <1>2, <1>3

\* A bundle's job and its translations under the next id.
LEMMA ImportStep ==
    ASSUME IInv, ImportInserts
    PROVE  IInv'
<1>1. JobsOK /\ TranslationsOK
  BY InParts
<1>2. /\ NextId \notin used /\ NextId \in Ids /\ NextId \in 0..Cardinality(Ids)
      /\ used' = used \cup {NextId}
      /\ used' = 1..NextId /\ Cardinality(used') = NextId
  <2>1. used' = used \cup {NextId} /\ NextId \in Ids
    BY DEF ImportInserts
  <2>2. NextId \in 0..Cardinality(Ids)
    <3>1. Cardinality(Ids) \in Nat
      BY FS_CardinalityType, TranslationAssumption
    <3>2. QED BY <2>1, <3>1, TranslationAssumption
  <2>3. QED BY <1>1, <2>1, <2>2, NextIsNew DEF JobsOK
<1>3. PICK created \in {0, NextId}, l \in Langs \cup {Other},
           bundled \in [Langs \cup Unknown -> ImportedRows] :
         /\ jobs' = [jobs EXCEPT ![NextId] = [status |-> "done", text |-> TRUE, lang |-> l,
                                              created |-> created]]
         /\ rows' = [k \in Keys |-> IF k[1] = NextId THEN bundled[k[2]] ELSE rows[k]]
  BY DEF ImportInserts
<1>4. created \in 0..Cardinality(Ids)
  BY <1>2, FS_CardinalityType, TranslationAssumption
<1>5. /\ jobs' \in [Ids -> Job] /\ jobs'[NextId].status = "done"
      /\ \A i \in Ids : i # NextId => jobs'[i] = jobs[i]
  BY <1>1, <1>2, <1>3, <1>4 DEF JobsOK, Job
<1>6. \A k \in Keys : k[1] = NextId => bundled[k[2]] \in ImportedRows
  BY DEF Keys
<1>7. rows' \in [Keys -> Row]
  BY <1>1, <1>3, <1>6, ImportedRowOK DEF TranslationsOK
<1>8. /\ UNCHANGED <<task, doubled, orphaned>>
      /\ importing' = FALSE /\ revived' = TRUE /\ brought' = brought \cup {NextId}
  BY DEF ImportInserts
<1>9. Present' = Present \cup {NextId}
  BY <1>1, <1>2, <1>5 DEF JobsOK, Present
<1>10. ASSUME NEW k \in Keys
       PROVE  KeyOK(k)'
  <2>1. KeyOK(k) /\ k[1] \in Ids
    BY DEF IInv, KeysOK, Keys
  <2>2. CASE k[1] = NextId
    <3>1. task[k] = "none" /\ ~Gone(k[1])'
      BY <1>2, <1>5, <2>1, <2>2 DEF KeyOK, Gone
    <3>2. rows'[k] = bundled[k[2]]
      BY <1>3, <2>2
    <3>3. /\ rows'[k].status \in {"none"} \cup Readable
          /\ rows'[k].text <=> rows'[k].status \in Readable
          /\ rows'[k].error => rows'[k].status = "partial"
      BY <1>6, <2>2, <3>2, ImportedRowOK
    <3>4. QED BY <1>8, <2>2, <3>1, <3>3 DEF KeyOK, Live, Readable, Known
  <2>3. CASE k[1] # NextId
    <3>1. (Gone(k[1])' <=> Gone(k[1])) /\ rows'[k] = rows[k] /\ (k[1] \in used => k[1] \in used')
      BY <1>2, <1>3, <1>5, <2>1, <2>3 DEF Gone
    <3>2. QED BY <1>8, <2>1, <3>1 DEF KeyOK, Known
  <2>4. QED BY <2>2, <2>3
<1>11. TranslationsOK'
  BY <1>1, <1>7, <1>8, <1>10 DEF TranslationsOK, KeysOK, Keys
<1>12. JobsOK'
  <2>1. OnlyTheLast'
    BY <1>8 DEF OnlyTheLast
  <2>2. used' = 1..Cardinality(used)'
    <3>1. used' = 1..NextId
      BY <1>2
    <3>2. Cardinality(used') = NextId
      BY <1>2
    <3>3. QED BY <3>1, <3>2
  <2>3. QED BY <1>1, <1>2, <1>5, <1>8, <1>9, <2>1, <2>2 DEF JobsOK, IdsInOrder
<1>13. QED BY <1>11, <1>12, FromParts

\* An import that begins or fails changes neither rows nor jobs.
LEMMA ImportingStep ==
    ASSUME IInv, ImportBegins \/ ImportFails
    PROVE  IInv'
<1>1. UNCHANGED <<jobs, translation, used, revived, brought>> /\ importing' \in BOOLEAN
  BY DEF ImportBegins, ImportFails
<1>2. TranslationsOK' /\ Present' = Present /\ IdsInOrder'
  BY <1>1, JobsMove DEF Gone
<1>3. JobsOK'
  BY <1>1, <1>2, InParts DEF JobsOK, OnlyTheLast
<1>4. QED BY <1>2, <1>3, FromParts

\* A restart: every row under way gets a task, no other one has one.
LEMMA RestartStep ==
    ASSUME IInv, Restart
    PROVE  IInv'
<1>1. JobsOK /\ TranslationsOK
  BY InParts
<1>2. PICK lost \in SUBSET {j \in Ids : jobs[j].status \in Pending} :
          jobs' = [j \in Ids |->
             [jobs[j] EXCEPT !.status = IF j \in lost THEN "failed"
                                        ELSE IF @ = "summarizing" THEN "extracting" ELSE @]]
  BY DEF Restart
<1>3. ASSUME NEW j \in Ids
      PROVE  /\ jobs'[j] \in Job
             /\ jobs'[j].created = jobs[j].created
             /\ Gone(j)' <=> Gone(j)
             /\ jobs[j].status = "failed" => jobs'[j].status = "failed"
  <2> DEFINE status == IF j \in lost THEN "failed"
                       ELSE IF jobs[j].status = "summarizing" THEN "extracting"
                       ELSE jobs[j].status
  <2>1. jobs'[j] = [jobs[j] EXCEPT !.status = status] /\ jobs[j] \in Job
    BY <1>1, <1>2 DEF JobsOK
  <2>2. /\ status \in {"none", "failed", "done"} \cup Pending
        /\ status = "none" <=> jobs[j].status = "none"
        /\ jobs[j].status = "failed" => status = "failed"
    BY <2>1 DEF Job, Pending
  <2> HIDE DEF status
  <2>3. QED BY <2>1, <2>2 DEF Job, Gone
<1>4. /\ rows' = [k \in Keys |-> IF StillToDo(k) THEN [rows[k] EXCEPT !.status = "queued"]
                                 ELSE rows[k]]
      /\ task' = [k \in Keys |-> IF StillToDo(k) /\ Known(k) THEN "wait" ELSE "none"]
      /\ orphaned' = {}
      /\ UNCHANGED <<doubled, used, revived, brought>>
      /\ importing' = FALSE
  BY DEF Restart, Resume
<1>5. \A k \in Keys : rows[k] \in Row /\ rows'[k] \in Row
  BY <1>1, <1>4 DEF TranslationsOK, Row, Live
<1>6. ASSUME NEW k \in Keys
      PROVE  KeyOK(k)'
  <2>1. KeyOK(k) /\ k[1] \in Ids /\ rows[k] \in Row
    BY <1>5 DEF IInv, KeysOK, Keys
  <2>2. Gone(k[1])' <=> Gone(k[1])
    BY <1>3, <2>1
  <2>3. CASE StillToDo(k)
    <3>1. rows'[k] = [rows[k] EXCEPT !.status = "queued"] /\ task'[k] = (IF Known(k) THEN "wait" ELSE "none")
      BY <1>4, <2>3
    <3>2. /\ rows'[k].status = "queued" /\ rows'[k].text = rows[k].text
          /\ rows'[k].error = rows[k].error
      BY <2>1, <3>1 DEF Row
    <3>3. k[1] \in used /\ ~Gone(k[1])
      BY <1>1, <2>1, <2>3 DEF KeyOK, StillToDo, Live, Gone, JobsOK, Present
    <3>4. QED BY <1>4, <2>1, <2>2, <2>3, <3>1, <3>2, <3>3 DEF KeyOK, Live, Readable, StillToDo, Known
  <2>4. CASE ~StillToDo(k)
    <3>1. rows'[k] = rows[k] /\ task'[k] = "none"
      BY <1>4, <2>4
    <3>2. QED BY <1>4, <2>1, <2>2, <2>4, <3>1 DEF KeyOK, StillToDo, Known
  <2>5. QED BY <2>3, <2>4
<1>7. TranslationsOK'
  BY <1>1, <1>4, <1>5, <1>6 DEF TranslationsOK, KeysOK, Keys
<1>8. Present' = Present
  BY <1>3 DEF Present, Gone
<1>9. jobs' \in [Ids -> Job]
  BY <1>2, <1>3
<1>10. OnlyTheLast'
  BY <1>1, <1>3, <1>4, <1>8 DEF JobsOK, OnlyTheLast, Present
<1>11. JobsOK'
  BY <1>1, <1>4, <1>8, <1>9, <1>10 DEF JobsOK, IdsInOrder
<1>12. QED BY <1>7, <1>11, FromParts

-----------------------------------------------------------------------------
(* Results                                                                  *)

\* IInv is inductive, and holds of every state of the library.
THEOREM Invariance == Spec => []IInv
<1>1. Init => IInv
  <2>1. Cardinality({}) = 0
    BY FS_EmptySet
  <2>2. 0 \in 0..Cardinality(Ids)
    BY FS_CardinalityType, TranslationAssumption
  <2> SUFFICES ASSUME Init PROVE IInv
    OBVIOUS
  <2>3. /\ jobs \in [Ids -> Job] /\ Present = {} /\ used = {}
        /\ importing = FALSE /\ revived = FALSE /\ brought = {}
        /\ \A j \in Ids : Gone(j)
    BY <2>2 DEF Init, Absent, Job, Present, Gone
  <2>4. JobsOK
    <3>1. IdsInOrder
      BY <2>1, <2>3 DEF IdsInOrder
    <3>2. QED BY <2>3, <3>1 DEF JobsOK, OnlyTheLast
  <2>5. TranslationsOK
    BY <2>3 DEF TranslationsOK, Init, TranslationInit, NoRow, Row, KeysOK, KeyOK, Live, Readable
  <2>6. QED BY <2>4, <2>5 DEF JobsOK, TranslationsOK, IInv, TypeOK, Job, Row
<1>2. IInv /\ [Next]_vars => IInv'
  <2> SUFFICES ASSUME IInv, [Next]_vars PROVE IInv'
    OBVIOUS
  <2>1. CASE TranslationNext /\ UNCHANGED library
    BY <2>1, TranslationStep
  <2>2. CASE Create
    BY <2>2, CreateStep
  <2>3. CASE ImportBegins \/ ImportFails
    BY <2>3, ImportingStep
  <2>4. CASE ImportInserts
    BY <2>4, ImportStep
  <2>5. CASE Restart
    BY <2>5, RestartStep
  <2>6. CASE \E j \in Ids : JobSteps(j) \/ Retry(j)
    BY <2>6, JobStep, RetryStep
  <2>7. CASE \E js \in SUBSET Ids : Delete(js)
    BY <2>7, DeleteStep
  <2>8. CASE UNCHANGED vars
    <3>1. UNCHANGED <<jobs, rows, task, doubled, orphaned, library>>
      BY <2>8 DEF vars, translation
    <3>2. TranslationsOK' <=> TranslationsOK
      BY <3>1 DEF TranslationsOK, KeysOK, KeyOK, Gone, library
    <3>3. QED BY <3>1, <3>2, InParts, TranslationsOnly
  <2>9. QED BY <2>1, <2>2, <2>3, <2>4, <2>5, <2>6, <2>7, <2>8 DEF Next
<1>3. QED BY <1>1, <1>2, PTL DEF Spec

\* The variables keep their types.
THEOREM TypeCorrect == Spec => []TypeOK
<1>1. IInv => TypeOK
  BY DEF IInv
<1>2. QED BY <1>1, Invariance, PTL

\* However tasks are spawned, by requests, retries of all and the startup, no two
\* of them work for one row (translator.py:153-340).
THEOREM NobodyTwice == Spec => []OneTaskPerRow
<1>1. IInv => OneTaskPerRow
  BY DEF IInv, OneTaskPerRow
<1>2. QED BY <1>1, Invariance, PTL

\* A row under way has its task, save the orphans and what retry-all reset in a
\* language that is not supported, which only an import brings; and a task has its
\* row (translator.py:278-340).
THEOREM LiveRowsHaveTasks == Spec => []LiveRowHasTask
<1>1. IInv => LiveRowHasTask
  BY DEF IInv, KeysOK, KeyOK, LiveRowHasTask
<1>2. QED BY <1>1, Invariance, PTL

\* Text and error go with the status, but that an imported partial row may lack the
\* error, and nothing is handed out as ready that has no text (db.py:228-230,
\* bundle.py:710-714).
THEOREM RowsAreWellFormed == Spec => []RowsWellFormed
<1>1. ASSUME IInv, NEW k \in Keys
      PROVE  /\ rows[k].text <=> rows[k].status \in Readable
             /\ rows[k].error => rows[k].status \in {"partial", "failed"}
             /\ rows[k].status = "failed" => rows[k].error
             /\ rows[k].status = "partial" => rows[k].error \/ k[1] \in brought
             /\ Transcript(k) # "null"
  <2>1. KeyOK(k)
    BY <1>1 DEF IInv, KeysOK
  <2>2. QED BY <2>1 DEF KeyOK, Transcript
<1>2. IInv => RowsWellFormed
  BY <1>1 DEF RowsWellFormed
<1>3. QED BY <1>2, Invariance, PTL

\* Submissions alone never bring about two usable rows of one URL
\* (api/jobs.py:497-500).
THEOREM OneRowIsUsable == Spec => []OneUsableRow
<1>1. ASSUME IInv, ~revived
      PROVE  Cardinality({j \in Present : jobs[j].status # "failed"}) <= 1
  <2> DEFINE usable == {j \in Present : jobs[j].status # "failed"}
             last == Cardinality(used)
  <2>1. usable \subseteq {last}
    BY <1>1 DEF IInv, OnlyTheLast
  <2>2. Cardinality({last}) = 1 /\ IsFiniteSet({last})
    BY FS_Singleton
  <2> HIDE DEF usable, last
  <2>3. Cardinality(usable) <= Cardinality({last})
    BY <2>1, <2>2, FS_Subset
  <2>4. QED BY <2>2, <2>3 DEF usable
<1>2. IInv => OneUsableRow
  BY <1>1 DEF OneUsableRow
<1>3. QED BY <1>2, Invariance, PTL

=============================================================================
