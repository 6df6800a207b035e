-------------------------- MODULE AudioStoreProofs --------------------------
(***************************************************************************)
(* Proofs about AudioStore for any jobs and media, shared or not, and any  *)
(* number of attempts and crashes: the audio kept on a failed row is there *)
(* until another job about it ends, and only such a job's clean-up or      *)
(* deletion takes a file from under a worker.                              *)
(***************************************************************************)
EXTENDS AudioStore, TLAPS

\* A job at rest has no worker, and one that was never begun has no past.
AtRest(j) ==
    /\ work[j] # "none" => row[j] \in {"open", "deleted"}
    /\ row[j] # "absent" => starts[j] >= 1
    /\ ref[j] => HasRow(j)

\* Column and disk agree, unless a rival took the file; what Whisper reads is in
\* the column; what yt-dlp has half written is young.
Agrees(j) ==
    /\ ref[j] => FileOf(j) = "whole" \/ RivalWas(j)
    /\ work[j] = "transcribe" /\ HasRow(j) => ref[j]
    /\ work[j] = "download" /\ FileOf(j) = "partial" => ~old[media[j]]

\* The two properties alone are not inductive: that a kept file is still there
\* rests on what is on disk while the row is queued again, downloaded and read.
IInv == TypeOK /\ \A j \in Jobs : AtRest(j) /\ Agrees(j)

\* An empty table and an empty directory.
LEMMA InitIInv == Init => IInv
  <1> SUFFICES ASSUME Init PROVE IInv
    OBVIOUS
  <1>1. (CHOOSE m \in Media : TRUE) \in Media
    BY MediaAssumption DEF MediaAssumption
  <1>2. TypeOK
    BY <1>1, StartsAssumption DEF Init, TypeOK, Rows, Works, StartsAssumption
  <1>3. \A j \in Jobs : AtRest(j) /\ Agrees(j)
    BY DEF Init, AtRest, Agrees, HasRow, FileOf
  <1>4. QED
    BY <1>2, <1>3 DEF IInv

\* Whether there is a row is a Boolean.
LEMMA HasRowBoolean == \A j \in Jobs : HasRow(j) \in BOOLEAN
  BY DEF HasRow

\* Types are kept by every action.
LEMMA StepTypeOK ==
  ASSUME TypeOK, [Next]_vars
  PROVE  TypeOK'
  <1> USE StartsAssumption DEF TypeOK, StartsAssumption, Rows, Works, HasRow, FileOf
  <1>1. CASE UNCHANGED vars
    BY <1>1 DEF vars
  <1>2. ASSUME NEW j \in Jobs, Submit(j) \/ Retry(j) \/ Delete(j)
        PROVE  TypeOK'
    <2>1. CASE Submit(j)
      <3>1. starts[j] + 1 \in 0..MaxStarts
        BY <2>1 DEF Submit
      <3>2. media' \in [Jobs -> Media]
        BY <2>1 DEF Submit
      <3>3. QED
        BY <2>1, <3>1, <3>2 DEF Submit
    <2>2. CASE Retry(j)
      <3>1. starts[j] + 1 \in 0..MaxStarts
        BY <2>2 DEF Retry
      <3>2. QED
        BY <2>2, <3>1 DEF Retry
    <2>3. CASE Delete(j)
      BY <2>3 DEF Delete
    <2>4. QED
      BY <1>2, <2>1, <2>2, <2>3
  <1>3. ASSUME NEW j \in Jobs, WorkOn(j)
        PROVE  TypeOK'
    <2>1. CASE SettledByCaptions(j) \/ Transcribed(j) \/ Raised(j)
      BY <2>1 DEF SettledByCaptions, Transcribed, Raised
    <2>2. CASE TakeUp(j) \/ Downloaded(j)
      <3>1. work' \in [Jobs -> Works]
        BY <2>2 DEF TakeUp, Downloaded
      <3>4. ref' \in [Jobs -> BOOLEAN]
        <4>1. CASE TakeUp(j)
          BY <4>1 DEF TakeUp
        <4>2. CASE Downloaded(j)
          <5>1. PICK b \in BOOLEAN : b = HasRow(j)
            BY HasRowBoolean
          <5>2. ref' = [ref EXCEPT ![j] = b]
            BY <4>2, <5>1 DEF Downloaded
          <5>3. QED
            BY <5>2
        <4>3. QED
          BY <2>2, <4>1, <4>2
      <3>2. file' \in [Media -> {"none", "partial", "whole"}] /\ old' \in [Media -> BOOLEAN]
        BY <2>2 DEF TakeUp, Downloaded, Write
      <3>3. QED
        BY <2>2, <3>1, <3>2, <3>4 DEF TakeUp, Downloaded
    <2>3. CASE Finished(j)
      <3>1. PICK s \in {"done", "failed"} :
               row' = [row EXCEPT ![j] = IF HasRow(j) THEN s ELSE @]
        BY <2>3 DEF Finished
      <3>2. row' \in [Jobs -> Rows]
        BY <3>1
      <3>3. work' \in [Jobs -> Works] /\ ref' \in [Jobs -> BOOLEAN]
        BY <2>3 DEF Finished
      <3>4. file' \in [Media -> {"none", "partial", "whole"}]
        BY <2>3 DEF Finished
      <3>5. QED
        BY <2>3, <3>2, <3>3, <3>4 DEF Finished
    <2>4. QED
      BY <1>3, <2>1, <2>2, <2>3 DEF WorkOn
  <1>4. ASSUME NEW m \in Media, Ages(m) \/ Sweep(m)
        PROVE  TypeOK'
    BY <1>4 DEF Ages, Sweep
  <1>5. CASE Crash
    BY <1>5 DEF Crash
  <1>6. QED
    BY <1>1, <1>2, <1>3, <1>4, <1>5 DEF Next

\* A job that has come to an end, or was deleted, stays one that did, about the
\* media id it was about.
LEMMA SettledStays ==
  ASSUME IInv, [Next]_vars, NEW k \in Jobs, Settled(k)
  PROVE  Settled(k)' /\ media'[k] = media[k]
  <1> USE DEF Settled
  <1>1. TypeOK /\ AtRest(k)
    BY DEF IInv
  <1>2. starts[k] \in Nat /\ starts[k] >= 1 /\ row[k] # "absent"
    BY <1>1, StartsAssumption DEF AtRest, TypeOK, StartsAssumption
  <1>3. CASE UNCHANGED vars
    BY <1>3 DEF vars
  <1>4. ASSUME NEW j \in Jobs, Submit(j) \/ Retry(j) \/ Delete(j)
        PROVE  Settled(k)' /\ media'[k] = media[k]
    BY <1>1, <1>2, <1>4 DEF Submit, Retry, Delete, HasRow, TypeOK
  <1>5. ASSUME NEW j \in Jobs, WorkOn(j)
        PROVE  Settled(k)' /\ media'[k] = media[k]
    BY <1>1, <1>5 DEF WorkOn, SettledByCaptions, TakeUp, Downloaded, Transcribed, Finished,
                      Raised, HasRow, TypeOK
  <1>6. CASE \E m \in Media : Ages(m) \/ Sweep(m)
    BY <1>6 DEF Ages, Sweep
  <1>7. CASE Crash
    BY <1>1, <1>7 DEF Crash, TypeOK
  <1>8. QED
    BY <1>3, <1>4, <1>5, <1>6, <1>7 DEF Next

\* A rival stays one, for a job that has been submitted.
LEMMA RivalStays ==
  ASSUME IInv, [Next]_vars, NEW j \in Jobs, RivalWas(j), media'[j] = media[j]
  PROVE  RivalWas(j)'
  BY SettledStays DEF RivalWas

\* Only a job that was never submitted changes the media id it is about.
LEMMA MediaStays ==
  ASSUME IInv, [Next]_vars, NEW j \in Jobs, media'[j] # media[j]
  PROVE  Submit(j)
  BY DEF IInv, TypeOK, Next, vars, Submit, Retry, Delete, WorkOn, SettledByCaptions, TakeUp,
         Downloaded, Transcribed, Finished, Raised, Ages, Sweep, Crash

\* Who may take a whole file: a job about it, at its end or as it is deleted, or
\* the sweep if no row refers to it.
LEMMA WhoTakes ==
  ASSUME IInv, [Next]_vars, NEW m \in Media, file[m] = "whole", file'[m] # "whole"
  PROVE  /\ file'[m] = "none"
         /\ \/ Referrers(m) = {}
            \/ \E k \in Jobs : /\ media[k] = m /\ media' = media
                              /\ \/ work[k] = "summarize" /\ work'[k] = "none" /\ Finished(k)
                                 \/ HasRow(k) /\ row'[k] = "deleted" /\ Delete(k)
  <1>1. TypeOK
    BY DEF IInv
  <1>2. ASSUME NEW k \in Jobs, Delete(k)
        PROVE  /\ file'[m] = "none" /\ media[k] = m /\ media' = media
               /\ HasRow(k) /\ row'[k] = "deleted"
    BY <1>1, <1>2 DEF Delete, TypeOK
  <1>3. ASSUME NEW k \in Jobs, Finished(k)
        PROVE  /\ file'[m] = "none" /\ media[k] = m /\ media' = media
               /\ work[k] = "summarize" /\ work'[k] = "none"
    BY <1>1, <1>3 DEF Finished, TypeOK
  <1>4. ASSUME NEW n \in Media, Sweep(n)
        PROVE  file'[m] = "none" /\ Referrers(m) = {}
    BY <1>1, <1>4 DEF Sweep, TypeOK
  <1>5. ASSUME NEW k \in Jobs, Submit(k) \/ Retry(k) \/ SettledByCaptions(k) \/ TakeUp(k)
                               \/ Downloaded(k) \/ Transcribed(k) \/ Raised(k)
        PROVE  FALSE
    BY <1>1, <1>5 DEF Submit, Retry, SettledByCaptions, TakeUp, Downloaded, Transcribed, Raised,
                      Write, FileOf, TypeOK
  <1>6. CASE UNCHANGED vars \/ Crash \/ \E n \in Media : Ages(n)
    BY <1>6 DEF vars, Crash, Ages
  <1>7. QED
    BY <1>2, <1>3, <1>4, <1>5, <1>6 DEF Next, WorkOn

\* Every step keeps what is known of a job at rest.
LEMMA StepAtRest ==
  ASSUME IInv, [Next]_vars, NEW j \in Jobs
  PROVE  AtRest(j)'
  <1> USE DEF AtRest, HasRow
  <1>1. TypeOK /\ AtRest(j) /\ starts[j] \in Nat
    BY StartsAssumption DEF IInv, TypeOK, StartsAssumption
  <1>2. CASE UNCHANGED vars
    BY <1>1, <1>2 DEF vars
  <1>3. ASSUME NEW k \in Jobs, Submit(k) \/ Retry(k) \/ Delete(k)
        PROVE  AtRest(j)'
    BY <1>1, <1>3 DEF Submit, Retry, Delete, TypeOK
  <1>4. ASSUME NEW k \in Jobs, WorkOn(k)
        PROVE  AtRest(j)'
    BY <1>1, <1>4 DEF WorkOn, SettledByCaptions, TakeUp, Downloaded, Transcribed, Finished,
                      Raised, TypeOK
  <1>5. CASE \E m \in Media : Ages(m) \/ Sweep(m)
    BY <1>1, <1>5 DEF Ages, Sweep
  <1>6. CASE Crash
    BY <1>1, <1>6 DEF Crash, TypeOK
  <1>7. QED
    BY <1>2, <1>3, <1>4, <1>5, <1>6 DEF Next

\* The column is set as the download is recorded, and by nothing else.
LEMMA WhoRefers ==
  ASSUME IInv, [Next]_vars, NEW j \in Jobs, ref'[j]
  PROVE  ref[j] \/ (file'[media[j]] = "whole" /\ media' = media)
  <1> DEFINE Goal == ref[j] \/ (file'[media[j]] = "whole" /\ media' = media)
  <1>1. TypeOK
    BY DEF IInv
  <1>2. ASSUME NEW k \in Jobs, Downloaded(k)
        PROVE  Goal
    <2>1. CASE k = j
      BY <1>1, <1>2, <2>1 DEF Downloaded, Write, TypeOK
    <2>2. CASE k # j
      BY <1>1, <1>2, <2>2 DEF Downloaded, TypeOK
    <2>3. QED
      BY <2>1, <2>2
  <1>3. ASSUME NEW k \in Jobs, Submit(k) \/ Retry(k) \/ Delete(k) \/ SettledByCaptions(k)
                               \/ TakeUp(k) \/ Transcribed(k) \/ Finished(k) \/ Raised(k)
        PROVE  Goal
    <2>1. ref' = ref \/ ref' = [ref EXCEPT ![k] = FALSE]
      BY <1>3 DEF Submit, Retry, Delete, SettledByCaptions, TakeUp, Transcribed, Finished, Raised
    <2>2. ref[j]
      BY <1>1, <2>1 DEF TypeOK
    <2>3. QED
      BY <2>2
  <1>4. ASSUME UNCHANGED vars \/ Crash \/ \E m \in Media : Ages(m) \/ Sweep(m)
        PROVE  Goal
    BY <1>4 DEF vars, Crash, Ages, Sweep
  <1> HIDE DEF Goal
  <1>5. Goal
    BY <1>2, <1>3, <1>4 DEF Next, WorkOn
  <1>6. QED
    BY <1>5 DEF Goal

\* Every step keeps the column true, or leaves a rival who took the file.
LEMMA StepKept ==
  ASSUME IInv, TypeOK', [Next]_vars, NEW j \in Jobs, ref'[j]
  PROVE  FileOf(j)' = "whole" \/ RivalWas(j)'
  <1>1. TypeOK /\ AtRest(j) /\ Agrees(j)
    BY DEF IInv
  <1>2. CASE ~ref[j]
    BY <1>2, WhoRefers DEF FileOf
  <1>3. CASE ref[j]
    <2>1. media'[j] = media[j]
      BY <1>1, <1>3, MediaStays DEF Submit, AtRest, HasRow
    <2>2. CASE RivalWas(j)
      BY <2>1, <2>2, RivalStays
    <2>3. CASE FileOf(j) = "whole" /\ file'[media[j]] # "whole"
      <3>1. media[j] \in Media /\ j \in Referrers(media[j])
        BY <1>1, <1>3 DEF TypeOK, AtRest, Referrers
      <3>2. PICK k \in Jobs : /\ media[k] = media[j] /\ media' = media
                              /\ \/ work[k] = "summarize" /\ work'[k] = "none" /\ Finished(k)
                                 \/ HasRow(k) /\ row'[k] = "deleted" /\ Delete(k)
        BY <2>3, <3>1, WhoTakes DEF FileOf
      <3>3. k # j
        BY <1>1, <3>2 DEF Finished, Delete, TypeOK
      <3>4. AtRest(k)
        BY DEF IInv
      <3>5. Settled(k)'
        <4>1. CASE Delete(k) /\ row'[k] = "deleted"
          BY <4>1 DEF Settled
        <4>2. CASE Finished(k)
          BY <1>1, <3>4, <4>2 DEF Finished, AtRest, Settled, HasRow, TypeOK
        <4>3. QED
          BY <3>2, <4>1, <4>2
      <3>6. QED
        BY <2>1, <3>2, <3>3, <3>5 DEF RivalWas
    <2>4. QED
      BY <1>1, <1>3, <2>1, <2>2, <2>3 DEF Agrees, FileOf
  <1>4. QED
    BY <1>2, <1>3

\* What Whisper reads for a job that has its row is in the column.
LEMMA StepRead ==
  ASSUME IInv, [Next]_vars, NEW j \in Jobs, work'[j] = "transcribe", HasRow(j)'
  PROVE  ref'[j]
  <1> USE DEF HasRow
  <1>1. TypeOK /\ AtRest(j) /\ Agrees(j)
    BY DEF IInv
  <1>2. CASE UNCHANGED vars
    BY <1>1, <1>2 DEF vars, Agrees
  <1>3. ASSUME NEW k \in Jobs, Submit(k) \/ Retry(k) \/ Delete(k)
        PROVE  ref'[j]
    BY <1>1, <1>3 DEF Submit, Retry, Delete, AtRest, Agrees, TypeOK
  <1>4. ASSUME NEW k \in Jobs, WorkOn(k)
        PROVE  ref'[j]
    <2>1. CASE SettledByCaptions(k) \/ Transcribed(k) \/ Finished(k) \/ Raised(k)
      BY <1>1, <2>1 DEF SettledByCaptions, Transcribed, Finished, Raised, Agrees, TypeOK
    <2>2. CASE TakeUp(k)
      BY <1>1, <2>2 DEF TakeUp, Agrees, TypeOK
    <2>3. CASE Downloaded(k)
      BY <1>1, <2>3 DEF Downloaded, Agrees, TypeOK
    <2>4. QED
      BY <1>4, <2>1, <2>2, <2>3 DEF WorkOn
  <1>5. CASE \E m \in Media : Ages(m) \/ Sweep(m)
    BY <1>1, <1>5 DEF Ages, Sweep, Agrees
  <1>6. CASE Crash
    BY <1>1, <1>6 DEF Crash, TypeOK
  <1>7. QED
    BY <1>2, <1>3, <1>4, <1>5, <1>6 DEF Next

\* What is half written does not grow old while somebody writes it.
LEMMA StepYoung ==
  ASSUME IInv, [Next]_vars, NEW j \in Jobs, work'[j] = "download", FileOf(j)' = "partial"
  PROVE  ~old'[media'[j]]
  <1> USE DEF FileOf
  <1>1. TypeOK /\ AtRest(j) /\ Agrees(j)
    BY DEF IInv
  <1>2. CASE UNCHANGED vars
    BY <1>1, <1>2 DEF vars, Agrees
  <1>3. ASSUME NEW k \in Jobs, Submit(k) \/ Retry(k) \/ Delete(k)
        PROVE  ~old'[media'[j]]
    BY <1>1, <1>3 DEF Submit, Retry, Delete, AtRest, Agrees, HasRow, TypeOK
  <1>4. ASSUME NEW k \in Jobs, WorkOn(k)
        PROVE  ~old'[media'[j]]
    <2>1. CASE SettledByCaptions(k) \/ Transcribed(k) \/ Finished(k) \/ Raised(k)
      BY <1>1, <2>1 DEF SettledByCaptions, Transcribed, Finished, Raised, Agrees, TypeOK
    <2>2. CASE TakeUp(k)
      BY <1>1, <2>2 DEF TakeUp, Write, Agrees, TypeOK
    <2>3. CASE Downloaded(k)
      BY <1>1, <2>3 DEF Downloaded, Write, Agrees, TypeOK
    <2>4. QED
      BY <1>4, <2>1, <2>2, <2>3 DEF WorkOn
  <1>5. CASE \E m \in Media : Ages(m) \/ Sweep(m)
    BY <1>1, <1>5 DEF Ages, Sweep, Agrees, UsersOf, TypeOK
  <1>6. CASE Crash
    BY <1>1, <1>6 DEF Crash, TypeOK
  <1>7. QED
    BY <1>2, <1>3, <1>4, <1>5, <1>6 DEF Next

\* Every step keeps the invariant.
LEMMA StepIInv ==
  ASSUME IInv, [Next]_vars
  PROVE  IInv'
  <1>1. TypeOK'
    BY StepTypeOK DEF IInv
  <1>2. ASSUME NEW j \in Jobs
        PROVE  AtRest(j)' /\ Agrees(j)'
    BY <1>1, StepAtRest, StepKept, StepRead, StepYoung DEF Agrees
  <1>3. QED
    BY <1>1, <1>2 DEF IInv

\* For any number of jobs and media, every row, file, reference and age of
\* audio_store keeps its type.
THEOREM TypeCorrect == Spec => []TypeOK
  <1>1. Init => TypeOK
    BY InitIInv DEF IInv
  <1>2. TypeOK /\ [Next]_vars => TypeOK'
    BY StepTypeOK
  <1>3. QED
    BY <1>1, <1>2, PTL DEF Spec

\* The audio kept on a failed row is on disk when a retry looks for it, whatever is
\* deleted, swept or crashes in between, until another job about the same media id
\* has ended or is deleted (runner.py:640-641).
THEOREM KeptAudio == Spec => []KeptAudioIsThere
  <1>1. IInv => KeptAudioIsThere
    BY DEF IInv, Agrees, KeptAudioIsThere
  <1>2. QED
    BY <1>1, InitIInv, StepIInv, PTL DEF Spec

\* Whoever is about the same media id, nobody removes what yt-dlp has half written,
\* and only another job about that id, at its end or as it is deleted, removes what
\* Whisper reads (runner.py:653-657).
THEOREM InUse == Spec => InUseIsLeft
  <1> DEFINE Taken(j) ==
          /\ row[j] = "open" /\ row'[j] = "open"
          /\ \/ work[j] = "download" /\ FileOf(j) = "partial"
             \/ work[j] = "transcribe" /\ FileOf(j) = "whole"
          /\ file'[media[j]] = "none"
             Rightly(j) ==
          /\ work[j] = "transcribe"
          /\ \E k \in Jobs \ {j} :
                /\ media[k] = media[j]
                /\ \/ work[k] = "summarize" /\ work'[k] = "none"
                   \/ HasRow(k) /\ row'[k] = "deleted"
  <1>1. ASSUME IInv, [Next]_vars, NEW j \in Jobs, Taken(j)
        PROVE  Rightly(j)
    <2>1. TypeOK /\ Agrees(j) /\ media[j] \in Media
      BY <1>1 DEF IInv, TypeOK
    <2>2. CASE work[j] = "download" /\ FileOf(j) = "partial"
      <3>1. ~old[media[j]]
        BY <2>1, <2>2 DEF Agrees
      <3>2. ASSUME NEW k \in Jobs, Submit(k) \/ Retry(k) \/ Delete(k)
            PROVE  FALSE
        BY <1>1, <2>1, <2>2, <3>2 DEF Submit, Retry, Delete, FileOf, TypeOK
      <3>3. ASSUME NEW k \in Jobs, WorkOn(k)
            PROVE  FALSE
        BY <1>1, <2>1, <2>2, <3>3 DEF WorkOn, SettledByCaptions, TakeUp, Downloaded,
               Transcribed, Finished, Raised, Write, FileOf, TypeOK
      <3>4. CASE UNCHANGED vars \/ Crash
        BY <1>1, <2>2, <3>4 DEF vars, Crash, FileOf
      <3>5. ASSUME NEW m \in Media, Ages(m) \/ Sweep(m)
            PROVE  FALSE
        BY <1>1, <2>1, <2>2, <3>1, <3>5 DEF Ages, Sweep, FileOf, TypeOK
      <3>6. QED
        BY <1>1, <3>2, <3>3, <3>4, <3>5 DEF Next
    <2>3. CASE work[j] = "transcribe" /\ FileOf(j) = "whole"
      <3>1. j \in Referrers(media[j])
        BY <1>1, <2>1, <2>3 DEF Agrees, Referrers, HasRow
      <3>2. PICK k \in Jobs : /\ media[k] = media[j]
                              /\ \/ work[k] = "summarize" /\ work'[k] = "none"
                                 \/ HasRow(k) /\ row'[k] = "deleted"
        <4>1. file[media[j]] = "whole" /\ file'[media[j]] # "whole"
          BY <1>1, <2>3 DEF FileOf
        <4>2. QED
          BY <1>1, <2>1, <3>1, <4>1, WhoTakes
      <3>3. k # j
        BY <1>1, <2>3, <3>2
      <3>4. QED
        BY <2>3, <3>2, <3>3
    <2>4. QED
      BY <1>1, <2>2, <2>3
  <1>2. IInv /\ [Next]_vars => [\A j \in Jobs : Taken(j) => Rightly(j)]_vars
    BY <1>1
  <1>3. QED
    BY <1>2, InitIInv, StepIInv, PTL DEF Spec, InUseIsLeft

=============================================================================
