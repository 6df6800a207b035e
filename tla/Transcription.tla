---------------------------- MODULE Transcription ----------------------------
(***************************************************************************)
(* One transcription (transcribe_audio, workers/transcribe.py:852-1382) in *)
(* the company of others that ask the same Whisper backend.  The audio is  *)
(* sent whole when it is small enough, in chunks when it is not or when    *)
(* the backend refuses it as too large; a unit of audio is one request,    *)
(* then the rechecks of its coverage, which module Coverage has in detail. *)
(* The requests of all jobs pass a semaphore that serves them in order     *)
(* (transcribe.py:275-323).  The language of the requests is pinned on the *)
(* way.                                                                    *)
(***************************************************************************)
EXTENDS Naturals, FiniteSets, SequencesExt

CONSTANTS
  Me,            \* the transcription in question
  Other,         \* the others; all that matters is that they ask, again and again
  Language,
  NoLanguage,
  MaxConcurrent, \* whisper.max_concurrent_requests
  NumChunks,     \* what the size and the duration amount to, at least 2
  MaxRechecks    \* the recheck budget of a unit

ASSUME TranscriptionAssumption ==
  /\ Me \notin Other /\ NoLanguage \notin Language
  /\ MaxConcurrent \in Nat \ {0} /\ NumChunks \in Nat \ {0, 1} /\ MaxRechecks \in Nat

Maybe == Language \cup {NoLanguage}
Asker == Other \cup {Me}
Whole == 0    \* the unit that is all of the audio; chunks count from 1

VARIABLES
  req,       \* of each asker: "none", "queued" or "sent"
  waiting,   \* those queued, in the order they came
  pc,        \* "begin", "split", "first", "recheck", "done", "failed"
  meta,      \* the language the publisher declares
  mayFall,   \* a refusal leads to chunks
  known,     \* the duration is known
  units,     \* what is transcribed: <<Whole>>, or the chunks that could be cut
  pos,       \* the unit at work
  tries,     \* its rechecks
  second,    \* the recheck that said nothing is asked once more
  pin,       \* pinned_language
  cand,      \* chunk0_text_lang
  heard,     \* history: what the first answers of the first two units told
  merged     \* the units whose segments are in the transcript

slots == <<req, waiting>>
plan == <<mayFall, known, units>>
lang == <<pin, cand, heard>>
progress == <<pos, tries, second, merged>>
vars == <<slots, pc, meta, plan, lang, progress>>

Init ==
  /\ req = [a \in Asker |-> "none"] /\ waiting = <<>>
  /\ pc = "begin" /\ meta \in Maybe
  /\ mayFall \in BOOLEAN /\ known \in BOOLEAN /\ units = <<>>
  /\ pos = 1 /\ tries = 0 /\ second = FALSE /\ merged = <<>>
  /\ pin = meta /\ cand = NoLanguage /\ heard = <<>>

-------------------------------------------------------------------------------
(* The slots of the backend: _call_whisper.                                  *)

\* The job itself asks when its unit is due, when a recheck is left, or when
\* one is to be verified without the pinned language.
Wants(a) ==
  a = Me => pc = "first" \/ (pc = "recheck" /\ (second \/ tries < MaxRechecks))

Ask(a) ==
  /\ req[a] = "none" /\ Wants(a)
  /\ req' = [req EXCEPT ![a] = "queued"]
  /\ waiting' = Append(waiting, a)
  /\ UNCHANGED <<pc, meta, plan, lang, progress>>

InFlight == {a \in Asker : req[a] = "sent"}

\* Fault: whoever comes first takes the free slot.
SendAny(a) ==
  /\ req[a] = "queued" /\ Cardinality(InFlight) < MaxConcurrent
  /\ req' = [req EXCEPT ![a] = "sent"]
  /\ waiting' = SelectSeq(waiting, LAMBDA b : b # a)
  /\ UNCHANGED <<pc, meta, plan, lang, progress>>

Send(a) ==
  /\ waiting # <<>> /\ a = Head(waiting) /\ Cardinality(InFlight) < MaxConcurrent
  /\ req' = [req EXCEPT ![a] = "sent"]
  /\ waiting' = Tail(waiting)
  /\ UNCHANGED <<pc, meta, plan, lang, progress>>

\* An answer or an error gives the slot back.
Back(a) == req[a] = "sent" /\ req' = [req EXCEPT ![a] = "none"] /\ UNCHANGED waiting

OtherAnswered(a) ==
  /\ a \in Other /\ Back(a)
  /\ UNCHANGED <<pc, meta, plan, lang, progress>>

-------------------------------------------------------------------------------
(* What is sent.                                                             *)

\* At most the upload budget is sent whole, and then a 413 is not the end.
Begin ==
  /\ pc = "begin"
  /\ IF mayFall THEN pc' = "first" /\ units' = <<Whole>>
                ELSE pc' = "split" /\ UNCHANGED units
  /\ UNCHANGED <<slots, meta, mayFall, known, lang, progress>>

\* The chunks, as they follow each other in the audio.
InOrder(cut) == {s \in SetToSeqs(cut) : \A i, k \in DOMAIN s : i < k => s[i] < s[k]}

\* Without a duration, or when no chunk could be cut, the audio is sent whole;
\* a chunk that could not be cut is left out.
Split ==
  /\ pc = "split" /\ pc' = "first"
  /\ \/ ~known /\ units' = <<Whole>> /\ UNCHANGED known
     \/ /\ known' = TRUE
        /\ \E cut \in SUBSET (1 .. NumChunks) :
             units' \in IF cut = {} THEN {<<Whole>>} ELSE InOrder(cut)
  /\ UNCHANGED <<slots, meta, mayFall, lang, progress>>

\* Fault: the last chunk is taken for the one before it.
UnitEndsEarly ==
  /\ merged' = Append(merged, units[pos]) /\ tries' = 0 /\ second' = FALSE
  /\ IF pos + 1 < Len(units) THEN pc' = "first" /\ pos' = pos + 1
                             ELSE pc' = "done" /\ UNCHANGED pos

UnitEnds ==
  /\ merged' = Append(merged, units[pos]) /\ tries' = 0 /\ second' = FALSE
  /\ IF pos < Len(units) THEN pc' = "first" /\ pos' = pos + 1
                         ELSE pc' = "done" /\ UNCHANGED pos

-------------------------------------------------------------------------------
(* Answers.                                                                  *)

Chunked == units # <<Whole>>

\* Fault: what the text of the first chunk looks like is pinned at once.
PinnedAfterHasty(reported, detected) ==
  CASE pin # NoLanguage -> pin
    [] pin = NoLanguage /\ pos = 1 -> IF reported # NoLanguage THEN reported ELSE detected
    [] OTHER -> pin

\* _bootstrap_language, and the agreement of two chunks.
PinnedAfter(reported, detected) ==
  CASE pin # NoLanguage -> pin
    [] pin = NoLanguage /\ pos = 1 -> reported
    [] pin = NoLanguage /\ pos = 2 /\ detected = cand -> cand
    [] OTHER -> pin

\* The first answer of a unit: what it reports as the language, and what its
\* text looks like.
FirstAnswer ==
  /\ pc = "first" /\ Back(Me)
  /\ \E reported, detected \in Maybe :
       /\ pin' = PinnedAfter(reported, detected)
       /\ cand' = IF Chunked /\ pos = 1 /\ pin' = NoLanguage THEN detected ELSE cand
       /\ heard' = IF pos > 2 THEN heard
                   ELSE Append(heard, [reported |-> reported, detected |-> detected])
  /\ IF known THEN pc' = "recheck" /\ UNCHANGED progress ELSE UnitEnds
  /\ UNCHANGED <<meta, plan>>

\* Fault: a recheck that is verified is not counted.
RecheckAnswerFree ==
  /\ pc = "recheck" /\ Back(Me)
  /\ IF second THEN second' = FALSE /\ UNCHANGED tries
     ELSE /\ second' \in (IF pin = NoLanguage THEN {FALSE} ELSE BOOLEAN)
          /\ tries' = IF second' THEN tries ELSE tries + 1
  /\ UNCHANGED <<pc, meta, plan, lang, pos, merged>>

\* The answer to a recheck.  Under a pinned language one that says nothing is
\* asked for once more without it, and counts as one recheck.
RecheckAnswer ==
  /\ pc = "recheck" /\ Back(Me)
  /\ IF second THEN second' = FALSE /\ UNCHANGED tries
     ELSE tries' = tries + 1 /\ second' \in (IF pin = NoLanguage THEN {FALSE} ELSE BOOLEAN)
  /\ UNCHANGED <<pc, meta, plan, lang, pos, merged>>

\* No window is open, or the budget is spent.
Covered ==
  /\ pc = "recheck" /\ req[Me] = "none" /\ ~second
  /\ UnitEnds
  /\ UNCHANGED <<slots, meta, plan, lang>>

\* Fault: the pin of the refused attempt is kept.
StartOverPinned ==
  /\ pc' = "split" /\ mayFall' = FALSE /\ units' = <<>>
  /\ pos' = 1 /\ tries' = 0 /\ second' = FALSE /\ merged' = <<>>
  /\ heard' = <<>> /\ UNCHANGED <<pin, cand, known>>

StartOver ==
  /\ pc' = "split" /\ mayFall' = FALSE /\ units' = <<>>
  /\ pos' = 1 /\ tries' = 0 /\ second' = FALSE /\ merged' = <<>>
  /\ pin' = meta /\ cand' = NoLanguage /\ heard' = <<>>
  /\ UNCHANGED known

\* HTTP 413, to the first request or to a recheck of the whole.
TooLarge ==
  /\ pc \in {"first", "recheck"} /\ Back(Me)
  /\ IF mayFall THEN StartOver ELSE pc' = "failed" /\ UNCHANGED <<plan, lang, progress>>
  /\ UNCHANGED meta

Error ==
  /\ pc \in {"first", "recheck"} /\ Back(Me)
  /\ pc' = "failed" /\ UNCHANGED <<meta, plan, lang, progress>>

-------------------------------------------------------------------------------
Answer == FirstAnswer \/ RecheckAnswer \/ TooLarge \/ Error
Step == Begin \/ Split \/ Covered
Next ==
  \/ \E a \in Asker : Ask(a) \/ Send(a)
  \/ \E a \in Other : OtherAnswered(a)
  \/ Answer \/ Step

Spec == Init /\ [][Next]_vars

\* The event loop runs what is ready, and the backend answers: a request to it
\* has no timeout (transcribe.py:2903).
FairSpec ==
  /\ Spec /\ WF_vars(Step) /\ WF_vars(Answer) /\ WF_vars(Ask(Me))
  /\ \A a \in Asker : WF_vars(Send(a))
  /\ \A a \in Other : WF_vars(OtherAnswered(a))

-------------------------------------------------------------------------------
TypeOK ==
  /\ req \in [Asker -> {"none", "queued", "sent"}]
  /\ waiting \in Seq(Asker) /\ IsInjective(waiting)
  /\ pc \in {"begin", "split", "first", "recheck", "done", "failed"}
  /\ pos \in 1 .. NumChunks /\ tries \in 0 .. MaxRechecks
  /\ {meta, pin, cand} \subseteq Maybe /\ {mayFall, known, second} \subseteq BOOLEAN
  /\ {units, merged} \subseteq Seq(0 .. NumChunks)
  /\ heard \in Seq([reported : Maybe, detected : Maybe])

\* A language is forced on the requests only if the publisher declared it, if
\* the first answer of this attempt reported it, or if the texts of two chunks
\* agree on it: never on the looks of one text, and never because of an answer
\* to the upload that was refused (transcribe.py:1064-1084, 1288-1325).
PinIsJustified ==
  pin # NoLanguage =>
    \/ pin = meta
    \/ meta = NoLanguage /\ heard # <<>> /\ heard[1].reported = pin
    \/ /\ meta = NoLanguage /\ Chunked /\ Len(heard) = 2
       /\ heard[1].detected = pin /\ heard[2].detected = pin

\* The transcript grows by one unit after the other, in the order they were
\* cut, and is over when it has them all (transcribe.py:1291-1382).
EveryCutIsMerged ==
  /\ IsPrefix(merged, units)
  /\ pc = "done" => merged = units /\ merged # <<>>

\* However often the others ask, a request that waits is sent, even with one
\* slot (transcribe.py:275-296), and the transcription ends.
NobodyStarves ==
  /\ \A a \in Asker : req[a] = "queued" ~> req[a] = "sent"
  /\ <>(pc \in {"done", "failed"})
===============================================================================
