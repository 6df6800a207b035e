------------------------------- MODULE Coverage -------------------------------
(***************************************************************************)
(* The coverage check of one unit of audio, a chunk or a whole file        *)
(* (_ensure_coverage, workers/transcribe.py:2308-2840).  What the first    *)
(* pass left open is cut out and sent to Whisper again, slice by slice, as *)
(* long as the budget of the unit lasts; a voice detector, when one is     *)
(* configured, says which windows are worth it.  What no recheck resolved  *)
(* is counted, marked, and filled again with the text of the first pass.   *)
(* The steps of a unit are sequential awaits: what varies is what Whisper, *)
(* the detector and ffmpeg answer.                                         *)
(***************************************************************************)
EXTENDS Segments

CONSTANTS
  Duration,      \* window_duration, in cells
  MinRecheck,    \* _MIN_RECHECK_SECONDS
  MaxSlice,      \* _MAX_RECHECK_SLICE_SECONDS
  Distrust,      \* _PREFIX_DISTRUST_SECONDS
  Backoff,       \* _RETRY_BACKOFF_SECONDS
  TooSmall,      \* the cut of one second that is not worth a request
  Factor,        \* whisper.coverage_recheck_budget_factor
  MinRechecks,   \* whisper.min_coverage_rechecks
  MaxRechecks,   \* whisper.max_coverage_rechecks
  UseVad,        \* whisper.vad_model is set
  VadSeconds,    \* whisper.vad_max_seconds
  Parts,         \* bound: the parts of a window that the detector tells apart
  MaxSegments,   \* bound: segments of the first pass
  MaxAnswer      \* bound: segments of the answer to a recheck

ASSUME CoverageAssumption ==
  /\ {MinRecheck, Distrust, Backoff, TooSmall} \subseteq Nat
  /\ {Duration, MaxSlice, Factor, Parts, MaxSegments, MaxAnswer} \subseteq Nat \ {0}
  /\ MinRechecks \in 1 .. MaxRechecks /\ MaxRechecks \in Nat
  /\ UseVad \in BOOLEAN

VARIABLES
  pc,         \* "listen", "recheck", "done", "failed"
  first,      \* original_segments
  working,    \* the segments as they stand
  checked,    \* the slices a recheck was spent on
  silent,     \* confirmed_silent
  vad,        \* what the detector found in the windows it examined
  rechecks,   \* how many rechecks have been spent
  missing,    \* what the unit reports as missing, in parts of a cell
  lost,       \* diagnostics.missing_spans
  music       \* diagnostics.non_speech_spans

vars == <<pc, first, working, checked, silent, vad, rechecks, missing, lost, music>>

None == [w \in {} |-> [speech |-> 0, loud |-> FALSE]]
Time == 0 .. Duration

\* What Whisper may return for a stretch: up to n segments in order and within
\* it.  That they do not overlap is assumed.  The code asserts the order of the
\* starts alone (transcribe.py:2469, which stops a unit whose first pass is out of
\* order) and keeps an overlap that Whisper itself returns; of the properties below
\* OnlyRestoredOverlap and HeardStays do not hold of such a first pass.
Transcript(w, n) ==
  LET spans == {v \in Time \X Time : w[1] <= v[1] /\ v[1] < v[2] /\ v[2] <= w[2]}
  IN  {s \in UNION {[1 .. k -> {Segment(v[1], v[2], t) : v \in spans, t \in Text}] : k \in 0 .. n} :
         Apart(s)}
Answers == [w \in Time \X Time |-> Transcript(w, MaxAnswer)]

\* _coverage_recheck_budget
Budget ==
  LET slices == Max({1, (Duration + MaxSlice - 1) \div MaxSlice})
  IN  Min({MaxRechecks, Max({MinRechecks, slices * Factor})})

Init ==
  /\ pc = "listen"
  /\ first \in Transcript(<<0, Duration>>, MaxSegments)
  /\ working = first
  /\ checked = {} /\ silent = {} /\ vad = None
  /\ rechecks = 0 /\ missing = 0 /\ lost = {} /\ music = {}

-------------------------------------------------------------------------------
(* The voice detector.                                                       *)

Candidates == {w \in Windows(working, Duration) : Length(w) > MinRecheck}

\* speech_seconds asks about the candidates in order until its budget or a
\* request fails: it knows about the first k of them.
Examined(k) == {w \in Candidates : Cardinality({v \in Candidates : v[1] <= w[1]}) <= k}

\* How much of a window is speech, in parts of it; one without any may be loud.
Heard == [speech : 1 .. Parts, loud : {FALSE}] \cup [speech : {0}, loud : BOOLEAN]

Listen ==
  /\ pc = "listen" /\ pc' = "recheck"
  /\ IF ~UseVad THEN vad' = vad
     ELSE \E k \in 0 .. Cardinality(Candidates) :
            /\ MapThenSumSet(Length, Examined(k)) <= VadSeconds
            /\ vad' \in [Examined(k) -> Heard]
  /\ UNCHANGED <<first, working, checked, silent, rechecks, missing, lost, music>>

\* _best_vad_match and _vad_attributed_speech: the windows of vad are disjoint,
\* so at most one of them covers most of w; its speech is taken to be spread
\* evenly.  The unit of speech is the part of a cell.
Match(w) == {v \in DOMAIN vad : Overlap(w, v) > 0 /\ MostlyIn(w, v)}
Speech(w) == MapThenSumSet(LAMBDA v : vad[v].speech * Overlap(w, v), Match(w))
NoVoice(w) == Match(w) # {} /\ Speech(w) = 0
Loud(w) == \E v \in Match(w) : vad[v].loud

-------------------------------------------------------------------------------
(* One recheck.                                                              *)

AlreadyChecked(w) == \E c \in checked : MostlyIn(w, c)

Pending ==
  {s \in UNION {Slices(w, MaxSlice) : w \in Candidates} : ~AlreadyChecked(s.span)}

\* The largest slice, or the one with most speech; a slice in which the
\* detector heard nothing is never asked about.
Worth(s) == IF Match(s.span) # {} THEN Speech(s.span) ELSE Parts * Length(s.span)
Open == {s \in Pending : ~NoVoice(s.span)}
Chosen ==
  LET open == Open
  IN  {s \in open : \A o \in open :
         \/ Worth(o) < Worth(s)
         \/ Worth(o) = Worth(s) /\ o.span[1] >= s.span[1]}

\* The stretch whose text the answer replaces, and the audio that is cut.
Target(s) == <<IF s.leading THEN Max({0, s.span[1] - Distrust}) ELSE s.span[1], s.span[2]>>
Cut(s) == <<Max({0, Target(s)[1] - Backoff}), Min({Duration, s.span[2] + Backoff})>>

\* What comes back is clipped to the target and replaces what stood there.
Splice(segs, target, answer) ==
  At(segs, {i \in DOMAIN segs : segs[i].end <= target[1]})
    \o Clip(Collapse(answer), target)
    \o At(segs, {i \in DOMAIN segs : segs[i].start >= target[2]})

\* The answer is the one the code settles on: with a language pinned, one that
\* says nothing is asked for again without the language, and the second answer
\* may be any that the first one may.
Recheck ==
  /\ pc = "recheck" /\ rechecks < Budget
  /\ \E s \in Chosen :
       /\ checked' = checked \cup {s.span}
       /\ rechecks' = rechecks + 1
       /\ \/ UNCHANGED <<working, silent>>     \* too small, or ffmpeg failed
          \/ /\ Length(Cut(s)) > TooSmall
             /\ \E a \in Answers[Cut(s)] :
                  IF Unusable(a)
                  THEN silent' = silent \cup {s.span} /\ UNCHANGED working
                  ELSE working' = Splice(working, Target(s), a) /\ UNCHANGED silent
  /\ UNCHANGED <<pc, first, vad, missing, lost, music>>

\* An error of the backend is not caught here: it ends the transcription.
Fail ==
  /\ pc = "recheck" /\ pc' = "failed" /\ rechecks < Budget
  /\ \E s \in Chosen : Length(Cut(s)) > TooSmall
  /\ UNCHANGED <<first, working, checked, silent, vad, rechecks, missing, lost, music>>

-------------------------------------------------------------------------------
(* What is left open.                                                        *)

\* _final_window_missing
MissingIn(w) ==
  IF Match(w) # {} THEN Speech(w)
  ELSE Parts * Max({0, Length(w) - MapThenSumSet(LAMBDA v : Overlap(w, v), silent)})

\* Fault: what a recheck found silent is filled again as well.
PiecesWithSilence == Candidates

\* The pieces of the open windows that no recheck found silent.
Pieces == UNION {Without(w, silent) : w \in Candidates}

\* Fault: the text is taken from the segments as the rechecks left them.
FirstPassOfWorking(p) == Collapse(Clip(working, p))

\* The text of the first pass for a piece, its loops collapsed again, the
\* last segment drawn out to the end of the piece.
FirstPass(p) == Collapse(Clip(first, p))
Restorable == {p \in Pieces : FirstPass(p) # <<>>}

\* The segment that ends where the piece begins and says the same is taken
\* into the restored one.
Neighbour(p) ==
  {i \in DOMAIN working :
     /\ working[i].end = p[1]
     /\ \A j \in 1 .. i - 1 : working[j].end # p[1]
     /\ working[i].text = FirstPass(p)[1].text}
RestoredFrom(p) == Min({p[1]} \cup {working[i].start : i \in Neighbour(p)})
Restored(p) ==
  LET segs == FirstPass(p)
  IN  [i \in DOMAIN segs |->
         [segs[i] EXCEPT !.low = TRUE,
                         !.start = IF i = 1 /\ Neighbour(p) # {} THEN RestoredFrom(p) ELSE @,
                         !.end = IF i = Len(segs) THEN p[2] ELSE @]]

\* The restored segments, piece after piece.
Entries == UNION {{p} \X (DOMAIN Restored(p)) : p \in Restorable}
Sooner(e, f) ==
  \/ e[1][1] < f[1][1]
  \/ e[1][1] = f[1][1] /\ e[1][2] < f[1][2]
  \/ e[1] = f[1] /\ e[2] <= f[2]
AllRestored ==
  LET entries == Entries
      list == Listed(entries, {q \in entries \X entries : Sooner(q[1], q[2])})
  IN  [k \in DOMAIN list |-> Restored(list[k][1])[list[k][2]]]

\* What overlaps none of the ranges that are filled again.
Spared(segs) ==
  LET ranges == {<<RestoredFrom(p), p[2]>> : p \in Restorable}
  IN  At(segs, {i \in DOMAIN segs :
                  \A r \in ranges : segs[i].start >= r[2] \/ segs[i].end <= r[1]})

\* Fault: the overlapping segments are pruned after the restored ones are added.
RestorePruningLast == Spared(ByStart(working \o AllRestored))

Restore == ByStart(Spared(working) \o AllRestored)

Finish ==
  /\ pc = "recheck" /\ pc' = "done"
  /\ rechecks = Budget \/ Open = {}
  /\ missing' = MapThenSumSet(MissingIn, Candidates)
  /\ lost' = {p \in Pieces \ Restorable : ~NoVoice(p)}
  /\ music' = {p \in Pieces \ Restorable : NoVoice(p) /\ Loud(p)}
  /\ working' = IF Restorable = {} THEN working ELSE Restore
  /\ UNCHANGED <<first, checked, silent, vad, rechecks>>

\* The unit has ended; until then it never gets stuck.
Terminated == pc \in {"done", "failed"} /\ UNCHANGED vars

Next == Listen \/ Recheck \/ Fail \/ Finish \/ Terminated
Spec == Init /\ [][Next]_vars

-------------------------------------------------------------------------------
TypeOK ==
  /\ pc \in {"listen", "recheck", "done", "failed"}
  /\ rechecks \in 0 .. Budget /\ missing \in 0 .. Parts * Duration
  /\ checked \cup silent \cup lost \cup music \subseteq Time \X Time
  /\ silent \subseteq checked

Quiet == UNION {Cells(w) : w \in silent}

\* After any number of splices no two segments overlap and none goes back in
\* time: what the timecodes and the alignment of a translation rely on (the
\* assertions at transcribe.py:2785, 2797 and 2113 look at the starts only).
\* The restoration adds one exception: a restored segment is widened over the
\* segment before it that says the same, and where that one reached across a
\* stretch found silent, it covers what was restored before the silence as well.
OnlyRestoredOverlap ==
  /\ InOrder(working)
  /\ \A i, j \in DOMAIN working :
       i < j => \/ working[i].end <= working[j].start
                \/ /\ working[i].low /\ working[j].low
                   /\ (Cells(Span(working[i])) \cup Cells(Span(working[j]))) \cap Quiet # {}

\* "A wrong transcript beats a hole" (transcribe.py:1884): a piece of an open
\* window for which the first pass had any text has text when the unit ends,
\* whatever the splices took away before.
WrongTextBeatsHole ==
  [][pc' = "done" => \A p \in Pieces : Clip(first, p) # <<>>
                       => Cells(p) \cap Covered(working') # {}]_vars

\* Text of the first pass is not put back over a stretch that a recheck found
\* silent (transcribe.py:1893-1900); a restored segment reaches into one only
\* where a segment that said the same stood there already.
SilenceStaysSilent ==
  [][pc' = "done" => \A i \in DOMAIN working' : working'[i].low
       => Cells(Span(working'[i])) \cap Quiet \subseteq Covered(working)]_vars

\* What the first pass heard, its loops collapsed, has text in the end, whatever
\* the splices took away (one drops a segment that reaches into its target from
\* before as a whole, transcribe.py:2777-2782): it was replaced by what was
\* heard instead, or put back (transcribe.py:2008-2117).  Excepted are what a
\* recheck found silent and stretches too short to be checked.
HeardStays ==
  [][pc' = "done" =>
       \A w \in Intervals(Covered(Collapse(first)) \ (Quiet \cup Covered(working'))) :
         Length(w) <= MinRecheck]_vars

\* What is still open counts as missing (transcribe.py:2791-2796): without a
\* detector, the number is at least the length of the stretches marked as not
\* recognized.  With one, it is the speech that counts (2803-2812).
BadgeCoversMarkers ==
  pc = "done" /\ vad = None => Parts * MapThenSumSet(Length, lost) <= missing
===============================================================================
