------------------------------- MODULE Segments -------------------------------
(***************************************************************************)
(* The timed segments of a transcript and what the coverage check computes *)
(* from them (workers/transcribe.py:1399-1824, 2168-2305 and               *)
(* workers/timecodes.py:431-598).  Time is cut into cells; the half-open    *)
(* interval [a, b) of the code is <<a, b>> here and holds the cells        *)
(* a .. b-1.  A text is a value: what matters of it is whether it counts   *)
(* as short, whether it is a bare annotation, and which texts are nearly   *)
(* the same.                                                               *)
(***************************************************************************)
EXTENDS Integers, FiniteSets, SequencesExt

CONSTANTS
  Text,       \* the texts a segment may carry
  NoSpeech,   \* those that are nothing but punctuation or an annotation
  Short,      \* those of at most _SHORT_SEGMENT_MAX_CHARS characters
  Near,       \* pairs of different texts whose ratio reaches _NEAR_DUP_RATIO
  ShortRun,   \* _SHORT_SEGMENT_RUN_THRESHOLD
  LongRun,    \* _LONG_SEGMENT_RUN_THRESHOLD
  NearRun     \* _NEAR_DUP_RUN_THRESHOLD

ASSUME SegmentsAssumption ==
  /\ {ShortRun, LongRun} \subseteq Nat \ {0} /\ NearRun \in Nat \ {0, 1}
  /\ NoSpeech \cup Short \subseteq Text /\ Near \subseteq Text \X Text

\* A part of a run is a loop only if the run is one: one segment more or less
\* makes no difference between an exact run and a near one (timecodes.py:437-479).
ASSUME ThresholdsAssumption == NearRun - 2 <= ShortRun /\ NearRun - 2 <= LongRun

Segment(a, b, t) == [start |-> a, end |-> b, text |-> t, low |-> FALSE]

Length(w) == w[2] - w[1]
Cells(w) == w[1] .. w[2] - 1
Overlap(w, v) == Cardinality(Cells(w) \cap Cells(v))
Span(seg) == <<seg.start, seg.end>>
Covered(segs) == UNION {Cells(Span(segs[i])) : i \in DOMAIN segs}

\* The maximal intervals of a set of cells: touching intervals are one.
Intervals(cells) ==
  {w \in cells \X {c + 1 : c \in cells} :
     w[1] < w[2] /\ Cells(w) \subseteq cells /\ {w[1] - 1, w[2]} \cap cells = {}}

InOrder(segs) == \A i, j \in DOMAIN segs : i < j => segs[i].start <= segs[j].start
Apart(segs) == \A i, j \in DOMAIN segs : i < j => segs[i].end <= segs[j].start

\* The members of a finite set in an order that is total on it, given by its pairs.
Listed(I, leq) ==
  [k \in 1 .. Cardinality(I) |->
     CHOOSE i \in I : Cardinality({j \in I : <<j, i>> \in leq}) = k]

\* The segments at the positions in list; with the empty sequence TLC computes
\* them once, not at every use.
Picked(segs, list) == <<>> \o [k \in DOMAIN list |-> segs[list[k]]]

\* The segments at the positions I; all of them, sorted by start (a stable sort).
At(segs, I) == Picked(segs, Listed(I, {q \in I \X I : q[1] <= q[2]}))

ByStart(segs) ==
  Picked(segs, Listed(DOMAIN segs,
    {q \in (DOMAIN segs) \X (DOMAIN segs) :
       \/ segs[q[1]].start < segs[q[2]].start
       \/ segs[q[1]].start = segs[q[2]].start /\ q[1] <= q[2]}))

-------------------------------------------------------------------------------
(* Loops: runs of consecutive segments that say the same.                    *)

Alike(a, b) == a = b \/ {<<a, b>>, <<b, a>>} \cap Near # {}
RunStarts(segs) ==
  {i \in DOMAIN segs : i = 1 \/ ~Alike(segs[i - 1].text, segs[i].text)}
Run(segs, i) == {j \in DOMAIN segs : j >= i /\ (i + 1 .. j) \cap RunStarts(segs) = {}}

Loops(segs, i) ==
  LET run == Run(segs, i)
      exact == \A j \in run : segs[j].text = segs[i].text
  IN  IF exact
      THEN Cardinality(run) > (IF segs[i].text \in Short THEN ShortRun ELSE LongRun)
      ELSE Cardinality(run) >= NearRun

LoopStarts(segs) == {i \in RunStarts(segs) : Loops(segs, i)}
Dropped(segs) == UNION {Run(segs, i) \ {i} : i \in LoopStarts(segs)}

\* collapse_repeated_segments: a loop keeps its first segment only.
Collapse(segs) == At(segs, DOMAIN segs \ Dropped(segs))

\* The DiscardedRun spans: from the second segment of a loop to its last one.
Discarded(segs) ==
  {<<segs[i + 1].start, segs[Max(Run(segs, i))].end>> : i \in LoopStarts(segs)}

Unusable(segs) == \A i \in DOMAIN segs : segs[i].text \in NoSpeech

-------------------------------------------------------------------------------
(* Windows, slices and what is already known about them.                     *)

\* _suspicious_windows: the discarded runs and the gaps, merged.
Windows(segs, duration) ==
  Intervals(((0 .. duration - 1) \ Covered(Collapse(segs)))
              \cup UNION {Cells(w) : w \in Discarded(segs)})

\* _split_into_slices: only the first slice starts where the window starts.
Slices(w, size) ==
  {[span |-> <<w[1] + k * size, Min({w[2], w[1] + (k + 1) * size})>>, leading |-> k = 0] :
     k \in {j \in 0 .. Length(w) : w[1] + j * size < w[2]}}

\* _WINDOW_OVERLAP_DEDUP_FRACTION, 0.8 of w's own length.
MostlyIn(w, v) == 5 * Overlap(w, v) >= 4 * Length(w)

Without(w, spans) == Intervals(Cells(w) \ UNION {Cells(v) : v \in spans})

\* The segments that reach into w.
Within(segs, w) == At(segs, {i \in DOMAIN segs : segs[i].end > w[1] /\ segs[i].start < w[2]})

\* Fault: what straddles an edge of the gap is kept as it is.
ClipUnclamped(segs, w) == ByStart(Within(segs, w))

\* _clip_to_gap: what lies in the gap, clamped to it and sorted.
Clip(segs, w) ==
  LET inside == Within(segs, w)
  IN  ByStart([i \in DOMAIN inside |->
                 [inside[i] EXCEPT !.start = Max({@, w[1]}), !.end = Min({@, w[2]})]])
===============================================================================
