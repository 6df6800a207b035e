---------------------------- MODULE StreamFilters ----------------------------
(***************************************************************************)
(* The two filters a streamed summary passes, character by character, and  *)
(* the functions on whole texts they stand for: no line twice              *)
(* (llm/repetition.py) and no more than so many timecodes on a line        *)
(* (workers/timecodes.py:776-1019).  A text is a sequence of characters,   *)
(* or of its lines; of the letters one is enough, and a timecode [MM:SS]   *)
(* is "[" and "]".                                                         *)
(***************************************************************************)
EXTENDS Naturals, FiniteSets, SequencesExt

CONSTANTS
  MinLine,     \* _MIN_REPEAT_LINE_CHARS
  Threshold,   \* _REPEAT_OCCURRENCE_THRESHOLD
  MaxMarkers   \* _MAX_MARKERS_PER_LINE

ASSUME FiltersAssumption == {MinLine, Threshold, MaxMarkers} \subseteq Nat /\ Threshold > 1

Char == {"x", "~", "/", "[", "]", "("}   \* "~" stands for a space, "/" for a newline
Newline == "/"
Marker == <<"[", "]">>

\* What stands at the positions I, in order.
Select(seq, I) ==
  [k \in 1 .. Cardinality(I) |->
     seq[CHOOSE i \in I : Cardinality({j \in I : j <= i}) = k]]

\* A text from its lines.
Join(lines) ==
  LET upto[n \in 0 .. Len(lines)] ==
        IF n = 0 THEN <<>>
        ELSE IF n = 1 THEN lines[1] ELSE upto[n - 1] \o <<Newline>> \o lines[n]
  IN  upto[Len(lines)]

Inked(line) == {i \in DOMAIN line : line[i] # "~"}
Countable(line) ==
  LET ink == Inked(line) IN ink # {} /\ Max(ink) - Min(ink) + 1 >= MinLine

-------------------------------------------------------------------------------
(* No line twice.                                                            *)

Earlier(lines, i) == Cardinality({j \in 1 .. i - 1 : lines[j] = lines[i]})

\* trim_repeated_tail, from lines to lines: a countable line is kept once, and
\* the text ends where one would come for the Threshold-th time.
Looping(lines) == {i \in DOMAIN lines : Countable(lines[i]) /\ Earlier(lines, i) >= Threshold - 1}
Kept(lines) ==
  {i \in DOMAIN lines : /\ \A j \in Looping(lines) : i < j
                        /\ Countable(lines[i]) => Earlier(lines, i) = 0}
Trim(lines) ==
  LET inked == {i \in Kept(lines) : Inked(lines[i]) # {}}
  IN  Select(lines, IF Looping(lines) = {} THEN Kept(lines)
                    ELSE {i \in Kept(lines) : \E j \in inked : i <= j})

GuardInit == [seen |-> [l \in {} |-> 0], line |-> <<>>, held |-> <<>>, stop |-> FALSE, out |-> <<>>]

Times(g, line) == IF line \in DOMAIN g.seen THEN g.seen[line] ELSE 0

\* The end of a line decides what is held: it is dropped when the line was
\* there before, and the stream is to be closed when it makes a loop.
GuardLine(g) ==
  LET n == Times(g, g.line)
      again == Countable(g.line) /\ n >= 1
      stop == Countable(g.line) /\ n >= Threshold - 1
  IN  [seen |-> IF Countable(g.line) /\ ~stop
                THEN [l \in DOMAIN g.seen \cup {g.line} |->
                        IF l = g.line THEN n + 1 ELSE g.seen[l]]
                ELSE g.seen,
       line |-> <<>>, held |-> <<>>, stop |-> stop,
       out |-> IF again \/ stop THEN g.out ELSE g.out \o g.held \o <<Newline>>]

\* Fault: the character that settles a line is let through before what is held.
GuardCharSwapped(g, c) ==
  LET line == Append(g.line, c)
  IN  IF \E l \in DOMAIN g.seen : IsPrefix(line, l)
      THEN [g EXCEPT !.line = line, !.held = Append(@, c)]
      ELSE [g EXCEPT !.line = line, !.held = <<>>, !.out = Append(@, c) \o g.held]

\* Within a line: text that may become a line seen before is held back.
GuardChar(g, c) ==
  LET line == Append(g.line, c)
  IN  IF \E l \in DOMAIN g.seen : IsPrefix(line, l)
      THEN [g EXCEPT !.line = line, !.held = Append(@, c)]
      ELSE [g EXCEPT !.line = line, !.held = <<>>, !.out = @ \o Append(g.held, c)]

GuardFeed(g, c) == IF c = Newline THEN GuardLine(g) ELSE GuardChar(g, c)
GuardFlush(g) == [g EXCEPT !.held = <<>>, !.out = @ \o g.held]

-------------------------------------------------------------------------------
(* So many timecodes on a line.                                              *)

Markers(text) ==
  {i \in DOMAIN text : /\ i < Len(text) /\ text[i] = "[" /\ text[i + 1] = "]"
                       /\ i + 2 <= Len(text) => text[i + 2] # "("}
SameLine(text, i, j) == \A h \in i .. j : text[h] # Newline

\* cap_markers_per_line, but for the spaces it tidies up afterwards.
Over(text) ==
  {i \in Markers(text) :
     Cardinality({j \in Markers(text) : j < i /\ SameLine(text, j, i)}) >= MaxMarkers}
Cap(text) == Select(text, DOMAIN text \ (Over(text) \cup {i + 1 : i \in Over(text)}))

CapInit == [n |-> 0, cand |-> <<>>, ws |-> <<>>, out |-> <<>>]

\* What is held is let go; or it is a timecode, and it may be one too many.
Release(k) == [k EXCEPT !.cand = <<>>, !.ws = <<>>, !.out = @ \o k.ws \o k.cand]
Resolve(k) ==
  IF k.n >= MaxMarkers THEN [k EXCEPT !.cand = <<>>, !.ws = <<>>]
  ELSE [Release(k) EXCEPT !.n = @ + 1]

CapPlain(k, c) ==
  CASE c = "~" -> [k EXCEPT !.ws = Append(@, c)]
    [] c = "[" -> [k EXCEPT !.cand = <<c>>]
    [] OTHER   -> [k EXCEPT !.n = IF c = Newline THEN 0 ELSE @,
                            !.ws = <<>>, !.out = @ \o Append(k.ws, c)]

\* Fault: the character after a timecode is not looked at.
CapFeedEager(k, c) ==
  CASE k.cand = <<"[">> /\ c = "]" -> Resolve([k EXCEPT !.cand = Marker])
    [] k.cand = <<"[">> /\ c # "]" -> CapPlain(Release(k), c)
    [] OTHER -> CapPlain(k, c)

CapFeed(k, c) ==
  CASE k.cand = Marker -> CapPlain(IF c = "(" THEN Release(k) ELSE Resolve(k), c)
    [] k.cand = <<"[">> /\ c = "]" -> [k EXCEPT !.cand = Marker]
    [] k.cand = <<"[">> /\ c # "]" -> CapPlain(Release(k), c)
    [] OTHER -> CapPlain(k, c)

CapFlush(k) == IF k.cand = Marker THEN Resolve(k) ELSE Release(k)
===============================================================================
