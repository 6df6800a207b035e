---------------------------- MODULE TranslateGroup ----------------------------
(***************************************************************************)
(* One transcript, translated line by line (workers/translator.py, _run    *)
(* and _translate_group).  The transcript is cut into groups of lines.     *)
(* The model's answer for a group is kept only if it lines up with the     *)
(* input; otherwise the group is cut in two and the halves are tried, down *)
(* to a single line, which is tried twice.  What cannot be translated, or  *)
(* is left when the budget of LLM calls is spent, stays in the source      *)
(* language and is counted.  The recursion is its stack of segments.       *)
(***************************************************************************)
EXTENDS Integers, Sequences, FiniteSets

CONSTANTS
    Ends,            \* the last line of each group, in order
    MaxBisectDepth,  \* _MAX_BISECT_DEPTH
    CallBudgetFloor, \* _CALL_BUDGET_FLOOR
    BadSets,         \* the sets of lines the LLM may be unable to translate
    Anything         \* among them, for an LLM that fails at will

Before(i) == IF i = 1 THEN 0 ELSE Ends[i - 1]
Lines     == IF Ends = <<>> THEN 0 ELSE Ends[Len(Ends)]

ASSUME GroupsAssumption == Ends \in Seq(Nat) /\ \A i \in DOMAIN Ends : Before(i) < Ends[i]
ASSUME BudgetAssumption == MaxBisectDepth \in Nat /\ CallBudgetFloor \in Nat
ASSUME BadAssumption    == \A S \in BadSets : S # Anything => S \subseteq 1..Lines

VARIABLES
    todo,      \* segments still to translate, the next one first
    resolved,  \* lines resolved so far, in order
    source,    \* those among them kept in the source language
    fallback,  \* how many of them the code has counted
    used,      \* _CallBudget.used
    bad        \* the lines the LLM cannot translate, or Anything

vars == <<todo, resolved, source, fallback, used, bad>>

\* A call of _translate_group: lines lo..hi, which are not asked for again yet.
Segment(lo, hi, depth) == [lo |-> lo, hi |-> hi, depth |-> depth, again |-> FALSE]

Segments == [lo : 1..Lines, hi : 1..Lines, depth : 0..MaxBisectDepth, again : BOOLEAN]

CallBudgetPerBadRegion == 2 * MaxBisectDepth + 1
Limit ==
    LET n == Len(Ends) + 2 * CallBudgetPerBadRegion
    IN  IF n < CallBudgetFloor THEN CallBudgetFloor ELSE n

\* pack_lines: the i-th group, after those before it.
GroupSegment(i) == Segment(Before(i) + 1, Ends[i], 0)

-----------------------------------------------------------------------------
\* The LLM is asked for the next segment; its answer lines up, or does not.
Asks(aligned) ==
    /\ todo # <<>> /\ used < Limit
    /\ used' = used + 1
    /\ UNCHANGED bad
    /\ bad # Anything => aligned = (bad \cap (Head(todo).lo .. Head(todo).hi) = {})

Translated ==
    /\ resolved' = Head(todo).hi
    /\ UNCHANGED <<source, fallback>>
    /\ todo' = Tail(todo)

\* Fault: one line is counted for a whole segment.
KeptAsSourceMiscounted ==
    /\ resolved' = Head(todo).hi
    /\ source'   = source \cup (Head(todo).lo .. Head(todo).hi)
    /\ fallback' = fallback + 1
    /\ todo'     = Tail(todo)

KeptAsSource ==
    /\ resolved' = Head(todo).hi
    /\ source'   = source \cup (Head(todo).lo .. Head(todo).hi)
    /\ fallback' = fallback + (Head(todo).hi - Head(todo).lo + 1)
    /\ todo'     = Tail(todo)

Aligned == Asks(TRUE) /\ Translated

\* A single line that did not line up is asked for once more.
RetriesLine ==
    /\ Asks(FALSE)
    /\ Head(todo).lo = Head(todo).hi /\ ~Head(todo).again
    /\ todo' = <<[Head(todo) EXCEPT !.again = TRUE]>> \o Tail(todo)
    /\ UNCHANGED <<resolved, source, fallback>>

\* Fault: the line at the cut is lost.
HalvesLosingALine(g) ==
    LET mid == (g.hi - g.lo + 1) \div 2 IN
    << Segment(g.lo, g.lo + mid - 1, g.depth + 1),
       Segment(IF g.lo + mid < g.hi THEN g.lo + mid + 1 ELSE g.hi, g.hi, g.depth + 1) >>

\* lines[:mid] and lines[mid:].
Halves(g) ==
    LET mid == (g.hi - g.lo + 1) \div 2 IN
    << Segment(g.lo, g.lo + mid - 1, g.depth + 1), Segment(g.lo + mid, g.hi, g.depth + 1) >>

Bisects ==
    /\ Asks(FALSE)
    /\ Head(todo).lo < Head(todo).hi /\ Head(todo).depth < MaxBisectDepth
    /\ todo' = Halves(Head(todo)) \o Tail(todo)
    /\ UNCHANGED <<resolved, source, fallback>>

\* Fault: one level too early.
GivesUpEarly ==
    /\ Asks(FALSE)
    /\ IF Head(todo).lo = Head(todo).hi
       THEN Head(todo).again
       ELSE Head(todo).depth + 1 >= MaxBisectDepth
    /\ KeptAsSource

GivesUp ==
    /\ Asks(FALSE)
    /\ IF Head(todo).lo = Head(todo).hi
       THEN Head(todo).again
       ELSE Head(todo).depth = MaxBisectDepth
    /\ KeptAsSource

\* No call left: the segment falls back without being asked for.
OutOfBudget ==
    /\ todo # <<>> /\ used >= Limit
    /\ KeptAsSource
    /\ UNCHANGED <<used, bad>>

Init ==
    /\ todo     = [i \in DOMAIN Ends |-> GroupSegment(i)]
    /\ resolved = 0
    /\ source   = {}
    /\ fallback = 0
    /\ used     = 0
    /\ bad     \in BadSets

Next == Aligned \/ RetriesLine \/ Bisects \/ GivesUp \/ OutOfBudget

Spec == Init /\ [][Next]_vars

-----------------------------------------------------------------------------
(* Properties                                                               *)

TypeOK ==
    /\ todo     \in Seq(Segments)
    /\ resolved \in 0..Lines
    /\ source   \in SUBSET (1..Lines)
    /\ fallback \in 0..Lines
    /\ used     \in 0..Limit
    /\ bad # Anything => bad \in SUBSET (1..Lines)

\* Losing input is structurally impossible (translator.py:33-35): what is
\* resolved and what is still to do make up the transcript, every line once and
\* in order, however the segments were cut; and the count that decides between
\* done and partial is the number of lines left in the source language.
NothingLost ==
    /\ \A i \in DOMAIN todo :
          /\ todo[i].lo <= todo[i].hi
          /\ todo[i].lo = (IF i = 1 THEN resolved ELSE todo[i - 1].hi) + 1
    /\ (IF todo = <<>> THEN resolved ELSE todo[Len(todo)].hi) = Lines
    /\ fallback = Cardinality(source)

\* How many pieces a group is cut into down to a depth.
Pieces[d \in 0..MaxBisectDepth] == IF d = 0 THEN 1 ELSE 2 * Pieces[d - 1]

\* Two lines of one group that the cuts may leave together.
LeftTogether(l, b) ==
    \E i \in DOMAIN Ends :
        /\ {l, b} \subseteq Before(i) + 1 .. Ends[i]
        /\ (l - b) * Pieces[MaxBisectDepth] < Ends[i] - Before(i)
        /\ (b - l) * Pieces[MaxBisectDepth] < Ends[i] - Before(i)

\* An LLM that fails on certain lines costs these lines, and good lines only
\* where the depth limit leaves them together: unless the budget runs out, a
\* line falls back near a bad line of its group, closer than the length of the
\* group over 2^MaxBisectDepth; in a group of up to 2^MaxBisectDepth lines only
\* the bad lines do (translator.py:98-109).
OnlyNearBadLinesFallBack ==
    bad # Anything /\ todo = <<>> /\ used < Limit =>
        /\ bad \subseteq source
        /\ \A l \in source : \E b \in bad : LeftTogether(l, b)

=============================================================================
