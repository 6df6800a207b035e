------------------------------- MODULE Summary -------------------------------
(***************************************************************************)
(* One summary (llm/summary.py:309-405, called by workers/pipeline.py:1108 *)
(* and workers/runner.py:168): a text below the limit is summarised in one *)
(* streamed call; a longer one is cut into overlapping chunks, every chunk *)
(* is summarised, the partial summaries are folded until they fit, and the *)
(* last call is streamed.  The stream passes the two filters on its way to *)
(* the viewers and into the row.  A text is the sequence of the token      *)
(* counts of its segments; what a partial summary is made from is a set    *)
(* of positions in it.  The names that TranslateGroup has too are prefixed,*)
(* for the module that proves things about both.                           *)
(***************************************************************************)
EXTENDS StreamFilters

CONSTANTS
  PassLimit,    \* llm.single_pass_token_limit
  MaxChunk,     \* _CHUNK_TARGET_TOKENS
  MaxTail,      \* bound: tokens of a chunk's tail that begin the next one
  Separator,    \* the tokens between two partial summaries
  MaxFolds,     \* _MAX_REDUCE_FOLD_ITERS
  MaxPartial,   \* tokens of a partial summary, from max_tokens
  MaxSegments,  \* bound: segments of the text
  MaxSegment,   \* bound: tokens of a segment; above the target it is one word
  MaxText       \* bound: characters of the streamed answer

ASSUME SummaryAssumption ==
  /\ {MaxTail, Separator, MaxFolds, MaxPartial, MaxText} \subseteq Nat
  /\ {PassLimit, MaxChunk, MaxSegments, MaxSegment} \subseteq Nat \ {0}

VARIABLES
  pc,         \* "start", "split", "map", "fold", "stream", "done", "failed"
  segs,       \* the segments of the text
  next,       \* the segment to place, then the chunk to summarise
  cur,        \* the chunk under construction
  chunks,     \* the positions of each
  partials,   \* current, in _fold_partials
  folds,
  text,       \* the lines of what the model has streamed, the last one under way
  guard,      \* _RepeatGuardState
  cap         \* _MarkerCapState; cap.out has been published

mapping == <<segs, next, cur, chunks, partials, folds>>
stream == <<text, guard, cap>>
summaryVars == <<pc, mapping, stream>>

Target == Min({MaxChunk, Max({1, PassLimit - 1})})
Blank == {"~", Newline}
Nothing == [from |-> {}, tokens |-> 0]
Tokens(items) ==
  LET sum[n \in 0 .. Len(items)] == IF n = 0 THEN 0 ELSE sum[n - 1] + items[n].tokens
  IN  sum[Len(items)]
Sources(items) == UNION {items[i].from : i \in DOMAIN items}

SummaryInit ==
  /\ pc = "start"
  /\ segs \in UNION {[1 .. n -> 1 .. MaxSegment] : n \in 1 .. MaxSegments}
  /\ next = 1 /\ cur = Nothing /\ chunks = <<>> /\ partials = <<>> /\ folds = 0
  /\ text = <<<<>>>> /\ guard = GuardInit /\ cap = CapInit

\* What was mapped is of no use to the streamed call and after it.
Forget ==
  /\ segs' = <<>> /\ next' = 1 /\ cur' = Nothing
  /\ chunks' = <<>> /\ partials' = <<>> /\ folds' = 0

-------------------------------------------------------------------------------
(* Map and reduce.                                                           *)

Begin ==
  /\ pc = "start" /\ UNCHANGED stream
  /\ IF FoldLeft(+, 0, segs) < PassLimit THEN pc' = "stream" /\ Forget
     ELSE pc' = "split" /\ UNCHANGED mapping

\* split_for_summary: a segment that no longer fits begins a new chunk, after
\* the tail of the one before.  The tail is cut by characters: it may have no
\* text left, and of a chunk with few characters it is the whole, however many
\* tokens that is (chunking.py:176-178).  What it repeats is not counted in from.
Split ==
  /\ pc = "split" /\ next <= Len(segs)
  /\ next' = next + 1
  /\ IF cur.tokens + segs[next] > Target /\ cur # Nothing
     THEN /\ chunks' = Append(chunks, cur.from)
          /\ \E tail \in 0 .. MaxTail :
               cur' = [from |-> {next}, tokens |-> tail + segs[next]]
     ELSE /\ cur' = [from |-> cur.from \cup {next}, tokens |-> cur.tokens + segs[next]]
          /\ UNCHANGED chunks
  /\ UNCHANGED <<pc, segs, partials, folds, stream>>

\* Fault: the chunk under construction is not flushed after the last segment.
SplitEndUnflushed ==
  /\ pc = "split" /\ next > Len(segs)
  /\ pc' = "map" /\ next' = 1 /\ cur' = Nothing
  /\ UNCHANGED <<segs, chunks, partials, folds, stream>>

\* The last chunk is flushed; one chunk below the limit is not mapped.
SplitEnd ==
  /\ pc = "split" /\ next > Len(segs)
  /\ IF chunks = <<>> /\ cur.tokens < PassLimit
     THEN pc' = "stream" /\ Forget
     ELSE /\ pc' = "map" /\ next' = 1 /\ cur' = Nothing
          /\ chunks' = Append(chunks, cur.from)
          /\ UNCHANGED <<segs, partials, folds>>
  /\ UNCHANGED stream

Map ==
  /\ pc = "map" /\ next <= Len(chunks)
  /\ \E n \in 0 .. MaxPartial :
       partials' = Append(partials, [from |-> chunks[next], tokens |-> n])
  /\ next' = next + 1
  /\ UNCHANGED <<pc, segs, cur, chunks, folds, stream>>

MapEnd ==
  /\ pc = "map" /\ next > Len(chunks) /\ pc' = "fold"
  /\ next' = 1 /\ chunks' = <<>>
  /\ UNCHANGED <<segs, cur, partials, folds, stream>>

\* pack_lines: neighbours share a group as long as the group fits.  The groups
\* are given by their last items.
First(ends, g) == IF g = 1 THEN 1 ELSE ends[g - 1] + 1
Group(items, ends, g) == SubSeq(items, First(ends, g), ends[g])
Fits(items, ends, n, budget) ==
  ends # <<>> /\ Tokens(SubSeq(items, First(ends, Len(ends)), n)) <= budget
Pack(items, budget) ==
  LET upto[n \in 0 .. Len(items)] ==
        IF n = 0 THEN <<>>
        ELSE LET ends == upto[n - 1]
             IN  IF Fits(items, ends, n, budget) THEN [ends EXCEPT ![Len(ends)] = n]
                 ELSE Append(ends, n)
  IN  upto[Len(items)]

Combined(items) == Tokens(items) + Separator * (Len(items) - 1)
\* Fault: one round is taken to be enough.
MustFoldOnce == folds = 0 /\ Len(partials) > 1 /\ Combined(partials) > PassLimit

MustFold ==
  /\ folds < MaxFolds /\ Len(partials) > 1 /\ Combined(partials) > PassLimit
  /\ Len(Pack(partials, PassLimit)) < Len(partials)

\* One round of _fold_partials.
Fold ==
  /\ pc = "fold" /\ MustFold
  /\ LET ends == Pack(partials, PassLimit)
         alone == {g \in DOMAIN ends : First(ends, g) = ends[g]}
     IN  \E n \in [DOMAIN ends -> 0 .. MaxPartial] :
           /\ \A g \in alone : n[g] = 0
           /\ partials' = [g \in DOMAIN ends |->
                IF g \in alone THEN partials[ends[g]]
                ELSE [from |-> Sources(Group(partials, ends, g)), tokens |-> n[g]]]
  /\ folds' = folds + 1
  /\ UNCHANGED <<pc, segs, next, cur, chunks, stream>>

Reduce == pc = "fold" /\ ~MustFold /\ pc' = "stream" /\ Forget /\ UNCHANGED stream

-------------------------------------------------------------------------------
(* The streamed answer.                                                      *)

\* What the guard lets through goes on to the cap.
Pass(k, g1, g2) ==
  LET new == SubSeq(g2.out, Len(g1.out) + 1, Len(g2.out))
      fed[n \in 0 .. Len(new)] == IF n = 0 THEN k ELSE CapFeed(fed[n - 1], new[n])
  IN  fed[Len(new)]

\* The lines of a text with a character more.
Typed(lines, c) ==
  IF c = Newline THEN Append(lines, <<>>)
  ELSE [lines EXCEPT ![Len(lines)] = Append(@, c)]

Delta ==
  /\ pc = "stream" /\ ~guard.stop /\ Len(Join(text)) < MaxText
  /\ \E c \in Char :
       /\ text' = Typed(text, c)
       /\ guard' = GuardFeed(guard, c)
       /\ cap' = Pass(cap, guard, guard')
  /\ UNCHANGED <<pc, mapping>>

\* The answer is over, or the guard closed the stream and let go of nothing.
End ==
  /\ pc = "stream"
  /\ guard' = IF guard.stop THEN guard ELSE GuardFlush(guard)
  /\ cap' = CapFlush(Pass(cap, guard, guard'))
  /\ pc' = IF \A i \in DOMAIN cap'.out : cap'.out[i] \in Blank THEN "failed" ELSE "done"
  /\ UNCHANGED <<mapping, text>>

\* The chunks are refused, since brackets do not balance in one of them (a text
\* may have such brackets of its own), or a call fails: the summary fails,
\* whatever has been shown of it.
Fail ==
  /\ \/ pc = "split" /\ next > Len(segs)
     \/ pc = "map" /\ next <= Len(chunks)
     \/ pc = "fold" /\ MustFold
     \/ pc = "stream" /\ ~guard.stop
  /\ pc' = "failed" /\ Forget /\ UNCHANGED stream

SummaryNext == Begin \/ Split \/ SplitEnd \/ Map \/ MapEnd \/ Fold \/ Reduce \/ Delta \/ End \/ Fail
SummarySpec == SummaryInit /\ [][SummaryNext]_summaryVars

-------------------------------------------------------------------------------
SummaryTypeOK ==
  /\ pc \in {"start", "split", "map", "fold", "stream", "done", "failed"}
  /\ text \in Seq(Seq(Char)) /\ cap.n \in 0 .. MaxMarkers
  /\ Sources(partials) \cup UNION Range(chunks) \subseteq DOMAIN segs

Inky(s) == Select(s, {i \in DOMAIN s : s[i] # "~"})
Bare(s) == Select(s, {i \in DOMAIN s : \E j \in DOMAIN s : i <= j /\ s[j] \notin Blank})

\* Every segment of a long text reaches the last call, in its order, through
\* chunks, partial summaries and any number of folds (summary.py:338-405).
NothingLeftOut ==
  [][pc = "fold" /\ pc' = "stream" =>
       /\ Sources(partials) = DOMAIN segs
       /\ \A i, j \in DOMAIN partials : i < j =>
            \A a \in partials[i].from, b \in partials[j].from : a < b]_summaryVars

\* When any two partial summaries fit the limit together, the prompt of the
\* last call fits it, for as many chunks as MaxFolds halvings can bring together
\* (summary.py:391-398): no round of folding is given up too early.
LastPromptFits ==
  [][pc = "fold" /\ pc' = "stream" /\ 2 * MaxPartial + Separator <= PassLimit
       => Combined(partials) <= PassLimit]_summaryVars

\* At every point of the stream the viewer has, with what is held back, the
\* text trim_repeated_tail makes of the lines that are complete, and the line
\* under way; once the stream is closed, that text and, but for blank lines,
\* nothing more (repetition.py:3-30).
GuardIsTrim ==
  IF guard.stop THEN Bare(guard.out) = Bare(Join(Trim(text)))
  ELSE guard.out \o guard.held = Join(Append(Trim(Front(text)), Last(text)))

\* The stream is capped as the whole text would be, but for spaces
\* (timecodes.py:994-1003).
CapIsPerLine == pc = "done" => Inky(cap.out) = Inky(Cap(guard.out))
===============================================================================
