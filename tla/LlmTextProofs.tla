------------------------------ MODULE LlmTextProofs ------------------------------
(***************************************************************************)
(* What becomes of a text that an LLM is given in parts.  Of TranslateGroup*)
(* the bisection, for any transcript, any depth, any budget and whatever   *)
(* the LLM answers.  Of Summary the chunks and folds, for any text and any *)
(* limits, and of its stream the two filters, for any answer: that what    *)
(* they do character by character is what the functions on whole texts     *)
(* say.  No induction is assumed: a property of all numbers up to some b is*)
(* proved from the least number without it (LeastNumber, UpTo).            *)
(***************************************************************************)
EXTENDS TranslateGroup, Summary, FiniteSetTheorems, SequenceTheorems, WellFoundedInduction, TLAPS

-----------------------------------------------------------------------------
(* TranslateGroup: its inductive invariant                                 *)

\* A segment lies in a group, and is as short as its depth makes it.
Placed(g) ==
    \E i \in DOMAIN Ends :
        /\ Before(i) < g.lo /\ g.hi <= Ends[i]
        /\ (g.hi - g.lo) * Pieces[g.depth] < Ends[i] - Before(i)

\* What has come of the lines so far, as long as there is budget.
OnlyNearSoFar ==
    bad # Anything /\ used < Limit =>
        /\ bad \cap (1..resolved) \subseteq source
        /\ \A l \in source : \E b \in bad : LeftTogether(l, b)

\* The segments s go on where r lines are resolved, to the end of the transcript.
GoesOn(s, r) ==
    /\ s \in Seq(Segments) /\ r \in 0..Lines
    /\ \A i \in DOMAIN s :
          /\ s[i].lo <= s[i].hi
          /\ s[i].lo = (IF i = 1 THEN r ELSE s[i - 1].hi) + 1
          /\ Placed(s[i])
    /\ (IF s = <<>> THEN r ELSE s[Len(s)].hi) = Lines

IInv ==
    /\ GoesOn(todo, resolved)
    /\ used \in 0..Limit
    /\ bad # Anything => bad \in SUBSET (1..Lines)
    /\ source \subseteq 1..resolved
    /\ fallback = Cardinality(source)
    /\ OnlyNearSoFar

-----------------------------------------------------------------------------
(* TranslateGroup: pieces                                                   *)

\* A set of numbers has a least one: what stands in for an induction below.
LEMMA LeastNumber ==
    ASSUME NEW T \in SUBSET Nat, T # {}
    PROVE  \E k \in T : \A l \in T : k <= l
<1>1. PICK k \in T : \A l \in T : ~(<<l, k>> \in OpToRel(<, Nat))
  BY NatLessThanWellFounded, WFMin, Zenon
<1>2. ASSUME NEW l \in T
      PROVE  ~(l < k)
  <2>1. <<l, k>> \in Nat \X Nat /\ <<l, k>>[1] = l /\ <<l, k>>[2] = k
    BY <1>1
  <2>2. QED BY <1>1, <2>1, Zenon DEF OpToRel
<1>3. ASSUME NEW l \in T
      PROVE  k <= l
  <2>1. k \in Nat /\ l \in Nat /\ ~(l < k)
    BY <1>1, <1>2
  <2>2. QED BY <2>1
<1>4. QED BY <1>1, <1>3

\* The powers of two, up to n doublings.
Doubles(f, n) ==
    /\ f \in [0..n -> Nat \ {0}]
    /\ f[0] = 1
    /\ \A d \in 1..n : f[d] = 2 * f[d - 1]

\* The powers of two exist up to every number.
LEMMA PiecesExist ==
    ASSUME NEW n \in Nat
    PROVE  \E f : Doubles(f, n)
<1> DEFINE T == {k \in Nat : ~ \E f : Doubles(f, k)}
<1>1. CASE n \notin T
  BY <1>1
<1>2. CASE n \in T
  <2>1. PICK k \in T : \A l \in T : k <= l
    <3>1. T \in SUBSET Nat /\ T # {}
      BY <1>2
    <3> HIDE DEF T
    <3>2. QED BY <3>1, LeastNumber
  <2>2. k \in Nat /\ ~ \E f : Doubles(f, k)
    BY <2>1
  <2>3. k # 0
    <3>1. Doubles([d \in 0..0 |-> 1], 0)
      BY DEF Doubles
    <3>2. QED BY <2>2, <3>1
  <2>4. k - 1 \in Nat /\ k - 1 \notin T
    BY <2>1, <2>2, <2>3
  <2>5. PICK f : Doubles(f, k - 1)
    BY <2>4
  <2> DEFINE g == [d \in 0..k |-> IF d = k THEN 2 * f[k - 1] ELSE f[d]]
  <2>6. Doubles(g, k)
    BY <2>2, <2>3, <2>5 DEF Doubles
  <2>7. QED BY <2>2, <2>6
<1>3. QED BY <1>1, <1>2

\* Pieces is what its definition says.
LEMMA PiecesDouble == Doubles(Pieces, MaxBisectDepth)
<1> DEFINE Step(f) == [d \in 0..MaxBisectDepth |-> IF d = 0 THEN 1 ELSE 2 * f[d - 1]]
<1>1. PICK f : Doubles(f, MaxBisectDepth)
  BY PiecesExist, BudgetAssumption
<1>2. f = Step(f)
  BY <1>1, BudgetAssumption DEF Doubles
<1>3. Pieces = CHOOSE g : g = Step(g)
  BY DEF Pieces
<1>4. Pieces = Step(Pieces)
  BY <1>2, <1>3
<1>5. \A d \in 0..MaxBisectDepth : Pieces[d] = IF d = 0 THEN 1 ELSE 2 * Pieces[d - 1]
  BY <1>4
<1> HIDE DEF Step
<1>6. \A d \in 0..MaxBisectDepth : Pieces[d] \in Nat \ {0}
  <2> DEFINE T == {d \in 0..MaxBisectDepth : Pieces[d] \notin Nat \ {0}}
  <2>1. CASE T = {}
    BY <2>1
  <2>2. CASE T # {}
    <3>1. PICK k \in T : \A l \in T : k <= l
      <4>1. T \in SUBSET Nat
        BY BudgetAssumption
      <4> HIDE DEF T
      <4>2. QED BY <2>2, <4>1, LeastNumber
    <3>2. k \in 0..MaxBisectDepth /\ Pieces[k] \notin Nat \ {0}
      BY <3>1
    <3>3. k # 0
      BY <1>5, <3>2
    <3>4. k - 1 \in 0..MaxBisectDepth /\ k - 1 \notin T
      BY <3>1, <3>2, <3>3, BudgetAssumption
    <3>5. Pieces[k - 1] \in Nat \ {0}
      BY <3>4
    <3>6. QED BY <1>5, <3>2, <3>3, <3>5
  <2>3. QED BY <2>1, <2>2
<1>7. DOMAIN Pieces = 0..MaxBisectDepth /\ Pieces = [d \in 0..MaxBisectDepth |-> Pieces[d]]
  BY <1>4 DEF Step
<1>8. Pieces \in [0..MaxBisectDepth -> Nat \ {0}]
  BY <1>6, <1>7
<1>9. Pieces[0] = 1 /\ \A d \in 1..MaxBisectDepth : Pieces[d] = 2 * Pieces[d - 1]
  BY <1>5, BudgetAssumption
<1>10. QED BY <1>8, <1>9 DEF Doubles

\* Half of a segment, rounded up, one level down.
LEMMA HalfAsFar ==
    ASSUME NEW d \in 0..MaxBisectDepth, d + 1 \in 0..MaxBisectDepth,
           NEW x \in Nat, NEW y \in Nat, 2 * x <= y, NEW n \in Nat,
           y * Pieces[d] < n
    PROVE  x * Pieces[d + 1] < n
<1>1. Pieces[d] \in Nat /\ Pieces[d + 1] = 2 * Pieces[d]
  BY PiecesDouble, BudgetAssumption DEF Doubles
<1> DEFINE p == Pieces[d]
<1>2. p \in Nat /\ Pieces[d + 1] = 2 * p
  BY <1>1
<1> HIDE DEF p
<1>3. (2 * x) * p <= y * p
  BY <1>2
<1>4. x * (2 * p) = (2 * x) * p
  BY <1>2
<1>5. y * p < n
  BY DEF p
<1>6. QED BY <1>2, <1>3, <1>4, <1>5

-----------------------------------------------------------------------------
(* TranslateGroup: segments                                                 *)

\* The groups are where they are said to be.
LEMMA GroupBounds ==
    ASSUME NEW i \in DOMAIN Ends
    PROVE  /\ Lines \in Nat
           /\ Before(i) \in Nat /\ Ends[i] \in Nat /\ Before(i) < Ends[i]
           /\ Ends[i] <= Lines
<1> DEFINE n == Len(Ends)
<1>1. /\ n \in Nat /\ DOMAIN Ends = 1..n /\ i \in 1..n
      /\ \A j \in 1..n : Ends[j] \in Nat /\ Before(j) < Ends[j]
      /\ Ends # <<>> /\ Lines = Ends[n]
  BY GroupsAssumption DEF Lines
<1>2. \A j \in 1..n : Before(j) \in Nat
  BY <1>1 DEF Before
<1>3. Ends[i] <= Ends[n]
  <2> DEFINE T == {j \in i..n : ~(Ends[i] <= Ends[j])}
  <2>1. CASE T = {}
    BY <1>1, <2>1
  <2>2. CASE T # {}
    <3>1. PICK k \in T : \A j \in T : k <= j
      <4>1. T \in SUBSET Nat
        BY <1>1
      <4> HIDE DEF T
      <4>2. QED BY <2>2, <4>1, LeastNumber
    <3>2. k \in i..n /\ ~(Ends[i] <= Ends[k])
      BY <3>1
    <3>3. k # i
      BY <1>1, <3>2
    <3>4. k - 1 \in i..n /\ k - 1 \notin T
      BY <1>1, <3>1, <3>2, <3>3
    <3>5. Ends[i] <= Ends[k - 1] /\ Ends[k - 1] < Ends[k]
      BY <1>1, <3>2, <3>3, <3>4 DEF Before
    <3>6. Ends[i] \in Nat /\ Ends[k - 1] \in Nat /\ Ends[k] \in Nat
      BY <1>1, <3>2, <3>4
    <3>7. QED BY <3>2, <3>5, <3>6
  <2>3. QED BY <2>1, <2>2
<1>4. QED BY <1>1, <1>2, <1>3

\* What is left when the first segment is done.
LEMMA GoesOnTail ==
    ASSUME NEW s, NEW r, GoesOn(s, r), s # <<>>
    PROVE  GoesOn(Tail(s), Head(s).hi)
<1>1. /\ s \in Seq(Segments) /\ Len(s) \in Nat \ {0} /\ DOMAIN s = 1..Len(s)
      /\ Tail(s) \in Seq(Segments) /\ Len(Tail(s)) = Len(s) - 1
      /\ DOMAIN Tail(s) = 1..(Len(s) - 1)
      /\ \A i \in 1..(Len(s) - 1) : Tail(s)[i] = s[i + 1]
      /\ Head(s) = s[1] /\ Head(s) \in Segments
  BY HeadTailProperties, EmptySeq, LenProperties DEF GoesOn
<1>2. Head(s).hi \in 0..Lines
  BY <1>1 DEF Segments
<1>3. ASSUME NEW i \in 1..(Len(s) - 1)
      PROVE  /\ Tail(s)[i].lo <= Tail(s)[i].hi
             /\ Tail(s)[i].lo = (IF i = 1 THEN Head(s).hi ELSE Tail(s)[i - 1].hi) + 1
             /\ Placed(Tail(s)[i])
  <2>1. i + 1 \in 1..Len(s) /\ Tail(s)[i] = s[i + 1] /\ i + 1 # 1
    BY <1>1
  <2>2. /\ s[i + 1].lo <= s[i + 1].hi /\ Placed(s[i + 1])
        /\ s[i + 1].lo = s[i].hi + 1
    <3>1. (i + 1) - 1 = i
      OBVIOUS
    <3>2. QED BY <1>1, <2>1, <3>1 DEF GoesOn
  <2>3. s[i] = IF i = 1 THEN Head(s) ELSE Tail(s)[i - 1]
    <3>1. CASE i = 1
      BY <1>1, <3>1
    <3>2. CASE i # 1
      <4>1. i - 1 \in 1..(Len(s) - 1) /\ (i - 1) + 1 = i
        BY <1>1, <3>2
      <4>2. QED BY <1>1, <3>2, <4>1
    <3>3. QED BY <3>1, <3>2
  <2>4. QED BY <2>1, <2>2, <2>3
<1>4. (IF Tail(s) = <<>> THEN Head(s).hi ELSE Tail(s)[Len(Tail(s))].hi) = Lines
  <2>1. s[Len(s)].hi = Lines
    BY DEF GoesOn
  <2>2. CASE Tail(s) = <<>>
    <3>1. Len(s) - 1 = 0
      BY <1>1, <2>2, EmptySeq
    <3>2. Len(s) \in Nat
      BY <1>1
    <3>3. Len(s) = 1
      BY <3>1, <3>2
    <3>4. QED BY <1>1, <2>1, <2>2, <3>3
  <2>3. CASE Tail(s) # <<>>
    <3>1. Len(s) - 1 \in 1..(Len(s) - 1) /\ (Len(s) - 1) + 1 = Len(s)
      BY <1>1, <2>3, EmptySeq
    <3>2. QED BY <1>1, <2>1, <2>3, <3>1
  <2>4. QED BY <2>2, <2>3
<1>5. QED BY <1>1, <1>2, <1>3, <1>4 DEF GoesOn

\* A segment put before those that go on after it.
LEMMA GoesOnCons ==
    ASSUME NEW g \in Segments, NEW t, GoesOn(t, g.hi), NEW r \in 0..Lines,
           g.lo <= g.hi, g.lo = r + 1, Placed(g)
    PROVE  GoesOn(<<g>> \o t, r)
<1> DEFINE s == <<g>> \o t
<1>1. t \in Seq(Segments) /\ Len(t) \in Nat /\ DOMAIN t = 1..Len(t)
  BY LenProperties DEF GoesOn
<1>2. <<g>> \in Seq(Segments) /\ Len(<<g>>) = 1 /\ <<g>>[1] = g
  OBVIOUS
<1>3. /\ s \in Seq(Segments) /\ Len(s) = 1 + Len(t) /\ DOMAIN s = 1..(1 + Len(t))
      /\ s[1] = g /\ \A i \in 1..Len(t) : s[i + 1] = t[i]
      /\ s # <<>>
  <2>1. /\ s \in Seq(Segments) /\ Len(s) = 1 + Len(t)
        /\ \A i \in 1..(1 + Len(t)) : s[i] = IF i <= 1 THEN <<g>>[i] ELSE t[i - 1]
    BY <1>1, <1>2, ConcatProperties
  <2>2. DOMAIN s = 1..(1 + Len(t))
    BY <2>1, LenProperties
  <2>3. s[1] = g
    BY <1>1, <1>2, <2>1
  <2>4. ASSUME NEW i \in 1..Len(t)
        PROVE  s[i + 1] = t[i]
    <3>1. i + 1 \in 1..(1 + Len(t)) /\ ~(i + 1 <= 1) /\ (i + 1) - 1 = i
      BY <1>1
    <3>2. QED BY <2>1, <3>1
  <2>5. s # <<>>
    BY <1>1, <2>1
  <2>6. QED BY <2>1, <2>2, <2>3, <2>4, <2>5
<1> HIDE DEF s
<1>4. ASSUME NEW i \in 1..(1 + Len(t))
      PROVE  /\ s[i].lo <= s[i].hi
             /\ s[i].lo = (IF i = 1 THEN r ELSE s[i - 1].hi) + 1
             /\ Placed(s[i])
  <2>1. CASE i = 1
    BY <1>3, <2>1
  <2>2. CASE i # 1
    <3>1. i - 1 \in 1..Len(t) /\ (i - 1) + 1 = i
      BY <1>1, <2>2
    <3>2. s[i] = t[i - 1]
      BY <1>3, <3>1
    <3>3. /\ t[i - 1].lo <= t[i - 1].hi /\ Placed(t[i - 1])
          /\ t[i - 1].lo = (IF i - 1 = 1 THEN g.hi ELSE t[(i - 1) - 1].hi) + 1
      BY <1>1, <3>1 DEF GoesOn
    <3>4. s[i - 1] = IF i - 1 = 1 THEN g ELSE t[(i - 1) - 1]
      <4>1. CASE i - 1 = 1
        BY <1>3, <4>1
      <4>2. CASE i - 1 # 1
        <5>1. (i - 1) - 1 \in 1..Len(t) /\ ((i - 1) - 1) + 1 = i - 1
          BY <1>1, <3>1, <4>2
        <5>2. QED BY <1>3, <4>2, <5>1
      <4>3. QED BY <4>1, <4>2
    <3>5. QED BY <2>2, <3>2, <3>3, <3>4
  <2>3. QED BY <2>1, <2>2
<1>5. s[Len(s)].hi = Lines
  <2>1. CASE t = <<>>
    BY <1>3, <2>1 DEF GoesOn
  <2>2. CASE t # <<>>
    <3>1. Len(t) \in 1..Len(t) /\ t[Len(t)].hi = Lines
      BY <1>1, <2>2, EmptySeq DEF GoesOn
    <3>2. s[Len(t) + 1] = t[Len(t)] /\ Len(s) = Len(t) + 1
      BY <1>1, <1>3, <3>1
    <3>3. QED BY <3>1, <3>2
  <2>3. QED BY <2>1, <2>2
<1>6. QED BY <1>3, <1>4, <1>5 DEF GoesOn, s

-----------------------------------------------------------------------------
(* TranslateGroup: steps                                                    *)

\* Halves lie in the group of the segment, and there is nothing between them.
LEMMA HalvesFit ==
    ASSUME NEW g \in Segments, g.lo < g.hi, g.depth < MaxBisectDepth, Placed(g)
    PROVE  \E a, b \in Segments :
             /\ Halves(g) = <<a, b>>
             /\ a.lo = g.lo /\ a.lo <= a.hi /\ b.lo = a.hi + 1 /\ b.lo <= b.hi /\ b.hi = g.hi
             /\ Placed(a) /\ Placed(b)
<1> DEFINE mid == (g.hi - g.lo + 1) \div 2
           a == Segment(g.lo, g.lo + mid - 1, g.depth + 1)
           b == Segment(g.lo + mid, g.hi, g.depth + 1)
<1>1. Halves(g) = <<a, b>>
  BY DEF Halves
<1>2. /\ g.lo \in 1..Lines /\ g.hi \in 1..Lines /\ g.depth \in 0..MaxBisectDepth
  BY DEF Segments
<1>3. /\ mid \in Nat \ {0} /\ 2 * mid <= g.hi - g.lo + 1 /\ g.hi - g.lo <= 2 * mid
  BY <1>2
<1>4. a = [lo |-> g.lo, hi |-> g.lo + mid - 1, depth |-> g.depth + 1, again |-> FALSE]
  BY DEF Segment
<1>5. b = [lo |-> g.lo + mid, hi |-> g.hi, depth |-> g.depth + 1, again |-> FALSE]
  BY DEF Segment
<1> HIDE DEF mid, a, b
<1>6. g.depth + 1 \in 0..MaxBisectDepth
  BY <1>2, BudgetAssumption
<1>7. a \in Segments /\ b \in Segments
  <2>1. g.lo + mid - 1 \in 1..Lines /\ g.lo + mid \in 1..Lines
    <3>1. Lines \in Nat
      BY GroupBounds DEF Placed
    <3>2. QED BY <1>2, <1>3, <3>1
  <2>2. QED BY <1>2, <1>4, <1>5, <1>6, <2>1 DEF Segments
<1>8. PICK i \in DOMAIN Ends :
        /\ Before(i) < g.lo /\ g.hi <= Ends[i]
        /\ (g.hi - g.lo) * Pieces[g.depth] < Ends[i] - Before(i)
  BY DEF Placed
<1>9. Ends[i] - Before(i) \in Nat /\ Before(i) \in Nat /\ Ends[i] \in Nat
  BY GroupBounds
<1>10. Placed(a)
  <2>1. /\ mid - 1 \in Nat /\ g.hi - g.lo \in Nat /\ 2 * (mid - 1) <= g.hi - g.lo
    BY <1>2, <1>3
  <2>2. (mid - 1) * Pieces[g.depth + 1] < Ends[i] - Before(i)
    BY <1>2, <1>6, <1>8, <1>9, <2>1, HalfAsFar
  <2>3. a.hi - a.lo = mid - 1 /\ a.depth = g.depth + 1 /\ a.lo = g.lo /\ a.hi <= g.hi
    BY <1>2, <1>3, <1>4
  <2>4. a.hi <= Ends[i]
    BY <1>2, <1>7, <1>8, <1>9, <2>3 DEF Segments
  <2>5. QED BY <1>8, <2>2, <2>3, <2>4 DEF Placed
<1>11. Placed(b)
  <2>1. /\ g.hi - g.lo - mid \in Nat /\ g.hi - g.lo \in Nat
        /\ 2 * (g.hi - g.lo - mid) <= g.hi - g.lo
    BY <1>2, <1>3
  <2>2. (g.hi - g.lo - mid) * Pieces[g.depth + 1] < Ends[i] - Before(i)
    BY <1>2, <1>6, <1>8, <1>9, <2>1, HalfAsFar
  <2>3. b.hi - b.lo = g.hi - g.lo - mid /\ b.depth = g.depth + 1 /\ b.hi = g.hi /\ g.lo <= b.lo
    BY <1>2, <1>3, <1>5
  <2>4. Before(i) < b.lo
    BY <1>2, <1>7, <1>8, <1>9, <2>3 DEF Segments
  <2>5. QED BY <1>8, <2>2, <2>3, <2>4 DEF Placed
<1>12. a.lo = g.lo /\ a.lo <= a.hi /\ b.lo = a.hi + 1 /\ b.lo <= b.hi /\ b.hi = g.hi
  BY <1>2, <1>3, <1>4, <1>5
<1>13. QED BY <1>1, <1>7, <1>10, <1>11, <1>12

\* The segment that is next.
LEMMA NextSegment ==
    ASSUME IInv, todo # <<>>
    PROVE  /\ Head(todo) \in Segments /\ Head(todo).lo = resolved + 1
           /\ Head(todo).lo <= Head(todo).hi /\ Placed(Head(todo))
           /\ resolved \in Nat /\ Lines \in Nat
           /\ Head(todo).hi \in 1..Lines
<1>1. todo \in Seq(Segments) /\ 1 \in DOMAIN todo /\ Head(todo) = todo[1]
  BY EmptySeq DEF IInv, GoesOn
<1>2. Head(todo) \in Segments
  BY <1>1, HeadTailProperties
<1>3. todo[1].lo = resolved + 1 /\ todo[1].lo <= todo[1].hi /\ Placed(todo[1])
  BY <1>1 DEF IInv, GoesOn
<1>4. Lines \in Nat
  BY <1>3, GroupBounds DEF Placed
<1>5. QED BY <1>1, <1>2, <1>3, <1>4 DEF IInv, GoesOn, Segments

\* Segments that are tried again or cut: nothing is resolved.
LEMMA StillToDo ==
    ASSUME IInv, todo # <<>>, used' \in 0..Limit, used <= used',
           UNCHANGED <<resolved, source, fallback, bad>>, GoesOn(todo', resolved)
    PROVE  IInv'
<1>1. used \in 0..Limit /\ Limit \in Nat
  BY BudgetAssumption, GroupsAssumption DEF IInv, Limit, CallBudgetPerBadRegion
<1>2. OnlyNearSoFar'
  <2>1. used' < Limit => used < Limit
    BY <1>1
  <2>2. QED BY <2>1 DEF IInv, OnlyNearSoFar
<1>3. GoesOn(todo, resolved)'
  BY DEF GoesOn, Placed
<1>4. QED BY <1>2, <1>3 DEF IInv

\* The next segment is done with, translated or not.
LEMMA Done ==
    ASSUME IInv, todo # <<>>, used' \in 0..Limit, used <= used', UNCHANGED bad,
           resolved' = Head(todo).hi, todo' = Tail(todo),
           NEW new \in SUBSET (Head(todo).lo .. Head(todo).hi),
           source' = source \cup new, fallback' = fallback + Cardinality(new),
           bad # Anything /\ used' < Limit =>
              /\ bad \cap (Head(todo).lo .. Head(todo).hi) \subseteq new
              /\ \A l \in new : \E b \in bad : LeftTogether(l, b)
    PROVE  IInv'
<1> DEFINE g == Head(todo)
<1>1. /\ g \in Segments /\ g.lo = resolved + 1 /\ g.lo <= g.hi /\ g.hi \in 1..Lines
      /\ resolved \in Nat /\ Lines \in Nat /\ g.lo \in Int /\ g.hi \in Int
  BY NextSegment DEF Segments
<1>2. GoesOn(Tail(todo), g.hi)
  BY GoesOnTail DEF IInv
<1> HIDE DEF g
<1>3. GoesOn(todo, resolved)'
  BY <1>2 DEF GoesOn, Placed, g
<1>4. source \subseteq 1..resolved /\ 1..g.hi = (1..resolved) \cup (g.lo .. g.hi)
  BY <1>1 DEF IInv
<1>5. source' \subseteq 1..resolved'
  BY <1>4 DEF g
<1>6. fallback' = Cardinality(source')
  <2>1. IsFiniteSet(source) /\ IsFiniteSet(new) /\ source \cap new = {}
    <3>1. IsFiniteSet(1..resolved) /\ IsFiniteSet(g.lo .. g.hi)
      <4>1. 1 \in Int /\ resolved \in Int /\ g.lo \in Int /\ g.hi \in Int
        BY <1>1
      <4>2. QED BY <4>1, FS_Interval
    <3>2. IsFiniteSet(source) /\ IsFiniteSet(new)
      BY <1>4, <3>1, FS_Subset DEF g
    <3>3. (1..resolved) \cap (g.lo .. g.hi) = {}
      BY <1>1
    <3>4. QED BY <1>4, <3>2, <3>3 DEF g
  <2>2. Cardinality(source \cup new) = Cardinality(source) + Cardinality(new) - 0
    BY <2>1, FS_Union, FS_EmptySet
  <2>3. Cardinality(source) \in Nat /\ Cardinality(new) \in Nat
    BY <2>1, FS_CardinalityType
  <2>4. QED BY <2>2, <2>3 DEF IInv
<1>7. OnlyNearSoFar'
  <2> SUFFICES ASSUME bad # Anything, used' < Limit
               PROVE  /\ bad \cap (1..g.hi) \subseteq source \cup new
                      /\ \A l \in source \cup new : \E b \in bad : LeftTogether(l, b)
    BY DEF OnlyNearSoFar, g
  <2>1. used < Limit
    BY BudgetAssumption, GroupsAssumption DEF IInv, Limit, CallBudgetPerBadRegion
  <2>2. /\ bad \cap (1..resolved) \subseteq source
        /\ \A l \in source : \E b \in bad : LeftTogether(l, b)
    BY <2>1 DEF IInv, OnlyNearSoFar
  <2>3. /\ bad \cap (g.lo .. g.hi) \subseteq new
        /\ \A l \in new : \E b \in bad : LeftTogether(l, b)
    BY DEF g
  <2>4. QED BY <1>4, <2>2, <2>3
<1>8. QED BY <1>3, <1>5, <1>6, <1>7 DEF IInv

\* Permits of the budget.
LEMMA Asked ==
    ASSUME IInv, NEW aligned \in BOOLEAN, Asks(aligned)
    PROVE  /\ todo # <<>> /\ used' \in 0..Limit /\ used <= used' /\ UNCHANGED bad
           /\ bad # Anything => aligned = (bad \cap (Head(todo).lo .. Head(todo).hi) = {})
<1>1. Limit \in Nat /\ used \in 0..Limit
  BY BudgetAssumption, GroupsAssumption DEF IInv, Limit, CallBudgetPerBadRegion
<1>2. QED BY <1>1 DEF Asks

\* The answer has a line for every line asked for.
LEMMA AlignedStep ==
    ASSUME IInv, Aligned
    PROVE  IInv'
<1>1. /\ todo # <<>> /\ used' \in 0..Limit /\ used <= used' /\ UNCHANGED bad
      /\ bad # Anything => bad \cap (Head(todo).lo .. Head(todo).hi) = {}
  BY Asked DEF Aligned
<1>2. /\ resolved' = Head(todo).hi /\ todo' = Tail(todo)
      /\ source' = source \cup {} /\ fallback' = fallback
  BY DEF Aligned, Translated
<1>3. fallback' = fallback + Cardinality({})
  <2>1. IsFiniteSet(source)
    <3>1. IsFiniteSet(1..resolved)
      BY <1>1, NextSegment, FS_Interval
    <3>2. QED BY <3>1, FS_Subset DEF IInv
  <2>2. fallback \in Nat
    BY <2>1, FS_CardinalityType DEF IInv
  <2>3. QED BY <1>2, <2>2, FS_EmptySet
<1>4. QED BY <1>1, <1>2, <1>3, Done

\* A single line is asked for again.
LEMMA RetriesLineStep ==
    ASSUME IInv, RetriesLine
    PROVE  IInv'
<1> DEFINE g == Head(todo)
           h == [g EXCEPT !.again = TRUE]
<1>1. /\ todo # <<>> /\ used' \in 0..Limit /\ used <= used' /\ UNCHANGED bad
      /\ UNCHANGED <<resolved, source, fallback>> /\ todo' = <<h>> \o Tail(todo)
  BY Asked DEF RetriesLine
<1>2. /\ g \in Segments /\ g.lo = resolved + 1 /\ g.lo <= g.hi /\ Placed(g)
      /\ resolved \in 0..Lines
  BY <1>1, NextSegment DEF IInv, GoesOn
<1>3. /\ h \in Segments /\ h.lo = g.lo /\ h.hi = g.hi /\ h.depth = g.depth
  BY <1>2 DEF Segments
<1>4. GoesOn(Tail(todo), g.hi)
  BY <1>1, GoesOnTail DEF IInv
<1> HIDE DEF g, h
<1>5. Placed(h)
  BY <1>2, <1>3 DEF Placed
<1>6. GoesOn(todo', resolved)
  BY <1>1, <1>2, <1>3, <1>4, <1>5, GoesOnCons
<1>7. QED BY <1>1, <1>6, StillToDo

\* A group whose answer does not fit is halved.
LEMMA BisectsStep ==
    ASSUME IInv, Bisects
    PROVE  IInv'
<1> DEFINE g == Head(todo)
<1>1. /\ todo # <<>> /\ used' \in 0..Limit /\ used <= used' /\ UNCHANGED bad
      /\ UNCHANGED <<resolved, source, fallback>> /\ todo' = Halves(g) \o Tail(todo)
      /\ g.lo < g.hi /\ g.depth < MaxBisectDepth
  BY Asked DEF Bisects
<1>2. /\ g \in Segments /\ g.lo = resolved + 1 /\ g.lo <= g.hi /\ Placed(g)
      /\ resolved \in 0..Lines
  BY <1>1, NextSegment DEF IInv, GoesOn
<1>3. GoesOn(Tail(todo), g.hi)
  BY <1>1, GoesOnTail DEF IInv
<1> HIDE DEF g
<1>4. PICK a \in Segments, b \in Segments :
             /\ Halves(g) = <<a, b>>
             /\ a.lo = g.lo /\ a.lo <= a.hi /\ b.lo = a.hi + 1 /\ b.lo <= b.hi /\ b.hi = g.hi
             /\ Placed(a) /\ Placed(b)
  BY <1>1, <1>2, HalvesFit
<1>5. a.hi \in 0..Lines
  BY DEF Segments
<1>6. GoesOn(<<b>> \o Tail(todo), a.hi)
  BY <1>3, <1>4, <1>5, GoesOnCons
<1>7. GoesOn(<<a>> \o (<<b>> \o Tail(todo)), resolved)
  BY <1>2, <1>4, <1>6, GoesOnCons
<1>8. <<a, b>> \o Tail(todo) = <<a>> \o (<<b>> \o Tail(todo))
  <2>1. <<a>> \in Seq(Segments) /\ <<b>> \in Seq(Segments) /\ Tail(todo) \in Seq(Segments)
    BY <1>3 DEF GoesOn
  <2>2. <<a, b>> = <<a>> \o <<b>>
    <3>1. /\ <<a>> \o <<b>> \in Seq(Segments) /\ Len(<<a>> \o <<b>>) = 2
          /\ (<<a>> \o <<b>>)[1] = a /\ (<<a>> \o <<b>>)[2] = b
      BY <2>1, ConcatProperties
    <3> DEFINE s == <<a>> \o <<b>>
               t == <<a, b>>
    <3>2. t \in Seq(Segments) /\ Len(t) = 2 /\ t[1] = a /\ t[2] = b
      OBVIOUS
    <3> HIDE DEF s, t
    <3>3. s \in Seq(Segments) /\ Len(s) = 2 /\ s[1] = a /\ s[2] = b
      BY <3>1 DEF s
    <3>4. ASSUME NEW i \in 1..2
          PROVE  s[i] = t[i]
      <4>1. i = 1 \/ i = 2
        OBVIOUS
      <4>2. QED BY <3>2, <3>3, <4>1
    <3>5. s = t
      BY <3>2, <3>3, <3>4, SeqEqual
    <3>6. QED BY <3>5 DEF s, t
  <2>3. QED BY <2>1, <2>2, ConcatAssociative
<1>9. GoesOn(todo', resolved)
  BY <1>1, <1>4, <1>7, <1>8
<1>10. QED BY <1>1, <1>9, StillToDo

\* What a segment costs that is kept in the source language.
LEMMA KeptStep ==
    ASSUME IInv, todo # <<>>, used' \in 0..Limit, used <= used', UNCHANGED bad, KeptAsSource,
           bad # Anything /\ used' < Limit =>
              \A l \in Head(todo).lo .. Head(todo).hi : \E b \in bad : LeftTogether(l, b)
    PROVE  IInv'
<1> DEFINE new == Head(todo).lo .. Head(todo).hi
<1>1. Head(todo).lo \in Int /\ Head(todo).hi \in Int /\ Head(todo).lo <= Head(todo).hi
  BY NextSegment DEF Segments
<1>2. Cardinality(new) = Head(todo).hi - Head(todo).lo + 1
  <2> DEFINE lo == Head(todo).lo
             hi == Head(todo).hi
  <2>1. lo \in Int /\ hi \in Int /\ ~(lo > hi)
    BY <1>1
  <2> HIDE DEF lo, hi
  <2>2. Cardinality(lo .. hi) = hi - lo + 1
    BY <2>1, FS_Interval
  <2>3. QED BY <2>2 DEF lo, hi
<1>3. /\ resolved' = Head(todo).hi /\ todo' = Tail(todo)
      /\ source' = source \cup new /\ fallback' = fallback + Cardinality(new)
  BY <1>2 DEF KeptAsSource
<1>4. bad # Anything /\ used' < Limit =>
         /\ bad \cap new \subseteq new
         /\ \A l \in new : \E b \in bad : LeftTogether(l, b)
  OBVIOUS
<1>5. QED BY <1>3, <1>4, Done

\* What is left of the group is copied from the original.
LEMMA GivesUpStep ==
    ASSUME IInv, GivesUp
    PROVE  IInv'
<1> DEFINE g == Head(todo)
           D == MaxBisectDepth
<1>1. /\ todo # <<>> /\ used' \in 0..Limit /\ used <= used' /\ UNCHANGED bad
      /\ bad # Anything => bad \cap (g.lo .. g.hi) # {}
      /\ IF g.lo = g.hi THEN g.again ELSE g.depth = D
  BY Asked DEF GivesUp
<1>2. g \in Segments /\ Placed(g) /\ g.lo \in Int /\ g.hi \in Int /\ g.lo <= g.hi
  BY <1>1, NextSegment DEF Segments
<1>3. PICK i \in DOMAIN Ends :
        /\ Before(i) < g.lo /\ g.hi <= Ends[i]
        /\ (g.hi - g.lo) * Pieces[g.depth] < Ends[i] - Before(i)
  BY <1>2 DEF Placed
<1>4. /\ Ends[i] \in Nat /\ Before(i) \in Nat /\ Before(i) < Ends[i]
      /\ Pieces[D] \in Nat
  BY GroupBounds, PiecesDouble, BudgetAssumption DEF Doubles
<1>5. (g.hi - g.lo) * Pieces[D] < Ends[i] - Before(i)
  <2>1. CASE g.lo = g.hi
    BY <1>2, <1>4, <2>1
  <2>2. CASE g.lo # g.hi
    BY <1>1, <1>3, <2>2
  <2>3. QED BY <2>1, <2>2
<1> DEFINE p == Pieces[D]
           n == Ends[i] - Before(i)
           far == g.hi - g.lo
<1>6. p \in Nat /\ n \in Nat /\ far \in Nat /\ far * p < n
  BY <1>2, <1>4, <1>5
<1>7. ASSUME NEW l \in g.lo .. g.hi, NEW b \in g.lo .. g.hi
      PROVE  LeftTogether(l, b)
  <2>1. l \in Int /\ b \in Int /\ l - b <= far /\ b - l <= far
    BY <1>2
  <2>2. {l, b} \subseteq Before(i) + 1 .. Ends[i]
    BY <1>2, <1>3, <1>4
  <2> HIDE DEF p, n, far
  <2>3. (l - b) * p <= far * p /\ (b - l) * p <= far * p
    BY <1>6, <2>1
  <2>4. (l - b) * p < n /\ (b - l) * p < n
    BY <1>6, <2>1, <2>3
  <2>5. QED BY <2>2, <2>4 DEF LeftTogether, p, n
<1>8. bad # Anything => \A l \in g.lo .. g.hi : \E b \in bad : LeftTogether(l, b)
  <2> SUFFICES ASSUME bad # Anything, NEW l \in g.lo .. g.hi
               PROVE  \E b \in bad : LeftTogether(l, b)
    OBVIOUS
  <2>1. PICK b : b \in bad /\ b \in g.lo .. g.hi
    BY <1>1
  <2>2. QED BY <1>7, <2>1
<1>9. KeptAsSource
  BY DEF GivesUp
<1>10. QED BY <1>1, <1>8, <1>9, KeptStep

\* The budget of the group is spent.
LEMMA OutOfBudgetStep ==
    ASSUME IInv, OutOfBudget
    PROVE  IInv'
<1>1. Limit \in Nat /\ used \in 0..Limit
  BY BudgetAssumption, GroupsAssumption DEF IInv, Limit, CallBudgetPerBadRegion
<1>2. /\ todo # <<>> /\ KeptAsSource /\ UNCHANGED <<used, bad>> /\ ~(used' < Limit)
  BY <1>1 DEF OutOfBudget
<1>3. used' \in 0..Limit /\ used <= used'
  BY <1>1, <1>2
<1>4. QED BY <1>2, <1>3, KeptStep

\* The groups make up the transcript.
LEMMA InitGoesOn ==
    ASSUME Init
    PROVE  GoesOn(todo, resolved)
<1> DEFINE n == Len(Ends)
<1>1. n \in Nat /\ DOMAIN Ends = 1..n /\ Ends \in Seq(Nat)
  BY GroupsAssumption
<1>2. /\ todo = [i \in 1..n |-> GroupSegment(i)] /\ resolved = 0
  BY <1>1 DEF Init
<1>3. ASSUME NEW i \in 1..n
      PROVE  /\ GroupSegment(i) \in Segments /\ Placed(GroupSegment(i))
             /\ GroupSegment(i).lo = Before(i) + 1 /\ GroupSegment(i).hi = Ends[i]
             /\ GroupSegment(i).lo <= GroupSegment(i).hi
  <2>1. /\ Lines \in Nat /\ Before(i) \in Nat /\ Ends[i] \in Nat /\ Before(i) < Ends[i]
        /\ Ends[i] <= Lines
    BY <1>1, GroupBounds
  <2>2. GroupSegment(i) = [lo |-> Before(i) + 1, hi |-> Ends[i], depth |-> 0, again |-> FALSE]
    BY DEF GroupSegment, Segment
  <2>3. GroupSegment(i) \in Segments
    BY <2>1, <2>2, BudgetAssumption DEF Segments
  <2>4. Pieces[0] = 1
    BY PiecesDouble DEF Doubles
  <2>5. (Ends[i] - (Before(i) + 1)) * Pieces[0] < Ends[i] - Before(i)
    BY <2>1, <2>4
  <2>6. Placed(GroupSegment(i))
    <3>1. i \in DOMAIN Ends /\ Before(i) < Before(i) + 1 /\ Ends[i] <= Ends[i]
      BY <1>1, <2>1
    <3>2. QED BY <2>2, <2>5, <3>1 DEF Placed
  <2>7. QED BY <2>1, <2>2, <2>3, <2>6
<1>4. todo \in Seq(Segments) /\ Len(todo) = n /\ DOMAIN todo = 1..n
  BY <1>1, <1>2, <1>3
<1>5. ASSUME NEW i \in 1..n
      PROVE  todo[i].lo = (IF i = 1 THEN 0 ELSE todo[i - 1].hi) + 1
  <2>1. CASE i = 1
    BY <1>2, <1>3, <2>1 DEF Before
  <2>2. CASE i # 1
    <3>1. i - 1 \in 1..n
      BY <1>1, <2>2
    <3>2. todo[i - 1].hi = Ends[i - 1] /\ todo[i].lo = Before(i) + 1
      BY <1>2, <1>3, <3>1
    <3>3. QED BY <2>2, <3>2 DEF Before
  <2>3. QED BY <2>1, <2>2
<1>6. (IF todo = <<>> THEN 0 ELSE todo[Len(todo)].hi) = Lines
  <2>1. CASE n = 0
    <3>1. Ends = <<>> /\ todo = <<>>
      BY <1>1, <1>4, <2>1, EmptySeq
    <3>2. QED BY <3>1 DEF Lines
  <2>2. CASE n # 0
    <3>1. n \in 1..n /\ Ends # <<>> /\ todo # <<>>
      BY <1>1, <1>4, <2>2, EmptySeq
    <3>2. QED BY <1>2, <1>3, <1>4, <3>1 DEF Lines
  <2>3. QED BY <2>1, <2>2
<1>7. 0 \in 0..Lines
  <2>1. Lines \in Nat
    BY <1>1, GroupsAssumption DEF Lines
  <2>2. QED BY <2>1
<1>8. QED BY <1>2, <1>3, <1>4, <1>5, <1>6, <1>7 DEF GoesOn

-----------------------------------------------------------------------------
(* TranslateGroup: results                                                  *)

\* IInv is inductive, and holds of every state of a translation.
THEOREM Invariance == Spec => []IInv
<1>1. Init => IInv
  <2> SUFFICES ASSUME Init PROVE IInv
    OBVIOUS
  <2>1. GoesOn(todo, resolved)
    BY InitGoesOn
  <2>2. source = {} /\ fallback = 0 /\ used = 0 /\ bad \in BadSets /\ resolved = 0
    BY DEF Init
  <2>3. fallback = Cardinality(source)
    BY <2>2, FS_EmptySet
  <2>4. Limit \in Nat
    BY BudgetAssumption, GroupsAssumption DEF Limit, CallBudgetPerBadRegion
  <2>5. OnlyNearSoFar
    BY <2>2 DEF OnlyNearSoFar
  <2>6. bad # Anything => bad \in SUBSET (1..Lines)
    BY <2>2, BadAssumption
  <2>7. QED BY <2>1, <2>2, <2>3, <2>4, <2>5, <2>6 DEF IInv
<1>2. IInv /\ [Next]_vars => IInv'
  <2> SUFFICES ASSUME IInv, [Next]_vars PROVE IInv'
    OBVIOUS
  <2>1. CASE Aligned
    BY <2>1, AlignedStep
  <2>2. CASE RetriesLine
    BY <2>2, RetriesLineStep
  <2>3. CASE Bisects
    BY <2>3, BisectsStep
  <2>4. CASE GivesUp
    BY <2>4, GivesUpStep
  <2>5. CASE OutOfBudget
    BY <2>5, OutOfBudgetStep
  <2>6. CASE UNCHANGED vars
    BY <2>6 DEF vars, IInv, GoesOn, Placed, OnlyNearSoFar
  <2>7. QED BY <2>1, <2>2, <2>3, <2>4, <2>5, <2>6 DEF Next
<1>3. QED BY <1>1, <1>2, PTL DEF Spec

\* The variables keep their types.
THEOREM TypeCorrect == Spec => []TypeOK
<1>1. ASSUME IInv PROVE TypeOK
  <2>1. todo \in Seq(Segments) /\ resolved \in 0..Lines /\ used \in 0..Limit
    BY <1>1 DEF IInv, GoesOn
  <2>2. Lines \in Nat
    BY GroupsAssumption DEF Lines
  <2>3. source \in SUBSET (1..Lines) /\ resolved \in Nat
    BY <1>1, <2>1, <2>2 DEF IInv
  <2>4. Cardinality(source) \in Nat /\ Cardinality(source) <= Lines
    <3>1. IsFiniteSet(1..Lines) /\ Cardinality(1..Lines) <= Lines
      BY <2>2, FS_Interval
    <3>2. IsFiniteSet(source) /\ Cardinality(source) <= Cardinality(1..Lines)
      BY <2>3, <3>1, FS_Subset
    <3>3. Cardinality(source) \in Nat /\ Cardinality(1..Lines) \in Nat
      BY <3>1, <3>2, FS_CardinalityType
    <3>4. QED BY <2>2, <3>1, <3>2, <3>3
  <2>5. fallback \in 0..Lines
    BY <1>1, <2>2, <2>4 DEF IInv
  <2>6. QED BY <1>1, <2>1, <2>3, <2>5 DEF TypeOK, IInv
<1>2. QED BY <1>1, Invariance, PTL

\* Every line of the transcript is resolved or still to do, once and in order, and
\* the lines left in the source language are counted (translator.py:33-35).
THEOREM InputIsNeverLost == Spec => []NothingLost
<1>1. IInv => NothingLost
  BY DEF IInv, GoesOn, NothingLost
<1>2. QED BY <1>1, Invariance, PTL

\* A line that the LLM cannot translate costs no line of its group that the depth
\* limit lets be cut off from it, as long as there is budget
\* (translator.py:98-109).
THEOREM BadLinesAreIsolated == Spec => []OnlyNearBadLinesFallBack
<1>1. ASSUME IInv PROVE OnlyNearBadLinesFallBack
  <2> SUFFICES ASSUME bad # Anything, todo = <<>>, used < Limit
               PROVE  bad \subseteq source /\ \A l \in source : \E b \in bad : LeftTogether(l, b)
    BY DEF OnlyNearBadLinesFallBack
  <2>1. resolved = Lines /\ bad \in SUBSET (1..Lines)
    BY <1>1 DEF IInv, GoesOn
  <2>2. QED BY <1>1, <2>1 DEF IInv, OnlyNearSoFar
<1>2. QED BY <1>1, Invariance, PTL
-----------------------------------------------------------------------------
(* Sequences: a selection                                                   *)

\* How many members of I come no later than i.
Rank(I, i) == Cardinality({j \in I : j <= i})

\* The ranks of positions are 1, 2, ... in order.
LEMMA RanksInOrder ==
    ASSUME NEW n \in Nat, NEW I \in SUBSET (1..n)
    PROVE  /\ IsFiniteSet(I) /\ Cardinality(I) \in Nat
           /\ \A i \in I : Rank(I, i) \in 1..Cardinality(I)
           /\ \A i, j \in I : i < j => Rank(I, i) < Rank(I, j)
           /\ \A k \in 1..Cardinality(I) : \E i \in I : Rank(I, i) = k
<1> DEFINE Below(i) == {j \in I : j <= i}
           rank == [i \in I |-> Rank(I, i)]
<1>0. IsFiniteSet(I) /\ Cardinality(I) \in Nat
  <2>1. IsFiniteSet(1..n)
    BY FS_Interval
  <2>2. IsFiniteSet(I)
    BY <2>1, FS_Subset
  <2>3. QED BY <2>2, FS_CardinalityType
<1>1. ASSUME NEW i \in I
      PROVE  IsFiniteSet(Below(i)) /\ Rank(I, i) = Cardinality(Below(i))
             /\ Rank(I, i) \in 1..Cardinality(I)
  <2>1. IsFiniteSet(Below(i)) /\ Cardinality(Below(i)) <= Cardinality(I)
    <3>1. Below(i) \in SUBSET I
      OBVIOUS
    <3>2. QED BY <1>0, <3>1, FS_Subset
  <2>2. i \in Below(i)
    OBVIOUS
  <2>3. Cardinality(Below(i)) \in Nat
    BY <2>1, FS_CardinalityType
  <2>4. Cardinality(Below(i)) # 0
    BY <2>1, <2>2, FS_EmptySet
  <2>5. QED BY <1>0, <2>1, <2>3, <2>4 DEF Rank
<1>2. ASSUME NEW i \in I, NEW j \in I, i < j
      PROVE  Rank(I, i) < Rank(I, j)
  <2>0. \A k \in I : k \in Int
    OBVIOUS
  <2>1. Below(i) \in SUBSET Below(j)
    <3>1. \A k \in I : k <= i => k <= j
      BY <1>2, <2>0
    <3>2. QED BY <3>1
  <2>2. j \in Below(j) /\ j \notin Below(i)
    BY <1>2
  <2>3. Cardinality(Below(i)) <= Cardinality(Below(j)) /\ Cardinality(Below(i)) # Cardinality(Below(j))
    <3>1. IsFiniteSet(Below(j))
      BY <1>1
    <3>2. Cardinality(Below(j)) = Cardinality(Below(i)) => Below(j) = Below(i)
      BY <2>1, <3>1, FS_Subset
    <3>3. Cardinality(Below(i)) <= Cardinality(Below(j))
      BY <2>1, <3>1, FS_Subset
    <3>4. QED BY <2>2, <3>2, <3>3
  <2>4. /\ Rank(I, i) = Cardinality(Below(i)) /\ Rank(I, i) \in Int
        /\ Rank(I, j) = Cardinality(Below(j)) /\ Rank(I, j) \in Int
    BY <1>0, <1>1
  <2> HIDE DEF Below
  <2>5. QED BY <2>3, <2>4
<1>3. rank \in [I -> 1..Cardinality(I)]
  BY <1>1
<1>4. \A i, j \in I : rank[i] = rank[j] => i = j
  <2> SUFFICES ASSUME NEW i \in I, NEW j \in I, i < j PROVE Rank(I, i) # Rank(I, j)
    <3>1. \A k \in I : k \in Int
      OBVIOUS
    <3>2. QED BY <3>1
  <2>1. Rank(I, i) < Rank(I, j)
    BY <1>2
  <2>a. Rank(I, i) \in 1..Cardinality(I) /\ Rank(I, j) \in 1..Cardinality(I)
    BY <1>1
  <2>2. QED BY <1>0, <2>1, <2>a
<1>5. rank \in Injection(I, 1..Cardinality(I))
  BY <1>3, <1>4 DEF Injection, IsInjective
<1>6. IsFiniteSet(1..Cardinality(I)) /\ Cardinality(1..Cardinality(I)) = Cardinality(I)
  BY <1>0, FS_Interval
<1>7. rank \in Surjection(I, 1..Cardinality(I))
  BY <1>5, <1>6, FS_Injection
<1>8. \A k \in 1..Cardinality(I) : \E i \in I : Rank(I, i) = k
  BY <1>7 DEF Surjection
<1>9. QED BY <1>0, <1>1, <1>2, <1>8

\* The k-th entry of a selection is the one of rank k.
LEMMA SelectHas ==
    ASSUME NEW n \in Nat, NEW I \in SUBSET (1..n), NEW s
    PROVE  /\ Select(s, I) = [k \in 1..Cardinality(I) |-> Select(s, I)[k]]
           /\ \A i \in I : Select(s, I)[Rank(I, i)] = s[i]
<1> DEFINE Pick(k) == CHOOSE i \in I : Rank(I, i) = k
<1>1. Select(s, I) = [k \in 1..Cardinality(I) |-> s[Pick(k)]]
  BY DEF Select, Rank
<1>2. ASSUME NEW i \in I
      PROVE  Pick(Rank(I, i)) = i
  <2>1. Pick(Rank(I, i)) \in I /\ Rank(I, Pick(Rank(I, i))) = Rank(I, i)
    <3> DEFINE r == Rank(I, i)
    <3>1. \E j \in I : Rank(I, j) = r
      OBVIOUS
    <3> HIDE DEF r
    <3>2. Pick(r) \in I /\ Rank(I, Pick(r)) = r
      BY <3>1, Zenon
    <3>3. QED BY <3>2 DEF r
  <2> HIDE DEF Pick
  <2>2. \A a, b \in I : a < b => Rank(I, a) < Rank(I, b)
    BY RanksInOrder
  <2>3. Rank(I, i) \in 1..Cardinality(I) /\ Cardinality(I) \in Nat /\ \A k \in I : k \in Int
    <3>1. \A k \in I : Rank(I, k) \in 1..Cardinality(I)
      BY RanksInOrder
    <3>2. Cardinality(I) \in Nat
      BY RanksInOrder
    <3>3. QED BY <3>1, <3>2
  <2>4. \A p \in I : Rank(I, p) = Rank(I, i) => p = i
    <3> SUFFICES ASSUME NEW p \in I, p < i \/ i < p PROVE Rank(I, p) # Rank(I, i)
      BY <2>3
    <3>1. Rank(I, p) < Rank(I, i) \/ Rank(I, i) < Rank(I, p)
      BY <2>2
    <3>2. QED BY <2>3, <3>1
  <2>5. QED BY <2>1, <2>4
<1>3. \A i \in I : Rank(I, i) \in 1..Cardinality(I)
  BY RanksInOrder
<1> HIDE DEF Pick
<1>4. QED BY <1>1, <1>2, <1>3

LEMMA SelectType ==
    ASSUME NEW S, NEW s \in Seq(S), NEW I \in SUBSET (DOMAIN s)
    PROVE  /\ IsFiniteSet(I) /\ Cardinality(I) \in Nat
           /\ Select(s, I) \in Seq(S) /\ Len(Select(s, I)) = Cardinality(I)
<1>1. I \in SUBSET (1..Len(s)) /\ Len(s) \in Nat
  OBVIOUS
<1>2. /\ IsFiniteSet(I) /\ Cardinality(I) \in Nat
      /\ \A k \in 1..Cardinality(I) : \E i \in I : Rank(I, i) = k
  BY <1>1, RanksInOrder
<1>3. /\ Select(s, I) = [k \in 1..Cardinality(I) |-> Select(s, I)[k]]
      /\ \A i \in I : Select(s, I)[Rank(I, i)] = s[i]
  BY <1>1, SelectHas
<1>4. ASSUME NEW k \in 1..Cardinality(I)
      PROVE  Select(s, I)[k] \in S
  <2>1. PICK i \in I : Rank(I, i) = k
    BY <1>2
  <2>2. i \in 1..Len(s)
    BY <1>1
  <2>3. s[i] \in S
    BY <2>2
  <2>4. QED BY <1>3, <2>1, <2>3
<1>5. Select(s, I) \in [1..Cardinality(I) -> S]
  BY <1>3, <1>4
<1>6. QED BY <1>2, <1>5

\* What is selected does not depend on the rest.
LEMMA SelectSame ==
    ASSUME NEW n \in Nat, NEW I \in SUBSET (1..n), NEW s, NEW t,
           \A i \in I : s[i] = t[i]
    PROVE  Select(s, I) = Select(t, I)
<1>1. ASSUME NEW k \in 1..Cardinality(I)
      PROVE  Select(s, I)[k] = Select(t, I)[k]
  <2>1. PICK i \in I : Rank(I, i) = k
    BY RanksInOrder
  <2>2. QED BY <2>1, SelectHas
<1>2. /\ Select(s, I) = [k \in 1..Cardinality(I) |-> Select(s, I)[k]]
      /\ Select(t, I) = [k \in 1..Cardinality(I) |-> Select(t, I)[k]]
  BY SelectHas
<1> DEFINE f == Select(s, I)
           g == Select(t, I)
<1> HIDE DEF f, g
<1>3. QED BY <1>1, <1>2 DEF f, g

\* A later position is selected after the others.
LEMMA SelectMore ==
    ASSUME NEW S, NEW s \in Seq(S), NEW I \in SUBSET (DOMAIN s),
           NEW m \in DOMAIN s, \A i \in I : i < m
    PROVE  Select(s, I \cup {m}) = Append(Select(s, I), s[m])
<1> DEFINE J == I \cup {m}
           n == Cardinality(I)
           f == Select(s, I)
           g == Select(s, J)
<1>1. /\ J \in SUBSET (1..Len(s)) /\ I \in SUBSET (1..Len(s)) /\ Len(s) \in Nat
      /\ J \in SUBSET (DOMAIN s) /\ m \notin I
  OBVIOUS
<1>2. IsFiniteSet(I) /\ n \in Nat /\ f \in Seq(S) /\ Len(f) = n
  BY SelectType
<1>3. Cardinality(J) = n + 1
  BY <1>1, <1>2, FS_AddElement
<1>4. g \in Seq(S) /\ Len(g) = n + 1
  BY <1>1, <1>3, SelectType
<1>5. \A i \in I : Rank(J, i) = Rank(I, i)
  <2> SUFFICES ASSUME NEW i \in I PROVE {j \in J : j <= i} = {j \in I : j <= i}
    BY DEF Rank
  <2>1. i < m /\ i \in Nat /\ m \in Nat
    BY <1>1
  <2>2. QED BY <2>1
<1>6. Rank(J, m) = n + 1
  <2>1. {j \in J : j <= m} = J
    BY <1>1
  <2>2. QED BY <1>3, <2>1 DEF Rank
<1>7. /\ \A i \in I : f[Rank(I, i)] = s[i]
      /\ \A i \in J : g[Rank(J, i)] = s[i]
  BY <1>1, SelectHas
<1>8. \A k \in 1..n : \E i \in I : Rank(I, i) = k
  BY <1>1, RanksInOrder
<1>9. \A k \in 1..n : g[k] = f[k]
  <2> SUFFICES ASSUME NEW k \in 1..n PROVE g[k] = f[k]
    OBVIOUS
  <2>1. PICK i \in I : Rank(I, i) = k
    BY <1>8
  <2>2. f[Rank(I, i)] = s[i] /\ g[Rank(J, i)] = s[i] /\ Rank(J, i) = Rank(I, i)
    BY <1>5, <1>7
  <2> HIDE DEF f, g
  <2>3. QED BY <2>1, <2>2
<1>10. g[n + 1] = s[m]
  BY <1>6, <1>7
<1> HIDE DEF f, g, n
<1>11. Append(f, s[m]) \in Seq(S) /\ Len(Append(f, s[m])) = n + 1
  BY <1>2
<1>12. \A k \in 1..n + 1 : g[k] = Append(f, s[m])[k]
  BY <1>2, <1>9, <1>10
<1>13. g = Append(f, s[m])
  BY <1>4, <1>11, <1>12, SeqEqual
<1>14. QED BY <1>13 DEF f, g

LEMMA SelectNone == \A s : Select(s, {}) = <<>>
<1>1. Cardinality({}) = 0
  BY FS_EmptySet
<1>2. QED BY <1>1 DEF Select
-----------------------------------------------------------------------------
(* Recursive functions of a number                                          *)

\* Induction, for a set of numbers.
LEMMA UpTo ==
    ASSUME NEW b \in Nat, NEW T, 0 \in T, \A n \in 1..b : n - 1 \in T => n \in T
    PROVE  \A n \in 0..b : n \in T
<1> DEFINE D == {n \in 0..b : n \notin T}
<1>1. CASE D = {}
  BY <1>1
<1>2. CASE D # {}
  <2>1. PICK k \in D : \A l \in D : k <= l
    <3>1. D \in SUBSET Nat
      OBVIOUS
    <3> HIDE DEF D
    <3>2. QED BY <1>2, <3>1, LeastNumber
  <2>2. k \in 1..b /\ k - 1 \in 0..b /\ k \notin T
    BY <2>1
  <2>3. k - 1 \notin D
    BY <2>1, <2>2
  <2>4. QED BY <2>2, <2>3
<1>3. QED BY <1>1, <1>2

Runs(f, b, V, v, step) ==
    f \in [0..b -> V] /\ f[0] = v /\ \A n \in 1..b : f[n] = step[<<n, f[n - 1]>>]

\* From a first value and a step there is a function.
LEMMA Recursion ==
    ASSUME NEW b \in Nat, NEW V, NEW v \in V, NEW step \in [(1..b) \X V -> V]
    PROVE  \E f : Runs(f, b, V, v, step)
<1> DEFINE Upto(f, m) == Runs(f, m, V, v, step)
           T == {m \in 0..b : \E f : Upto(f, m)}
<1>1. 0 \in T
  <2>1. Upto([n \in 0..0 |-> v], 0)
    BY DEF Runs
  <2> HIDE DEF Upto
  <2>2. QED BY <2>1
<1>2. ASSUME NEW m \in 1..b, m - 1 \in T
      PROVE  m \in T
  <2>1. PICK f : Upto(f, m - 1)
    BY <1>2
  <2> DEFINE g == [n \in 0..m |-> IF n = m THEN step[<<m, f[m - 1]>>] ELSE f[n]]
  <2>2. f[m - 1] \in V /\ step[<<m, f[m - 1]>>] \in V
    BY <2>1 DEF Runs
  <2>3. g \in [0..m -> V] /\ g[0] = v
    BY <2>1, <2>2 DEF Runs
  <2>4. ASSUME NEW n \in 1..m
        PROVE  g[n] = step[<<n, g[n - 1]>>]
    <3>1. n - 1 \in 0..m /\ n - 1 # m /\ g[n - 1] = f[n - 1]
      OBVIOUS
    <3>2. CASE n = m
      BY <3>1, <3>2 DEF Runs
    <3>3. CASE n # m
      <4>1. n \in 1..m - 1 /\ g[n] = f[n]
        BY <3>3
      <4>2. QED BY <2>1, <3>1, <4>1 DEF Runs
    <3>4. QED BY <3>2, <3>3
  <2>5. Upto(g, m)
    BY <2>3, <2>4 DEF Runs
  <2> HIDE DEF Upto, g
  <2>6. QED BY <2>5
<1> HIDE DEF T
<1>3. \A n \in 0..b : n \in T
  BY <1>1, <1>2, UpTo
<1>4. b \in T
  BY <1>3
<1>5. QED BY <1>4 DEF T

-----------------------------------------------------------------------------
(* Sequences: joining lines                                                 *)

Texts == Seq(Char)

JoinStep(lines, f) ==
    [n \in 0..Len(lines) |->
        IF n = 0 THEN <<>>
        ELSE IF n = 1 THEN lines[1] ELSE f[n - 1] \o <<Newline>> \o lines[n]]

LEMMA OneChar ==
    /\ Newline \in Char /\ <<>> \in Texts
    /\ \A c \in Char : <<c>> \in Texts
  BY DEF Newline, Char, Texts

\* What Join goes through, line by line.
LEMMA JoinUpTo ==
    ASSUME NEW lines \in Seq(Texts)
    PROVE  \E f \in [0..Len(lines) -> Texts] : f = JoinStep(lines, f) /\ Join(lines) = f[Len(lines)]
<1> DEFINE b == Len(lines)
           step == [p \in (1..b) \X Texts |->
                      IF p[1] = 1 THEN lines[1] ELSE p[2] \o <<Newline>> \o lines[p[1]]]
<1>1. b \in Nat /\ DOMAIN lines = 1..b /\ \A n \in 1..b : lines[n] \in Texts
  OBVIOUS
<1>2. step \in [(1..b) \X Texts -> Texts]
  <2>1. \A p \in (1..b) \X Texts : p[1] \in 1..b /\ p[2] \in Texts /\ (p[1] # 1 => p[2] \o <<Newline>> \o lines[p[1]] \in Texts)
    BY <1>1, OneChar, ConcatProperties DEF Texts
  <2>2. QED BY <1>1, <2>1
<1>3. PICK g : Runs(g, b, Texts, <<>>, step)
  <2> HIDE DEF step, b
  <2>1. <<>> \in Texts
    BY OneChar
  <2>2. QED BY <1>1, <1>2, <2>1, Recursion
<1> HIDE DEF step
<1>4. g = JoinStep(lines, g)
  <2>1. ASSUME NEW n \in 0..b
        PROVE  g[n] = JoinStep(lines, g)[n]
    <3>1. CASE n = 0
      BY <1>3, <3>1 DEF JoinStep, Runs
    <3>2. CASE n # 0
      <4>1. n \in 1..b /\ n - 1 \in 0..b
        BY <1>1, <3>2
      <4>2. <<n, g[n - 1]>> \in (1..b) \X Texts
        BY <1>3, <4>1 DEF Runs
      <4>3. g[n] = IF n = 1 THEN lines[1] ELSE g[n - 1] \o <<Newline>> \o lines[n]
        BY <1>3, <4>1, <4>2 DEF step, Runs
      <4>4. QED BY <3>2, <4>3 DEF JoinStep
    <3>3. QED BY <3>1, <3>2
  <2>2. JoinStep(lines, g) = [n \in 0..b |-> JoinStep(lines, g)[n]]
    BY DEF JoinStep
  <2>3. QED BY <1>3, <2>1, <2>2 DEF Runs
<1> DEFINE F == CHOOSE f : f = JoinStep(lines, f)
<1>5. F = JoinStep(lines, F) /\ Join(lines) = F[b]
  BY <1>4 DEF Join, JoinStep
<1> HIDE DEF F
<1>6. \A n \in 0..b : n \in {m \in 0..b : F[m] = g[m]}
  <2> DEFINE T == {m \in 0..b : F[m] = g[m]}
  <2>1. \A n \in 0..b : F[n] = IF n = 0 THEN <<>> ELSE IF n = 1 THEN lines[1] ELSE F[n - 1] \o <<Newline>> \o lines[n]
    BY <1>5 DEF JoinStep
  <2>2. \A n \in 0..b : g[n] = IF n = 0 THEN <<>> ELSE IF n = 1 THEN lines[1] ELSE g[n - 1] \o <<Newline>> \o lines[n]
    BY <1>4 DEF JoinStep
  <2>3. 0 \in T
    <3>1. 0 \in 0..b
      BY <1>1
    <3>2. F[0] = <<>> /\ g[0] = <<>>
      BY <2>1, <2>2, <3>1
    <3>3. QED BY <3>1, <3>2
  <2>4. ASSUME NEW n \in 1..b, n - 1 \in T
        PROVE  n \in T
    <3>1. n \in 0..b /\ n # 0 /\ F[n - 1] = g[n - 1]
      BY <1>1, <2>4
    <3>2. F[n] = g[n]
      BY <2>1, <2>2, <3>1
    <3>3. QED BY <3>1, <3>2
  <2> HIDE DEF T
  <2>5. \A n \in 0..b : n \in T
    BY <1>1, <2>3, <2>4, UpTo
  <2>6. QED BY <2>5 DEF T
<1>7. Join(lines) = g[b]
  BY <1>1, <1>5, <1>6
<1>8. QED BY <1>3, <1>4, <1>7 DEF Runs

LEMMA JoinType ==
    ASSUME NEW lines \in Seq(Texts)
    PROVE  Join(lines) \in Texts
<1>1. PICK f \in [0..Len(lines) -> Texts] : Join(lines) = f[Len(lines)]
  BY JoinUpTo
<1>2. QED BY <1>1

\* A line more.
LEMMA JoinAppend ==
    ASSUME NEW lines \in Seq(Texts), NEW l \in Texts
    PROVE  Join(Append(lines, l)) =
             IF lines = <<>> THEN l ELSE Join(lines) \o <<Newline>> \o l
<1> DEFINE more == Append(lines, l)
           n == Len(lines)
<1>1. n \in Nat /\ more \in Seq(Texts) /\ Len(more) = n + 1 /\ more[n + 1] = l
      /\ \A i \in 1..n : more[i] = lines[i]
  OBVIOUS
<1>2. PICK f \in [0..n -> Texts] : f = JoinStep(lines, f) /\ Join(lines) = f[n]
  BY JoinUpTo
<1>3. PICK g \in [0..n + 1 -> Texts] : g = JoinStep(more, g) /\ Join(more) = g[n + 1]
  BY <1>1, JoinUpTo
<1> HIDE DEF more
<1>4. f[n] = g[n]
  <2> DEFINE T == {m \in 0..n : f[m] = g[m]}
  <2>0. \A m \in 0..n : m \in 0..Len(lines) /\ m \in 0..Len(more)
    BY <1>1
  <2>1. \A m \in 0..n : f[m] = IF m = 0 THEN <<>> ELSE IF m = 1 THEN lines[1] ELSE f[m - 1] \o <<Newline>> \o lines[m]
    BY <1>2, <2>0 DEF JoinStep
  <2>2. \A m \in 0..n : g[m] = IF m = 0 THEN <<>> ELSE IF m = 1 THEN more[1] ELSE g[m - 1] \o <<Newline>> \o more[m]
    BY <1>3, <2>0 DEF JoinStep
  <2>3. 0 \in T
    <3>1. 0 \in 0..n
      BY <1>1
    <3>2. f[0] = <<>> /\ g[0] = <<>>
      BY <2>1, <2>2, <3>1
    <3>3. QED BY <3>1, <3>2
  <2>4. ASSUME NEW m \in 1..n, m - 1 \in T
        PROVE  m \in T
    <3>1. m \in 0..n /\ m # 0 /\ f[m - 1] = g[m - 1] /\ more[m] = lines[m] /\ (m = 1 => more[1] = lines[1])
      BY <1>1, <2>4
    <3>2. f[m] = IF m = 1 THEN lines[1] ELSE f[m - 1] \o <<Newline>> \o lines[m]
      BY <2>1, <3>1
    <3>3. g[m] = IF m = 1 THEN more[1] ELSE g[m - 1] \o <<Newline>> \o more[m]
      BY <2>2, <3>1
    <3>4. f[m] = g[m]
      <4>1. CASE m = 1
        BY <3>1, <3>2, <3>3, <4>1
      <4>2. CASE m # 1
        BY <3>1, <3>2, <3>3, <4>2, Zenon
      <4>3. QED BY <4>1, <4>2
    <3>5. QED BY <3>1, <3>4
  <2> HIDE DEF T
  <2>5. \A m \in 0..n : m \in T
    BY <1>1, <2>3, <2>4, UpTo
  <2>6. n \in T
    BY <1>1, <2>5
  <2>7. QED BY <2>6 DEF T
<1>5. g[n + 1] = IF n + 1 = 0 THEN <<>> ELSE IF n + 1 = 1 THEN more[1] ELSE g[n] \o <<Newline>> \o more[n + 1]
  <2>1. n + 1 \in 0..Len(more) /\ n + 1 - 1 = n
    BY <1>1
  <2>2. \A m \in 0..Len(more) : g[m] = IF m = 0 THEN <<>> ELSE IF m = 1 THEN more[1] ELSE g[m - 1] \o <<Newline>> \o more[m]
    BY <1>3 DEF JoinStep
  <2>3. QED BY <2>1, <2>2
<1>6. CASE n = 0
  <2>1. lines = <<>> /\ g[n + 1] = more[1] /\ more[1] = l
    BY <1>1, <1>5, <1>6
  <2>2. QED BY <1>3, <2>1 DEF more
<1>7. CASE n # 0
  <2>1. lines # <<>> /\ g[n + 1] = g[n] \o <<Newline>> \o l
    BY <1>1, <1>5, <1>7
  <2>2. QED BY <1>2, <1>3, <1>4, <2>1 DEF more
<1>8. QED BY <1>6, <1>7
-----------------------------------------------------------------------------
(* Summary: packing neighbours                                              *)

Partial == [from : SUBSET Nat, tokens : 0..MaxPartial]

LEMMA SummaryConstants ==
    /\ MaxTail \in Nat /\ Separator \in Nat /\ MaxFolds \in Nat /\ MaxPartial \in Nat
    /\ MaxText \in Nat /\ PassLimit \in Nat \ {0} /\ MaxChunk \in Nat \ {0}
    /\ MaxSegments \in Nat \ {0} /\ MaxSegment \in Nat \ {0}
    /\ MinLine \in Nat /\ Threshold \in Nat /\ Threshold > 1 /\ MaxMarkers \in Nat
  BY SummaryAssumption, FiltersAssumption

TokensStep(items, f) ==
    [n \in 0..Len(items) |-> IF n = 0 THEN 0 ELSE f[n - 1] + items[n].tokens]

\* The tokens of partial summaries, added up one by one.
LEMMA TokensUpTo ==
    ASSUME NEW items \in Seq(Partial)
    PROVE  \E f : /\ Tokens(items) = f[Len(items)]
                  /\ f[0] = 0
                  /\ \A n \in 1..Len(items) : f[n] = f[n - 1] + items[n].tokens
<1> DEFINE b == Len(items)
           step == [p \in (1..b) \X Nat |-> p[2] + items[p[1]].tokens]
<1>1. b \in Nat /\ \A n \in 1..b : items[n].tokens \in Nat
  <2>1. \A n \in 1..b : items[n] \in Partial
    OBVIOUS
  <2>2. QED BY <2>1, SummaryConstants DEF Partial
<1>2. step \in [(1..b) \X Nat -> Nat]
  BY <1>1
<1>3. PICK g : Runs(g, b, Nat, 0, step)
  <2> HIDE DEF step, b
  <2>1. QED BY <1>1, <1>2, Recursion
<1>4. g = TokensStep(items, g)
  <2>1. ASSUME NEW n \in 0..b
        PROVE  g[n] = IF n = 0 THEN 0 ELSE g[n - 1] + items[n].tokens
    <3>1. CASE n = 0
      BY <1>3, <3>1 DEF Runs
    <3>2. CASE n # 0
      <4>1. n \in 1..b /\ n - 1 \in 0..b
        BY <1>1, <3>2
      <4>2. <<n, g[n - 1]>> \in (1..b) \X Nat
        BY <1>3, <4>1 DEF Runs
      <4>3. QED BY <1>3, <3>2, <4>1, <4>2 DEF Runs
    <3>3. QED BY <3>1, <3>2
  <2>2. g \in [0..b -> Nat]
    BY <1>3 DEF Runs
  <2> HIDE DEF step
  <2>3. QED BY <2>1, <2>2 DEF TokensStep
<1> DEFINE F == CHOOSE f : f = TokensStep(items, f)
<1>5. F = TokensStep(items, F) /\ Tokens(items) = F[b]
  BY <1>4 DEF Tokens, TokensStep
<1> HIDE DEF F
<1>6. \A n \in 0..b : F[n] = IF n = 0 THEN 0 ELSE F[n - 1] + items[n].tokens
  BY <1>5 DEF TokensStep
<1>7. F[0] = 0 /\ \A n \in 1..b : F[n] = F[n - 1] + items[n].tokens
  BY <1>1, <1>6
<1>8. QED BY <1>5, <1>7

LEMMA TokensOfFew ==
    ASSUME NEW items \in Seq(Partial), Len(items) <= 2
    PROVE  Tokens(items) \in Nat /\ Tokens(items) <= Len(items) * MaxPartial
<1>1. PICK f : /\ Tokens(items) = f[Len(items)]
               /\ f[0] = 0
               /\ \A n \in 1..Len(items) : f[n] = f[n - 1] + items[n].tokens
  BY TokensUpTo
<1>2. \A n \in 1..Len(items) : items[n].tokens \in 0..MaxPartial
  <2>1. \A n \in 1..Len(items) : items[n] \in Partial
    OBVIOUS
  <2>2. QED BY <2>1 DEF Partial
<1>3. Len(items) \in {0, 1, 2} /\ MaxPartial \in Nat
  <2>1. Len(items) \in Nat
    OBVIOUS
  <2>2. QED BY <2>1, SummaryConstants
<1>4. CASE Len(items) = 0
  BY <1>1, <1>3, <1>4
<1>5. CASE Len(items) = 1
  <2>1. f[1] = 0 + items[1].tokens
    BY <1>1, <1>5
  <2>2. QED BY <1>1, <1>2, <1>3, <1>5, <2>1
<1>6. CASE Len(items) = 2
  <2>1. f[1] = 0 + items[1].tokens /\ f[2] = f[1] + items[2].tokens
    BY <1>1, <1>6
  <2>2. QED BY <1>1, <1>2, <1>3, <1>6, <2>1
<1>7. QED BY <1>3, <1>4, <1>5, <1>6

\* The last items of groups that make up n items.
Groups(ends, n) ==
    /\ ends \in Seq(1..n)
    /\ \A g, h \in DOMAIN ends : g < h => ends[g] < ends[h]
    /\ n = 0 => ends = <<>>
    /\ n # 0 => ends # <<>> /\ ends[Len(ends)] = n

\* Every group but the last has two items at least.
Paired(ends) == \A g \in DOMAIN ends : g < Len(ends) => First(ends, g) < ends[g]

LEMMA FunctionIsSeq ==
    ASSUME NEW k \in Nat, NEW S, NEW f \in [1..k -> S]
    PROVE  f \in Seq(S) /\ Len(f) = k /\ DOMAIN f = 1..k
  OBVIOUS

LEMMA AppendIsSeq ==
    ASSUME NEW S, NEW s \in Seq(S), NEW e \in S
    PROVE  /\ Append(s, e) \in Seq(S) /\ Len(Append(s, e)) = Len(s) + 1
           /\ DOMAIN Append(s, e) = 1..Len(s) + 1 /\ Append(s, e)[Len(s) + 1] = e
           /\ \A i \in 1..Len(s) : Append(s, e)[i] = s[i]
  OBVIOUS

\* An item joins the last group, or makes one.
LEMMA OneItemMore ==
    ASSUME NEW n \in Nat \ {0}, NEW ends, Groups(ends, n - 1), NEW items \in Seq(Partial),
           n <= Len(items), NEW budget,
           NEW more, more = IF Fits(items, ends, n, budget) THEN [ends EXCEPT ![Len(ends)] = n]
                            ELSE Append(ends, n)
    PROVE  /\ Groups(more, n)
           /\ Paired(ends) /\ budget \in Nat /\ 2 * MaxPartial <= budget => Paired(more)
<1>0. PICK k : k = Len(ends)
  OBVIOUS
<1>1. /\ ends \in Seq(1..n - 1) /\ k \in Nat /\ Len(ends) = k /\ DOMAIN ends = 1..k
      /\ \A g \in 1..k : ends[g] \in 1..n - 1
      /\ \A g, h \in 1..k : g < h => ends[g] < ends[h]
      /\ n # 1 => k # 0 /\ ends[k] = n - 1
      /\ k # 0 <=> ends # <<>>
  <2>1. ends \in Seq(1..n - 1)
    BY DEF Groups
  <2>2. k \in Nat /\ Len(ends) = k /\ DOMAIN ends = 1..k /\ (k # 0 <=> ends # <<>>)
    BY <1>0, <2>1
  <2>3. \A g \in 1..k : ends[g] \in 1..n - 1
    BY <2>1, <2>2
  <2>4. \A g, h \in 1..k : g < h => ends[g] < ends[h]
    BY <2>2 DEF Groups
  <2>5. n # 1 => k # 0 /\ ends[k] = n - 1
    <3>1. n # 1 => n - 1 # 0
      OBVIOUS
    <3>2. QED BY <2>2, <3>1 DEF Groups
  <2>6. QED BY <2>1, <2>2, <2>3, <2>4, <2>5
<1>2. CASE Fits(items, ends, n, budget)
  <2>1. more = [ends EXCEPT ![k] = n] /\ k # 0
    BY <1>1, <1>2 DEF Fits
  <2>2. /\ more \in Seq(1..n) /\ Len(more) = k /\ DOMAIN more = 1..k
        /\ more[k] = n /\ \A g \in 1..k : g # k => more[g] = ends[g]
    <3>1. more \in [1..k -> 1..n]
      BY <1>1, <2>1
    <3>2. more \in Seq(1..n) /\ Len(more) = k /\ DOMAIN more = 1..k
      <4>1. k \in Nat
        BY <1>1
      <4>2. QED BY <3>1, <4>1, FunctionIsSeq
    <3>3. more[k] = n /\ \A g \in 1..k : g # k => more[g] = ends[g]
      BY <1>1, <2>1
    <3>4. QED BY <3>2, <3>3
  <2>3. Groups(more, n)
    <3>1. ASSUME NEW g \in 1..k, NEW h \in 1..k, g < h
          PROVE  more[g] < more[h]
      <4>1. more[g] = ends[g] /\ ends[g] < ends[h]
        BY <1>1, <2>2, <3>1
      <4>2. QED BY <1>1, <2>2, <3>1, <4>1
    <3>2. QED BY <2>1, <2>2, <3>1 DEF Groups
  <2>4. ASSUME Paired(ends), NEW g \in DOMAIN more, g < Len(more)
        PROVE  First(more, g) < more[g]
    <3>1. g \in 1..k /\ g # k
      BY <2>2, <2>4
    <3>2. First(more, g) = First(ends, g)
      <4>1. g # 1 => g - 1 \in 1..k /\ g - 1 # k
        BY <1>1, <3>1
      <4>2. QED BY <2>2, <4>1 DEF First
    <3>3. QED BY <1>1, <2>2, <2>4, <3>1, <3>2 DEF Paired
  <2>5. QED BY <2>3, <2>4 DEF Paired
<1>3. CASE ~Fits(items, ends, n, budget)
  <2>1. more = Append(ends, n)
    BY <1>3
  <2>2. /\ more \in Seq(1..n) /\ Len(more) = k + 1 /\ DOMAIN more = 1..k + 1
        /\ more[k + 1] = n /\ \A g \in 1..k : more[g] = ends[g]
    <3>1. ends \in Seq(1..n) /\ n \in 1..n
      <4>1. ends \in [1..k -> 1..n]
        BY <1>1
      <4>2. QED BY <1>1, <4>1
    <3>2. more \in Seq(1..n) /\ Len(more) = k + 1 /\ DOMAIN more = 1..k + 1
      <4>1. /\ Append(ends, n) \in Seq(1..n) /\ Len(Append(ends, n)) = Len(ends) + 1
            /\ DOMAIN Append(ends, n) = 1..Len(ends) + 1
        BY <3>1, AppendIsSeq
      <4>2. QED BY <1>1, <2>1, <4>1, Zenon
    <3>3. more[k + 1] = n /\ \A g \in 1..k : more[g] = ends[g]
      BY <1>1, <2>1
    <3>4. QED BY <3>2, <3>3
  <2>3. Groups(more, n)
    <3>1. ASSUME NEW g \in 1..k + 1, NEW h \in 1..k + 1, g < h
          PROVE  more[g] < more[h]
      <4>1. g \in 1..k /\ more[g] = ends[g] /\ ends[g] \in 1..n - 1
        BY <1>1, <2>2, <3>1
      <4>2. CASE h = k + 1
        BY <1>1, <2>2, <4>1, <4>2
      <4>3. CASE h # k + 1
        BY <1>1, <2>2, <3>1, <4>1, <4>3
      <4>4. QED BY <4>2, <4>3
    <3>2. more # <<>>
      <4>1. Len(more) # 0
        BY <1>1, <2>2
      <4>2. QED BY <4>1
    <3>3. QED BY <2>2, <3>1, <3>2 DEF Groups
  <2>4. ASSUME Paired(ends), budget \in Nat, 2 * MaxPartial <= budget,
               NEW g \in DOMAIN more, g < Len(more)
        PROVE  First(more, g) < more[g]
    <3>1. g \in 1..k
      BY <1>1, <2>2, <2>4
    <3>2. First(more, g) = First(ends, g) /\ more[g] = ends[g]
      <4>1. g # 1 => g - 1 \in 1..k
        BY <1>1, <3>1
      <4>2. QED BY <2>2, <3>1, <4>1 DEF First
    <3>3. CASE g < k
      BY <1>1, <2>4, <3>1, <3>2, <3>3 DEF Paired
    <3>4. CASE g = k
      <4>1. k # 0 /\ ends # <<>> /\ n # 1
        BY <1>1, <3>1
      <4>2. ends[k] = n - 1
        BY <1>1, <4>1
      <4>3. First(ends, k) \in 1..n - 1
        <5>1. CASE k = 1
          BY <1>1, <4>1, <5>1 DEF First
        <5>2. CASE k # 1
          <6>1. k - 1 \in 1..k /\ ends[k - 1] < ends[k] /\ ends[k - 1] \in 1..n - 1
            BY <1>1, <4>1, <5>2
          <6>2. QED BY <4>2, <5>2, <6>1 DEF First
        <5>3. QED BY <5>1, <5>2
      <4>4. First(ends, k) # n - 1
        <5> SUFFICES ASSUME First(ends, k) = n - 1 PROVE FALSE
          OBVIOUS
        <5>1. /\ SubSeq(items, n - 1, n) \in Seq(Partial)
              /\ Len(SubSeq(items, n - 1, n)) = 2
          <6>1. \A i \in n - 1..n : items[i] \in Partial
            BY <4>1
          <6>2. QED BY <4>1, <6>1, SubSeqProperties
        <5>2. Tokens(SubSeq(items, n - 1, n)) <= budget
          <6>1. /\ Tokens(SubSeq(items, n - 1, n)) \in Nat
                /\ Tokens(SubSeq(items, n - 1, n)) <= 2 * MaxPartial
            <7> DEFINE two == SubSeq(items, n - 1, n)
            <7>1. two \in Seq(Partial) /\ Len(two) = 2 /\ Len(two) <= 2
              BY <5>1
            <7> HIDE DEF two
            <7>2. Tokens(two) \in Nat /\ Tokens(two) <= Len(two) * MaxPartial
              BY <7>1, TokensOfFew
            <7>3. QED BY <7>1, <7>2 DEF two
          <6>2. QED BY <2>4, <6>1, SummaryConstants
        <5>3. First(ends, Len(ends)) = n - 1
          BY <1>1
        <5>4. QED BY <1>3, <4>1, <5>2, <5>3 DEF Fits
      <4>5. QED BY <3>2, <3>4, <4>2, <4>3, <4>4
    <3>5. QED BY <1>1, <3>1, <3>3, <3>4
  <2>5. QED BY <2>3, <2>4 DEF Paired
<1>4. QED BY <1>2, <1>3

PackStep(items, budget, f) ==
    [n \in 0..Len(items) |->
        IF n = 0 THEN <<>>
        ELSE LET ends == f[n - 1]
             IN  IF Fits(items, ends, n, budget) THEN [ends EXCEPT ![Len(ends)] = n]
                 ELSE Append(ends, n)]

\* Packing makes groups of all items; if any two fit, it pairs them.
LEMMA PackMakesGroups ==
    ASSUME NEW items \in Seq(Partial), NEW budget \in Nat
    PROVE  /\ Groups(Pack(items, budget), Len(items))
           /\ 2 * MaxPartial <= budget => Paired(Pack(items, budget))
<1> DEFINE b == Len(items)
           More(ends, n) == IF Fits(items, ends, n, budget) THEN [ends EXCEPT ![Len(ends)] = n]
                            ELSE Append(ends, n)
           step == [p \in (1..b) \X Seq(Nat) |-> More(p[2], p[1])]
<1>1. b \in Nat
  OBVIOUS
<1>2. step \in [(1..b) \X Seq(Nat) -> Seq(Nat)]
  <2>1. ASSUME NEW n \in 1..b, NEW ends \in Seq(Nat)
        PROVE  More(ends, n) \in Seq(Nat)
    <3>1. CASE Fits(items, ends, n, budget)
      <4>1. ends \in [1..Len(ends) -> Nat] /\ Len(ends) \in Nat /\ n \in Nat
        OBVIOUS
      <4>2. [ends EXCEPT ![Len(ends)] = n] \in [1..Len(ends) -> Nat]
        BY <4>1
      <4>3. QED BY <3>1, <4>1, <4>2
    <3>2. CASE ~Fits(items, ends, n, budget)
      BY <3>2
    <3>3. QED BY <3>1, <3>2
  <2> HIDE DEF More
  <2>2. QED BY <2>1
<1>3. PICK f : Runs(f, b, Seq(Nat), <<>>, step)
  <2> HIDE DEF step, b
  <2>1. <<>> \in Seq(Nat)
    OBVIOUS
  <2>2. QED BY <1>1, <1>2, <2>1, Recursion
<1>4. f = PackStep(items, budget, f)
  <2>1. ASSUME NEW n \in 0..b
        PROVE  f[n] = IF n = 0 THEN <<>> ELSE More(f[n - 1], n)
    <3> HIDE DEF More
    <3>1. CASE n = 0
      BY <1>3, <3>1 DEF Runs
    <3>2. CASE n # 0
      <4>1. n \in 1..b /\ n - 1 \in 0..b
        BY <1>1, <3>2
      <4>2. <<n, f[n - 1]>> \in (1..b) \X Seq(Nat)
        BY <1>3, <4>1 DEF Runs
      <4>3. QED BY <1>3, <3>2, <4>1, <4>2 DEF Runs
    <3>3. QED BY <3>1, <3>2
  <2>2. f \in [0..b -> Seq(Nat)]
    BY <1>3 DEF Runs
  <2> HIDE DEF step
  <2>3. QED BY <2>1, <2>2 DEF PackStep
<1> DEFINE F == CHOOSE g : g = PackStep(items, budget, g)
<1>5. F = PackStep(items, budget, F) /\ Pack(items, budget) = F[b]
  BY <1>4 DEF Pack, PackStep
<1> HIDE DEF F, step
<1>6. \A n \in 0..b : F[n] = IF n = 0 THEN <<>> ELSE More(F[n - 1], n)
  BY <1>5 DEF PackStep
<1> HIDE DEF More
<1> DEFINE Good(n) == Groups(F[n], n) /\ (2 * MaxPartial <= budget => Paired(F[n]))
           T == {n \in 0..b : Good(n)}
<1>7. 0 \in T
  <2>1. 0 \in 0..b /\ F[0] = <<>>
    BY <1>1, <1>6
  <2>2. Groups(<<>>, 0) /\ Paired(<<>>)
    BY DEF Groups, Paired
  <2>3. QED BY <2>1, <2>2
<1>8. ASSUME NEW n \in 1..b, n - 1 \in T
      PROVE  n \in T
  <2>1. n \in 0..b /\ n # 0 /\ n - 1 \in 0..b /\ n \in Nat \ {0} /\ n <= Len(items) /\ Good(n - 1)
    BY <1>1, <1>8
  <2>2. F[n] = More(F[n - 1], n)
    BY <1>6, <2>1
  <2>3. Good(n)
    BY <2>1, <2>2, OneItemMore DEF More
  <2>4. QED BY <2>1, <2>3
<1> HIDE DEF T
<1>9. \A n \in 0..b : n \in T
  BY <1>1, <1>7, <1>8, UpTo
<1>10. b \in T
  BY <1>1, <1>9
<1>11. QED BY <1>5, <1>10 DEF T

\* Half as many groups as items, rounded up.
LEMMA HalfAsMany ==
    ASSUME NEW n \in Nat, NEW ends, Groups(ends, n), Paired(ends)
    PROVE  2 * Len(ends) <= n + 1
<1>0. PICK k : k = Len(ends)
  OBVIOUS
<1> DEFINE T == {g \in 0..k : g = 0 \/ g = k \/ ends[g] >= 2 * g}
<1>1. /\ k \in Nat /\ Len(ends) = k /\ DOMAIN ends = 1..k /\ \A g \in 1..k : ends[g] \in 1..n
      /\ \A g, h \in 1..k : g < h => ends[g] < ends[h]
      /\ k # 0 => n # 0 /\ ends[k] = n
  <2>1. ends \in Seq(1..n)
    BY DEF Groups
  <2>2. k \in Nat /\ Len(ends) = k /\ DOMAIN ends = 1..k /\ (k # 0 <=> ends # <<>>)
    BY <1>0, <2>1
  <2>3. \A g \in 1..k : ends[g] \in 1..n
    BY <2>1, <2>2
  <2>4. \A g, h \in 1..k : g < h => ends[g] < ends[h]
    BY <2>2 DEF Groups
  <2>5. k # 0 => n # 0 /\ ends[k] = n
    BY <2>2 DEF Groups
  <2>6. QED BY <2>2, <2>3, <2>4, <2>5
<1>2. ASSUME NEW g \in 1..k, g - 1 \in T
      PROVE  g \in T
  <2>1. CASE g = k
    BY <2>1
  <2>2. CASE g # k
    <3>1. First(ends, g) < ends[g] /\ ends[g] \in Nat
      BY <1>1, <2>2 DEF Paired
    <3>2. CASE g = 1
      BY <3>1, <3>2 DEF First
    <3>3. CASE g # 1
      <4>1. g - 1 \in 1..k /\ ends[g - 1] >= 2 * (g - 1) /\ ends[g - 1] \in Nat
        BY <1>1, <1>2, <2>2, <3>3
      <4>2. QED BY <3>1, <3>3, <4>1 DEF First
    <3>4. QED BY <3>2, <3>3
  <2>3. QED BY <2>1, <2>2
<1>3. 0 \in T
  BY <1>1
<1> HIDE DEF T
<1>4. \A g \in 0..k : g \in T
  BY <1>1, <1>2, <1>3, UpTo
<1>5. CASE k <= 1
  BY <1>1, <1>5
<1>6. CASE k > 1
  <2>1. k - 1 \in T /\ k - 1 \in 1..k /\ k \in 1..k
    BY <1>1, <1>4, <1>6
  <2>2. ends[k - 1] >= 2 * (k - 1) /\ ends[k - 1] < ends[k] /\ ends[k - 1] \in Nat
    BY <1>1, <1>6, <2>1 DEF T
  <2>3. QED BY <1>1, <1>6, <2>2
<1>7. QED BY <1>1, <1>5, <1>6
\* The groups share out the items, in order.
LEMMA GroupsCover ==
    ASSUME NEW n \in Nat, NEW ends, Groups(ends, n)
    PROVE  /\ \A g \in DOMAIN ends : First(ends, g) \in 1..n /\ ends[g] \in 1..n
           /\ \A g \in DOMAIN ends : First(ends, g) <= ends[g]
           /\ \A g, h \in DOMAIN ends : g < h => ends[g] < First(ends, h)
           /\ \A i \in 1..n : \E g \in DOMAIN ends : i \in First(ends, g)..ends[g]
<1>0. PICK k : k = Len(ends)
  OBVIOUS
<1>1. /\ k \in Nat /\ Len(ends) = k /\ DOMAIN ends = 1..k
      /\ n # 0 => k # 0 /\ ends[k] = n
  <2>1. ends \in Seq(1..n)
    BY DEF Groups
  <2>2. k \in Nat /\ Len(ends) = k /\ DOMAIN ends = 1..k /\ (k # 0 <=> ends # <<>>)
    BY <1>0, <2>1
  <2>3. QED BY <2>2 DEF Groups
<1>2. \A g \in 1..k : ends[g] \in 1..n
  <2>1. ends \in Seq(1..n)
    BY DEF Groups
  <2>2. QED BY <1>1, <2>1
<1>3. \A g, h \in 1..k : g < h => ends[g] < ends[h]
  BY <1>1 DEF Groups
<1>4. ASSUME NEW g \in 1..k
      PROVE  /\ First(ends, g) \in 1..n /\ First(ends, g) <= ends[g]
             /\ g # 1 => First(ends, g) = ends[g - 1] + 1
  <2>1. CASE g = 1
    BY <1>1, <1>2, <2>1 DEF First
  <2>2. CASE g # 1
    <3>1. g - 1 \in 1..k /\ g - 1 < g
      BY <1>1, <2>2
    <3>2. ends[g - 1] < ends[g] /\ ends[g - 1] \in 1..n /\ ends[g] \in 1..n
      BY <1>2, <1>3, <3>1
    <3>3. First(ends, g) = ends[g - 1] + 1
      BY <2>2 DEF First
    <3>4. QED BY <3>2, <3>3
  <2>3. QED BY <2>1, <2>2
<1>5. ASSUME NEW g \in 1..k, NEW h \in 1..k, g < h
      PROVE  ends[g] < First(ends, h)
  <2>1. h - 1 \in 1..k /\ h # 1 /\ g <= h - 1
    BY <1>1, <1>5
  <2>2. ends[g] <= ends[h - 1]
    BY <1>2, <1>3, <2>1
  <2>3. QED BY <1>2, <1>4, <2>1, <2>2
<1>6. ASSUME NEW i \in 1..n
      PROVE  \E g \in 1..k : i \in First(ends, g)..ends[g]
  <2> DEFINE T == {g \in 1..k : i <= ends[g]}
  <2>1. k \in T
    BY <1>1
  <2>2. PICK g \in T : \A h \in T : g <= h
    <3>1. T \in SUBSET Nat /\ T # {}
      BY <2>1
    <3> HIDE DEF T
    <3>2. QED BY <3>1, LeastNumber
  <2>3. First(ends, g) <= i
    <3>1. CASE g = 1
      BY <3>1 DEF First
    <3>2. CASE g # 1
      <4>1. g - 1 \in 1..k /\ g - 1 \notin T
        BY <1>1, <2>2, <3>2
      <4>2. ends[g - 1] < i
        BY <1>2, <4>1
      <4>3. QED BY <1>2, <1>4, <2>2, <3>2, <4>1, <4>2
    <3>3. QED BY <3>1, <3>2
  <2>4. QED BY <1>2, <1>4, <2>2, <2>3
<1>7. QED BY <1>1, <1>2, <1>4, <1>5, <1>6

-----------------------------------------------------------------------------
(* Summary: from segments to the last prompt                                *)

All(sets) == UNION {sets[i] : i \in DOMAIN sets}
InSequence(sets) ==
    \A i, j \in DOMAIN sets : i < j => \A a \in sets[i], b \in sets[j] : a < b

\* The segments before next are in the chunks and in the one under construction.
Splitting ==
    /\ next \in 1..Len(segs) + 1
    /\ cur \in [from : SUBSET (1..next - 1), tokens : Nat]
    /\ chunks \in Seq(SUBSET (1..next - 1))
    /\ All(chunks) \cup cur.from = 1..next - 1
    /\ InSequence(chunks)
    /\ \A i \in DOMAIN chunks : \A a \in chunks[i], b \in cur.from : a < b
    /\ next = 1 => chunks = <<>> /\ cur = Nothing
    /\ next # 1 => Len(chunks) <= next - 2
    /\ partials = <<>> /\ folds = 0

\* One partial summary for each chunk before next.
Mapping ==
    /\ chunks \in Seq(SUBSET Nat) /\ Len(chunks) <= MaxSegments
    /\ All(chunks) = DOMAIN segs /\ InSequence(chunks)
    /\ next \in 1..Len(chunks) + 1
    /\ partials \in Seq(Partial) /\ Len(partials) = next - 1
    /\ \A i \in 1..next - 1 : partials[i].from = chunks[i]
    /\ folds = 0

Ordered(items) ==
    \A i, j \in DOMAIN items : i < j => \A a \in items[i].from, b \in items[j].from : a < b

Folding ==
    /\ partials \in Seq(Partial)
    /\ Sources(partials) = DOMAIN segs /\ Ordered(partials)
    /\ folds \in 0..MaxFolds /\ chunks = <<>>

MapInv ==
    /\ pc \in {"start", "split", "map", "fold", "stream", "done", "failed"}
    /\ pc \in {"start", "split", "map", "fold"} =>
         segs \in Seq(1..MaxSegment) /\ Len(segs) \in 1..MaxSegments
    /\ pc = "start" => next = 1 /\ cur = Nothing /\ chunks = <<>> /\ partials = <<>> /\ folds = 0
    /\ pc = "split" => Splitting
    /\ pc = "map" => Mapping
    /\ pc = "fold" => Folding
    /\ pc \in {"stream", "done", "failed"} => chunks = <<>> /\ partials = <<>>

LEMMA MapInit == SummaryInit => MapInv
<1> SUFFICES ASSUME SummaryInit PROVE MapInv
  OBVIOUS
<1>1. PICK n \in 1..MaxSegments : segs \in [1..n -> 1..MaxSegment]
  BY DEF SummaryInit
<1>2. segs \in Seq(1..MaxSegment) /\ Len(segs) = n
  BY <1>1, FunctionIsSeq, SummaryConstants
<1>3. QED BY <1>2 DEF SummaryInit, MapInv

LEMMA NothingIs == Nothing.from = {} /\ Nothing.tokens = 0 /\ Nothing \in [from : SUBSET {}, tokens : Nat]
  BY DEF Nothing

LEMMA MapBegin == ASSUME MapInv, Begin PROVE MapInv'
<1>1. CASE pc' = "stream"
  BY <1>1 DEF MapInv, Begin, Forget
<1>2. CASE pc' = "split" /\ UNCHANGED mapping
  <2>1. /\ segs' = segs /\ next' = 1 /\ cur' = Nothing /\ chunks' = <<>>
        /\ partials' = <<>> /\ folds' = 0
    BY <1>2 DEF MapInv, Begin, mapping
  <2>2. segs \in Seq(1..MaxSegment) /\ Len(segs) \in 1..MaxSegments
    BY DEF MapInv, Begin
  <2>3. Splitting'
    <3>1. cur'.from = {} /\ cur' \in [from : SUBSET (1..next' - 1), tokens : Nat]
      BY <2>1, NothingIs
    <3>2. chunks' \in Seq(SUBSET (1..next' - 1)) /\ DOMAIN chunks' = {} /\ All(chunks)' = {}
      BY <2>1 DEF All
    <3>3. 1..next' - 1 = {} /\ next' \in 1..Len(segs') + 1
      BY <2>1, <2>2
    <3>4. QED BY <2>1, <3>1, <3>2, <3>3 DEF Splitting, InSequence
  <2>4. QED BY <1>2, <2>1, <2>2, <2>3 DEF MapInv
<1>3. QED BY <1>1, <1>2 DEF Begin

LEMMA MapSplit == ASSUME MapInv, Split PROVE MapInv'
<1>1. /\ pc = "split" /\ pc' = "split" /\ next <= Len(segs) /\ next' = next + 1
      /\ segs' = segs /\ partials' = partials /\ folds' = folds
      /\ segs \in Seq(1..MaxSegment) /\ Len(segs) \in 1..MaxSegments /\ Splitting
  BY DEF Split, MapInv
<1>2. next \in 1..Len(segs) /\ segs[next] \in Nat /\ cur.tokens \in Nat /\ cur.from \in SUBSET (1..next - 1)
  BY <1>1, SummaryConstants DEF Splitting
<1>3. chunks \in Seq(SUBSET (1..next)) /\ Len(chunks) \in Nat
  <2>1. SUBSET (1..next - 1) \subseteq SUBSET (1..next)
    BY <1>2
  <2>2. chunks \in Seq(SUBSET (1..next - 1))
    BY <1>1 DEF Splitting
  <2>3. chunks \in [1..Len(chunks) -> SUBSET (1..next)] /\ Len(chunks) \in Nat
    BY <2>1, <2>2
  <2>4. QED BY <2>3, FunctionIsSeq
<1>4. CASE cur.tokens + segs[next] > Target /\ cur # Nothing
  <2>1. PICK tail \in 0..MaxTail :
          chunks' = Append(chunks, cur.from) /\ cur' = [from |-> {next}, tokens |-> tail + segs[next]]
    BY <1>4 DEF Split
  <2>2. tail \in Nat
    BY SummaryConstants
  <2>3. next # 1
    BY <1>1, <1>4 DEF Splitting
  <2>4. /\ chunks' \in Seq(SUBSET (1..next)) /\ Len(chunks') = Len(chunks) + 1
        /\ DOMAIN chunks' = 1..Len(chunks) + 1 /\ chunks'[Len(chunks) + 1] = cur.from
        /\ \A i \in 1..Len(chunks) : chunks'[i] = chunks[i]
    <3>1. cur.from \in SUBSET (1..next)
      BY <1>2
    <3>2. QED BY <1>3, <2>1, <3>1, AppendIsSeq
  <2>5. cur' \in [from : SUBSET (1..next), tokens : Nat] /\ cur'.from = {next}
    BY <1>2, <2>1, <2>2
  <2>6. All(chunks)' \cup cur'.from = 1..next
    <3>1. All(chunks)' = All(chunks) \cup cur.from
      <4>1. DOMAIN chunks = 1..Len(chunks)
        BY <1>3
      <4>2. QED BY <1>3, <2>4, <4>1 DEF All
    <3>2. All(chunks) \cup cur.from = 1..next - 1
      BY <1>1 DEF Splitting
    <3>3. QED BY <1>2, <2>5, <3>1, <3>2
  <2>7. InSequence(chunks)'
    <3> SUFFICES ASSUME NEW i \in DOMAIN chunks', NEW j \in DOMAIN chunks', i < j,
                        NEW a \in chunks'[i], NEW b \in chunks'[j]
                 PROVE  a < b
      BY DEF InSequence
    <3>1. DOMAIN chunks = 1..Len(chunks)
      BY <1>3
    <3>2. i \in 1..Len(chunks)
      BY <1>3, <2>4
    <3>3. CASE j = Len(chunks) + 1
      BY <1>1, <2>4, <3>1, <3>2, <3>3 DEF Splitting
    <3>4. CASE j # Len(chunks) + 1
      <4>1. j \in 1..Len(chunks)
        BY <1>3, <2>4, <3>4
      <4>2. QED BY <1>1, <2>4, <3>1, <3>2, <4>1 DEF Splitting, InSequence
    <3>5. QED BY <3>3, <3>4
  <2>8. \A i \in DOMAIN chunks' : \A a \in chunks'[i], b \in cur'.from : a < b
    <3> SUFFICES ASSUME NEW i \in DOMAIN chunks', NEW a \in chunks'[i] PROVE a < next
      BY <2>5
    <3>1. chunks'[i] \in SUBSET (1..next - 1)
      <4>1. CASE i = Len(chunks) + 1
        BY <1>2, <2>4, <4>1
      <4>2. CASE i # Len(chunks) + 1
        <5>1. i \in 1..Len(chunks)
          BY <1>3, <2>4, <4>2
        <5>2. chunks[i] \in SUBSET (1..next - 1)
          BY <1>1, <5>1 DEF Splitting
        <5>3. QED BY <2>4, <5>1, <5>2
      <4>3. QED BY <4>1, <4>2
    <3>2. QED BY <1>2, <3>1
  <2>9. Len(chunks') <= next' - 2 /\ next' # 1
    BY <1>1, <1>2, <1>3, <2>3, <2>4 DEF Splitting
  <2>10. Splitting'
    <3>1. next' - 1 = next /\ next' \in 1..Len(segs') + 1
      BY <1>1, <1>2
    <3>2. partials' = <<>> /\ folds' = 0
      BY <1>1 DEF Splitting
    <3>3. QED BY <2>4, <2>5, <2>6, <2>7, <2>8, <2>9, <3>1, <3>2 DEF Splitting
  <2>11. QED BY <1>1, <2>10 DEF MapInv
<1>5. CASE ~(cur.tokens + segs[next] > Target /\ cur # Nothing)
  <2>1. cur' = [from |-> cur.from \cup {next}, tokens |-> cur.tokens + segs[next]] /\ chunks' = chunks
    BY <1>5 DEF Split
  <2>2. cur' \in [from : SUBSET (1..next), tokens : Nat] /\ cur'.from = cur.from \cup {next}
    BY <1>2, <2>1
  <2>3. All(chunks)' \cup cur'.from = 1..next
    <3>1. All(chunks) \cup cur.from = 1..next - 1 /\ All(chunks)' = All(chunks)
      BY <1>1, <2>1 DEF Splitting, All
    <3>2. QED BY <1>2, <2>2, <3>1
  <2>4. \A i \in DOMAIN chunks' : \A a \in chunks'[i], b \in cur'.from : a < b
    <3> SUFFICES ASSUME NEW i \in DOMAIN chunks, NEW a \in chunks[i], NEW b \in cur.from \cup {next}
                 PROVE  a < b
      BY <2>1, <2>2
    <3>1. CASE b \in cur.from
      BY <1>1, <3>1 DEF Splitting
    <3>2. CASE b = next
      <4>1. chunks[i] \in SUBSET (1..next - 1)
        BY <1>1 DEF Splitting
      <4>2. QED BY <1>2, <3>2, <4>1
    <3>3. QED BY <3>1, <3>2
  <2>5. Len(chunks') <= next' - 2 /\ next' # 1
    <3>1. CASE next = 1
      <4>1. chunks = <<>>
        BY <1>1, <3>1 DEF Splitting
      <4>2. QED BY <1>1, <2>1, <3>1, <4>1
    <3>2. CASE next # 1
      BY <1>1, <1>2, <1>3, <2>1, <3>2 DEF Splitting
    <3>3. QED BY <3>1, <3>2
  <2>6. Splitting'
    <3>1. next' - 1 = next /\ next' \in 1..Len(segs') + 1
      BY <1>1, <1>2
    <3>2. partials' = <<>> /\ folds' = 0 /\ InSequence(chunks)'
      BY <1>1, <2>1 DEF Splitting, InSequence
    <3>3. QED BY <1>3, <2>1, <2>2, <2>3, <2>4, <2>5, <3>1, <3>2 DEF Splitting
  <2>7. QED BY <1>1, <2>6 DEF MapInv
<1>6. QED BY <1>4, <1>5
LEMMA MapSplitEnd == ASSUME MapInv, SplitEnd PROVE MapInv'
<1>1. CASE pc' = "stream" /\ Forget
  BY <1>1 DEF MapInv, Forget
<1>2. CASE ~(chunks = <<>> /\ cur.tokens < PassLimit)
  <2>1. /\ pc = "split" /\ next > Len(segs) /\ pc' = "map" /\ next' = 1
        /\ chunks' = Append(chunks, cur.from)
        /\ segs' = segs /\ partials' = partials /\ folds' = folds
        /\ segs \in Seq(1..MaxSegment) /\ Len(segs) \in 1..MaxSegments /\ Splitting
    BY <1>2 DEF MapInv, SplitEnd
  <2>2. next = Len(segs) + 1 /\ DOMAIN segs = 1..next - 1 /\ next # 1
    BY <2>1 DEF Splitting
  <2>3. chunks \in Seq(SUBSET Nat) /\ Len(chunks) \in Nat /\ DOMAIN chunks = 1..Len(chunks)
    <3>1. SUBSET (1..next - 1) \subseteq SUBSET Nat
      BY <2>2
    <3>2. chunks \in Seq(SUBSET (1..next - 1))
      BY <2>1 DEF Splitting
    <3>3. chunks \in [1..Len(chunks) -> SUBSET Nat] /\ Len(chunks) \in Nat
      BY <3>1, <3>2
    <3>4. QED BY <3>3, FunctionIsSeq
  <2>4. /\ chunks' \in Seq(SUBSET Nat) /\ Len(chunks') = Len(chunks) + 1
        /\ DOMAIN chunks' = 1..Len(chunks) + 1 /\ chunks'[Len(chunks) + 1] = cur.from
        /\ \A i \in 1..Len(chunks) : chunks'[i] = chunks[i]
    <3>1. cur.from \in SUBSET Nat
      BY <2>1 DEF Splitting
    <3>2. QED BY <2>1, <2>3, <3>1, AppendIsSeq
  <2>5. All(chunks)' = DOMAIN segs
    <3>1. All(chunks)' = All(chunks) \cup cur.from
      BY <2>3, <2>4 DEF All
    <3>2. All(chunks) \cup cur.from = 1..next - 1
      BY <2>1 DEF Splitting
    <3>3. QED BY <2>2, <3>1, <3>2
  <2>6. InSequence(chunks)'
    <3> SUFFICES ASSUME NEW i \in DOMAIN chunks', NEW j \in DOMAIN chunks', i < j,
                        NEW a \in chunks'[i], NEW b \in chunks'[j]
                 PROVE  a < b
      BY DEF InSequence
    <3>1. i \in 1..Len(chunks)
      BY <2>3, <2>4
    <3>2. CASE j = Len(chunks) + 1
      BY <2>1, <2>3, <2>4, <3>1, <3>2 DEF Splitting
    <3>3. CASE j # Len(chunks) + 1
      <4>1. j \in 1..Len(chunks)
        BY <2>3, <2>4, <3>3
      <4>2. QED BY <2>1, <2>3, <2>4, <3>1, <4>1 DEF Splitting, InSequence
    <3>4. QED BY <3>2, <3>3
  <2>7. Len(chunks') <= MaxSegments
    BY <2>1, <2>2, <2>3, <2>4, SummaryConstants DEF Splitting
  <2>8. Mapping'
    <3>1. next' \in 1..Len(chunks') + 1 /\ next' - 1 = 0 /\ 1..next' - 1 = {}
      BY <2>1, <2>3, <2>4
    <3>2. partials' = <<>> /\ partials' \in Seq(Partial) /\ Len(partials') = 0 /\ folds' = 0
      BY <2>1 DEF Splitting
    <3>3. QED BY <2>1, <2>4, <2>5, <2>6, <2>7, <3>1, <3>2 DEF Mapping
  <2>9. QED BY <2>1, <2>8 DEF MapInv
<1>3. QED BY <1>1, <1>2 DEF SplitEnd

LEMMA MapMap == ASSUME MapInv, Map PROVE MapInv'
<1>1. /\ pc = "map" /\ pc' = "map" /\ next <= Len(chunks) /\ next' = next + 1
      /\ segs' = segs /\ chunks' = chunks /\ folds' = folds
      /\ segs \in Seq(1..MaxSegment) /\ Len(segs) \in 1..MaxSegments /\ Mapping
  BY DEF Map, MapInv
<1>2. PICK n \in 0..MaxPartial : partials' = Append(partials, [from |-> chunks[next], tokens |-> n])
  BY DEF Map
<1>3. next \in 1..Len(chunks) /\ chunks[next] \in SUBSET Nat /\ Len(chunks) \in Nat
  BY <1>1 DEF Mapping
<1>4. /\ partials' \in Seq(Partial) /\ Len(partials') = next
      /\ partials'[next].from = chunks[next]
      /\ \A i \in 1..next - 1 : partials'[i] = partials[i]
  <2>1. [from |-> chunks[next], tokens |-> n] \in Partial
    BY <1>3 DEF Partial
  <2>2. partials \in Seq(Partial) /\ Len(partials) + 1 = next /\ Len(partials) = next - 1
    BY <1>1, <1>3 DEF Mapping
  <2>3. /\ partials' \in Seq(Partial) /\ Len(partials') = Len(partials) + 1
        /\ partials'[Len(partials) + 1] = [from |-> chunks[next], tokens |-> n]
        /\ \A i \in 1..Len(partials) : partials'[i] = partials[i]
    BY <1>2, <2>1, <2>2, AppendIsSeq
  <2>4. QED BY <2>2, <2>3
<1>5. \A i \in 1..next : partials'[i].from = chunks[i]
  <2>1. \A i \in 1..next : i = next \/ i \in 1..next - 1
    BY <1>3
  <2>2. \A i \in 1..next - 1 : partials[i].from = chunks[i]
    BY <1>1 DEF Mapping
  <2>3. QED BY <1>4, <2>1, <2>2
<1>6. Mapping'
  <2>1. next' \in 1..Len(chunks') + 1 /\ next' - 1 = next
    BY <1>1, <1>3
  <2>2. /\ chunks' \in Seq(SUBSET Nat) /\ Len(chunks') <= MaxSegments
        /\ All(chunks') = DOMAIN segs' /\ InSequence(chunks') /\ folds' = 0
    BY <1>1 DEF Mapping
  <2>3. \A i \in 1..next' - 1 : partials'[i].from = chunks'[i]
    BY <1>1, <1>5, <2>1
  <2>4. QED BY <1>4, <2>1, <2>2, <2>3 DEF Mapping
<1>7. QED BY <1>1, <1>6 DEF MapInv

LEMMA MapMapEnd == ASSUME MapInv, MapEnd PROVE MapInv'
<1>1. /\ pc = "map" /\ pc' = "fold" /\ next > Len(chunks) /\ chunks' = <<>>
      /\ segs' = segs /\ partials' = partials /\ folds' = folds
      /\ segs \in Seq(1..MaxSegment) /\ Len(segs) \in 1..MaxSegments /\ Mapping
  BY DEF MapEnd, MapInv
<1>2. Len(chunks) \in Nat /\ next - 1 = Len(chunks) /\ DOMAIN chunks = 1..Len(chunks)
  BY <1>1 DEF Mapping
<1>3. /\ partials \in Seq(Partial) /\ DOMAIN partials = DOMAIN chunks
      /\ \A i \in DOMAIN chunks : partials[i].from = chunks[i]
  <2>1. partials \in Seq(Partial) /\ Len(partials) = Len(chunks)
    BY <1>1, <1>2 DEF Mapping
  <2>2. DOMAIN partials = 1..Len(chunks)
    BY <2>1
  <2>3. QED BY <1>1, <1>2, <2>1, <2>2 DEF Mapping
<1>4. Sources(partials) = DOMAIN segs
  <2>1. Sources(partials) = All(chunks)
    BY <1>3 DEF Sources, All
  <2>2. QED BY <1>1, <2>1 DEF Mapping
<1>5. Ordered(partials)
  BY <1>1, <1>3 DEF Ordered, Mapping, InSequence
<1>6. folds \in 0..MaxFolds
  BY <1>1, SummaryConstants DEF Mapping
<1>7. Folding'
  BY <1>1, <1>3, <1>4, <1>5, <1>6 DEF Folding, Sources, Ordered
<1>8. QED BY <1>1, <1>7 DEF MapInv

\* What a fold makes of the partial summaries.
LEMMA FoldedIs ==
    ASSUME MapInv, Fold
    PROVE  LET ends == Pack(partials, PassLimit) IN
             /\ partials \in Seq(Partial) /\ Groups(ends, Len(partials))
             /\ partials' \in Seq(Partial) /\ DOMAIN partials' = DOMAIN ends /\ Len(partials') = Len(ends)
             /\ \A g \in DOMAIN ends :
                  partials'[g].from = UNION {partials[i].from : i \in First(ends, g)..ends[g]}
<1> DEFINE ends == Pack(partials, PassLimit)
           alone == {g \in DOMAIN ends : First(ends, g) = ends[g]}
<1>0. PICK b : b = Len(partials)
  OBVIOUS
<1>1. partials \in Seq(Partial) /\ b \in Nat /\ Len(partials) = b
  BY <1>0 DEF MapInv, Folding, Fold
<1>2. PICK n \in [DOMAIN ends -> 0..MaxPartial] :
        partials' = [g \in DOMAIN ends |->
                IF g \in alone THEN partials[ends[g]]
                ELSE [from |-> Sources(Group(partials, ends, g)), tokens |-> n[g]]]
  BY DEF Fold
<1>3. Groups(ends, Len(partials))
  BY <1>1, PackMakesGroups, SummaryConstants
<1> HIDE DEF ends
<1>4. /\ ends \in Seq(1..b) /\ Len(ends) \in Nat /\ DOMAIN ends = 1..Len(ends)
      /\ \A g \in DOMAIN ends : First(ends, g) \in 1..b /\ ends[g] \in 1..b
      /\ \A g \in DOMAIN ends : First(ends, g) <= ends[g]
  <2>1. ends \in Seq(1..b)
    BY <1>1, <1>3 DEF Groups
  <2>2. Groups(ends, b)
    BY <1>1, <1>3
  <2>3. QED BY <1>1, <2>1, <2>2, GroupsCover
<1>5. \A i \in 1..b : partials[i] \in Partial /\ partials[i].from \in SUBSET Nat
  <2>1. \A i \in 1..b : partials[i] \in Partial
    BY <1>1
  <2>2. QED BY <2>1 DEF Partial
<1>6. ASSUME NEW g \in DOMAIN ends
      PROVE  /\ partials'[g] \in Partial
             /\ partials'[g].from = UNION {partials[i].from : i \in First(ends, g)..ends[g]}
  <2>1. CASE g \in alone
    <3>1. partials'[g] = partials[ends[g]]
      BY <1>2, <2>1
    <3>2. First(ends, g)..ends[g] = {ends[g]}
      BY <1>4, <2>1
    <3>3. QED BY <1>4, <1>5, <3>1, <3>2
  <2>2. CASE g \notin alone
    <3> DEFINE m == First(ends, g)
               e == ends[g]
    <3>0. m \in 1..b /\ e \in 1..b /\ m <= e
      BY <1>4
    <3>1. partials'[g] = [from |-> Sources(SubSeq(partials, m, e)), tokens |-> n[g]]
      BY <1>2, <2>2 DEF Group
    <3>2. Sources(SubSeq(partials, m, e)) = UNION {partials[i].from : i \in m..e}
      <4> HIDE DEF m, e
      <4> DEFINE sub == SubSeq(partials, m, e)
      <4>1. \A i \in m..e : partials[i] \in Partial
        BY <1>1, <1>5, <3>0
      <4>2. /\ sub \in Seq(Partial) /\ Len(sub) = e - m + 1
            /\ \A i \in 1..e - m + 1 : sub[i] = partials[m + i - 1]
        BY <1>1, <3>0, <4>1, SubSeqProperties
      <4> HIDE DEF sub
      <4>3. DOMAIN sub = 1..e - m + 1
        BY <4>2
      <4>4. ASSUME NEW i \in DOMAIN sub
            PROVE  m + i - 1 \in m..e /\ sub[i].from = partials[m + i - 1].from
        BY <1>1, <3>0, <4>2, <4>3
      <4>5. ASSUME NEW i \in m..e
            PROVE  i - m + 1 \in DOMAIN sub /\ sub[i - m + 1].from = partials[i].from
        <5>1. i - m + 1 \in 1..e - m + 1 /\ m + (i - m + 1) - 1 = i
          BY <1>1, <3>0
        <5>2. QED BY <4>2, <4>3, <5>1
      <4>6. {sub[i].from : i \in DOMAIN sub} = {partials[i].from : i \in m..e}
        BY <4>4, <4>5
      <4>7. QED BY <4>6 DEF Sources, sub
    <3>3. Sources(SubSeq(partials, m, e)) \in SUBSET Nat
      <4>1. \A i \in m..e : partials[i].from \in SUBSET Nat
        BY <1>1, <1>5, <3>0
      <4>2. QED BY <3>2, <4>1
    <3> HIDE DEF m, e
    <3>4. partials'[g] \in Partial /\ partials'[g].from = UNION {partials[i].from : i \in m..e}
      BY <1>2, <3>1, <3>2, <3>3 DEF Partial
    <3>5. QED BY <3>4 DEF m, e
  <2>3. QED BY <2>1, <2>2
<1>7. partials' \in [1..Len(ends) -> Partial]
  <2>1. partials' = [g \in DOMAIN ends |-> partials'[g]]
    BY <1>2
  <2>2. QED BY <1>4, <1>6, <2>1
<1>8. partials' \in Seq(Partial) /\ DOMAIN partials' = DOMAIN ends /\ Len(partials') = Len(ends)
  BY <1>4, <1>7, FunctionIsSeq
<1>9. QED BY <1>1, <1>3, <1>6, <1>8 DEF ends

LEMMA MapFold == ASSUME MapInv, Fold PROVE MapInv'
<1> DEFINE ends == Pack(partials, PassLimit)
<1>1. /\ pc = "fold" /\ pc' = "fold" /\ folds' = folds + 1 /\ folds < MaxFolds
      /\ segs' = segs /\ chunks' = chunks
      /\ segs \in Seq(1..MaxSegment) /\ Len(segs) \in 1..MaxSegments /\ Folding
  BY DEF Fold, MustFold, MapInv
<1>0. PICK b : b = Len(partials)
  OBVIOUS
<1>2. /\ partials \in Seq(Partial) /\ Groups(ends, b)
      /\ partials' \in Seq(Partial) /\ DOMAIN partials' = DOMAIN ends
      /\ \A g \in DOMAIN ends :
           partials'[g].from = UNION {partials[i].from : i \in First(ends, g)..ends[g]}
      /\ b \in Nat /\ DOMAIN partials = 1..b
  BY <1>0, FoldedIs
<1> HIDE DEF ends
<1>3. /\ \A g \in DOMAIN ends : First(ends, g) \in 1..b /\ ends[g] \in 1..b
      /\ \A g, h \in DOMAIN ends : g < h => ends[g] < First(ends, h)
      /\ \A i \in 1..b : \E g \in DOMAIN ends : i \in First(ends, g)..ends[g]
  BY <1>2, GroupsCover
<1>4. \A g \in DOMAIN ends : First(ends, g)..ends[g] \subseteq 1..b
  <2> SUFFICES ASSUME NEW g \in DOMAIN ends, NEW i \in First(ends, g)..ends[g] PROVE i \in 1..b
    OBVIOUS
  <2>1. First(ends, g) \in 1..b /\ ends[g] \in 1..b /\ b \in Nat
    BY <1>2, <1>3
  <2>2. i \in Int /\ First(ends, g) <= i /\ i <= ends[g]
    BY <2>1
  <2>3. QED BY <2>1, <2>2
<1>5. Sources(partials)' = Sources(partials)
  <2>1. ASSUME NEW a \in Sources(partials)
        PROVE  a \in Sources(partials)'
    <3>1. PICK i \in 1..b : a \in partials[i].from
      BY <1>2, <2>1 DEF Sources
    <3>2. PICK g \in DOMAIN ends : i \in First(ends, g)..ends[g]
      BY <1>3
    <3>3. a \in partials'[g].from
      BY <1>2, <3>1, <3>2
    <3>4. QED BY <1>2, <3>3 DEF Sources
  <2>2. ASSUME NEW a \in Sources(partials)'
        PROVE  a \in Sources(partials)
    <3>1. PICK g \in DOMAIN ends : a \in partials'[g].from
      BY <1>2, <2>2 DEF Sources
    <3>2. PICK i \in First(ends, g)..ends[g] : a \in partials[i].from
      BY <1>2, <3>1
    <3>3. i \in DOMAIN partials
      BY <1>2, <1>4
    <3>4. QED BY <3>2, <3>3 DEF Sources
  <2>3. QED BY <2>1, <2>2
<1>6. Ordered(partials)'
  <2> SUFFICES ASSUME NEW g \in DOMAIN ends, NEW h \in DOMAIN ends, g < h,
                      NEW a \in partials'[g].from, NEW c \in partials'[h].from
               PROVE  a < c
    BY <1>2 DEF Ordered
  <2>1. PICK i \in First(ends, g)..ends[g] : a \in partials[i].from
    BY <1>2
  <2>2. PICK j \in First(ends, h)..ends[h] : c \in partials[j].from
    BY <1>2
  <2>3. i \in 1..b /\ j \in 1..b /\ i < j
    <3>1. ends[g] < First(ends, h) /\ ends[g] \in 1..b /\ First(ends, h) \in 1..b
      BY <1>3
    <3>2. i \in 1..b /\ j \in 1..b
      BY <1>4
    <3>3. i <= ends[g] /\ First(ends, h) <= j
      OBVIOUS
    <3>4. QED BY <1>2, <3>1, <3>2, <3>3
  <2>4. QED BY <1>1, <1>2, <2>1, <2>2, <2>3 DEF Folding, Ordered
<1>7. folds' \in 0..MaxFolds
  BY <1>1, SummaryConstants DEF Folding
<1>8. Folding'
  BY <1>1, <1>2, <1>5, <1>6, <1>7 DEF Folding
<1>9. QED BY <1>1, <1>8 DEF MapInv

LEMMA MapNext == MapInv /\ [SummaryNext]_summaryVars => MapInv'
<1> SUFFICES ASSUME MapInv, [SummaryNext]_summaryVars PROVE MapInv'
  OBVIOUS
<1>1. CASE Begin      BY <1>1, MapBegin
<1>2. CASE Split      BY <1>2, MapSplit
<1>3. CASE SplitEnd   BY <1>3, MapSplitEnd
<1>4. CASE Map        BY <1>4, MapMap
<1>5. CASE MapEnd     BY <1>5, MapMapEnd
<1>6. CASE Fold       BY <1>6, MapFold
<1>7. CASE Reduce     BY <1>7 DEF Reduce, Forget, MapInv
<1>8. CASE Fail       BY <1>8 DEF Fail, Forget, MapInv
<1>9. CASE Delta
  <2>1. pc = "stream" /\ pc' = "stream" /\ chunks' = chunks /\ partials' = partials
    BY <1>9 DEF Delta, mapping
  <2>2. QED BY <2>1 DEF MapInv
<1>10. CASE End
  <2>1. pc = "stream" /\ pc' \in {"done", "failed"} /\ chunks' = chunks /\ partials' = partials
    BY <1>10 DEF End, mapping
  <2>2. QED BY <2>1 DEF MapInv
<1>11. CASE UNCHANGED summaryVars
  BY <1>11 DEF summaryVars, mapping, MapInv, Splitting, Mapping, Folding, All, InSequence, Sources, Ordered
<1>12. QED BY <1>1, <1>2, <1>3, <1>4, <1>5, <1>6, <1>7, <1>8, <1>9, <1>10, <1>11 DEF SummaryNext

LEMMA MapInvariance == SummarySpec => []MapInv
  BY MapInit, MapNext, PTL DEF SummarySpec

LEMMA FoldEnds ==
    ASSUME pc = "fold", pc' = "stream", [SummaryNext]_summaryVars
    PROVE  Reduce
  BY DEF SummaryNext, Begin, Split, SplitEnd, Map, MapEnd, Fold, Reduce, Delta, End, Fail, summaryVars

\* Every segment of a long text reaches the last call, in its order
\* (summary.py:338-405).
THEOREM EverySegmentIsThere == SummarySpec => NothingLeftOut
<1>1. MapInv /\ [SummaryNext]_summaryVars =>
        [pc = "fold" /\ pc' = "stream" =>
           /\ Sources(partials) = DOMAIN segs
           /\ \A i, j \in DOMAIN partials : i < j =>
                \A a \in partials[i].from, b \in partials[j].from : a < b]_summaryVars
  BY DEF MapInv, Folding, Ordered
<1>2. QED BY <1>1, MapInvariance, PTL DEF SummarySpec, NothingLeftOut
-----------------------------------------------------------------------------
(* Summary: how many folds it takes                                         *)


TwoFit == 2 * MaxPartial + Separator <= PassLimit

\* Every fold halves the number of partial summaries.
FewEnough(f) == pc = "fold" /\ TwoFit => Len(partials) <= f[MaxFolds + 1 - folds]

LEMMA FewNext ==
    ASSUME NEW CONSTANT f, Doubles(f, MaxFolds + 1), MaxSegments <= f[MaxFolds + 1],
           MapInv, FewEnough(f), [SummaryNext]_summaryVars
    PROVE  FewEnough(f)'
<1> SUFFICES ASSUME pc' = "fold", TwoFit PROVE Len(partials') <= f[MaxFolds + 1 - folds']
  BY DEF FewEnough, TwoFit
<1>1. CASE MapEnd
  <2>1. Mapping /\ next > Len(chunks) /\ partials' = partials /\ folds' = folds
    BY <1>1 DEF MapEnd, MapInv
  <2>2. Len(partials') <= MaxSegments /\ folds' = 0 /\ Len(partials') \in Nat
    BY <2>1, SummaryConstants DEF Mapping
  <2>3. MaxFolds + 1 - 0 = MaxFolds + 1 /\ f[MaxFolds + 1] \in Nat
    BY SummaryConstants DEF Doubles
  <2>4. QED BY <2>2, <2>3, SummaryConstants
<1>2. CASE Fold
  <2>1. /\ pc = "fold" /\ folds' = folds + 1 /\ folds < MaxFolds /\ folds \in Nat
        /\ partials \in Seq(Partial)
    BY <1>2 DEF Fold, MustFold, MapInv, Folding
  <2>2. Len(partials) <= f[MaxFolds + 1 - folds]
    BY <2>1 DEF FewEnough
  <2>3. 2 * Len(partials') <= Len(partials) + 1 /\ Len(partials') \in Nat /\ Len(partials) \in Nat
    <3> DEFINE ends == Pack(partials, PassLimit)
    <3>1. Groups(ends, Len(partials)) /\ Len(partials') = Len(ends) /\ partials' \in Seq(Partial)
      BY <1>2, FoldedIs
    <3>2. 2 * MaxPartial <= PassLimit /\ PassLimit \in Nat
      BY SummaryConstants DEF TwoFit
    <3>3. Paired(ends)
      BY <2>1, <3>2, PackMakesGroups
    <3> HIDE DEF ends
    <3>4. Len(partials) \in Nat /\ Len(partials') \in Nat
      BY <2>1, <3>1
    <3>5. 2 * Len(ends) <= Len(partials) + 1
      BY <3>1, <3>3, <3>4, HalfAsMany
    <3>6. QED BY <3>1, <3>4, <3>5
  <2>4. PICK k : k = MaxFolds - folds
    OBVIOUS
  <2>5. k + 1 \in 1..MaxFolds + 1 /\ k \in 0..MaxFolds + 1 /\ k + 1 - 1 = k
        /\ MaxFolds + 1 - folds = k + 1 /\ MaxFolds + 1 - folds' = k
    BY <2>1, <2>4, SummaryConstants
  <2>6. f[k + 1] = 2 * f[k] /\ f[k] \in Nat
    BY <2>5 DEF Doubles
  <2>7. QED BY <2>2, <2>3, <2>5, <2>6
<1>3. CASE UNCHANGED summaryVars
  BY <1>3 DEF summaryVars, mapping, FewEnough
<1>4. MapEnd \/ Fold \/ UNCHANGED summaryVars
  BY DEF SummaryNext, Begin, Split, SplitEnd, Map, MapEnd, Fold, Reduce, Delta, End, Fail, summaryVars,
         MapInv
<1>5. QED BY <1>1, <1>2, <1>3, <1>4

LEMMA LastPromptStep ==
    ASSUME NEW CONSTANT f, Doubles(f, MaxFolds + 1), MapInv, FewEnough(f), Reduce, TwoFit
    PROVE  Combined(partials) <= PassLimit
<1>0. PICK n : n = Len(partials)
  OBVIOUS
<1>1. /\ partials \in Seq(Partial) /\ n \in Nat /\ Len(partials) = n /\ ~MustFold
      /\ folds \in 0..MaxFolds /\ n <= f[MaxFolds + 1 - folds]
  BY <1>0 DEF MapInv, Folding, FewEnough, Reduce
<1>2. CASE n <= 2
  <2>1. Tokens(partials) \in Nat /\ Tokens(partials) <= n * MaxPartial
    BY <1>1, <1>2, TokensOfFew
  <2>2. n \in {0, 1, 2}
    BY <1>1, <1>2
  <2>3. Tokens(partials) + Separator * (n - 1) <= 2 * MaxPartial + Separator
    <3>1. CASE n = 0  BY <2>1, <3>1, SummaryConstants
    <3>2. CASE n = 1  BY <2>1, <3>2, SummaryConstants
    <3>3. CASE n = 2  BY <2>1, <3>3, SummaryConstants
    <3>4. QED BY <2>2, <3>1, <3>2, <3>3
  <2>4. Combined(partials) = Tokens(partials) + Separator * (n - 1)
        /\ Tokens(partials) + Separator * (n - 1) \in Int
    <3>1. Separator * (n - 1) \in Int
      BY <1>1, SummaryConstants
    <3>2. QED BY <1>1, <2>1, <3>1 DEF Combined
  <2>5. QED BY <2>3, <2>4, SummaryConstants DEF TwoFit
<1>3. CASE n > 2
  <2>1. folds < MaxFolds
    <3>1. CASE folds = MaxFolds
      <4>1. MaxFolds + 1 - folds = 1 /\ 1 \in 1..MaxFolds + 1 /\ 1 - 1 = 0
        BY <3>1, SummaryConstants
      <4>2. f[1] = 2
        BY <4>1 DEF Doubles
      <4>3. QED BY <1>1, <1>3, <4>1, <4>2
    <3>2. QED BY <1>1, <3>1, SummaryConstants
  <2>2. Len(Pack(partials, PassLimit)) < n
    <3> DEFINE ends == Pack(partials, PassLimit)
    <3>1. 2 * MaxPartial <= PassLimit /\ PassLimit \in Nat
      BY SummaryConstants DEF TwoFit
    <3>2. Groups(ends, n) /\ Paired(ends)
      BY <1>1, <3>1, PackMakesGroups
    <3> HIDE DEF ends
    <3>3. 2 * Len(ends) <= n + 1
      BY <1>1, <3>2, HalfAsMany
    <3>4. Len(ends) \in Nat
      BY <3>2 DEF Groups
    <3>5. Len(ends) < n
      BY <1>1, <1>3, <3>3, <3>4
    <3>6. QED BY <3>5 DEF ends
  <2>3. ~(Combined(partials) > PassLimit)
    BY <1>1, <1>3, <2>1, <2>2 DEF MustFold
  <2>4. Combined(partials) \in Int
    <3>1. PICK g : /\ Tokens(partials) = g[n] /\ g[0] = 0
                   /\ \A m \in 1..n : g[m] = g[m - 1] + partials[m].tokens
      BY <1>1, TokensUpTo
    <3> DEFINE T == {m \in 0..n : g[m] \in Nat}
    <3>2. \A m \in 1..n : partials[m].tokens \in Nat
      <4>1. \A m \in 1..n : partials[m] \in Partial
        BY <1>1
      <4>2. QED BY <4>1, SummaryConstants DEF Partial
    <3>3. 0 \in T
      BY <1>1, <3>1
    <3>4. ASSUME NEW m \in 1..n, m - 1 \in T
          PROVE  m \in T
      <4>1. g[m] = g[m - 1] + partials[m].tokens
        BY <3>1
      <4>2. g[m - 1] \in Nat /\ partials[m].tokens \in Nat /\ m \in 0..n
        BY <1>1, <3>2, <3>4
      <4>3. QED BY <4>1, <4>2
    <3> HIDE DEF T
    <3>5. \A m \in 0..n : m \in T
      BY <1>1, <3>3, <3>4, UpTo
    <3>6. g[n] \in Nat
      BY <1>1, <3>5 DEF T
    <3>7. QED BY <1>1, <3>1, <3>6, SummaryConstants DEF Combined
  <2>5. QED BY <2>3, <2>4, SummaryConstants
<1>4. QED BY <1>1, <1>2, <1>3

\* When any two partial summaries fit the limit together, the last prompt fits
\* it, for as many segments as MaxFolds + 1 doublings make: after every round of
\* folding there are half as many partial summaries, and a round is skipped
\* only when it is not needed (summary.py:391-398).
THEOREM LastPromptIsFolded ==
    ASSUME NEW CONSTANT f, Doubles(f, MaxFolds + 1), MaxSegments <= f[MaxFolds + 1]
    PROVE  SummarySpec => LastPromptFits
<1>1. SummaryInit => FewEnough(f)
  BY DEF SummaryInit, FewEnough
<1>2. MapInv /\ FewEnough(f) /\ [SummaryNext]_summaryVars => FewEnough(f)'
  BY FewNext
<1>3. SummarySpec => []FewEnough(f)
  BY <1>1, <1>2, MapInvariance, PTL DEF SummarySpec
<1>4. MapInv /\ FewEnough(f) /\ [SummaryNext]_summaryVars =>
        [pc = "fold" /\ pc' = "stream" /\ 2 * MaxPartial + Separator <= PassLimit
           => Combined(partials) <= PassLimit]_summaryVars
  BY LastPromptStep, FoldEnds DEF TwoFit
<1>5. QED BY <1>3, <1>4, MapInvariance, PTL DEF SummarySpec, LastPromptFits
-----------------------------------------------------------------------------
(* Summary: the guard against repetition                                    *)

LEMMA FrontLast ==
    ASSUME NEW S, NEW s \in Seq(S), NEW e \in S
    PROVE  Front(Append(s, e)) = s /\ Last(Append(s, e)) = e
<1> DEFINE t == Append(s, e)
           n == Len(s)
<1>1. t \in Seq(S) /\ Len(t) = n + 1 /\ t[n + 1] = e /\ n \in Nat /\ \A i \in 1..n : t[i] = s[i]
  OBVIOUS
<1> HIDE DEF t
<1>2. \A i \in 1..n : t[i] \in S
  <2>1. \A i \in 1..n : s[i] \in S
    OBVIOUS
  <2>2. QED BY <1>1, <2>1
<1>3. /\ SubSeq(t, 1, n) \in Seq(S) /\ Len(SubSeq(t, 1, n)) = n
      /\ \A i \in 1..n : SubSeq(t, 1, n)[i] = t[1 + i - 1]
  BY <1>1, <1>2, SubSeqProperties
<1>4. \A i \in 1..n : SubSeq(t, 1, n)[i] = s[i]
  BY <1>1, <1>3
<1>5. SubSeq(t, 1, n) = s
  BY <1>1, <1>3, <1>4, SeqEqual
<1>6. Front(t) = s
  <2>1. Len(t) - 1 = n
    BY <1>1
  <2>2. QED BY <1>5, <2>1 DEF Front
<1>7. QED BY <1>1, <1>6 DEF Last, t

LEMMA Cancel ==
    ASSUME NEW S, NEW s \in Seq(S), NEW t \in Seq(S), NEW v \in Seq(S), s \o v = t \o v
    PROVE  s = t
<1>1. Len(s) = Len(t)
  <2>1. Len(s \o v) = Len(s) + Len(v) /\ Len(t \o v) = Len(t) + Len(v)
    BY ConcatProperties
  <2>2. Len(s) \in Nat /\ Len(t) \in Nat /\ Len(v) \in Nat
    OBVIOUS
  <2>3. QED BY <2>1, <2>2
<1>2. ASSUME NEW i \in 1..Len(s)
      PROVE  s[i] = t[i]
  <2>1. Len(s) \in Nat /\ Len(v) \in Nat /\ i <= Len(s) /\ i \in 1..Len(s) + Len(v)
    OBVIOUS
  <2>2. (s \o v)[i] = s[i]
    BY <2>1, ConcatProperties
  <2>3. (t \o v)[i] = t[i]
    BY <1>1, <2>1, ConcatProperties
  <2>4. QED BY <2>2, <2>3
<1>3. QED BY <1>1, <1>2, SeqEqual

LEMMA TextsClosed ==
    /\ \A s, t \in Texts : s \o t \in Texts
    /\ \A s \in Texts, c \in Char : Append(s, c) \in Texts /\ Append(s, c) = s \o <<c>>
    /\ \A s \in Texts : s \o <<>> = s /\ <<>> \o s = s
    /\ \A s, t, u \in Texts : (s \o t) \o u = s \o (t \o u)
    /\ \A s, t, v \in Texts : s \o v = t \o v => s = t
<1>1. \A s, t \in Texts : s \o t \in Texts
  BY ConcatProperties DEF Texts
<1>2. \A s \in Texts, c \in Char : Append(s, c) \in Texts /\ Append(s, c) = s \o <<c>>
  BY AppendIsConcat, AppendIsSeq DEF Texts
<1>3. \A s \in Texts : s \o <<>> = s /\ <<>> \o s = s
  BY ConcatEmptySeq DEF Texts
<1>4. \A s, t, u \in Texts : (s \o t) \o u = s \o (t \o u)
  BY ConcatAssociative DEF Texts
<1>5. \A s, t, v \in Texts : s \o v = t \o v => s = t
  BY Cancel DEF Texts
<1>6. QED BY <1>1, <1>2, <1>3, <1>4, <1>5

LEMMA Assoc ==
    ASSUME NEW s \in Texts, NEW t \in Texts, NEW u \in Texts
    PROVE  (s \o t) \o u = s \o (t \o u)
<1>1. s \in Seq(Char) /\ t \in Seq(Char) /\ u \in Seq(Char)
  BY DEF Texts
<1>2. QED BY <1>1, ConcatAssociative

\* How often a line stands among others.
Count(lines, l) == Cardinality({j \in 1..Len(lines) : lines[j] = l})

LEMMA CountMore ==
    ASSUME NEW S, NEW lines \in Seq(S), NEW e \in S, NEW l
    PROVE  /\ Count(lines, l) \in Nat
           /\ Count(lines, l) = 0 <=> \A j \in 1..Len(lines) : lines[j] # l
           /\ Count(Append(lines, e), l) = IF l = e THEN Count(lines, l) + 1 ELSE Count(lines, l)
<1> DEFINE I == {j \in 1..Len(lines) : lines[j] = l}
           n == Len(lines)
           more == Append(lines, e)
<1>1. /\ n \in Nat /\ Len(more) = n + 1 /\ more[n + 1] = e /\ \A i \in 1..n : more[i] = lines[i]
  OBVIOUS
<1>2. IsFiniteSet(I) /\ Cardinality(I) \in Nat
  <2>1. IsFiniteSet(1..n)
    BY <1>1, FS_Interval
  <2>2. QED BY <2>1, FS_Subset, FS_CardinalityType
<1>3. Cardinality(I) = 0 <=> I = {}
  BY <1>2, FS_EmptySet
<1> HIDE DEF more
<1>4. {j \in 1..n + 1 : more[j] = l} = IF l = e THEN I \cup {n + 1} ELSE I
  BY <1>1
<1>5. n + 1 \notin I
  BY <1>1
<1>6. Cardinality(I \cup {n + 1}) = Cardinality(I) + 1
  BY <1>2, <1>5, FS_AddElement
<1>7. Count(more, l) = IF l = e THEN Cardinality(I) + 1 ELSE Cardinality(I)
  BY <1>1, <1>4, <1>6 DEF Count
<1>8. QED BY <1>2, <1>3, <1>7 DEF Count, more

LEMMA EarlierSame ==
    ASSUME NEW C \in Seq(Texts), NEW L \in Texts
    PROVE  /\ \A i \in 1..Len(C) : Earlier(Append(C, L), i) = Earlier(C, i)
           /\ Earlier(Append(C, L), Len(C) + 1) = Count(C, L)
<1>0. PICK n, D : n = Len(C) /\ D = Append(C, L)
  OBVIOUS
<1>1. n \in Nat /\ D[n + 1] = L /\ \A j \in 1..n : D[j] = C[j]
  <2>1. n \in Nat
    BY <1>0
  <2>2. QED BY <1>0, <2>1, AppendIsSeq
<1>2. ASSUME NEW i \in 1..n
      PROVE  Earlier(D, i) = Earlier(C, i)
  <2>1. {j \in 1..i - 1 : D[j] = D[i]} = {j \in 1..i - 1 : C[j] = C[i]}
    <3>1. \A j \in 1..i - 1 : j \in 1..n
      BY <1>1
    <3>2. QED BY <1>1, <3>1
  <2>2. QED BY <2>1 DEF Earlier
<1>3. Earlier(D, n + 1) = Count(C, L)
  <2>1. {j \in 1..(n + 1) - 1 : D[j] = D[n + 1]} = {j \in 1..n : C[j] = L}
    BY <1>1
  <2>2. QED BY <1>0, <2>1 DEF Earlier, Count
<1>4. QED BY <1>0, <1>2, <1>3

\* A line makes a loop when it was there often enough.
LEMMA LoopMore ==
    ASSUME NEW C \in Seq(Texts), NEW L \in Texts, Looping(C) = {}
    PROVE  \A i : i \in Looping(Append(C, L)) <=>
             i = Len(C) + 1 /\ Countable(L) /\ Count(C, L) >= Threshold - 1
<1>0. PICK n, D : n = Len(C) /\ D = Append(C, L)
  OBVIOUS
<1>1. /\ n \in Nat /\ DOMAIN C = 1..n /\ DOMAIN D = 1..n + 1
      /\ D[n + 1] = L /\ \A i \in 1..n : D[i] = C[i]
  <2>1. n \in Nat /\ DOMAIN C = 1..n
    BY <1>0
  <2>2. QED BY <1>0, <2>1, AppendIsSeq
<1>2. Earlier(D, n + 1) = Count(C, L) /\ \A i \in 1..n : Earlier(D, i) = Earlier(C, i)
  BY <1>0, EarlierSame
<1>3. \A i \in 1..n : i \notin Looping(D)
  BY <1>1, <1>2 DEF Looping
<1>4. n + 1 \in Looping(D) <=> Countable(L) /\ Count(C, L) >= Threshold - 1
  BY <1>1, <1>2 DEF Looping
<1>5. \A i \in Looping(D) : i \in 1..n \/ i = n + 1
  BY <1>1 DEF Looping
<1>6. QED BY <1>0, <1>3, <1>4, <1>5

\* Whether a line is kept depends on those before it.
LEMMA KeptMore ==
    ASSUME NEW C \in Seq(Texts), NEW L \in Texts, Looping(C) = {}
    PROVE  \A i : i \in Kept(Append(C, L)) <=>
             \/ i \in Kept(C)
             \/ i = Len(C) + 1 /\ (Countable(L) => Count(C, L) = 0)
<1>0. PICK n, D : n = Len(C) /\ D = Append(C, L)
  OBVIOUS
<1>1. /\ n \in Nat /\ DOMAIN C = 1..n /\ DOMAIN D = 1..n + 1
      /\ D[n + 1] = L /\ \A i \in 1..n : D[i] = C[i]
  <2>1. n \in Nat /\ DOMAIN C = 1..n
    BY <1>0
  <2>2. QED BY <1>0, <2>1, AppendIsSeq
<1>2. Earlier(D, n + 1) = Count(C, L) /\ \A i \in 1..n : Earlier(D, i) = Earlier(C, i)
  BY <1>0, EarlierSame
<1>3. Count(C, L) \in Nat
  BY CountMore
<1>4. \A i \in Looping(D) : i = n + 1 /\ Countable(L) /\ Count(C, L) >= Threshold - 1
  BY <1>0, LoopMore
<1>5. (Countable(L) => Count(C, L) = 0) => Looping(D) = {}
  BY <1>3, <1>4, SummaryConstants
<1>6. \A i \in 1..n : i \in Kept(D) <=> i \in Kept(C)
  <2>1. \A i \in 1..n : \A j \in Looping(D) : i < j
    BY <1>1, <1>4
  <2>2. \A i \in 1..n : i \in Kept(D) <=> (Countable(C[i]) => Earlier(C, i) = 0)
    BY <1>1, <1>2, <2>1 DEF Kept
  <2>3. \A i \in 1..n : i \in Kept(C) <=> (Countable(C[i]) => Earlier(C, i) = 0)
    BY <1>1 DEF Kept
  <2>4. QED BY <2>2, <2>3
<1>7. n + 1 \in Kept(D) <=> (Countable(L) => Count(C, L) = 0)
  BY <1>1, <1>2, <1>5 DEF Kept
<1>8. \A i \in Kept(D) : i \in 1..n \/ i = n + 1
  BY <1>1 DEF Kept
<1>9. \A i \in Kept(C) : i \in 1..n
  BY <1>1 DEF Kept
<1>10. QED BY <1>0, <1>6, <1>7, <1>8, <1>9

SeenType == UNION {[S -> Nat] : S \in SUBSET Texts}
GuardType == [seen : SeenType, line : Texts, held : Texts, stop : BOOLEAN, out : Texts]

\* The countable lines among lines are seen, as often as they are there.
SeenIs(seen, lines) ==
    /\ DOMAIN seen = {lines[i] : i \in {j \in DOMAIN lines : Countable(lines[j])}}
    /\ \A l \in DOMAIN seen : seen[l] = Count(lines, l)

Held(g, line) == IF \E l \in DOMAIN g.seen : IsPrefix(line, l) THEN line ELSE <<>>

\* g is where the guard is after the lines C, within the line L.
Follows(g, C, L) ==
    /\ ~g.stop /\ g.line = L /\ g.held = Held(g, L)
    /\ Looping(C) = {} /\ SeenIs(g.seen, C)
    /\ g.out \o g.held = Join(Append(Trim(C), L))

LEMMA TrimWithoutLoop ==
    ASSUME NEW C \in Seq(Texts), Looping(C) = {}
    PROVE  Trim(C) = Select(C, Kept(C)) /\ Trim(C) \in Seq(Texts) /\ Kept(C) \subseteq DOMAIN C
<1>1. Trim(C) = Select(C, Kept(C))
  BY DEF Trim
<1>2. Kept(C) \subseteq DOMAIN C
  BY DEF Kept
<1>3. QED BY <1>1, <1>2, SelectType

LEMMA GuardStarts == GuardInit \in GuardType /\ Follows(GuardInit, <<>>, <<>>)
<1>1. [l \in {} |-> 0] \in SeenType /\ DOMAIN [l \in {} |-> 0] = {}
  <2>1. [l \in {} |-> 0] \in [{} -> Nat] /\ {} \in SUBSET Texts
    OBVIOUS
  <2>2. QED BY <2>1 DEF SeenType
<1>2. GuardInit \in GuardType
  BY <1>1, OneChar DEF GuardInit, GuardType
<1>3. <<>> \in Seq(Texts) /\ DOMAIN <<>> = {}
  OBVIOUS
<1>4. Looping(<<>>) = {} /\ Kept(<<>>) = {} /\ SeenIs(GuardInit.seen, <<>>)
  BY <1>1, <1>3 DEF Looping, Kept, SeenIs, GuardInit
<1>5. Trim(<<>>) = <<>>
  BY <1>3, <1>4, TrimWithoutLoop, SelectNone
<1>6. Join(Append(Trim(<<>>), <<>>)) = <<>>
  BY <1>3, <1>5, OneChar, JoinAppend
<1>7. GuardInit.out \o GuardInit.held = <<>>
  BY OneChar, TextsClosed DEF GuardInit
<1>8. QED BY <1>2, <1>4, <1>6, <1>7 DEF Follows, GuardInit, Held

LEMMA PrefixFacts ==
    /\ \A s \in Texts : IsPrefix(s, s)
    /\ \A s, t \in Texts, c \in Char : IsPrefix(Append(s, c), t) => IsPrefix(s, t)
<1>1. \A s \in Texts : IsPrefix(s, s)
  BY DEF IsPrefix, Texts
<1>2. ASSUME NEW s \in Texts, NEW t \in Texts, NEW c \in Char, IsPrefix(Append(s, c), t)
      PROVE  IsPrefix(s, t)
  <2> DEFINE n == Len(s)
             u == Append(s, c)
  <2>1. n \in Nat /\ Len(u) = n + 1 /\ \A i \in 1..n : u[i] = s[i]
    BY DEF Texts
  <2>2. n + 1 <= Len(t) /\ SubSeq(u, 1, n + 1) = SubSeq(t, 1, n + 1)
    BY <1>2, <2>1 DEF IsPrefix
  <2>3. /\ Len(t) \in Nat /\ \A i \in 1..Len(t) : t[i] \in Char
        /\ u \in Seq(Char) /\ \A i \in 1..n + 1 : u[i] \in Char
    BY <2>1 DEF Texts
  <2> HIDE DEF u
  <2>4. \A i \in 1..n + 1 : SubSeq(u, 1, n + 1)[i] = u[i] /\ SubSeq(t, 1, n + 1)[i] = t[i]
    <3>1. \A i \in 1..n + 1 : t[i] \in Char
      BY <2>1, <2>2, <2>3
    <3>2. \A i \in 1..(n + 1) - 1 + 1 : SubSeq(u, 1, n + 1)[i] = u[1 + i - 1]
      BY <2>1, <2>3, SubSeqProperties
    <3>3. \A i \in 1..(n + 1) - 1 + 1 : SubSeq(t, 1, n + 1)[i] = t[1 + i - 1]
      BY <2>1, <3>1, SubSeqProperties
    <3>4. QED BY <2>1, <3>2, <3>3
  <2>5. \A i \in 1..n : s[i] = t[i] /\ s[i] \in Char /\ t[i] \in Char
    <3>1. \A i \in 1..n : i \in 1..n + 1 /\ i \in 1..Len(t)
      BY <2>1, <2>2, <2>3
    <3>2. QED BY <2>1, <2>2, <2>3, <2>4, <3>1
  <2>6. SubSeq(s, 1, n) = SubSeq(t, 1, n)
    <3>1. /\ SubSeq(s, 1, n) \in Seq(Char) /\ Len(SubSeq(s, 1, n)) = n
          /\ \A i \in 1..n : SubSeq(s, 1, n)[i] = s[i]
      BY <2>1, <2>5, SubSeqProperties
    <3>2. /\ SubSeq(t, 1, n) \in Seq(Char) /\ Len(SubSeq(t, 1, n)) = n
          /\ \A i \in 1..n : SubSeq(t, 1, n)[i] = t[i]
      BY <2>1, <2>5, SubSeqProperties
    <3>3. \A i \in 1..n : SubSeq(s, 1, n)[i] = SubSeq(t, 1, n)[i]
      BY <2>5, <3>1, <3>2
    <3>4. QED BY <3>1, <3>2, <3>3, SeqEqual
  <2>7. n <= Len(t)
    BY <2>1, <2>2, <2>3
  <2>8. QED BY <2>6, <2>7 DEF IsPrefix
<1>3. QED BY <1>1, <1>2

\* A line that grows.
LEMMA JoinGrows ==
    ASSUME NEW X \in Seq(Texts), NEW L \in Texts, NEW t \in Texts
    PROVE  Join(Append(X, L \o t)) = Join(Append(X, L)) \o t
<1>1. L \o t \in Texts /\ Join(X) \in Texts /\ <<Newline>> \in Texts
  BY TextsClosed, JoinType, OneChar
<1>2. CASE X = <<>>
  BY <1>1, <1>2, JoinAppend
<1>3. CASE X # <<>>
  <2>1. Join(Append(X, L \o t)) = Join(X) \o <<Newline>> \o (L \o t)
    BY <1>1, <1>3, JoinAppend
  <2>2. Join(Append(X, L)) = Join(X) \o <<Newline>> \o L
    BY <1>3, JoinAppend
  <2>3. Join(X) \o <<Newline>> \in Texts
    BY <1>1, TextsClosed
  <2>4. ((Join(X) \o <<Newline>>) \o L) \o t = (Join(X) \o <<Newline>>) \o (L \o t)
    BY <2>3, Assoc
  <2>5. QED BY <2>1, <2>2, <2>4
<1>4. QED BY <1>2, <1>3

LEMMA GuardTakesChar ==
    ASSUME NEW C \in Seq(Texts), NEW L \in Texts, NEW g \in GuardType, Follows(g, C, L),
           NEW c \in Char
    PROVE  /\ GuardChar(g, c) \in GuardType /\ Follows(GuardChar(g, c), C, Append(L, c))
           /\ \E new \in Texts : GuardChar(g, c).out = g.out \o new
<1> DEFINE line == Append(L, c)
           h == GuardChar(g, c)
<1>1. /\ g.line = L /\ g.held = Held(g, L) /\ g.out \in Texts /\ g.held \in Texts
      /\ line \in Texts /\ line = L \o <<c>> /\ <<c>> \in Texts /\ Trim(C) \in Seq(Texts)
  BY OneChar, TextsClosed, TrimWithoutLoop DEF Follows, GuardType
<1>2. Join(Append(Trim(C), line)) = (g.out \o g.held) \o <<c>>
  <2>1. Join(Append(Trim(C), L \o <<c>>)) = Join(Append(Trim(C), L)) \o <<c>>
    BY <1>1, JoinGrows
  <2>2. QED BY <1>1, <2>1 DEF Follows
<1>3. CASE \E l \in DOMAIN g.seen : IsPrefix(line, l)
  <2>1. h = [g EXCEPT !.line = line, !.held = Append(@, c)]
    BY <1>1, <1>3 DEF GuardChar
  <2>2. g.held = L
    <3>1. PICK l \in DOMAIN g.seen : IsPrefix(line, l)
      BY <1>3
    <3>2. l \in Texts
      <4>1. g.seen \in SeenType
        BY DEF GuardType
      <4>2. PICK S \in SUBSET Texts : g.seen \in [S -> Nat]
        BY <4>1 DEF SeenType
      <4>3. QED BY <3>1, <4>2
    <3>3. IsPrefix(L, l)
      BY <3>1, <3>2, PrefixFacts
    <3>4. QED BY <1>1, <3>3 DEF Held
  <2>3. /\ h.seen = g.seen /\ h.line = line /\ h.held = line /\ h.out = g.out /\ h.stop = g.stop
        /\ h \in GuardType
    BY <1>1, <2>1, <2>2 DEF GuardType
  <2>4. h.held = Held(h, line)
    BY <1>3, <2>3 DEF Held
  <2>5. h.out \o h.held = (g.out \o g.held) \o <<c>>
    <3>1. (g.out \o L) \o <<c>> = g.out \o (L \o <<c>>)
      <4>1. g.out \in Texts /\ <<c>> \in Texts
        BY <1>1
      <4>2. QED BY <4>1, Assoc
    <3>2. QED BY <1>1, <2>2, <2>3, <3>1
  <2>6. h.out = g.out \o <<>> /\ <<>> \in Texts
    BY <1>1, <2>3, OneChar, TextsClosed
  <2> HIDE DEF h
  <2>7. QED BY <1>2, <2>3, <2>4, <2>5, <2>6 DEF Follows, h
<1>4. CASE ~ \E l \in DOMAIN g.seen : IsPrefix(line, l)
  <2>1. h = [g EXCEPT !.line = line, !.held = <<>>, !.out = @ \o Append(g.held, c)]
    BY <1>1, <1>4 DEF GuardChar
  <2>2. Append(g.held, c) \in Texts /\ g.out \o Append(g.held, c) \in Texts
        /\ Append(g.held, c) = g.held \o <<c>>
    BY <1>1, TextsClosed
  <2>3. /\ h.seen = g.seen /\ h.line = line /\ h.held = <<>> /\ h.stop = g.stop
        /\ h.out = g.out \o Append(g.held, c) /\ h \in GuardType
    BY <1>1, <2>1, <2>2, OneChar DEF GuardType
  <2>4. h.held = Held(h, line)
    BY <1>4, <2>3 DEF Held
  <2>5. h.out \o h.held = (g.out \o g.held) \o <<c>>
    <3>1. h.out \o h.held = g.out \o (g.held \o <<c>>)
      <4>1. h.out \o <<>> = h.out
        BY <2>2, <2>3, TextsClosed
      <4>2. QED BY <2>2, <2>3, <4>1
    <3>2. (g.out \o g.held) \o <<c>> = g.out \o (g.held \o <<c>>)
      <4>1. g.out \in Texts /\ g.held \in Texts /\ <<c>> \in Texts
        BY <1>1
      <4>2. QED BY <4>1, Assoc
    <3>3. QED BY <3>1, <3>2
  <2> HIDE DEF h
  <2>6. QED BY <1>2, <2>2, <2>3, <2>4, <2>5 DEF Follows, h
<1>5. QED BY <1>3, <1>4
\* A countable line is seen as often as it stands there.
LEMMA TimesIsCount ==
    ASSUME NEW C \in Seq(Texts), NEW L \in Texts, NEW g, SeenIs(g.seen, C), Countable(L)
    PROVE  Times(g, L) = Count(C, L)
<1>1. DOMAIN C = 1..Len(C)
  OBVIOUS
<1>2. (\A i \in 1..Len(C) : C[i] # L) => Count(C, L) = 0
  BY CountMore
<1>3. CASE L \in DOMAIN g.seen
  BY <1>3 DEF Times, SeenIs
<1>4. CASE L \notin DOMAIN g.seen
  <2>1. \A i \in 1..Len(C) : C[i] # L
    BY <1>1, <1>4 DEF SeenIs
  <2>2. QED BY <1>2, <1>4, <2>1 DEF Times
<1>5. QED BY <1>3, <1>4

\* What an end of line makes of the counts.
LEMMA SeenMore ==
    ASSUME NEW C \in Seq(Texts), NEW L \in Texts, NEW g \in GuardType, SeenIs(g.seen, C),
           NEW seen,
           seen = IF Countable(L)
                  THEN [l \in DOMAIN g.seen \cup {L} |-> IF l = L THEN Times(g, L) + 1 ELSE g.seen[l]]
                  ELSE g.seen
    PROVE  seen \in SeenType /\ SeenIs(seen, Append(C, L))
<1>0. PICK n : n = Len(C)
  OBVIOUS
<1> DEFINE D == Append(C, L)
<1>1. /\ n \in Nat /\ DOMAIN C = 1..n /\ DOMAIN D = 1..n + 1 /\ D[n + 1] = L
      /\ \A i \in 1..n : D[i] = C[i]
  <2>1. n \in Nat /\ DOMAIN C = 1..n
    BY <1>0
  <2>2. QED BY <1>0, <2>1, AppendIsSeq
<1>2. \A l : Count(C, l) \in Nat /\ Count(D, l) = IF l = L THEN Count(C, l) + 1 ELSE Count(C, l)
  BY CountMore
<1>3. (\A i \in 1..n : C[i] # L) => Count(C, L) = 0
  BY <1>0, CountMore
<1> HIDE DEF D
<1>4. /\ DOMAIN g.seen = {C[i] : i \in {j \in 1..n : Countable(C[j])}}
      /\ \A l \in DOMAIN g.seen : g.seen[l] = Count(C, l)
  BY <1>1 DEF SeenIs
<1>5. Countable(L) => Times(g, L) = Count(C, L)
  BY TimesIsCount
<1>6. CASE ~Countable(L)
  <2>1. \A i \in 1..n + 1 : i \in 1..n \/ i = n + 1
    BY <1>1
  <2>2. {D[i] : i \in {j \in 1..n + 1 : Countable(D[j])}} = DOMAIN g.seen
    <3>1. \A i \in {j \in 1..n + 1 : Countable(D[j])} : i \in 1..n /\ Countable(C[i]) /\ D[i] = C[i]
      BY <1>1, <1>6, <2>1
    <3>2. \A i \in {j \in 1..n : Countable(C[j])} : i \in 1..n + 1 /\ Countable(D[i]) /\ D[i] = C[i]
      BY <1>1
    <3>3. QED BY <1>4, <3>1, <3>2
  <2>3. \A l \in DOMAIN g.seen : l # L
    <3>1. \A i \in {j \in 1..n : Countable(C[j])} : C[i] # L
      BY <1>6
    <3>2. QED BY <1>4, <3>1
  <2>4. SeenIs(g.seen, D)
    BY <1>1, <1>2, <1>4, <2>2, <2>3 DEF SeenIs
  <2>5. QED BY <1>6, <2>4 DEF GuardType, D
<1>7. CASE Countable(L)
  <2>1. \A i \in 1..n + 1 : i \in 1..n \/ i = n + 1
    BY <1>1
  <2>2. DOMAIN seen = DOMAIN g.seen \cup {L}
    BY <1>7
  <2>3. {D[i] : i \in {j \in 1..n + 1 : Countable(D[j])}} = DOMAIN g.seen \cup {L}
    <3>1. \A i \in {j \in 1..n + 1 : Countable(D[j])} : D[i] \in DOMAIN g.seen \cup {L}
      <4> SUFFICES ASSUME NEW i \in 1..n + 1, Countable(D[i]), D[i] # L
                   PROVE  D[i] \in DOMAIN g.seen
        OBVIOUS
      <4>1. i \in 1..n /\ D[i] = C[i]
        BY <1>1, <2>1
      <4>2. QED BY <1>4, <4>1
    <3>2. \A i \in {j \in 1..n : Countable(C[j])} : i \in 1..n + 1 /\ Countable(D[i]) /\ D[i] = C[i]
      BY <1>1
    <3>3. n + 1 \in 1..n + 1 /\ Countable(D[n + 1]) /\ D[n + 1] = L
      BY <1>1, <1>7
    <3>4. QED BY <1>4, <3>1, <3>2, <3>3
  <2>4. \A l \in DOMAIN seen : seen[l] = Count(D, l) /\ seen[l] \in Nat
    BY <1>2, <1>4, <1>5, <1>7
  <2>5. DOMAIN g.seen \cup {L} \in SUBSET Texts
    <3>1. g.seen \in SeenType
      BY DEF GuardType
    <3>2. QED BY <3>1 DEF SeenType
  <2>6. seen \in [DOMAIN g.seen \cup {L} -> Nat]
    BY <1>7, <2>2, <2>4
  <2>7. seen \in SeenType
    BY <2>5, <2>6 DEF SeenType
  <2>8. SeenIs(seen, D)
    BY <1>1, <2>2, <2>3, <2>4 DEF SeenIs
  <2>9. QED BY <2>7, <2>8 DEF D
<1>8. QED BY <1>6, <1>7

LEMMA TrimMore ==
    ASSUME NEW C \in Seq(Texts), NEW L \in Texts, Looping(C) = {}, Looping(Append(C, L)) = {}
    PROVE  Trim(Append(C, L)) =
             IF Countable(L) => Count(C, L) = 0 THEN Append(Trim(C), L) ELSE Trim(C)
<1>0. PICK n, D : n = Len(C) /\ D = Append(C, L)
  OBVIOUS
<1>1. /\ n \in Nat /\ D \in Seq(Texts) /\ DOMAIN D = 1..n + 1 /\ D[n + 1] = L
      /\ \A i \in 1..n : D[i] = C[i]
  <2>1. n \in Nat
    BY <1>0
  <2>2. QED BY <1>0, <2>1, AppendIsSeq
<1>2. Trim(D) = Select(D, Kept(D)) /\ Trim(C) = Select(C, Kept(C)) /\ Kept(C) \subseteq 1..n
  <2>1. DOMAIN C = 1..n
    BY <1>0
  <2>2. QED BY <1>0, <1>1, <2>1, TrimWithoutLoop
<1>3. Select(D, Kept(C)) = Select(C, Kept(C))
  BY <1>1, <1>2, SelectSame
<1>4. \A i : i \in Kept(D) <=> i \in Kept(C) \/ (i = n + 1 /\ (Countable(L) => Count(C, L) = 0))
  BY <1>0, KeptMore
<1>5. CASE Countable(L) => Count(C, L) = 0
  <2>1. Kept(C) \in SUBSET (DOMAIN D) /\ n + 1 \in DOMAIN D /\ \A i \in Kept(C) : i < n + 1
    BY <1>1, <1>2
  <2>2. Select(D, Kept(C) \cup {n + 1}) = Append(Select(D, Kept(C)), D[n + 1])
    BY <1>1, <2>1, SelectMore
  <2>3. Kept(D) = Kept(C) \cup {n + 1}
    BY <1>4, <1>5
  <2>4. QED BY <1>0, <1>1, <1>2, <1>3, <1>5, <2>2, <2>3
<1>6. CASE ~(Countable(L) => Count(C, L) = 0)
  <2>1. Kept(D) = Kept(C)
    BY <1>4, <1>6
  <2>2. QED BY <1>0, <1>2, <1>3, <1>6, <2>1
<1>7. QED BY <1>5, <1>6

\* When the line was there before, nothing of it is out.
LEMMA HeldBack ==
    ASSUME NEW C \in Seq(Texts), NEW L \in Texts, NEW g \in GuardType, Follows(g, C, L),
           Countable(L), Count(C, L) # 0
    PROVE  g.out = Join(Append(Trim(C), <<>>))
<1>1. L \in DOMAIN g.seen
  <2>1. \E j \in 1..Len(C) : C[j] = L
    BY CountMore
  <2>2. DOMAIN C = 1..Len(C)
    OBVIOUS
  <2>3. QED BY <2>1, <2>2 DEF Follows, SeenIs
<1>2. IsPrefix(L, L)
  BY PrefixFacts
<1>3. g.held = L
  BY <1>1, <1>2 DEF Follows, Held
<1>4. g.out \o L = Join(Append(Trim(C), L)) /\ Trim(C) \in Seq(Texts) /\ g.out \in Texts
  BY <1>3, TrimWithoutLoop DEF Follows, GuardType
<1>5. Join(Append(Trim(C), <<>> \o L)) = Join(Append(Trim(C), <<>>)) \o L
  BY <1>4, OneChar, JoinGrows
<1>6. <<>> \o L = L
  BY TextsClosed
<1>7. Join(Append(Trim(C), <<>>)) \in Texts
  <2>1. Append(Trim(C), <<>>) \in Seq(Texts)
    BY <1>4, OneChar
  <2>2. QED BY <2>1, JoinType
<1>8. g.out \o L = Join(Append(Trim(C), <<>>)) \o L
  BY <1>4, <1>5, <1>6
<1>9. QED BY <1>4, <1>7, <1>8, Cancel DEF Texts

LEMMA GuardTakesLine ==
    ASSUME NEW C \in Seq(Texts), NEW L \in Texts, NEW g \in GuardType, Follows(g, C, L),
           ~(Countable(L) /\ Count(C, L) >= Threshold - 1)
    PROVE  GuardLine(g) \in GuardType /\ Follows(GuardLine(g), Append(C, L), <<>>)
<1> DEFINE h == GuardLine(g)
           D == Append(C, L)
           seen == [l \in DOMAIN g.seen \cup {L} |-> IF l = L THEN Times(g, L) + 1 ELSE g.seen[l]]
<1>1. /\ g.line = L /\ g.out \in Texts /\ g.held \in Texts /\ g.seen \in SeenType
      /\ SeenIs(g.seen, C) /\ Looping(C) = {} /\ Trim(C) \in Seq(Texts)
      /\ g.out \o g.held = Join(Append(Trim(C), L))
  BY TrimWithoutLoop DEF Follows, GuardType
<1>2. Count(C, L) \in Nat /\ (Countable(L) => Times(g, L) = Count(C, L))
  BY <1>1, CountMore, TimesIsCount
<1>3. /\ h.seen = IF Countable(L) THEN seen ELSE g.seen
      /\ h.line = <<>> /\ h.held = <<>> /\ h.stop = FALSE
      /\ h.out = IF Countable(L) /\ Count(C, L) # 0 THEN g.out ELSE g.out \o g.held \o <<Newline>>
      /\ h = [seen |-> h.seen, line |-> <<>>, held |-> <<>>, stop |-> FALSE, out |-> h.out]
  <2>1. ~(Countable(L) /\ Times(g, L) >= Threshold - 1)
    BY <1>2
  <2>2. Countable(L) => (Times(g, L) >= 1 <=> Count(C, L) # 0)
    BY <1>2
  <2>3. h = [seen |-> IF Countable(L) THEN seen ELSE g.seen,
             line |-> <<>>, held |-> <<>>, stop |-> FALSE,
             out |-> IF Countable(L) /\ Times(g, L) >= 1 THEN g.out ELSE g.out \o g.held \o <<Newline>>]
    BY <1>1, <2>1 DEF GuardLine
  <2> HIDE DEF h
  <2>4. QED BY <2>2, <2>3
<1>4. h.seen \in SeenType /\ SeenIs(h.seen, D)
  <2> HIDE DEF h
  <2>1. /\ C \in Seq(Texts) /\ L \in Texts /\ g \in GuardType /\ SeenIs(g.seen, C)
        /\ h.seen = IF Countable(L) THEN seen ELSE g.seen
    BY <1>1, <1>3
  <2>2. QED BY <2>1, SeenMore
<1>5. g.out \o g.held \in Texts /\ g.out \o g.held \o <<Newline>> \in Texts
  BY <1>1, OneChar, TextsClosed
<1> HIDE DEF h, seen
<1>6. h.out \in Texts /\ h \in GuardType
  BY <1>1, <1>3, <1>4, <1>5, OneChar DEF GuardType
<1>7. D \in Seq(Texts) /\ Looping(D) = {}
  BY <1>1, LoopMore
<1>8. h.out = Join(Append(Trim(D), <<>>))
  <2>1. CASE Countable(L) /\ Count(C, L) # 0
    <3>1. Trim(D) = Trim(C)
      BY <1>1, <1>7, <2>1, TrimMore
    <3>2. h.out = g.out
      BY <1>3, <2>1
    <3> HIDE DEF D
    <3>3. QED BY <2>1, <3>1, <3>2, HeldBack
  <2>2. CASE ~(Countable(L) /\ Count(C, L) # 0)
    <3>1. Trim(D) = Append(Trim(C), L)
      BY <1>1, <1>7, <2>2, TrimMore
    <3>2. Append(Trim(C), L) \in Seq(Texts) /\ Append(Trim(C), L) # <<>>
      BY <1>1, AppendProperties
    <3>3. Join(Append(Append(Trim(C), L), <<>>)) = Join(Append(Trim(C), L)) \o <<Newline>> \o <<>>
      BY <3>2, OneChar, JoinAppend
    <3>4. h.out = g.out \o g.held \o <<Newline>>
      BY <1>3, <2>2
    <3>5. (g.out \o g.held \o <<Newline>>) \o <<>> = g.out \o g.held \o <<Newline>>
      BY <1>5, TextsClosed
    <3> HIDE DEF D
    <3>6. QED BY <1>1, <3>1, <3>3, <3>4, <3>5
  <2>3. QED BY <2>1, <2>2
<1>9. h.out \o h.held = Join(Append(Trim(D), <<>>))
  BY <1>3, <1>6, <1>8, TextsClosed
<1>10. h.held = Held(h, <<>>)
  BY <1>3 DEF Held
<1> HIDE DEF D
<1>11. Follows(h, D, <<>>)
  BY <1>3, <1>4, <1>7, <1>9, <1>10 DEF Follows
<1>12. QED BY <1>6, <1>11 DEF h, D
\* What comes after a loop is not kept.
LEMMA LineAfterLoop ==
    ASSUME NEW D \in Seq(Texts), NEW L \in Texts, ~Countable(L), Looping(D) # {}
    PROVE  Looping(Append(D, L)) = Looping(D) /\ Kept(Append(D, L)) = Kept(D)
<1>0. PICK n, E : n = Len(D) /\ E = Append(D, L)
  OBVIOUS
<1>1. /\ n \in Nat /\ DOMAIN D = 1..n /\ DOMAIN E = 1..n + 1
      /\ E[n + 1] = L /\ \A i \in 1..n : E[i] = D[i]
  <2>1. n \in Nat /\ DOMAIN D = 1..n
    BY <1>0
  <2>2. QED BY <1>0, <2>1, AppendIsSeq
<1>2. \A i \in 1..n : Earlier(E, i) = Earlier(D, i)
  BY <1>0, EarlierSame
<1>3. \A i \in 1..n + 1 : i \in 1..n \/ i = n + 1
  BY <1>1
<1>4. Looping(E) = Looping(D)
  <2>1. \A i \in 1..n : i \in Looping(E) <=> i \in Looping(D)
    BY <1>1, <1>2 DEF Looping
  <2>2. n + 1 \notin Looping(E)
    BY <1>1 DEF Looping
  <2>3. Looping(E) \subseteq 1..n + 1 /\ Looping(D) \subseteq 1..n
    BY <1>1 DEF Looping
  <2>4. QED BY <1>3, <2>1, <2>2, <2>3
<1>5. Kept(E) = Kept(D)
  <2>1. \A i \in 1..n : i \in Kept(E) <=> i \in Kept(D)
    <3>1. \A i \in 1..n : i \in Kept(E) <=> /\ \A j \in Looping(D) : i < j
                                            /\ Countable(D[i]) => Earlier(D, i) = 0
      BY <1>1, <1>2, <1>4 DEF Kept
    <3>2. \A i \in 1..n : i \in Kept(D) <=> /\ \A j \in Looping(D) : i < j
                                            /\ Countable(D[i]) => Earlier(D, i) = 0
      BY <1>1 DEF Kept
    <3>3. QED BY <3>1, <3>2
  <2>2. n + 1 \notin Kept(E)
    <3>1. PICK j : j \in Looping(D)
      OBVIOUS
    <3>2. j \in 1..n
      BY <1>1, <3>1 DEF Looping
    <3>3. ~(n + 1 < j)
      BY <1>1, <3>2
    <3>4. QED BY <1>4, <3>1, <3>3 DEF Kept
  <2>3. Kept(E) \subseteq 1..n + 1 /\ Kept(D) \subseteq 1..n
    BY <1>1 DEF Kept
  <2>4. QED BY <1>3, <2>1, <2>2, <2>3
<1>6. QED BY <1>0, <1>4, <1>5

\* Blank characters at the end of a text do not count.
LEMMA BareEnd ==
    ASSUME NEW s \in Texts, NEW t \in Texts, \A i \in DOMAIN t : t[i] \in Blank
    PROVE  Bare(s \o t) = Bare(s)
<1>0. PICK n, m, u : n = Len(s) /\ m = Len(t) /\ u = s \o t
  OBVIOUS
<1> DEFINE I == {i \in DOMAIN s : \E j \in DOMAIN s : i <= j /\ s[j] \notin Blank}
           J == {i \in DOMAIN u : \E j \in DOMAIN u : i <= j /\ u[j] \notin Blank}
<1>1. /\ n \in Nat /\ m \in Nat /\ DOMAIN s = 1..n /\ DOMAIN t = 1..m /\ DOMAIN u = 1..n + m
      /\ \A i \in 1..n : u[i] = s[i]
      /\ \A i \in 1..n + m : i > n => u[i] \in Blank
  <2>1. n \in Nat /\ m \in Nat /\ DOMAIN s = 1..n /\ DOMAIN t = 1..m
    BY <1>0 DEF Texts
  <2>2. /\ u \in Seq(Char) /\ Len(u) = n + m
        /\ \A i \in 1..n + m : u[i] = IF i <= n THEN s[i] ELSE t[i - n]
    BY <1>0, ConcatProperties DEF Texts
  <2>3. DOMAIN u = 1..n + m
    BY <2>2
  <2>4. \A i \in 1..n : u[i] = s[i]
    BY <2>1, <2>2
  <2>5. \A i \in 1..n + m : i > n => i - n \in 1..m
    BY <2>1
  <2>6. \A i \in 1..n + m : i > n => u[i] \in Blank
    BY <2>1, <2>2, <2>5
  <2>7. QED BY <2>1, <2>3, <2>4, <2>6
<1>2. I = J
  <2>1. ASSUME NEW i \in I
        PROVE  i \in J
    <3>1. PICK j \in 1..n : i <= j /\ s[j] \notin Blank
      BY <1>1
    <3>2. i \in 1..n + m /\ j \in 1..n + m /\ u[j] = s[j]
      BY <1>1
    <3>3. QED BY <1>1, <3>1, <3>2
  <2>2. ASSUME NEW i \in J
        PROVE  i \in I
    <3>1. PICK j \in 1..n + m : i <= j /\ u[j] \notin Blank
      BY <1>1
    <3>2. i \in 1..n + m /\ ~(j > n)
      BY <1>1, <3>1
    <3>3. j \in 1..n /\ i \in 1..n /\ u[j] = s[j]
      BY <1>1, <3>1, <3>2
    <3>4. QED BY <1>1, <3>1, <3>3
  <2>3. QED BY <2>1, <2>2
<1>3. I \in SUBSET (1..n) /\ \A i \in I : u[i] = s[i]
  BY <1>1
<1>4. Bare(s) = Select(s, I) /\ Bare(u) = Select(u, J)
  BY DEF Bare
<1> HIDE DEF I, J
<1>5. Select(s, I) = Select(u, I)
  BY <1>1, <1>3, SelectSame
<1>6. QED BY <1>0, <1>2, <1>4, <1>5

LEMMA JoinNone == Join(<<>>) = <<>>
<1>1. <<>> \in Seq(Texts) /\ Len(<<>>) = 0
  OBVIOUS
<1>2. PICK f : f = JoinStep(<<>>, f) /\ Join(<<>>) = f[Len(<<>>)]
  BY <1>1, JoinUpTo
<1>3. 0 \in 0..Len(<<>>)
  BY <1>1
<1>4. f[0] = <<>>
  BY <1>2, <1>3 DEF JoinStep
<1>5. QED BY <1>1, <1>2, <1>4

LEMMA BareJoin ==
    ASSUME NEW X \in Seq(Texts), NEW l \in Texts, Inked(l) = {}
    PROVE  Bare(Join(Append(X, l))) = Bare(Join(X))
<1>1. \A i \in DOMAIN l : l[i] \in Blank
  BY DEF Inked, Blank
<1>2. CASE X = <<>>
  <2>1. Join(Append(X, l)) = <<>> \o l
    BY <1>2, JoinAppend, TextsClosed
  <2>2. Bare(<<>> \o l) = Bare(<<>>)
    BY <1>1, OneChar, BareEnd
  <2>3. QED BY <1>2, <2>1, <2>2, JoinNone
<1>3. CASE X # <<>>
  <2>1. Join(X) \in Texts /\ <<Newline>> \in Texts /\ <<Newline>> \o l \in Texts
    BY JoinType, OneChar, TextsClosed
  <2>2. Join(Append(X, l)) = Join(X) \o (<<Newline>> \o l)
    <3>1. Join(Append(X, l)) = (Join(X) \o <<Newline>>) \o l
      BY <1>3, JoinAppend
    <3>2. (Join(X) \o <<Newline>>) \o l = Join(X) \o (<<Newline>> \o l)
      BY <2>1, Assoc
    <3>3. QED BY <3>1, <3>2
  <2>3. \A i \in DOMAIN (<<Newline>> \o l) : (<<Newline>> \o l)[i] \in Blank
    <3>1. PICK n, t : n = Len(l) /\ t = <<Newline>> \o l
      OBVIOUS
    <3>2. /\ n \in Nat /\ DOMAIN l = 1..n /\ t \in Seq(Char) /\ Len(t) = n + 1
          /\ \A i \in 1..n + 1 : t[i] = IF i <= 1 THEN Newline ELSE l[i - 1]
      <4>1. n \in Nat /\ DOMAIN l = 1..n
        BY <3>1 DEF Texts
      <4>2. Len(<<Newline>>) = 1 /\ \A i \in 1..1 : <<Newline>>[i] = Newline
        OBVIOUS
      <4>3. /\ t \in Seq(Char) /\ Len(t) = 1 + n
            /\ \A i \in 1..1 + n : t[i] = IF i <= 1 THEN <<Newline>>[i] ELSE l[i - 1]
        BY <2>1, <3>1, <4>2, ConcatProperties DEF Texts
      <4>4. QED BY <4>1, <4>2, <4>3
    <3>3. \A i \in 1..n + 1 : i <= 1 \/ i - 1 \in 1..n
      BY <3>2
    <3>4. \A i \in 1..n + 1 : t[i] \in Blank
      BY <1>1, <3>2, <3>3 DEF Blank
    <3>5. QED BY <3>1, <3>2, <3>4
  <2>4. QED BY <2>1, <2>2, <2>3, BareEnd
<1>4. QED BY <1>2, <1>3

\* Lines after the last inked one do not count.
LEMMA BareLines ==
    ASSUME NEW lines \in Seq(Texts), NEW I \in SUBSET (DOMAIN lines),
           NEW M, M = {i \in I : \E j \in I : i <= j /\ Inked(lines[j]) # {}}
    PROVE  Bare(Join(Select(lines, I))) = Bare(Join(Select(lines, M)))
<1>0. PICK b : b = Len(lines)
  OBVIOUS
<1> DEFINE Upto(m) == I \cap (1..m)
           T == {m \in 0..b : M \subseteq 1..m =>
                   Bare(Join(Select(lines, Upto(m)))) = Bare(Join(Select(lines, M)))}
<1>1. b \in Nat /\ DOMAIN lines = 1..b /\ I \subseteq 1..b /\ M \subseteq I
  BY <1>0
<1>2. 0 \in T
  <2>1. Upto(0) = {}
    <3>1. \A i \in 1..0 : FALSE
      OBVIOUS
    <3>2. QED BY <3>1
  <2>2. M \subseteq 1..0 => M = {}
    <3>1. \A i \in 1..0 : FALSE
      OBVIOUS
    <3>2. QED BY <3>1
  <2>3. 0 \in 0..b
    BY <1>1
  <2> HIDE DEF Upto
  <2>4. QED BY <2>1, <2>2, <2>3
<1>3. ASSUME NEW m \in 1..b, m - 1 \in T
      PROVE  m \in T
  <2> SUFFICES ASSUME M \subseteq 1..m
               PROVE  Bare(Join(Select(lines, Upto(m)))) = Bare(Join(Select(lines, M)))
    BY <1>1
  <2>1. CASE m \in M
    <3>1. PICK j \in I : m <= j /\ Inked(lines[j]) # {}
      BY <2>1
    <3>2. j \in M
      BY <1>1, <3>1
    <3>3. j = m
      BY <1>1, <3>1, <3>2
    <3>4. \A i \in Upto(m) : i \in M
      BY <1>1, <3>1, <3>3
    <3>5. M = Upto(m)
      BY <1>1, <3>4
    <3> HIDE DEF Upto
    <3>6. QED BY <3>5
  <2>2. CASE m \notin M
    <3>1. M \subseteq 1..m - 1
      <4>1. \A i \in M : i \in 1..m /\ i # m
        BY <2>2
      <4>2. \A i \in 1..m : i # m => i \in 1..m - 1
        BY <1>1
      <4>3. QED BY <4>1, <4>2
    <3>2. Bare(Join(Select(lines, Upto(m - 1)))) = Bare(Join(Select(lines, M)))
      BY <1>3, <3>1
    <3>3. CASE m \notin I
      <4>1. Upto(m) = Upto(m - 1)
        BY <1>1, <3>3
      <4> HIDE DEF Upto
      <4>2. QED BY <3>2, <4>1
    <3>4. CASE m \in I
      <4>1. Inked(lines[m]) = {} /\ lines[m] \in Texts
        BY <1>1, <2>2, <3>4
      <4>2. /\ Upto(m) = Upto(m - 1) \cup {m} /\ Upto(m - 1) \in SUBSET (DOMAIN lines)
            /\ m \in DOMAIN lines /\ \A i \in Upto(m - 1) : i < m
        BY <1>1, <3>4
      <4> HIDE DEF Upto
      <4>3. Select(lines, Upto(m)) = Append(Select(lines, Upto(m - 1)), lines[m])
        BY <4>2, SelectMore
      <4>4. Select(lines, Upto(m - 1)) \in Seq(Texts)
        BY <4>2, SelectType
      <4>5. QED BY <3>2, <4>1, <4>3, <4>4, BareJoin
    <3>5. QED BY <3>3, <3>4
  <2>3. QED BY <2>1, <2>2
<1> HIDE DEF T
<1>4. \A m \in 0..b : m \in T
  BY <1>1, <1>2, <1>3, UpTo
<1>5. M \subseteq 1..b /\ Upto(b) = I /\ b \in 0..b
  BY <1>1
<1> HIDE DEF Upto
<1>6. QED BY <1>4, <1>5 DEF T
\* The guard closes the stream at the line that would make a loop.
LEMMA GuardStops ==
    ASSUME NEW C \in Seq(Texts), NEW L \in Texts, NEW g \in GuardType, Follows(g, C, L),
           Countable(L), Count(C, L) >= Threshold - 1
    PROVE  /\ GuardLine(g) \in GuardType /\ GuardLine(g).stop /\ GuardLine(g).out = g.out
           /\ Bare(GuardLine(g).out) = Bare(Join(Trim(Append(Append(C, L), <<>>))))
<1>0. PICK n, D, E : n = Len(C) /\ D = Append(C, L) /\ E = Append(D, <<>>)
  OBVIOUS
<1>1. /\ g.line = L /\ g.out \in Texts /\ g.seen \in SeenType /\ SeenIs(g.seen, C)
      /\ Looping(C) = {} /\ Trim(C) = Select(C, Kept(C)) /\ Trim(C) \in Seq(Texts)
      /\ Kept(C) \subseteq DOMAIN C
  BY TrimWithoutLoop DEF Follows, GuardType
<1>2. Times(g, L) = Count(C, L) /\ Count(C, L) \in Nat /\ Count(C, L) # 0
  <2>1. Times(g, L) = Count(C, L) /\ Count(C, L) \in Nat
    BY <1>1, TimesIsCount, CountMore
  <2>2. QED BY <2>1, SummaryConstants
<1>3. GuardLine(g) \in GuardType /\ GuardLine(g).stop /\ GuardLine(g).out = g.out
  <2>1. GuardLine(g) = [seen |-> g.seen, line |-> <<>>, held |-> <<>>, stop |-> TRUE, out |-> g.out]
    BY <1>1, <1>2 DEF GuardLine
  <2>2. QED BY <1>1, <2>1, OneChar DEF GuardType
<1>4. /\ n \in Nat /\ DOMAIN C = 1..n /\ D \in Seq(Texts) /\ Len(D) = n + 1
      /\ \A i \in 1..n : D[i] = C[i]
      /\ Looping(D) # {} /\ Kept(D) = Kept(C)
  <2>1. n \in Nat /\ DOMAIN C = 1..n
    BY <1>0
  <2>2. D \in Seq(Texts) /\ Len(D) = n + 1 /\ \A i \in 1..n : D[i] = C[i]
    BY <1>0, <2>1, AppendIsSeq
  <2>3. Looping(D) # {}
    BY <1>0, <1>1, LoopMore
  <2>4. \A i : i \in Kept(D) <=> i \in Kept(C) \/ (i = n + 1 /\ (Countable(L) => Count(C, L) = 0))
    BY <1>0, <1>1, KeptMore
  <2>5. Kept(D) = Kept(C)
    BY <1>2, <2>4
  <2>6. QED BY <2>1, <2>2, <2>3, <2>5
<1>5. ~Countable(<<>>)
  <2>1. Inked(<<>>) = {}
    BY DEF Inked
  <2>2. QED BY <2>1 DEF Countable
<1>6. Looping(E) # {} /\ Kept(E) = Kept(C)
  BY <1>0, <1>4, <1>5, OneChar, LineAfterLoop
<1>7. \A i \in 1..n : E[i] = C[i]
  <2>1. \A i \in 1..n : i \in 1..Len(D)
    BY <1>4
  <2>2. \A i \in 1..Len(D) : E[i] = D[i]
    BY <1>0, <1>4, OneChar, AppendIsSeq
  <2>3. QED BY <1>4, <2>1, <2>2
<1> DEFINE M == {i \in Kept(C) : \E j \in Kept(C) : i <= j /\ Inked(C[j]) # {}}
<1>8. Trim(E) = Select(E, M)
  <2>1. \A j \in Kept(C) : Inked(E[j]) = Inked(C[j])
    BY <1>1, <1>4, <1>7
  <2>2. {i \in Kept(E) : \E j \in {k \in Kept(E) : Inked(E[k]) # {}} : i <= j} = M
    BY <1>6, <2>1
  <2>3. Trim(E) = Select(E, {i \in Kept(E) : \E j \in {k \in Kept(E) : Inked(E[k]) # {}} : i <= j})
    BY <1>6 DEF Trim
  <2>4. QED BY <2>2, <2>3
<1>9. M \in SUBSET (1..n) /\ \A i \in M : E[i] = C[i]
  BY <1>1, <1>4, <1>7
<1>10. Bare(Join(Select(C, Kept(C)))) = Bare(Join(Select(C, M)))
  BY <1>1, BareLines
<1> HIDE DEF M
<1>11. Select(E, M) = Select(C, M)
  BY <1>4, <1>9, SelectSame
<1>12. Bare(g.out) = Bare(Join(Trim(C)))
  <2>1. g.out = Join(Append(Trim(C), <<>>))
    BY <1>2, HeldBack
  <2>2. Inked(<<>>) = {}
    BY DEF Inked
  <2>3. QED BY <1>1, <2>1, <2>2, OneChar, BareJoin
<1>13. QED BY <1>0, <1>1, <1>3, <1>8, <1>10, <1>11, <1>12

LEMMA TypedIs ==
    ASSUME NEW C \in Seq(Texts), NEW L \in Texts, NEW c \in Char
    PROVE  /\ Append(C, L) \in Seq(Texts)
           /\ c = Newline => Typed(Append(C, L), c) = Append(Append(C, L), <<>>)
           /\ c # Newline => Typed(Append(C, L), c) = Append(C, Append(L, c))
<1>0. PICK n, D, l : n = Len(C) /\ D = Append(C, L) /\ l = Append(L, c)
  OBVIOUS
<1>1. /\ D \in Seq(Texts) /\ Len(D) = n + 1 /\ D[n + 1] = L /\ n \in Nat
      /\ \A i \in 1..n : D[i] = C[i]
  <2>1. n \in Nat
    BY <1>0
  <2>2. QED BY <1>0, <2>1, AppendIsSeq
<1>2. l \in Texts
  BY <1>0, TextsClosed
<1>3. [D EXCEPT ![n + 1] = l] = Append(C, l)
  <2>1. [D EXCEPT ![n + 1] = l] \in Seq(Texts) /\ Len([D EXCEPT ![n + 1] = l]) = n + 1
        /\ \A i \in 1..n + 1 : [D EXCEPT ![n + 1] = l][i] = IF i = n + 1 THEN l ELSE D[i]
    BY <1>1, <1>2
  <2>2. Append(C, l) \in Seq(Texts) /\ Len(Append(C, l)) = n + 1 /\ Append(C, l)[n + 1] = l
        /\ \A i \in 1..n : Append(C, l)[i] = C[i]
    BY <1>0, <1>2, AppendIsSeq
  <2>3. \A i \in 1..n + 1 : [D EXCEPT ![n + 1] = l][i] = Append(C, l)[i]
    <3>1. \A i \in 1..n + 1 : i \in 1..n \/ i = n + 1
      BY <1>1
    <3>2. QED BY <1>1, <2>1, <2>2, <3>1
  <2>4. QED BY <2>1, <2>2, <2>3, SeqEqual
<1>4. c # Newline => Typed(D, c) = [D EXCEPT ![n + 1] = l]
  BY <1>0, <1>1 DEF Typed
<1>5. c = Newline => Typed(D, c) = Append(D, <<>>)
  BY DEF Typed
<1>6. QED BY <1>0, <1>1, <1>3, <1>4, <1>5

Open == pc \in {"start", "split", "map", "fold", "stream"}

GuardInv ==
    /\ guard \in GuardType /\ GuardIsTrim
    /\ \E C \in Seq(Texts), L \in Texts :
         text = Append(C, L) /\ (Open /\ ~guard.stop => Follows(guard, C, L))

LEMMA FollowsIsTrim ==
    ASSUME NEW C \in Seq(Texts), NEW L \in Texts, text = Append(C, L), Follows(guard, C, L)
    PROVE  GuardIsTrim
<1>1. Front(text) = C /\ Last(text) = L
  BY FrontLast
<1>2. QED BY <1>1 DEF GuardIsTrim, Follows

LEMMA GuardInvInit == SummaryInit => GuardInv
<1> SUFFICES ASSUME SummaryInit PROVE GuardInv
  OBVIOUS
<1>1. guard = GuardInit /\ text = Append(<<>>, <<>>) /\ <<>> \in Seq(Texts) /\ <<>> \in Texts
  BY OneChar DEF SummaryInit
<1>2. guard \in GuardType /\ Follows(guard, <<>>, <<>>)
  BY <1>1, GuardStarts
<1>3. QED BY <1>1, <1>2, FollowsIsTrim DEF GuardInv

LEMMA GuardInvDelta == ASSUME GuardInv, Delta PROVE GuardInv'
<1>1. PICK c \in Char : text' = Typed(text, c) /\ guard' = GuardFeed(guard, c)
  BY DEF Delta
<1>2. PICK C \in Seq(Texts), L \in Texts : text = Append(C, L) /\ Follows(guard, C, L)
  BY DEF GuardInv, Delta, Open
<1>3. guard \in GuardType
  BY DEF GuardInv
<1>4. CASE c # Newline
  <2>1. text' = Append(C, Append(L, c)) /\ guard' = GuardChar(guard, c) /\ Append(L, c) \in Texts
    <3>1. text' = Typed(Append(C, L), c)
      BY <1>1, <1>2
    <3>2. Typed(Append(C, L), c) = Append(C, Append(L, c))
      BY <1>4, TypedIs
    <3>3. guard' = GuardChar(guard, c)
      BY <1>1, <1>4 DEF GuardFeed
    <3>4. QED BY <3>1, <3>2, <3>3, TextsClosed
  <2>2. guard' \in GuardType /\ Follows(guard', C, Append(L, c))
    BY <1>2, <1>3, <2>1, GuardTakesChar
  <2>3. GuardIsTrim'
    <3>1. Front(text') = C /\ Last(text') = Append(L, c)
      BY <2>1, FrontLast
    <3>2. QED BY <2>2, <3>1 DEF GuardIsTrim, Follows
  <2>4. QED BY <2>1, <2>2, <2>3 DEF GuardInv
<1>5. CASE c = Newline
  <2>1. text' = Append(Append(C, L), <<>>) /\ guard' = GuardLine(guard)
        /\ Append(C, L) \in Seq(Texts) /\ <<>> \in Texts
    BY <1>1, <1>2, <1>5, TypedIs, OneChar DEF GuardFeed
  <2>2. CASE Countable(L) /\ Count(C, L) >= Threshold - 1
    <3>1. guard' \in GuardType /\ guard'.stop /\ Bare(guard'.out) = Bare(Join(Trim(text')))
      BY <1>2, <1>3, <2>1, <2>2, GuardStops
    <3>2. GuardIsTrim'
      BY <3>1 DEF GuardIsTrim
    <3>3. QED BY <2>1, <3>1, <3>2 DEF GuardInv
  <2>3. CASE ~(Countable(L) /\ Count(C, L) >= Threshold - 1)
    <3>1. guard' \in GuardType /\ Follows(guard', Append(C, L), <<>>)
      BY <1>2, <1>3, <2>1, <2>3, GuardTakesLine
    <3>2. GuardIsTrim'
      <4>1. Front(text') = Append(C, L) /\ Last(text') = <<>>
        BY <2>1, FrontLast
      <4>2. QED BY <3>1, <4>1 DEF GuardIsTrim, Follows
    <3>3. QED BY <2>1, <3>1, <3>2 DEF GuardInv
  <2>4. QED BY <2>2, <2>3
<1>6. QED BY <1>4, <1>5

LEMMA GuardInvEnd == ASSUME GuardInv, End PROVE GuardInv'
<1>1. text' = text /\ guard' = IF guard.stop THEN guard ELSE GuardFlush(guard)
  BY DEF End
<1>2. ~Open'
  BY DEF End, Open
<1>3. guard \in GuardType /\ guard.out \in Texts /\ guard.held \in Texts /\ GuardIsTrim
  BY DEF GuardInv, GuardType
<1>4. CASE guard.stop
  <2>1. guard' = guard
    BY <1>1, <1>4
  <2>2. QED BY <1>1, <1>2, <2>1 DEF GuardInv, GuardIsTrim
<1>5. CASE ~guard.stop
  <2>1. guard' = [guard EXCEPT !.held = <<>>, !.out = @ \o guard.held]
    BY <1>1, <1>5 DEF GuardFlush
  <2>2. guard.out \o guard.held \in Texts
    BY <1>3, TextsClosed
  <2>3. /\ guard' \in GuardType /\ guard'.stop = guard.stop
        /\ guard'.held = <<>> /\ guard'.out = guard.out \o guard.held
    BY <1>3, <2>1, <2>2, OneChar DEF GuardType
  <2>4. guard'.out \o guard'.held = guard.out \o guard.held
    BY <2>2, <2>3, TextsClosed
  <2>5. GuardIsTrim'
    BY <1>1, <1>3, <1>5, <2>3, <2>4 DEF GuardIsTrim
  <2>6. QED BY <1>1, <1>2, <2>3, <2>5 DEF GuardInv
<1>6. QED BY <1>4, <1>5

LEMMA GuardInvNext == GuardInv /\ [SummaryNext]_summaryVars => GuardInv'
<1> SUFFICES ASSUME GuardInv, [SummaryNext]_summaryVars PROVE GuardInv'
  OBVIOUS
<1>1. CASE Delta
  BY <1>1, GuardInvDelta
<1>2. CASE End
  BY <1>2, GuardInvEnd
<1>3. CASE UNCHANGED stream /\ (Open' => Open)
  BY <1>3 DEF stream, GuardInv, GuardIsTrim
<1>4. Delta \/ End \/ (UNCHANGED stream /\ (Open' => Open))
  BY DEF SummaryNext, Begin, Split, SplitEnd, Map, MapEnd, Fold, Reduce, Fail, summaryVars, stream, Open
<1>5. QED BY <1>1, <1>2, <1>3, <1>4

LEMMA GuardInvariance == SummarySpec => []GuardInv
  BY GuardInvInit, GuardInvNext, PTL DEF SummarySpec

\* What the viewer has, with what is held back, is at every point of the stream
\* what trim_repeated_tail makes of the complete lines, and the line under way
\* (repetition.py:3-30): the countable lines are counted as the function counts
\* them, and a line is held for as long as it may become one of them.
THEOREM StreamIsTrimmed == SummarySpec => []GuardIsTrim
<1>1. GuardInv => GuardIsTrim
  BY DEF GuardInv
<1>2. QED BY <1>1, GuardInvariance, PTL
-----------------------------------------------------------------------------
(* Summary: the cap on timecodes                                            *)

\* A text without the positions X.
Rest(t, X) == Select(t, DOMAIN t \ X)

LEMMA CharMore ==
    ASSUME NEW v \in Texts, NEW c \in Char
    PROVE  /\ Len(v) \in Nat /\ DOMAIN v = 1..Len(v)
           /\ Append(v, c) \in Texts /\ Len(Append(v, c)) = Len(v) + 1
           /\ DOMAIN Append(v, c) = 1..Len(v) + 1
           /\ Append(v, c)[Len(v) + 1] = c /\ \A i \in 1..Len(v) : Append(v, c)[i] = v[i]
<1>1. v \in Seq(Char)
  BY DEF Texts
<1>2. Len(v) \in Nat /\ DOMAIN v = 1..Len(v)
  BY <1>1
<1>3. QED BY <1>1, <1>2, AppendIsSeq DEF Texts

LEMMA RestMore ==
    ASSUME NEW v \in Texts, NEW c \in Char, NEW X \in SUBSET (DOMAIN v)
    PROVE  /\ Rest(Append(v, c), X) = Append(Rest(v, X), c)
           /\ Rest(Append(v, c), X \cup {Len(v) + 1}) = Rest(v, X)
           /\ Rest(v, X) \in Texts
<1>0. PICK n, t : n = Len(v) /\ t = Append(v, c)
  OBVIOUS
<1>1. /\ n \in Nat /\ DOMAIN v = 1..n /\ t \in Texts /\ Len(t) = n + 1 /\ DOMAIN t = 1..n + 1
      /\ t[n + 1] = c /\ \A i \in 1..n : t[i] = v[i]
  BY <1>0, CharMore
<1> DEFINE I == (1..n) \ X
<1>2. /\ (DOMAIN t) \ X = I \cup {n + 1}
      /\ (DOMAIN t) \ (X \cup {n + 1}) = I
      /\ (DOMAIN v) \ X = I
  <2>1. \A i \in 1..n + 1 : i \in 1..n \/ i = n + 1
    BY <1>1
  <2>2. n + 1 \notin 1..n /\ n + 1 \in 1..n + 1 /\ \A i \in 1..n : i \in 1..n + 1
    BY <1>1
  <2>3. QED BY <1>1, <2>1, <2>2
<1>3. /\ I \in SUBSET (1..n) /\ I \in SUBSET (DOMAIN t) /\ n + 1 \in DOMAIN t
      /\ \A i \in I : i < n + 1 /\ t[i] = v[i]
  BY <1>1
<1>4. I \in SUBSET (DOMAIN v)
  BY <1>1
<1> HIDE DEF I
<1>5. Select(t, I) = Select(v, I)
  BY <1>1, <1>3, SelectSame
<1>6. Select(t, I \cup {n + 1}) = Append(Select(t, I), c)
  BY <1>1, <1>3, SelectMore DEF Texts
<1>7. Select(v, I) \in Texts
  BY <1>4, SelectType DEF Texts
<1>8. QED BY <1>0, <1>2, <1>5, <1>6, <1>7 DEF Rest

LEMMA InkyAppend ==
    ASSUME NEW s \in Texts, NEW c \in Char
    PROVE  /\ Inky(s) \in Texts
           /\ Inky(Append(s, c)) = IF c = "~" THEN Inky(s) ELSE Append(Inky(s), c)
<1>0. PICK n, t : n = Len(s) /\ t = Append(s, c)
  OBVIOUS
<1>1. /\ n \in Nat /\ DOMAIN s = 1..n /\ t \in Texts /\ Len(t) = n + 1 /\ DOMAIN t = 1..n + 1
      /\ t[n + 1] = c /\ \A i \in 1..n : t[i] = s[i]
  BY <1>0, CharMore
<1> DEFINE I == {i \in DOMAIN s : s[i] # "~"}
           J == {i \in DOMAIN t : t[i] # "~"}
<1>2. \A i \in 1..n + 1 : i \in 1..n \/ i = n + 1
  BY <1>1
<1>3. /\ I \in SUBSET (1..n) /\ I \in SUBSET (DOMAIN t) /\ n + 1 \in DOMAIN t
      /\ \A i \in I : i < n + 1 /\ t[i] = s[i]
  BY <1>1
<1>4. J = IF c = "~" THEN I ELSE I \cup {n + 1}
  <2>1. \A i \in 1..n : i \in J <=> i \in I
    BY <1>1
  <2>2. n + 1 \in J <=> c # "~"
    BY <1>1
  <2>3. J \subseteq 1..n + 1 /\ I \subseteq 1..n /\ n + 1 \notin 1..n
    BY <1>1
  <2> HIDE DEF I, J
  <2>4. CASE c = "~"
    <3>1. J = I
      BY <1>2, <2>1, <2>2, <2>3, <2>4
    <3>2. QED BY <2>4, <3>1
  <2>5. CASE c # "~"
    <3>1. J = I \cup {n + 1}
      BY <1>2, <2>1, <2>2, <2>3, <2>5
    <3>2. QED BY <2>5, <3>1
  <2>6. QED BY <2>4, <2>5
<1>5. Inky(s) = Select(s, I) /\ Inky(t) = Select(t, J)
  BY DEF Inky
<1>6. I \in SUBSET (DOMAIN s)
  OBVIOUS
<1> HIDE DEF I, J
<1>7. Select(t, I) = Select(s, I)
  BY <1>1, <1>3, SelectSame
<1>8. Select(t, I \cup {n + 1}) = Append(Select(t, I), c)
  BY <1>1, <1>3, SelectMore DEF Texts
<1>9. Select(s, I) \in Texts
  BY <1>6, SelectType DEF Texts
<1>10. QED BY <1>0, <1>4, <1>5, <1>7, <1>8, <1>9

LEMMA InkySpaces ==
    ASSUME NEW s \in Texts, NEW w \in Seq({"~"})
    PROVE  w \in Texts /\ s \o w \in Texts /\ Inky(s \o w) = Inky(s)
<1>0. PICK n, m, u : n = Len(s) /\ m = Len(w) /\ u = s \o w
  OBVIOUS
<1>1. w \in Texts
  <2>1. {"~"} \subseteq Char
    BY DEF Char
  <2>2. QED BY <2>1 DEF Texts
<1> DEFINE I == {i \in DOMAIN s : s[i] # "~"}
           J == {i \in DOMAIN u : u[i] # "~"}
<1>2. /\ n \in Nat /\ m \in Nat /\ DOMAIN s = 1..n /\ DOMAIN u = 1..n + m /\ u \in Texts
      /\ \A i \in 1..n : u[i] = s[i]
      /\ \A i \in 1..n + m : i > n => u[i] = "~"
  <2>1. n \in Nat /\ m \in Nat /\ DOMAIN s = 1..n /\ \A i \in 1..m : w[i] = "~"
    BY <1>0 DEF Texts
  <2>2. /\ u \in Seq(Char) /\ Len(u) = n + m
        /\ \A i \in 1..n + m : u[i] = IF i <= n THEN s[i] ELSE w[i - n]
    BY <1>0, <1>1, ConcatProperties DEF Texts
  <2>3. DOMAIN u = 1..n + m /\ u \in Texts
    BY <2>2 DEF Texts
  <2>4. \A i \in 1..n : u[i] = s[i]
    BY <2>1, <2>2
  <2>5. \A i \in 1..n + m : i > n => i - n \in 1..m
    BY <2>1
  <2>6. \A i \in 1..n + m : i > n => u[i] = "~"
    BY <2>1, <2>2, <2>5
  <2>7. QED BY <2>1, <2>3, <2>4, <2>6
<1>3. I = J
  <2>1. \A i \in I : i \in J
    BY <1>2
  <2>2. ASSUME NEW i \in J
        PROVE  i \in I
    <3>1. i \in 1..n + m /\ ~(i > n)
      BY <1>2
    <3>2. i \in 1..n /\ u[i] = s[i]
      BY <1>2, <3>1
    <3>3. QED BY <1>2, <3>2
  <2>3. QED BY <2>1, <2>2
<1>4. I \in SUBSET (1..n) /\ \A i \in I : u[i] = s[i]
  BY <1>2
<1>5. Inky(s) = Select(s, I) /\ Inky(u) = Select(u, J)
  BY DEF Inky
<1> HIDE DEF I, J
<1>6. Select(s, I) = Select(u, I)
  BY <1>2, <1>4, SelectSame
<1>7. QED BY <1>0, <1>1, <1>2, <1>3, <1>5, <1>6

\* The timecodes on the last line of a text.
Live(v) == {j \in Markers(v) : SameLine(v, j, Len(v))}
Gone(v) == Over(v) \cup {i + 1 : i \in Over(v)}

LEMMA MarkersType ==
    ASSUME NEW v \in Texts
    PROVE  /\ \A i \in Markers(v) : i \in DOMAIN v /\ i + 1 \in DOMAIN v /\ i \in Nat
           /\ Over(v) \subseteq Markers(v) /\ Live(v) \subseteq Markers(v)
           /\ Gone(v) \in SUBSET (DOMAIN v)
           /\ IsFiniteSet(Live(v)) /\ Cardinality(Live(v)) \in Nat
           /\ Cap(v) = Rest(v, Gone(v))
<1>1. DOMAIN v = 1..Len(v) /\ Len(v) \in Nat
  BY DEF Texts
<1>2. \A i \in Markers(v) : i \in DOMAIN v /\ i + 1 \in DOMAIN v /\ i \in Nat
  BY <1>1 DEF Markers
<1>3. Over(v) \subseteq Markers(v) /\ Live(v) \subseteq Markers(v)
  BY DEF Over, Live
<1>4. Gone(v) \in SUBSET (DOMAIN v)
  BY <1>2, <1>3 DEF Gone
<1>5. IsFiniteSet(Live(v)) /\ Cardinality(Live(v)) \in Nat
  <2>1. IsFiniteSet(1..Len(v)) /\ Live(v) \in SUBSET (1..Len(v))
    BY <1>1, <1>2, <1>3, FS_Interval
  <2>2. QED BY <2>1, FS_Subset, FS_CardinalityType
<1>6. QED BY <1>2, <1>3, <1>4, <1>5 DEF Cap, Rest, Gone

\* Which timecodes are too many depends on those before.
LEMMA OverBelow ==
    ASSUME NEW v \in Texts, NEW t \in Texts, NEW n, n = Len(v),
           \A i \in 1..n : t[i] = v[i], \A i \in 1..n : i \in Markers(t) <=> i \in Markers(v)
    PROVE  \A i \in 1..n : i \in Over(t) <=> i \in Over(v)
<1>1. n \in Nat /\ \A i \in Markers(v) : i \in 1..n
  BY MarkersType DEF Texts
<1> SUFFICES ASSUME NEW i \in 1..n, i \in Markers(t), i \in Markers(v)
             PROVE  i \in Over(t) <=> i \in Over(v)
  BY DEF Over
<1>2. \A j \in 1..n : SameLine(t, j, i) <=> SameLine(v, j, i)
  <2>1. \A j \in 1..n : \A h \in j..i : h \in 1..n
    BY <1>1
  <2>2. QED BY <2>1 DEF SameLine
<1>3. {j \in Markers(t) : j < i /\ SameLine(t, j, i)} = {j \in Markers(v) : j < i /\ SameLine(v, j, i)}
  <2>1. \A j \in Markers(t) : j < i => j \in 1..n
    <3>1. \A j \in Markers(t) : j \in Nat /\ j \in 1..Len(t)
      BY MarkersType DEF Texts
    <3>2. QED BY <1>1, <3>1
  <2>2. QED BY <1>1, <1>2, <2>1
<1>4. QED BY <1>3 DEF Over
Opens(v) == Len(v) >= 1 /\ v[Len(v)] = "["
Closes(v) == Len(v) >= 2 /\ v[Len(v) - 1] = "[" /\ v[Len(v)] = "]"

\* c neither completes a timecode nor makes a link of it.
Sits(v, c) == ~(c = "]" /\ Opens(v)) /\ ~(c = "(" /\ Closes(v))

LEMMA CharsAre ==
    /\ "[" \in Char /\ "]" \in Char /\ "(" \in Char /\ "~" \in Char /\ Newline \in Char
    /\ "[" # Newline /\ "]" # Newline /\ "(" # Newline /\ "~" # Newline
  BY DEF Char, Newline

\* With the same timecodes, the same ones are too many.
LEMMA SameMarkers ==
    ASSUME NEW v \in Texts, NEW t \in Texts, Len(v) <= Len(t),
           \A i \in 1..Len(v) : t[i] = v[i], \A i \in Nat : i \in Markers(t) <=> i \in Markers(v)
    PROVE  Over(t) = Over(v) /\ Gone(t) = Gone(v)
<1>1. /\ \A i \in Markers(v) : i \in 1..Len(v) /\ i \in Nat
      /\ \A i \in Markers(t) : i \in Nat
      /\ Over(v) \subseteq Markers(v) /\ Over(t) \subseteq Markers(t) /\ Len(v) \in Nat
  BY MarkersType DEF Texts
<1>2. \A i \in 1..Len(v) : i \in Over(t) <=> i \in Over(v)
  <2>1. \A i \in 1..Len(v) : i \in Markers(t) <=> i \in Markers(v)
    BY <1>1
  <2>2. QED BY <2>1, OverBelow
<1>3. \A i \in Over(t) : i \in 1..Len(v)
  BY <1>1
<1>4. \A i \in Over(v) : i \in 1..Len(v)
  BY <1>1
<1>5. Over(t) = Over(v)
  BY <1>2, <1>3, <1>4
<1>6. QED BY <1>5 DEF Gone

\* A character more concerns no timecode but the last one.
LEMMA FarMarkers ==
    ASSUME NEW v \in Texts, NEW c \in Char
    PROVE  \A i \in Nat : i + 1 < Len(v) \/ i > Len(v) =>
             (i \in Markers(Append(v, c)) <=> i \in Markers(v))
<1>0. PICK n, t : n = Len(v) /\ t = Append(v, c)
  OBVIOUS
<1>1. /\ n \in Nat /\ DOMAIN v = 1..n /\ t \in Texts /\ Len(t) = n + 1 /\ DOMAIN t = 1..n + 1
      /\ t[n + 1] = c /\ \A i \in 1..n : t[i] = v[i]
  BY <1>0, CharMore
<1>2. Len(v) = n
  BY <1>0
<1> SUFFICES ASSUME NEW i \in Nat, i + 1 < n \/ i > n
             PROVE  i \in Markers(t) <=> i \in Markers(v)
  BY <1>0
<1>3. CASE i + 1 < n
  <2>1. i \in DOMAIN v <=> i \in DOMAIN t
    BY <1>1, <1>3
  <2>2. CASE i \in DOMAIN v
    <3>1. i \in 1..n /\ i + 1 \in 1..n /\ i + 2 \in 1..n /\ i + 2 <= n /\ i < n /\ i < n + 1 /\ i + 2 <= n + 1
      BY <1>1, <1>3, <2>2
    <3>2. t[i] = v[i] /\ t[i + 1] = v[i + 1] /\ t[i + 2] = v[i + 2]
      BY <1>1, <3>1
    <3>3. QED BY <1>1, <1>2, <2>1, <3>1, <3>2 DEF Markers
  <2>3. CASE i \notin DOMAIN v
    BY <2>1, <2>3 DEF Markers
  <2>4. QED BY <2>2, <2>3
<1>4. CASE i > n
  BY <1>1, <1>2, <1>4 DEF Markers
<1>5. QED BY <1>3, <1>4

\* A character more that is not part of a timecode.
LEMMA PlainMore ==
    ASSUME NEW v \in Texts, NEW c \in Char, Sits(v, c)
    PROVE  /\ \A i \in Nat : i \in Markers(Append(v, c)) <=> i \in Markers(v)
           /\ Cap(Append(v, c)) = Append(Cap(v), c)
           /\ Live(Append(v, c)) = IF c = Newline THEN {} ELSE Live(v)
<1>0. PICK n, t : n = Len(v) /\ t = Append(v, c)
  OBVIOUS
<1>1. /\ n \in Nat /\ DOMAIN v = 1..n /\ t \in Texts /\ Len(t) = n + 1 /\ DOMAIN t = 1..n + 1
      /\ t[n + 1] = c /\ \A i \in 1..n : t[i] = v[i]
  BY <1>0, CharMore
<1>2. Len(v) = n
  BY <1>0
<1>3. \A i \in Nat : i \in Markers(t) <=> i \in Markers(v)
  <2> TAKE i \in Nat
  <2>1. CASE i + 1 < n \/ i > n
    BY <1>0, <2>1, FarMarkers
  <2>2. CASE i + 1 = n
    <3>1. CASE i = 0
      <4>1. i \notin DOMAIN v /\ i \notin DOMAIN t
        BY <1>1, <3>1
      <4>2. QED BY <4>1 DEF Markers
    <3>2. CASE i # 0
      <4>1. i \in 1..n /\ i + 1 \in 1..n /\ i + 2 = n + 1 /\ ~(i + 2 <= n) /\ i < n /\ i < n + 1 /\ i \in 1..n + 1
            /\ i = n - 1 /\ n >= 2
        BY <1>1, <2>2, <3>2
      <4>2. t[i] = v[i] /\ t[i + 1] = v[i + 1] /\ t[i + 2] = c
        BY <1>1, <4>1
      <4>3. ~(c = "(" /\ v[i] = "[" /\ v[i + 1] = "]")
        BY <1>2, <2>2, <4>1 DEF Sits, Closes
      <4>4. QED BY <1>1, <1>2, <4>1, <4>2, <4>3 DEF Markers
    <3>3. QED BY <3>1, <3>2
  <2>3. CASE i = n
    <3>1. i \notin Markers(v)
      BY <1>2, <2>3 DEF Markers
    <3>2. i \notin Markers(t)
      <4>1. CASE i = 0
        BY <1>1, <4>1 DEF Markers
      <4>2. CASE i # 0
        <5>1. ~(c = "]" /\ v[i] = "[") /\ t[i] = v[i] /\ t[i + 1] = c
          BY <1>1, <1>2, <2>3, <4>2 DEF Sits, Opens
        <5>2. QED BY <5>1 DEF Markers
      <4>3. QED BY <4>1, <4>2
    <3>3. QED BY <3>1, <3>2
  <2>4. QED BY <1>1, <2>1, <2>2, <2>3
<1>4. Gone(t) = Gone(v)
  BY <1>1, <1>2, <1>3, SameMarkers
<1>5. Cap(t) = Append(Cap(v), c)
  <2>1. Gone(v) \in SUBSET (DOMAIN v) /\ Cap(v) = Rest(v, Gone(v)) /\ Cap(t) = Rest(t, Gone(t))
    BY <1>1, MarkersType
  <2>2. Rest(t, Gone(v)) = Append(Rest(v, Gone(v)), c)
    BY <1>0, <2>1, RestMore
  <2>3. QED BY <1>4, <2>1, <2>2
<1>6. Live(t) = IF c = Newline THEN {} ELSE Live(v)
  <2>1. \A i \in Markers(v) : i \in 1..n /\ i \in Nat
    BY <1>1, MarkersType
  <2>2. \A i \in Markers(t) : i \in Nat
    BY <1>1, MarkersType
  <2>3. \A i \in Markers(v) : SameLine(t, i, n + 1) <=> c # Newline /\ SameLine(v, i, n)
    <3> SUFFICES ASSUME NEW i \in 1..n
                 PROVE  SameLine(t, i, n + 1) <=> c # Newline /\ SameLine(v, i, n)
      BY <2>1
    <3>1. \A h \in i..n + 1 : h \in i..n \/ h = n + 1
      BY <1>1
    <3>2. \A h \in i..n : h \in 1..n /\ h \in i..n + 1
      BY <1>1
    <3>3. n + 1 \in i..n + 1
      BY <1>1
    <3>4. QED BY <1>1, <3>1, <3>2, <3>3 DEF SameLine
  <2>4. \A i : i \in Live(t) <=> c # Newline /\ i \in Live(v)
    BY <1>1, <1>2, <1>3, <2>1, <2>2, <2>3 DEF Live
  <2>5. CASE c = Newline
    BY <2>4, <2>5
  <2>6. CASE c # Newline
    <3>1. Live(t) = Live(v)
      BY <2>4, <2>6
    <3>2. QED BY <2>6, <3>1
  <2>7. QED BY <2>5, <2>6
<1>7. QED BY <1>0, <1>3, <1>5, <1>6

\* The bracket that completes a timecode.
LEMMA ClosingMarkers ==
    ASSUME NEW w \in Texts, Opens(w)
    PROVE  \A i \in Nat : i \in Markers(Append(w, "]")) <=> i \in Markers(w) \/ i = Len(w)
<1>0. PICK n, t : n = Len(w) /\ t = Append(w, "]")
  OBVIOUS
<1>1. /\ n \in Nat /\ DOMAIN w = 1..n /\ t \in Texts /\ Len(t) = n + 1 /\ DOMAIN t = 1..n + 1
      /\ t[n + 1] = "]" /\ \A i \in 1..n : t[i] = w[i]
  BY <1>0, CharsAre, CharMore
<1>2. Len(w) = n /\ n >= 1 /\ w[n] = "["
  BY <1>0 DEF Opens
<1> SUFFICES ASSUME NEW i \in Nat
             PROVE  i \in Markers(t) <=> i \in Markers(w) \/ i = n
  BY <1>0
<1>3. CASE i + 1 < n \/ i > n
  <2>1. i # n
    BY <1>1, <1>3
  <2>2. QED BY <1>0, <1>3, <2>1, FarMarkers, CharsAre
<1>4. CASE i + 1 = n
  <2>1. w[i + 1] = "[" /\ t[i + 1] = "["
    BY <1>1, <1>2, <1>4
  <2>2. i \notin Markers(w) /\ i \notin Markers(t)
    BY <2>1 DEF Markers
  <2>3. QED BY <1>1, <1>4, <2>2
<1>5. CASE i = n
  <2>1. i \in DOMAIN t /\ i < Len(t) /\ t[i] = "[" /\ t[i + 1] = "]" /\ ~(i + 2 <= Len(t))
    BY <1>1, <1>2, <1>5
  <2>2. i \in Markers(t)
    BY <2>1 DEF Markers
  <2>3. QED BY <1>5, <2>2
<1>6. QED BY <1>1, <1>3, <1>4, <1>5

\* The parenthesis that makes a link of a timecode.
LEMMA LinkMarkers ==
    ASSUME NEW w \in Texts, Closes(w)
    PROVE  \A i \in Nat : i \in Markers(Append(w, "(")) <=> i \in Markers(w) /\ i # Len(w) - 1
<1>0. PICK n, t : n = Len(w) /\ t = Append(w, "(")
  OBVIOUS
<1>1. /\ n \in Nat /\ DOMAIN w = 1..n /\ t \in Texts /\ Len(t) = n + 1 /\ DOMAIN t = 1..n + 1
      /\ t[n + 1] = "(" /\ \A i \in 1..n : t[i] = w[i]
  BY <1>0, CharsAre, CharMore
<1>2. Len(w) = n /\ n >= 2 /\ w[n] = "]"
  BY <1>0 DEF Closes
<1> SUFFICES ASSUME NEW i \in Nat
             PROVE  i \in Markers(t) <=> i \in Markers(w) /\ i # n - 1
  BY <1>0
<1>3. CASE i + 1 < n \/ i > n
  <2>1. i # n - 1
    BY <1>1, <1>3
  <2>2. QED BY <1>0, <1>3, <2>1, FarMarkers, CharsAre
<1>4. CASE i + 1 = n
  <2>1. i + 2 <= Len(t) /\ t[i + 2] = "(" /\ i = n - 1
    BY <1>1, <1>2, <1>4
  <2>2. i \notin Markers(t)
    BY <2>1 DEF Markers
  <2>3. QED BY <2>1, <2>2
<1>5. CASE i = n
  <2>1. ~(i < Len(w)) /\ t[i] = "]"
    BY <1>1, <1>2, <1>5
  <2>2. i \notin Markers(t) /\ i \notin Markers(w)
    BY <2>1 DEF Markers
  <2>3. QED BY <2>2
<1>6. QED BY <1>1, <1>3, <1>4, <1>5

LEMMA MarkerAppended ==
    ASSUME NEW v \in Texts
    PROVE  /\ v \o <<"[">> = Append(v, "[") /\ v \o Marker = Append(Append(v, "["), "]")
           /\ Append(v, "[") \in Texts /\ Append(Append(v, "["), "]") \in Texts
           /\ Opens(Append(v, "[")) /\ ~Closes(Append(v, "[")) /\ Sits(v, "[")
           /\ Closes(Append(Append(v, "["), "]")) /\ ~Opens(Append(Append(v, "["), "]"))
<1>0. PICK w, t : w = Append(v, "[") /\ t = Append(w, "]")
  OBVIOUS
<1>1. /\ w \in Texts /\ Len(w) = Len(v) + 1 /\ Len(v) \in Nat /\ w[Len(v) + 1] = "["
      /\ w = v \o <<"[">>
  BY <1>0, CharsAre, CharMore, TextsClosed
<1>2. /\ t \in Texts /\ Len(t) = Len(v) + 2 /\ t[Len(v) + 2] = "]" /\ t[Len(v) + 1] = w[Len(v) + 1]
  <2>1. /\ t \in Texts /\ Len(t) = Len(w) + 1 /\ t[Len(w) + 1] = "]" /\ \A i \in 1..Len(w) : t[i] = w[i]
    BY <1>0, <1>1, CharsAre, CharMore
  <2>2. QED BY <1>1, <2>1
<1>3. Opens(w) /\ ~Closes(w)
  BY <1>1 DEF Opens, Closes
<1>4. Closes(t) /\ ~Opens(t)
  BY <1>1, <1>2 DEF Opens, Closes
<1>5. v \o Marker = t
  <2>1. <<"[">> \in Texts /\ <<"]">> \in Texts /\ <<"[">> \o <<"]">> = Marker
    <3>1. <<"[">> \in Texts /\ <<"]">> \in Texts
      BY CharsAre, OneChar
    <3>2. Append(<<"[">>, "]") = <<"[">> \o <<"]">>
      BY <3>1, CharsAre, TextsClosed
    <3>3. Append(<<"[">>, "]") = <<"[", "]">>
      <4>1. <<"[">> \in Seq(Char) /\ Len(<<"[">>) = 1 /\ <<"[">>[1] = "["
        BY CharsAre
      <4>2. PICK a : a = Append(<<"[">>, "]")
        OBVIOUS
      <4>3. a \in Seq(Char) /\ Len(a) = 2 /\ a[1] = "[" /\ a[2] = "]"
        BY <4>1, <4>2, CharsAre, AppendIsSeq
      <4>4. PICK b : b = <<"[", "]">>
        OBVIOUS
      <4>5. b \in Seq(Char) /\ Len(b) = 2 /\ b[1] = "[" /\ b[2] = "]"
        BY <4>4, CharsAre
      <4>6. \A i \in 1..2 : i = 1 \/ i = 2
        OBVIOUS
      <4>7. a = b
        BY <4>3, <4>5, <4>6, SeqEqual
      <4>8. QED BY <4>2, <4>4, <4>7
    <3>4. QED BY <3>1, <3>2, <3>3 DEF Marker
  <2>2. (v \o <<"[">>) \o <<"]">> = v \o (<<"[">> \o <<"]">>)
    BY <2>1, Assoc
  <2>3. t = w \o <<"]">>
    BY <1>0, <1>1, CharsAre, TextsClosed
  <2>4. QED BY <1>1, <2>1, <2>2, <2>3
<1>6. Sits(v, "[")
  BY DEF Sits
<1>7. QED BY <1>0, <1>1, <1>2, <1>3, <1>4, <1>5, <1>6

LEMMA MarkersOfMore ==
    ASSUME NEW v \in Texts
    PROVE  \A i \in Nat : i \in Markers(Append(Append(v, "["), "]")) <=> i \in Markers(v) \/ i = Len(v) + 1
<1>0. PICK w, t : w = Append(v, "[") /\ t = Append(w, "]")
  OBVIOUS
<1>1. w \in Texts /\ Opens(w) /\ Sits(v, "[") /\ Len(w) = Len(v) + 1
  BY <1>0, MarkerAppended, CharMore, CharsAre
<1>2. \A i \in Nat : i \in Markers(w) <=> i \in Markers(v)
  BY <1>0, <1>1, PlainMore, CharsAre
<1>3. \A i \in Nat : i \in Markers(t) <=> i \in Markers(w) \/ i = Len(w)
  BY <1>0, <1>1, ClosingMarkers
<1>4. QED BY <1>0, <1>1, <1>2, <1>3

\* A timecode more.
LEMMA MarkerMore ==
    ASSUME NEW v \in Texts
    PROVE  LET t == Append(Append(v, "["), "]") IN
             /\ Cardinality(Live(t)) = Cardinality(Live(v)) + 1
             /\ Cardinality(Live(v)) >= MaxMarkers => Cap(t) = Cap(v)
             /\ Cardinality(Live(v)) < MaxMarkers => Cap(t) = Append(Append(Cap(v), "["), "]")
<1>0. PICK n, w, t : n = Len(v) /\ w = Append(v, "[") /\ t = Append(w, "]")
  OBVIOUS
<1>1. /\ n \in Nat /\ DOMAIN v = 1..n /\ w \in Texts /\ Len(w) = n + 1 /\ DOMAIN w = 1..n + 1
      /\ w[n + 1] = "[" /\ \A i \in 1..n : w[i] = v[i]
  <2>1. "[" \in Char
    BY CharsAre
  <2>2. QED BY <1>0, <2>1, CharMore
<1>2. /\ t \in Texts /\ Len(t) = n + 2 /\ DOMAIN t = 1..n + 2 /\ t[n + 2] = "]"
      /\ \A i \in 1..n + 1 : t[i] = w[i]
  <2>1. /\ t \in Texts /\ Len(t) = Len(w) + 1 /\ DOMAIN t = 1..Len(w) + 1 /\ t[Len(w) + 1] = "]"
        /\ \A i \in 1..Len(w) : t[i] = w[i]
    <3>1. "]" \in Char
      BY CharsAre
    <3>2. QED BY <1>0, <1>1, <3>1, CharMore
  <2>2. QED BY <1>1, <2>1
<1>3. t[n + 1] = "[" /\ \A i \in 1..n : t[i] = v[i]
  BY <1>1, <1>2
<1>4. \A i \in Nat : i \in Markers(t) <=> i \in Markers(v) \/ i = n + 1
  BY <1>0, MarkersOfMore
<1>5. /\ \A i \in Markers(v) : i \in 1..n /\ i \in Nat
      /\ \A i \in Markers(t) : i \in Nat
      /\ Over(v) \subseteq Markers(v) /\ Over(t) \subseteq Markers(t)
      /\ Live(v) \subseteq Markers(v) /\ Live(t) \subseteq Markers(t)
      /\ IsFiniteSet(Live(v)) /\ Cardinality(Live(v)) \in Nat
      /\ Gone(v) \in SUBSET (DOMAIN v) /\ Cap(v) = Rest(v, Gone(v)) /\ Cap(t) = Rest(t, Gone(t))
  BY <1>1, <1>2, MarkersType
<1>6. n + 1 \in Markers(t) /\ \A i \in 1..n : i # n + 1
  BY <1>1, <1>4
<1>7. \A i \in 1..n : i \in Over(t) <=> i \in Over(v)
  <2>1. \A i \in 1..n : i \in Markers(t) <=> i \in Markers(v)
    BY <1>1, <1>4, <1>6
  <2>2. QED BY <1>0, <1>2, <1>3, <2>1, OverBelow
<1>8. \A i \in 1..n : /\ SameLine(t, i, n + 1) <=> SameLine(v, i, n)
                      /\ SameLine(t, i, n + 2) <=> SameLine(v, i, n)
  <2> TAKE i \in 1..n
  <2>1. /\ \A h \in i..n + 2 : h \in i..n \/ h = n + 1 \/ h = n + 2
        /\ \A h \in i..n + 1 : h \in i..n \/ h = n + 1
        /\ \A h \in i..n : h \in 1..n /\ h \in i..n + 1 /\ h \in i..n + 2
    BY <1>1
  <2>2. t[n + 1] # Newline /\ t[n + 2] # Newline
    BY <1>2, <1>3, CharsAre
  <2>3. QED BY <1>3, <2>1, <2>2 DEF SameLine
<1>9. n + 1 \in Over(t) <=> Cardinality(Live(v)) >= MaxMarkers
  <2>1. {j \in Markers(t) : j < n + 1 /\ SameLine(t, j, n + 1)} = Live(v)
    <3>1. \A j \in Markers(t) : j < n + 1 => j \in Markers(v)
      BY <1>1, <1>4, <1>5
    <3>2. \A j \in Markers(v) : j \in Markers(t) /\ j < n + 1 /\ j \in 1..n
      BY <1>1, <1>4, <1>5
    <3>3. Live(v) = {j \in Markers(v) : SameLine(v, j, n)}
      BY <1>0 DEF Live
    <3>4. QED BY <1>8, <3>1, <3>2, <3>3
  <2>2. QED BY <1>6, <2>1 DEF Over
<1>10. Cardinality(Live(t)) = Cardinality(Live(v)) + 1
  <2>1. Live(t) = Live(v) \cup {n + 1}
    <3>1. SameLine(t, n + 1, n + 2)
      <4>1. \A h \in n + 1..n + 2 : h = n + 1 \/ h = n + 2
        BY <1>1
      <4>2. t[n + 1] # Newline /\ t[n + 2] # Newline
        BY <1>2, <1>3, CharsAre
      <4>3. QED BY <4>1, <4>2 DEF SameLine
    <3>2. Live(t) = {j \in Markers(t) : SameLine(t, j, n + 2)} /\ Live(v) = {j \in Markers(v) : SameLine(v, j, n)}
      BY <1>0, <1>2 DEF Live
    <3>3. \A j : j \in Live(t) <=> j \in Live(v) \/ j = n + 1
      BY <1>4, <1>5, <1>6, <1>8, <3>1, <3>2
    <3>4. QED BY <3>3
  <2>2. n + 1 \notin Live(v)
    BY <1>5, <1>6
  <2>3. QED BY <1>5, <2>1, <2>2, FS_AddElement
<1>11. CASE Cardinality(Live(v)) < MaxMarkers
  <2>1. n + 1 \notin Over(t)
    BY <1>5, <1>9, <1>11, SummaryConstants
  <2>2. \A i : i \in Over(t) <=> i \in Over(v)
    BY <1>4, <1>5, <1>7, <2>1
  <2>3. Gone(t) = Gone(v)
    <3>1. Over(t) = Over(v)
      BY <2>2
    <3>2. QED BY <3>1 DEF Gone
  <2>4. Rest(w, Gone(v)) = Append(Rest(v, Gone(v)), "[")
    BY <1>0, <1>5, CharsAre, RestMore
  <2>5. Rest(t, Gone(v)) = Append(Rest(w, Gone(v)), "]")
    <3>1. Gone(v) \in SUBSET (DOMAIN w)
      BY <1>1, <1>5
    <3>2. QED BY <1>0, <1>1, <3>1, CharsAre, RestMore
  <2>6. Cap(t) = Append(Append(Cap(v), "["), "]")
    BY <1>5, <2>3, <2>4, <2>5
  <2>7. ~(Cardinality(Live(v)) >= MaxMarkers)
    BY <1>5, <1>11, SummaryConstants
  <2>8. QED BY <1>0, <1>10, <2>6, <2>7
<1>12. CASE Cardinality(Live(v)) >= MaxMarkers
  <2>1. \A i : i \in Over(t) <=> i \in Over(v) \/ i = n + 1
    BY <1>4, <1>5, <1>6, <1>7, <1>9, <1>12
  <2>2. Gone(t) = (Gone(v) \cup {n + 1}) \cup {n + 2}
    <3>1. Over(t) = Over(v) \cup {n + 1} /\ n + 1 + 1 = n + 2
      BY <1>1, <2>1
    <3>2. {i + 1 : i \in Over(t)} = {i + 1 : i \in Over(v)} \cup {n + 2}
      BY <3>1
    <3>3. QED BY <3>1, <3>2 DEF Gone
  <2>3. Rest(w, Gone(v) \cup {n + 1}) = Rest(v, Gone(v))
    BY <1>0, <1>5, CharsAre, RestMore
  <2>4. Rest(t, (Gone(v) \cup {n + 1}) \cup {n + 2}) = Rest(w, Gone(v) \cup {n + 1})
    <3>1. Gone(v) \cup {n + 1} \in SUBSET (DOMAIN w) /\ n + 2 = Len(w) + 1
      BY <1>1, <1>5
    <3> DEFINE X == Gone(v) \cup {n + 1}
    <3> HIDE DEF X
    <3>2. X \in SUBSET (DOMAIN w)
      BY <3>1 DEF X
    <3>3. Rest(Append(w, "]"), X \cup {Len(w) + 1}) = Rest(w, X)
      BY <1>1, <3>2, CharsAre, RestMore
    <3>4. QED BY <1>0, <3>1, <3>3 DEF X
  <2>5. Cap(t) = Cap(v)
    BY <1>5, <2>2, <2>3, <2>4
  <2>6. ~(Cardinality(Live(v)) < MaxMarkers)
    BY <1>5, <1>12, SummaryConstants
  <2>7. QED BY <1>0, <1>10, <2>5, <2>6
<1>13. QED BY <1>5, <1>11, <1>12, SummaryConstants

\* What looked like a timecode is a link.
LEMMA LinkMore ==
    ASSUME NEW v \in Texts
    PROVE  LET t == Append(Append(Append(v, "["), "]"), "(") IN
             /\ Cap(t) = Append(Append(Append(Cap(v), "["), "]"), "(") /\ Live(t) = Live(v)
             /\ t \in Texts /\ ~Opens(t) /\ ~Closes(t)
<1>0. PICK n, w, u, t : n = Len(v) /\ w = Append(v, "[") /\ u = Append(w, "]") /\ t = Append(u, "(")
  OBVIOUS
<1>1. /\ n \in Nat /\ DOMAIN v = 1..n /\ w \in Texts /\ Len(w) = n + 1 /\ DOMAIN w = 1..n + 1
      /\ w[n + 1] = "[" /\ \A i \in 1..n : w[i] = v[i]
  <2>1. "[" \in Char
    BY CharsAre
  <2>2. QED BY <1>0, <2>1, CharMore
<1>2. /\ u \in Texts /\ Len(u) = n + 2 /\ DOMAIN u = 1..n + 2 /\ u[n + 2] = "]"
      /\ \A i \in 1..n + 1 : u[i] = w[i]
  <2>1. /\ u \in Texts /\ Len(u) = Len(w) + 1 /\ DOMAIN u = 1..Len(w) + 1 /\ u[Len(w) + 1] = "]"
        /\ \A i \in 1..Len(w) : u[i] = w[i]
    <3>1. "]" \in Char
      BY CharsAre
    <3>2. QED BY <1>0, <1>1, <3>1, CharMore
  <2>2. QED BY <1>1, <2>1
<1>3. /\ t \in Texts /\ Len(t) = n + 3 /\ DOMAIN t = 1..n + 3 /\ t[n + 3] = "("
      /\ \A i \in 1..n + 2 : t[i] = u[i]
  <2>1. u \in Texts /\ "(" \in Char
    BY <1>2, CharsAre
  <2>2. /\ Append(u, "(") \in Texts /\ Len(Append(u, "(")) = Len(u) + 1
        /\ DOMAIN Append(u, "(") = 1..Len(u) + 1 /\ Append(u, "(")[Len(u) + 1] = "("
        /\ \A i \in 1..Len(u) : Append(u, "(")[i] = u[i]
    BY <2>1, CharMore
  <2>3. QED BY <1>0, <1>1, <1>2, <2>2
<1>4. t[n + 1] = "[" /\ t[n + 2] = "]" /\ \A i \in 1..n : t[i] = v[i]
  BY <1>1, <1>2, <1>3
<1>5. ~Opens(t) /\ ~Closes(t)
  BY <1>1, <1>3 DEF Opens, Closes
<1>6. \A i \in Markers(v) : i \in 1..n /\ i \in Nat
  BY <1>1, MarkersType
<1>7. \A i \in Nat : i \in Markers(t) <=> i \in Markers(v)
  <2>1. \A i \in Nat : i \in Markers(u) <=> i \in Markers(v) \/ i = n + 1
    BY <1>0, MarkersOfMore
  <2>2. \A i \in Nat : i \in Markers(t) <=> i \in Markers(u) /\ i # Len(u) - 1
    BY <1>0, <1>2, MarkerAppended, LinkMarkers
  <2>3. Len(u) - 1 = n + 1
    BY <1>1, <1>2
  <2>4. QED BY <1>1, <1>6, <2>1, <2>2, <2>3
<1>8. Gone(t) = Gone(v)
  <2>1. Len(v) <= Len(t) /\ \A i \in 1..Len(v) : t[i] = v[i]
    BY <1>0, <1>1, <1>3, <1>4
  <2>2. QED BY <1>3, <1>7, <2>1, SameMarkers
<1>9. Cap(t) = Append(Append(Append(Cap(v), "["), "]"), "(")
  <2>1. Gone(v) \in SUBSET (DOMAIN v) /\ Cap(v) = Rest(v, Gone(v)) /\ Cap(t) = Rest(t, Gone(t))
    BY <1>3, MarkersType
  <2>2. Gone(v) \in SUBSET (DOMAIN w) /\ Gone(v) \in SUBSET (DOMAIN u)
    BY <1>1, <1>2, <2>1
  <2>3. Rest(w, Gone(v)) = Append(Rest(v, Gone(v)), "[")
    BY <1>0, <2>1, CharsAre, RestMore
  <2>4. Rest(u, Gone(v)) = Append(Rest(w, Gone(v)), "]")
    BY <1>0, <1>1, <2>2, CharsAre, RestMore
  <2>5. Rest(t, Gone(v)) = Append(Rest(u, Gone(v)), "(")
    BY <1>0, <1>2, <2>2, CharsAre, RestMore
  <2>6. QED BY <1>8, <2>1, <2>3, <2>4, <2>5
<1>10. Live(t) = Live(v)
  <2>1. \A i \in Markers(t) : i \in Nat
    BY <1>3, MarkersType
  <2>2. \A i \in 1..n : SameLine(t, i, n + 3) <=> SameLine(v, i, n)
    <3> TAKE i \in 1..n
    <3>1. /\ \A h \in i..n + 3 : h \in i..n \/ h = n + 1 \/ h = n + 2 \/ h = n + 3
          /\ \A h \in i..n : h \in 1..n /\ h \in i..n + 3
      BY <1>1
    <3>2. t[n + 1] # Newline /\ t[n + 2] # Newline /\ t[n + 3] # Newline
      BY <1>3, <1>4, CharsAre
    <3>3. QED BY <1>4, <3>1, <3>2 DEF SameLine
  <2>3. Live(t) = {j \in Markers(t) : SameLine(t, j, n + 3)} /\ Live(v) = {j \in Markers(v) : SameLine(v, j, n)}
    BY <1>0, <1>3 DEF Live
  <2>4. \A j : j \in Live(t) <=> j \in Live(v)
    BY <1>6, <1>7, <2>1, <2>2, <2>3
  <2>5. QED BY <2>4
<1>11. QED BY <1>0, <1>3, <1>5, <1>9, <1>10

CapType == [n : Nat, cand : {<<>>, <<"[">>, Marker}, ws : Seq({"~"}), out : Texts]

\* The cap has counted the timecodes on the last line of v, and let out all of v
\* that is to be let out, but for spaces.
Agrees(k, v) ==
    /\ Inky(k.out) = Inky(Cap(v))
    /\ k.n = IF Cardinality(Live(v)) <= MaxMarkers THEN Cardinality(Live(v)) ELSE MaxMarkers

\* The cap is where it is after the text u; it holds back what may be a timecode.
Capped(k, u) ==
    /\ k \in CapType
    /\ \E v \in Texts : /\ u = v \o k.cand /\ Agrees(k, v)
                        /\ k.cand = <<>> => ~Opens(v) /\ ~Closes(v)

LEMMA CapInTexts ==
    ASSUME NEW v \in Texts
    PROVE  Cap(v) \in Texts
  BY MarkersType, RestMore, CharsAre

LEMMA InkyAlike ==
    ASSUME NEW s \in Texts, NEW t \in Texts, Inky(s) = Inky(t), NEW c \in Char
    PROVE  Inky(Append(s, c)) = Inky(Append(t, c))
  BY InkyAppend

LEMMA HeldTypes ==
    /\ <<"[">> \in Texts /\ Marker \in Texts /\ <<>> \in Texts /\ <<>> \in Seq({"~"})
    /\ <<"[">> # <<>> /\ Marker # <<>> /\ Marker # <<"[">>
<1>1. <<"[">> \in Texts /\ <<>> \in Texts /\ <<>> \in Seq({"~"})
  BY CharsAre, OneChar
<1>2. Marker \in Texts
  BY CharsAre DEF Marker, Texts
<1>3. Len(<<"[">>) = 1 /\ Len(Marker) = 2 /\ Len(<<>>) = 0
  BY DEF Marker
<1>4. QED BY <1>1, <1>2, <1>3

\* What is let out with the spaces before it.
LEMMA LetOut ==
    ASSUME NEW k \in CapType, NEW t \in Texts
    PROVE  /\ k.out \o k.ws \in Texts /\ Inky(k.out \o k.ws) = Inky(k.out)
           /\ (k.out \o k.ws) \o t \in Texts
  BY InkySpaces, TextsClosed DEF CapType

LEMMA CapPlainAgrees ==
    ASSUME NEW k \in CapType, k.cand = <<>>, NEW v \in Texts, Agrees(k, v),
           NEW c \in Char, Sits(v, c)
    PROVE  Capped(CapPlain(k, c), Append(v, c))
<1>0. PICK h, t : h = CapPlain(k, c) /\ t = Append(v, c)
  OBVIOUS
<1>1. t \in Texts /\ Len(t) = Len(v) + 1 /\ Len(v) \in Nat /\ t[Len(v) + 1] = c
      /\ \A i \in 1..Len(v) : t[i] = v[i]
  BY <1>0, CharMore
<1>2. Cap(t) = Append(Cap(v), c) /\ Live(t) = (IF c = Newline THEN {} ELSE Live(v)) /\ Cap(v) \in Texts
  BY <1>0, PlainMore, CapInTexts
<1>3. t \o <<>> = t
  BY <1>1, TextsClosed
<1>4. k.n \in Nat /\ k.ws \in Seq({"~"}) /\ k.out \in Texts
  BY DEF CapType
<1>5. CASE c = "~"
  <2>1. h = [k EXCEPT !.ws = Append(@, c)]
    BY <1>0, <1>5 DEF CapPlain
  <2>2. Append(k.ws, c) \in Seq({"~"})
    BY <1>4, <1>5
  <2>3. h \in CapType /\ h.cand = <<>> /\ h.out = k.out /\ h.n = k.n
    BY <1>4, <2>1, <2>2 DEF CapType
  <2>4. Inky(Cap(t)) = Inky(Cap(v)) /\ Live(t) = Live(v)
    BY <1>2, <1>5, InkyAppend, CharsAre
  <2>5. Agrees(h, t)
    BY <2>3, <2>4 DEF Agrees
  <2>6. ~Opens(t) /\ ~Closes(t)
    BY <1>1, <1>5 DEF Opens, Closes
  <2>7. QED BY <1>0, <1>1, <1>3, <2>3, <2>5, <2>6 DEF Capped
<1>6. CASE c = "["
  <2>1. h = [k EXCEPT !.cand = <<c>>]
    BY <1>0, <1>6 DEF CapPlain
  <2>2. h \in CapType /\ h.cand = <<"[">> /\ h.out = k.out /\ h.n = k.n
    BY <1>4, <1>6, <2>1 DEF CapType
  <2>3. Agrees(h, v)
    BY <2>2 DEF Agrees
  <2>4. t = v \o h.cand /\ h.cand # <<>>
    BY <1>0, <1>6, <2>2, MarkerAppended, HeldTypes
  <2>5. QED BY <1>0, <2>2, <2>3, <2>4 DEF Capped
<1>7. CASE c # "~" /\ c # "["
  <2>1. h = [k EXCEPT !.n = IF c = Newline THEN 0 ELSE @, !.ws = <<>>, !.out = @ \o Append(k.ws, c)]
    BY <1>0, <1>7 DEF CapPlain
  <2>2. /\ k.ws \in Texts /\ Append(k.ws, c) = k.ws \o <<c>> /\ <<c>> \in Texts
        /\ Append(k.ws, c) \in Texts
    BY <1>4, InkySpaces, TextsClosed, OneChar
  <2>3. k.out \o Append(k.ws, c) = Append(k.out \o k.ws, c) /\ k.out \o Append(k.ws, c) \in Texts
    <3>1. k.out \o k.ws \in Texts
      BY LetOut, OneChar
    <3>2. Append(k.out \o k.ws, c) = (k.out \o k.ws) \o <<c>>
      BY <3>1, TextsClosed
    <3>3. (k.out \o k.ws) \o <<c>> = k.out \o (k.ws \o <<c>>)
      BY <1>4, <2>2, Assoc
    <3>4. k.out \o Append(k.ws, c) \in Texts
      BY <1>4, <2>2, TextsClosed
    <3>5. QED BY <2>2, <3>2, <3>3, <3>4
  <2>4. /\ h \in CapType /\ h.cand = <<>> /\ h.out = Append(k.out \o k.ws, c)
        /\ h.n = IF c = Newline THEN 0 ELSE k.n
    <3>1. (IF c = Newline THEN 0 ELSE k.n) \in Nat
      BY <1>4
    <3>2. QED BY <1>4, <2>1, <2>3, <3>1, HeldTypes DEF CapType
  <2>5. Inky(h.out) = Inky(Cap(t))
    <3>1. k.out \o k.ws \in Texts /\ Inky(k.out \o k.ws) = Inky(Cap(v))
      BY LetOut, OneChar DEF Agrees
    <3>2. QED BY <1>2, <2>4, <3>1, InkyAlike
  <2>6. h.n = IF Cardinality(Live(t)) <= MaxMarkers THEN Cardinality(Live(t)) ELSE MaxMarkers
    <3>1. CASE c = Newline
      <4>1. Cardinality(Live(t)) = 0
        BY <1>2, <3>1, FS_EmptySet
      <4>2. QED BY <2>4, <3>1, <4>1, SummaryConstants
    <3>2. CASE c # Newline
      BY <1>2, <2>4, <3>2 DEF Agrees
    <3>3. QED BY <3>1, <3>2
  <2>7. ~Opens(t) /\ ~Closes(t)
    <3>1. ~Opens(t)
      BY <1>1, <1>7 DEF Opens
    <3>2. ASSUME Closes(t)
          PROVE  FALSE
      <4>1. Len(t) - 1 = Len(v) /\ Len(v) >= 1 /\ t[Len(v)] = "[" /\ c = "]"
        BY <1>1, <3>2 DEF Closes
      <4>2. v[Len(v)] = "["
        BY <1>1, <4>1
      <4>3. QED BY <4>1, <4>2 DEF Sits, Opens
    <3>3. QED BY <3>1, <3>2
  <2>8. QED BY <1>0, <1>1, <1>3, <2>4, <2>5, <2>6, <2>7 DEF Capped, Agrees
<1>8. QED BY <1>5, <1>6, <1>7

LEMMA Released ==
    ASSUME NEW k \in CapType
    PROVE  /\ Release(k) \in CapType /\ Release(k).cand = <<>> /\ Release(k).ws = <<>>
           /\ Release(k).n = k.n /\ Release(k).out = (k.out \o k.ws) \o k.cand
<1>1. k.cand \in Texts
  BY HeldTypes DEF CapType
<1>2. (k.out \o k.ws) \o k.cand \in Texts
  BY <1>1, LetOut
<1>3. Release(k) = [k EXCEPT !.cand = <<>>, !.ws = <<>>, !.out = (k.out \o k.ws) \o k.cand]
  BY DEF Release, CapType
<1>4. QED BY <1>2, <1>3, HeldTypes DEF CapType

\* A bracket that begins no timecode.
LEMMA BracketReleased ==
    ASSUME NEW k \in CapType, k.cand = <<"[">>, NEW v \in Texts, Agrees(k, v)
    PROVE  Agrees(Release(k), Append(v, "["))
<1>1. PICK s : s = k.out \o k.ws
  OBVIOUS
<1>2. s \in Texts /\ Inky(s) = Inky(Cap(v)) /\ Cap(v) \in Texts
  BY <1>1, LetOut, CapInTexts, OneChar DEF Agrees
<1>3. Release(k).out = Append(s, "[") /\ Release(k).n = k.n
  <2>1. Release(k).out = s \o <<"[">> /\ Release(k).n = k.n
    BY <1>1, Released
  <2>2. s \o <<"[">> = Append(s, "[")
    BY <1>2, MarkerAppended
  <2>3. QED BY <2>1, <2>2
<1>4. Cap(Append(v, "[")) = Append(Cap(v), "[") /\ Live(Append(v, "[")) = Live(v)
  BY CharsAre, MarkerAppended, PlainMore
<1>5. Inky(Append(s, "[")) = Inky(Append(Cap(v), "["))
  BY <1>2, CharsAre, InkyAlike
<1>6. QED BY <1>3, <1>4, <1>5 DEF Agrees

\* A timecode: it is let out, or it is one too many.
LEMMA MarkerResolved ==
    ASSUME NEW k \in CapType, k.cand = Marker, NEW v \in Texts, Agrees(k, v)
    PROVE  /\ Resolve(k) \in CapType /\ Resolve(k).cand = <<>>
           /\ Agrees(Resolve(k), Append(Append(v, "["), "]"))
<1>1. PICK s, t, m : s = k.out \o k.ws /\ t = Append(Append(v, "["), "]") /\ m = Cardinality(Live(v))
  OBVIOUS
<1>2. s \in Texts /\ Inky(s) = Inky(Cap(v)) /\ Cap(v) \in Texts
  BY <1>1, LetOut, CapInTexts, OneChar DEF Agrees
<1>3. m \in Nat /\ MaxMarkers \in Nat /\ k.n = IF m <= MaxMarkers THEN m ELSE MaxMarkers
  BY <1>1, MarkersType, SummaryConstants DEF Agrees
<1>4. /\ Cardinality(Live(t)) = m + 1
      /\ m >= MaxMarkers => Cap(t) = Cap(v)
      /\ m < MaxMarkers => Cap(t) = Append(Append(Cap(v), "["), "]")
  BY <1>1, MarkerMore
<1>5. k.n \in Nat /\ k.ws \in Seq({"~"}) /\ k.out \in Texts
  BY DEF CapType
<1>6. CASE m >= MaxMarkers
  <2>1. Resolve(k) = [k EXCEPT !.cand = <<>>, !.ws = <<>>]
    BY <1>3, <1>6 DEF Resolve
  <2>2. /\ Resolve(k) \in CapType /\ Resolve(k).cand = <<>>
        /\ Resolve(k).n = k.n /\ Resolve(k).out = k.out
    BY <2>1, HeldTypes DEF CapType
  <2>3. Inky(k.out) = Inky(Cap(t))
    BY <1>4, <1>6 DEF Agrees
  <2>4. k.n = IF m + 1 <= MaxMarkers THEN m + 1 ELSE MaxMarkers
    BY <1>3, <1>6
  <2>5. QED BY <1>1, <1>4, <2>2, <2>3, <2>4 DEF Agrees
<1>7. CASE m < MaxMarkers
  <2>0. PICK r : r = Release(k)
    OBVIOUS
  <2>1. Resolve(k) = [r EXCEPT !.n = r.n + 1]
    BY <1>3, <1>7, <2>0 DEF Resolve
  <2>2. r \in CapType /\ r.cand = <<>> /\ r.n = k.n /\ r.out = Append(Append(s, "["), "]")
    BY <1>1, <1>2, <2>0, Released, MarkerAppended
  <2>3. /\ Resolve(k) \in CapType /\ Resolve(k).cand = <<>> /\ Resolve(k).n = k.n + 1
        /\ Resolve(k).out = Append(Append(s, "["), "]")
    <3>1. r.n + 1 \in Nat
      BY <1>5, <2>2
    <3>2. QED BY <2>1, <2>2, <3>1 DEF CapType
  <2>4. Inky(Append(Append(s, "["), "]")) = Inky(Cap(t))
    <3>1. Inky(Append(s, "[")) = Inky(Append(Cap(v), "["))
      BY <1>2, CharsAre, InkyAlike
    <3>2. Append(s, "[") \in Texts /\ Append(Cap(v), "[") \in Texts /\ "]" \in Char
      BY <1>2, MarkerAppended, CharsAre
    <3>3. Inky(Append(Append(s, "["), "]")) = Inky(Append(Append(Cap(v), "["), "]"))
      BY <3>1, <3>2, InkyAlike
    <3>4. QED BY <1>4, <1>7, <3>3
  <2>5. k.n + 1 = IF m + 1 <= MaxMarkers THEN m + 1 ELSE MaxMarkers
    BY <1>3, <1>7
  <2>6. QED BY <1>1, <1>4, <2>3, <2>4, <2>5 DEF Agrees
<1>8. QED BY <1>3, <1>6, <1>7

\* A link that looked like a timecode.
LEMMA LinkReleased ==
    ASSUME NEW k \in CapType, k.cand = Marker, NEW v \in Texts, Agrees(k, v)
    PROVE  Capped(CapPlain(Release(k), "("), Append(Append(Append(v, "["), "]"), "("))
<1>1. PICK s, t, r, h : /\ s = k.out \o k.ws /\ t = Append(Append(Append(v, "["), "]"), "(")
                        /\ r = Release(k) /\ h = CapPlain(r, "(")
  OBVIOUS
<1>2. s \in Texts /\ Inky(s) = Inky(Cap(v)) /\ Cap(v) \in Texts
  BY <1>1, LetOut, CapInTexts, OneChar DEF Agrees
<1>3. /\ r \in CapType /\ r.cand = <<>> /\ r.ws = <<>> /\ r.n = k.n
      /\ r.out = Append(Append(s, "["), "]")
  BY <1>1, <1>2, Released, MarkerAppended
<1>4. r.out \in Texts /\ r.n \in Nat /\ Append(<<>>, "(") = <<"(">>
  <2>1. r.out \in Texts /\ r.n \in Nat
    BY <1>3 DEF CapType
  <2>2. Append(<<>>, "(") = <<"(">>
    OBVIOUS
  <2>3. QED BY <2>1, <2>2
<1>5. r.out \o <<"(">> = Append(r.out, "(") /\ r.out \o <<"(">> \in Texts
  BY <1>4, CharsAre, TextsClosed
<1>6. h = [r EXCEPT !.n = r.n, !.ws = <<>>, !.out = r.out \o <<"(">>]
  <2>1. "(" # "~" /\ "(" # "[" /\ "(" # Newline
    BY CharsAre
  <2>2. h = [r EXCEPT !.n = IF "(" = Newline THEN 0 ELSE @, !.ws = <<>>, !.out = @ \o Append(r.ws, "(")]
    BY <1>1, <2>1 DEF CapPlain
  <2>3. QED BY <1>3, <1>4, <2>1, <2>2 DEF CapType
<1>7. h \in CapType /\ h.cand = <<>> /\ h.n = k.n /\ h.out = Append(r.out, "(")
  BY <1>3, <1>4, <1>5, <1>6, HeldTypes DEF CapType
<1>8. /\ Cap(t) = Append(Append(Append(Cap(v), "["), "]"), "(") /\ Live(t) = Live(v)
      /\ t \in Texts /\ ~Opens(t) /\ ~Closes(t)
  BY <1>1, LinkMore
<1>9. Inky(h.out) = Inky(Cap(t))
  <2>1. Inky(Append(s, "[")) = Inky(Append(Cap(v), "["))
    BY <1>2, CharsAre, InkyAlike
  <2>2. Append(s, "[") \in Texts /\ Append(Cap(v), "[") \in Texts
        /\ Append(Append(s, "["), "]") \in Texts /\ Append(Append(Cap(v), "["), "]") \in Texts
    BY <1>2, MarkerAppended
  <2>3. Inky(Append(Append(s, "["), "]")) = Inky(Append(Append(Cap(v), "["), "]"))
    BY <2>1, <2>2, CharsAre, InkyAlike
  <2>4. Inky(Append(r.out, "(")) = Inky(Append(Append(Append(Cap(v), "["), "]"), "("))
    BY <1>3, <2>2, <2>3, CharsAre, InkyAlike
  <2>5. QED BY <1>7, <1>8, <2>4
<1>10. Agrees(h, t)
  BY <1>7, <1>8, <1>9 DEF Agrees
<1>11. t = t \o h.cand
  BY <1>7, <1>8, TextsClosed
<1>12. QED BY <1>1, <1>7, <1>8, <1>10, <1>11 DEF Capped

LEMMA CapFeedAgrees ==
    ASSUME NEW k, NEW u, Capped(k, u), NEW c \in Char
    PROVE  Capped(CapFeed(k, c), Append(u, c))
<1>1. PICK v \in Texts : /\ u = v \o k.cand /\ Agrees(k, v)
                         /\ k.cand = <<>> => ~Opens(v) /\ ~Closes(v)
  BY DEF Capped
<1>2. k \in CapType /\ k.cand \in {<<>>, <<"[">>, Marker}
  BY DEF Capped, CapType
<1>3. CASE k.cand = <<>>
  <2>1. CapFeed(k, c) = CapPlain(k, c)
    BY <1>3, HeldTypes DEF CapFeed
  <2>2. u = v /\ Sits(v, c)
    BY <1>1, <1>3, TextsClosed DEF Sits
  <2>3. QED BY <1>1, <1>2, <1>3, <2>1, <2>2, CapPlainAgrees
<1>4. CASE k.cand = <<"[">> /\ c = "]"
  <2>1. CapFeed(k, c) = [k EXCEPT !.cand = Marker]
    BY <1>4, HeldTypes DEF CapFeed
  <2>2. Append(u, c) = v \o Marker
    BY <1>1, <1>4, MarkerAppended
  <2>3. /\ CapFeed(k, c) \in CapType /\ CapFeed(k, c).cand = Marker
        /\ CapFeed(k, c).n = k.n /\ CapFeed(k, c).out = k.out
    BY <1>2, <2>1 DEF CapType
  <2>4. Agrees(CapFeed(k, c), v)
    BY <1>1, <2>3 DEF Agrees
  <2>5. QED BY <2>2, <2>3, <2>4, HeldTypes DEF Capped
<1>5. CASE k.cand = <<"[">> /\ c # "]"
  <2>1. CapFeed(k, c) = CapPlain(Release(k), c)
    BY <1>5, HeldTypes DEF CapFeed
  <2>2. u = Append(v, "[") /\ u \in Texts /\ Sits(u, c)
    <3>1. v \o <<"[">> = Append(v, "[") /\ Append(v, "[") \in Texts /\ ~Closes(Append(v, "["))
      BY MarkerAppended
    <3>2. u = Append(v, "[")
      BY <1>1, <1>5, <3>1
    <3>3. QED BY <1>5, <3>1, <3>2 DEF Sits
  <2>3. Release(k) \in CapType /\ Release(k).cand = <<>>
    BY <1>2, Released
  <2>4. Agrees(Release(k), u)
    BY <1>1, <1>2, <1>5, <2>2, BracketReleased
  <2>5. QED BY <2>1, <2>2, <2>3, <2>4, CapPlainAgrees
<1>6. CASE k.cand = Marker /\ c = "("
  <2>1. CapFeed(k, c) = CapPlain(Release(k), "(")
    BY <1>6 DEF CapFeed
  <2>2. u = Append(Append(v, "["), "]")
    BY <1>1, <1>6, MarkerAppended
  <2>3. QED BY <1>1, <1>2, <1>6, <2>1, <2>2, LinkReleased
<1>7. CASE k.cand = Marker /\ c # "("
  <2>1. CapFeed(k, c) = CapPlain(Resolve(k), c)
    <3>1. CapFeed(k, c) = CapPlain(IF c = "(" THEN Release(k) ELSE Resolve(k), c)
      BY <1>7, HeldTypes DEF CapFeed
    <3>2. QED BY <1>7, <3>1
  <2>2. u = Append(Append(v, "["), "]") /\ u \in Texts /\ Sits(u, c)
    <3>0. PICK t : t = Append(Append(v, "["), "]")
      OBVIOUS
    <3>1. v \o Marker = t /\ t \in Texts /\ ~Opens(t)
      BY <3>0, MarkerAppended
    <3>2. u = t
      BY <1>1, <1>7, <3>1
    <3>3. QED BY <1>7, <3>0, <3>1, <3>2 DEF Sits
  <2>3. Resolve(k) \in CapType /\ Resolve(k).cand = <<>> /\ Agrees(Resolve(k), u)
    BY <1>1, <1>2, <1>7, <2>2, MarkerResolved
  <2>4. QED BY <2>1, <2>2, <2>3, CapPlainAgrees
<1>8. QED BY <1>2, <1>3, <1>4, <1>5, <1>6, <1>7

LEMMA CapFlushed ==
    ASSUME NEW k, NEW u, Capped(k, u)
    PROVE  Inky(CapFlush(k).out) = Inky(Cap(u))
<1>1. PICK v \in Texts : u = v \o k.cand /\ Agrees(k, v)
  BY DEF Capped
<1>2. k \in CapType /\ k.cand \in {<<>>, <<"[">>, Marker}
  BY DEF Capped, CapType
<1>3. CASE k.cand = Marker
  <2>1. u = Append(Append(v, "["), "]")
    BY <1>1, <1>3, MarkerAppended
  <2>2. Agrees(Resolve(k), u)
    BY <1>1, <1>2, <1>3, <2>1, MarkerResolved
  <2>3. QED BY <1>3, <2>2 DEF Agrees, CapFlush
<1>4. CASE k.cand = <<"[">>
  <2>1. u = Append(v, "[")
    BY <1>1, <1>4, MarkerAppended
  <2>2. Agrees(Release(k), u)
    BY <1>1, <1>2, <1>4, <2>1, BracketReleased
  <2>3. QED BY <1>4, <2>2, HeldTypes DEF Agrees, CapFlush
<1>5. CASE k.cand = <<>>
  <2>1. u = v
    BY <1>1, <1>5, TextsClosed
  <2>2. CapFlush(k).out = (k.out \o k.ws) \o <<>>
    BY <1>2, <1>5, Released, HeldTypes DEF CapFlush
  <2>3. (k.out \o k.ws) \o <<>> = k.out \o k.ws /\ Inky(k.out \o k.ws) = Inky(k.out)
    BY <1>2, LetOut, TextsClosed, OneChar
  <2>4. QED BY <1>1, <2>1, <2>2, <2>3 DEF Agrees
<1>6. QED BY <1>2, <1>3, <1>4, <1>5

LEMMA OneMoreChar ==
    ASSUME NEW t \in Texts, NEW m \in 1..Len(t)
    PROVE  Append(SubSeq(t, 1, m - 1), t[m]) = SubSeq(t, 1, m)
<1>1. t \in Seq(Char) /\ Len(t) \in Nat /\ m \in Nat
  BY DEF Texts
<1>2. SubSeq(t, 1, m - 1) \in Seq(Char) /\ Len(SubSeq(t, 1, m - 1)) = m - 1
      /\ \A i \in 1..m - 1 : SubSeq(t, 1, m - 1)[i] = t[i]
  BY <1>1
<1>3. SubSeq(t, 1, m) \in Seq(Char) /\ Len(SubSeq(t, 1, m)) = m
      /\ \A i \in 1..m : SubSeq(t, 1, m)[i] = t[i]
  BY <1>1
<1>4. PICK s, u, w : s = SubSeq(t, 1, m - 1) /\ u = SubSeq(t, 1, m) /\ w = Append(s, t[m])
  OBVIOUS
<1>5. s \in Seq(Char) /\ Len(s) = m - 1 /\ (\A i \in 1..m - 1 : s[i] = t[i])
      /\ u \in Seq(Char) /\ Len(u) = m /\ (\A i \in 1..m : u[i] = t[i]) /\ t[m] \in Char
  BY <1>1, <1>2, <1>3, <1>4
<1>6. w \in Seq(Char) /\ Len(w) = m /\ w[m] = t[m] /\ \A i \in 1..m - 1 : w[i] = t[i]
  <2>1. w \in Seq(Char) /\ Len(w) = (m - 1) + 1 /\ w[(m - 1) + 1] = t[m] /\ \A i \in 1..m - 1 : w[i] = s[i]
    BY <1>4, <1>5, AppendIsSeq
  <2>2. QED BY <1>1, <1>5, <2>1
<1>7. \A i \in 1..m : w[i] = u[i]
  <2>1. \A i \in 1..m : i = m \/ i \in 1..m - 1
    BY <1>1
  <2>2. QED BY <1>5, <1>6, <2>1
<1>8. w = u
  BY <1>5, <1>6, <1>7, SeqEqual
<1>9. QED BY <1>4, <1>8

LEMMA TwoParts ==
    ASSUME NEW s \in Texts, NEW new \in Texts
    PROVE  /\ s \o new \in Texts /\ Len(s \o new) = Len(s) + Len(new)
           /\ Len(s) \in Nat /\ Len(new) \in Nat
           /\ \A n \in 1..Len(new) : (s \o new)[Len(s) + n] = new[n] /\ new[n] \in Char
           /\ SubSeq(s \o new, 1, Len(s)) = s /\ SubSeq(s \o new, 1, Len(s) + Len(new)) = s \o new
           /\ SubSeq(s \o new, Len(s) + 1, Len(s \o new)) = new
<1>0. PICK t, a, b : t = s \o new /\ a = Len(s) /\ b = Len(new)
  OBVIOUS
<1>1. s \in Seq(Char) /\ new \in Seq(Char) /\ a \in Nat /\ b \in Nat
  BY <1>0 DEF Texts
<1>2. /\ t \in Seq(Char) /\ Len(t) = a + b
      /\ \A i \in 1..a + b : t[i] = IF i <= a THEN s[i] ELSE new[i - a]
  BY <1>0, <1>1, ConcatProperties
<1>3. \A n \in 1..b : t[a + n] = new[n]
  <2> TAKE n \in 1..b
  <2>1. a + n \in 1..a + b /\ ~(a + n <= a) /\ (a + n) - a = n
    BY <1>1
  <2>2. QED BY <1>2, <2>1
<1>4. \A i \in 1..a : t[i] = s[i]
  BY <1>1, <1>2
<1>5. PICK u, v, w : u = SubSeq(t, 1, a) /\ v = SubSeq(t, 1, a + b) /\ w = SubSeq(t, a + 1, a + b)
  OBVIOUS
<1>6. /\ u \in Seq(Char) /\ Len(u) = a /\ \A i \in 1..a : u[i] = t[i]
  BY <1>1, <1>2, <1>5
<1>7. /\ v \in Seq(Char) /\ Len(v) = a + b /\ \A i \in 1..a + b : v[i] = t[i]
  BY <1>1, <1>2, <1>5
<1>8. /\ w \in Seq(Char) /\ Len(w) = b /\ \A i \in 1..b : w[i] = t[a + i]
  BY <1>1, <1>2, <1>5, SubSeqProperties
<1>9. u = s
  BY <1>0, <1>1, <1>4, <1>6, SeqEqual
<1>10. v = t
  BY <1>1, <1>2, <1>7, SeqEqual
<1>11. w = new
  BY <1>0, <1>1, <1>3, <1>8, SeqEqual
<1>12. \A n \in 1..b : new[n] \in Char
  BY <1>0, <1>1
<1>13. SubSeq(t, a + 1, Len(t)) = new
  BY <1>2, <1>5, <1>11
<1>14. t \in Texts
  BY <1>2 DEF Texts
<1>15. QED BY <1>0, <1>1, <1>2, <1>3, <1>5, <1>9, <1>10, <1>12, <1>13, <1>14

LEMMA CapStarts == Capped(CapInit, <<>>)
<1>1. CapInit \in CapType /\ CapInit.cand = <<>> /\ CapInit.out = <<>> /\ CapInit.n = 0
  BY HeldTypes DEF CapInit, CapType
<1>2. <<>> \in Texts /\ <<>> = <<>> \o CapInit.cand /\ Len(<<>>) = 0
  BY <1>1, OneChar
<1>3. Markers(<<>>) = {}
  BY <1>2, MarkersType
<1>4. Cap(<<>>) = <<>> /\ Live(<<>>) = {}
  <2>1. DOMAIN <<>> \ Gone(<<>>) = {}
    OBVIOUS
  <2>2. Cap(<<>>) = Rest(<<>>, Gone(<<>>))
    BY <1>2, MarkersType
  <2>3. QED BY <1>3, <2>1, <2>2, SelectNone DEF Rest, Live
<1>5. Agrees(CapInit, <<>>)
  <2>1. Cardinality(Live(<<>>)) = 0
    BY <1>4, FS_EmptySet
  <2>2. 0 = IF 0 <= MaxMarkers THEN 0 ELSE MaxMarkers
    BY SummaryConstants
  <2>3. QED BY <1>1, <1>4, <2>1, <2>2 DEF Agrees
<1>6. QED BY <1>1, <1>2, <1>5 DEF Capped, Opens, Closes

\* The cap along a text: it is where it is after each of its characters.
LEMMA CappedAlong ==
    ASSUME NEW t \in Texts, NEW a \in 0..Len(t), NEW f, NEW b \in Nat, b = Len(t) - a,
           Capped(f[0], SubSeq(t, 1, a)),
           \A n \in 1..b : Capped(f[n - 1], SubSeq(t, 1, a + n - 1)) => f[n] = CapFeed(f[n - 1], t[a + n])
    PROVE  \A n \in 0..b : Capped(f[n], SubSeq(t, 1, a + n))
<1> DEFINE T == {n \in 0..b : Capped(f[n], SubSeq(t, 1, a + n))}
<1>1. a \in Nat /\ Len(t) \in Nat /\ \A n \in 1..b : a + n \in 1..Len(t)
  BY DEF Texts
<1>2. 0 \in T
  BY <1>1
<1>3. ASSUME NEW n \in 1..b, n - 1 \in T
      PROVE  n \in T
  <2>1. PICK u : u = SubSeq(t, 1, a + n - 1)
    OBVIOUS
  <2>2. a + (n - 1) = a + n - 1 /\ n \in 0..b
    BY <1>1
  <2>3. Capped(f[n - 1], u)
    BY <1>3, <2>1, <2>2
  <2>4. f[n] = CapFeed(f[n - 1], t[a + n])
    BY <2>1, <2>3
  <2>5. t[a + n] \in Char
    BY <1>1 DEF Texts
  <2>6. Append(u, t[a + n]) = SubSeq(t, 1, a + n)
    BY <1>1, <2>1, OneMoreChar
  <2>7. QED BY <2>2, <2>3, <2>4, <2>5, <2>6, CapFeedAgrees
<1> HIDE DEF T
<1>4. \A n \in 0..b : n \in T
  BY <1>2, <1>3, UpTo
<1>5. QED BY <1>4 DEF T

FedStep(k, new, f) ==
    [n \in 0..Len(new) |-> IF n = 0 THEN k ELSE CapFeed(f[n - 1], new[n])]

\* What the guard lets through is fed to the cap.
LEMMA PassAgrees ==
    ASSUME NEW k, NEW g1, NEW g2, g1.out \in Texts, NEW new \in Texts,
           g2.out = g1.out \o new, Capped(k, g1.out)
    PROVE  Capped(Pass(k, g1, g2), g2.out)
<1>0. PICK t, a, b : t = g2.out /\ a = Len(g1.out) /\ b = Len(new)
  OBVIOUS
<1>1. /\ t \in Texts /\ Len(t) = a + b /\ a \in Nat /\ b \in Nat /\ \A n \in 1..b : t[a + n] = new[n]
      /\ \A n \in 1..b : new[n] \in Char
      /\ SubSeq(t, 1, a) = g1.out /\ SubSeq(t, 1, a + b) = t /\ SubSeq(t, a + 1, Len(t)) = new
  <2>1. PICK s : s = g1.out
    OBVIOUS
  <2>2. s \in Texts /\ a = Len(s) /\ t = s \o new /\ b = Len(new)
    BY <1>0, <2>1
  <2>3. QED BY <2>1, <2>2, TwoParts
<1>2. /\ a \in 0..Len(t) /\ b = Len(t) - a
  BY <1>1
<1> DEFINE step == [p \in (1..b) \X CapType |->
                      IF CapFeed(p[2], new[p[1]]) \in CapType THEN CapFeed(p[2], new[p[1]]) ELSE p[2]]
<1>3. step \in [(1..b) \X CapType -> CapType]
  OBVIOUS
<1>4. k \in CapType
  BY DEF Capped
<1>5. PICK h : Runs(h, b, CapType, k, step)
  <2> HIDE DEF step
  <2>1. QED BY <1>1, <1>3, <1>4, Recursion
<1>6. \A n \in 1..b : Capped(h[n - 1], SubSeq(t, 1, a + n - 1)) => h[n] = CapFeed(h[n - 1], t[a + n])
  <2> SUFFICES ASSUME NEW n \in 1..b, Capped(h[n - 1], SubSeq(t, 1, a + n - 1))
               PROVE  h[n] = CapFeed(h[n - 1], t[a + n])
    OBVIOUS
  <2>1. Capped(CapFeed(h[n - 1], new[n]), Append(SubSeq(t, 1, a + n - 1), new[n]))
    BY <1>1, CapFeedAgrees
  <2>2. CapFeed(h[n - 1], new[n]) \in CapType /\ h[n - 1] \in CapType
    BY <2>1 DEF Capped
  <2>3. h[n] = step[<<n, h[n - 1]>>] /\ <<n, h[n - 1]>> \in (1..b) \X CapType
    BY <1>5, <2>2 DEF Runs
  <2>4. QED BY <1>1, <2>2, <2>3
<1>7. \A n \in 0..b : Capped(h[n], SubSeq(t, 1, a + n))
  <2>1. h[0] = k
    BY <1>5 DEF Runs
  <2> HIDE DEF step
  <2>2. QED BY <1>1, <1>2, <1>6, <2>1, CappedAlong
<1>8. h = FedStep(k, new, h)
  <2>1. \A n \in 1..b : n - 1 \in 0..b /\ a + (n - 1) = a + n - 1 /\ n \in 0..b
    BY <1>1
  <2>2. \A n \in 1..b : h[n] = CapFeed(h[n - 1], new[n])
    BY <1>1, <1>6, <1>7, <2>1
  <2>3. h \in [0..b -> CapType] /\ h[0] = k
    BY <1>5 DEF Runs
  <2>4. \A n \in 0..b : n = 0 \/ n \in 1..b
    BY <1>1
  <2> HIDE DEF step
  <2>5. QED BY <1>0, <2>2, <2>3, <2>4 DEF FedStep
<1> HIDE DEF step
<1>9. PICK F : F = CHOOSE f : f = FedStep(k, new, f)
  OBVIOUS
<1>10. F = FedStep(k, new, F) /\ Pass(k, g1, g2) = F[b]
  <2>1. F = FedStep(k, new, F)
    BY <1>8, <1>9
  <2>2. SubSeq(g2.out, Len(g1.out) + 1, Len(g2.out)) = new
    BY <1>0, <1>1
  <2>3. QED BY <1>0, <1>9, <2>1, <2>2 DEF Pass, FedStep
<1>11. /\ F[0] = k
       /\ \A n \in 1..b : F[n] = CapFeed(F[n - 1], t[a + n])
  <2>1. 0 \in 0..b /\ \A n \in 1..b : n \in 0..b /\ n # 0
    BY <1>1
  <2>2. \A n \in 0..b : F[n] = IF n = 0 THEN k ELSE CapFeed(F[n - 1], new[n])
    BY <1>0, <1>10 DEF FedStep
  <2>3. F[0] = k
    BY <2>1, <2>2
  <2>4. \A n \in 1..b : F[n] = CapFeed(F[n - 1], new[n]) /\ t[a + n] = new[n]
    BY <1>1, <2>1, <2>2
  <2>5. QED BY <2>3, <2>4
<1>12. \A n \in 0..b : Capped(F[n], SubSeq(t, 1, a + n))
  BY <1>1, <1>2, <1>11, CappedAlong
<1>13. b \in 0..b
  BY <1>1
<1>14. QED BY <1>0, <1>1, <1>10, <1>12, <1>13
-----------------------------------------------------------------------------
\* The guard takes back nothing it let through.
LEMMA GuardLetsMore ==
    ASSUME GuardInv, Delta \/ End
    PROVE  \E new \in Texts : guard'.out = guard.out \o new
<1>1. guard \in GuardType /\ guard.out \in Texts /\ guard.held \in Texts /\ pc = "stream"
  BY DEF GuardInv, GuardType, Delta, End
<1>2. guard.out = guard.out \o <<>> /\ <<>> \in Texts
  BY <1>1, OneChar, TextsClosed
<1>3. CASE End
  <2>1. guard'.out = guard.out \/ guard'.out = guard.out \o guard.held
    BY <1>1, <1>3 DEF End, GuardFlush, GuardType
  <2>2. QED BY <1>1, <1>2, <2>1
<1>4. CASE Delta
  <2>1. PICK c \in Char : guard' = GuardFeed(guard, c)
    BY <1>4 DEF Delta
  <2>2. CASE c = Newline
    <3>1. guard'.out = guard.out \/ guard'.out = guard.out \o guard.held \o <<Newline>>
      BY <2>1, <2>2 DEF GuardFeed, GuardLine
    <3>2. guard.held \o <<Newline>> \in Texts /\ <<Newline>> \in Texts
      BY <1>1, OneChar, TextsClosed
    <3>3. (guard.out \o guard.held) \o <<Newline>> = guard.out \o (guard.held \o <<Newline>>)
      BY <1>1, <3>2, Assoc
    <3>4. QED BY <1>1, <1>2, <3>1, <3>2, <3>3
  <2>3. CASE c # Newline
    <3>1. PICK C \in Seq(Texts), L \in Texts : Follows(guard, C, L)
      BY <1>1, <1>4 DEF GuardInv, Delta, Open
    <3>2. guard' = GuardChar(guard, c)
      BY <2>1, <2>3 DEF GuardFeed
    <3>3. QED BY <1>1, <3>1, <3>2, GuardTakesChar
  <2>4. QED BY <2>2, <2>3
<1>5. QED BY <1>3, <1>4

CapInv == (Open => Capped(cap, guard.out)) /\ CapIsPerLine

LEMMA CapInvInit == SummaryInit => CapInv
<1> SUFFICES ASSUME SummaryInit PROVE CapInv
  OBVIOUS
<1>1. guard.out = <<>> /\ cap = CapInit /\ pc # "done"
  BY DEF SummaryInit, GuardInit
<1>2. QED BY <1>1, CapStarts DEF CapInv, CapIsPerLine

LEMMA CapPasses ==
    ASSUME GuardInv, CapInv, Delta \/ End
    PROVE  Capped(Pass(cap, guard, guard'), guard'.out)
<1>1. guard.out \in Texts
  BY DEF GuardInv, GuardType
<1>2. PICK new \in Texts : guard'.out = guard.out \o new
  BY GuardLetsMore
<1>3. Capped(cap, guard.out)
  BY DEF CapInv, Delta, End, Open
<1>4. QED BY <1>1, <1>2, <1>3, PassAgrees

LEMMA CapInvNext == GuardInv /\ CapInv /\ [SummaryNext]_summaryVars => CapInv'
<1> SUFFICES ASSUME GuardInv, CapInv, [SummaryNext]_summaryVars PROVE CapInv'
  OBVIOUS
<1>2. Delta \/ End => Capped(Pass(cap, guard, guard'), guard'.out)
  BY CapPasses
<1>3. CASE Delta
  <2>1. cap' = Pass(cap, guard, guard') /\ pc' = "stream"
    BY <1>3 DEF Delta
  <2>2. QED BY <1>2, <1>3, <2>1 DEF CapInv, CapIsPerLine
<1>4. CASE End
  <2>1. cap' = CapFlush(Pass(cap, guard, guard')) /\ ~Open'
    BY <1>4 DEF End, Open
  <2>2. Inky(cap'.out) = Inky(Cap(guard'.out))
    BY <1>2, <1>4, <2>1, CapFlushed
  <2>3. QED BY <2>1, <2>2 DEF CapInv, CapIsPerLine
<1>5. CASE UNCHANGED stream /\ (Open' => Open) /\ (pc' = "done" => pc = "done")
  BY <1>5 DEF stream, CapInv, CapIsPerLine
<1>6. Delta \/ End \/ (UNCHANGED stream /\ (Open' => Open) /\ (pc' = "done" => pc = "done"))
  BY DEF SummaryNext, Begin, Split, SplitEnd, Map, MapEnd, Fold, Reduce, Fail, summaryVars, stream, Open
<1>7. QED BY <1>3, <1>4, <1>5, <1>6

\* What has been published when the stream ends is, but for spaces, the text the
\* guard let through with no more than MaxMarkers timecodes on a line
\* (timecodes.py:994-1003): the cap has counted the timecodes of the line under
\* way, and holds back no more than what may yet turn out to be one or a link.
THEOREM StreamIsCapped == SummarySpec => []CapIsPerLine
<1>1. GuardInv /\ CapInv /\ [SummaryNext]_summaryVars => CapInv'
  BY CapInvNext
<1>2. CapInv => CapIsPerLine
  BY DEF CapInv
<1>3. QED BY <1>1, <1>2, CapInvInit, GuardInvariance, PTL DEF SummarySpec
-----------------------------------------------------------------------------
LEMMA CappedBound ==
    ASSUME NEW k, NEW u, Capped(k, u)
    PROVE  k.n \in 0..MaxMarkers /\ CapFlush(k).n \in 0..MaxMarkers
<1>1. PICK v \in Texts : Agrees(k, v)
  BY DEF Capped
<1>2. k \in CapType /\ k.n \in Nat
  BY DEF Capped, CapType
<1>3. ASSUME NEW h, NEW t \in Texts, Agrees(h, t)
      PROVE  h.n \in 0..MaxMarkers
  <2>1. Cardinality(Live(t)) \in Nat
    BY MarkersType
  <2>2. QED BY <1>3, <2>1, SummaryConstants DEF Agrees
<1>4. k.n \in 0..MaxMarkers
  BY <1>1, <1>3
<1>5. CASE k.cand = Marker
  <2>1. Agrees(Resolve(k), Append(Append(v, "["), "]")) /\ Append(Append(v, "["), "]") \in Texts
    BY <1>1, <1>2, <1>5, MarkerResolved, MarkerAppended
  <2>2. QED BY <1>3, <1>4, <1>5, <2>1 DEF CapFlush
<1>6. CASE k.cand # Marker
  <2>1. CapFlush(k).n = k.n
    BY <1>2, <1>6, Released DEF CapFlush
  <2>2. QED BY <1>4, <2>1
<1>7. QED BY <1>5, <1>6

CapBound == cap.n \in 0..MaxMarkers

LEMMA CapBoundNext == GuardInv /\ CapInv /\ CapBound /\ [SummaryNext]_summaryVars => CapBound'
<1> SUFFICES ASSUME GuardInv, CapInv, CapBound, [SummaryNext]_summaryVars PROVE CapBound'
  OBVIOUS
<1>1. CASE Delta
  <2>1. CapInv' /\ Open'
    BY <1>1, CapInvNext DEF Delta, Open
  <2>2. Capped(cap', guard'.out)
    BY <2>1 DEF CapInv
  <2>3. QED BY <2>2, CappedBound DEF CapBound
<1>2. CASE End
  <2>1. Capped(Pass(cap, guard, guard'), guard'.out)
    BY <1>2, CapPasses
  <2>2. cap' = CapFlush(Pass(cap, guard, guard'))
    BY <1>2 DEF End
  <2>3. QED BY <2>1, <2>2, CappedBound DEF CapBound
<1>3. CASE UNCHANGED stream
  BY <1>3 DEF stream, CapBound
<1>4. Delta \/ End \/ UNCHANGED stream
  BY DEF SummaryNext, Begin, Split, SplitEnd, Map, MapEnd, Fold, Reduce, Fail, summaryVars, stream
<1>5. QED BY <1>1, <1>2, <1>3, <1>4

LEMMA SourcesInText == MapInv => All(chunks) \cup Sources(partials) \subseteq DOMAIN segs
<1> SUFFICES ASSUME MapInv PROVE All(chunks) \cup Sources(partials) \subseteq DOMAIN segs
  OBVIOUS
<1>1. CASE pc \in {"start", "stream", "done", "failed"}
  BY <1>1 DEF MapInv, All, Sources
<1>2. CASE pc = "split"
  <2>1. Splitting /\ segs \in Seq(1..MaxSegment)
    BY <1>2 DEF MapInv
  <2>2. All(chunks) \subseteq DOMAIN segs
    BY <2>1 DEF Splitting
  <2>3. Sources(partials) = {}
    BY <2>1 DEF Splitting, Sources
  <2>4. QED BY <2>2, <2>3
<1>3. CASE pc = "map"
  <2>1. Mapping
    BY <1>3 DEF MapInv
  <2>2. \A i \in DOMAIN partials : i \in 1..next - 1 /\ i \in DOMAIN chunks
    BY <2>1 DEF Mapping
  <2>3. \A i \in DOMAIN partials : partials[i].from \subseteq All(chunks)
    BY <2>1, <2>2 DEF Mapping, All
  <2>4. QED BY <2>1, <2>3 DEF Mapping, Sources
<1>4. CASE pc = "fold"
  BY <1>4 DEF MapInv, Folding, All
<1>5. QED BY <1>1, <1>2, <1>3, <1>4 DEF MapInv

\* The type of a summary's state; in it, that the count of timecodes on a line
\* stops at MaxMarkers, and that chunks and partial summaries are made from
\* segments of the text.
THEOREM SummaryTypes == SummarySpec => []SummaryTypeOK
<1>1. SummaryInit => CapBound
  BY SummaryConstants DEF SummaryInit, CapInit, CapBound
<1>2. GuardInv /\ CapInv /\ [SummaryNext]_summaryVars => CapInv'
  BY CapInvNext
<1>3. GuardInv /\ CapInv /\ CapBound /\ [SummaryNext]_summaryVars => CapBound'
  BY CapBoundNext
<1>4. MapInv /\ GuardInv /\ CapBound => SummaryTypeOK
  <2> SUFFICES ASSUME MapInv, GuardInv, CapBound PROVE SummaryTypeOK
    OBVIOUS
  <2>1. text \in Seq(Seq(Char))
    <3>1. PICK C \in Seq(Texts), L \in Texts : text = Append(C, L)
      BY DEF GuardInv
    <3>2. Append(C, L) \in Seq(Texts)
      BY AppendIsSeq
    <3>3. QED BY <3>1, <3>2 DEF Texts
  <2>2. UNION Range(chunks) = All(chunks)
    BY DEF Range, All
  <2>3. pc \in {"start", "split", "map", "fold", "stream", "done", "failed"}
    BY DEF MapInv
  <2>4. All(chunks) \cup Sources(partials) \subseteq DOMAIN segs
    BY SourcesInText
  <2>5. Sources(partials) \cup UNION Range(chunks) \subseteq DOMAIN segs
    BY <2>2, <2>4
  <2>6. QED BY <2>1, <2>3, <2>5 DEF SummaryTypeOK, CapBound
<1>5. QED BY <1>1, <1>2, <1>3, <1>4, CapInvInit, GuardInvariance, MapInvariance, PTL DEF SummarySpec
=============================================================================
