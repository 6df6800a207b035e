---------------------------- MODULE CoverageProofs ----------------------------
(***************************************************************************)
(* Proofs about Coverage, for any unit of audio, any first pass and any     *)
(* answers: the segments never overlap until the unit ends, and in the end  *)
(* only where a restored one reaches across silence; silence is not filled  *)
(* again; a piece of an open window for which there is text has text; what  *)
(* the first pass heard is there in the end.                                *)
(***************************************************************************)
EXTENDS Coverage, FiniteSetTheorems, SequenceTheorems, TLAPS

-------------------------------------------------------------------------------
(* The members of a finite set, in order                                     *)

Ordered(I, leq) ==
  /\ \A i, j \in I : <<i, j>> \in leq \/ <<j, i>> \in leq
  /\ \A i, j \in I : <<i, j>> \in leq /\ <<j, i>> \in leq => i = j
  /\ \A i, j, k \in I : <<i, j>> \in leq /\ <<j, k>> \in leq => <<i, k>> \in leq

\* How many members come no later than each: a bijection to the positions.
LEMMA Ranks ==
  ASSUME NEW I, IsFiniteSet(I), NEW leq, Ordered(I, leq),
         NEW rank, rank = [i \in I |-> Cardinality({j \in I : <<j, i>> \in leq})]
  PROVE  /\ Cardinality(I) \in Nat
         /\ rank \in [I -> 1 .. Cardinality(I)]
         /\ \A i, j \in I : <<i, j>> \in leq /\ i # j => rank[i] < rank[j]
         /\ \A k \in 1 .. Cardinality(I) : \E i \in I : rank[i] = k
<1> DEFINE Below(i) == {j \in I : <<j, i>> \in leq}
<1>0. Cardinality(I) \in Nat
  BY FS_CardinalityType
<1>1. \A i \in I : rank[i] = Cardinality(Below(i))
  OBVIOUS
<1>2. ASSUME NEW i \in I
      PROVE  IsFiniteSet(Below(i)) /\ Cardinality(Below(i)) \in 1 .. Cardinality(I)
  <2>1. /\ IsFiniteSet(Below(i)) /\ Cardinality(Below(i)) <= Cardinality(I)
    <3>1. Below(i) \in SUBSET I
      OBVIOUS
    <3>2. QED BY <3>1, FS_Subset
  <2>2. i \in Below(i)
    BY DEF Ordered
  <2>3. Cardinality(Below(i)) \in Nat
    BY <2>1, FS_CardinalityType
  <2>4. Cardinality(Below(i)) # 0
    BY <2>1, <2>2, FS_EmptySet
  <2>5. QED BY <1>0, <2>1, <2>3, <2>4
<1>3. ASSUME NEW i \in I, NEW j \in I, <<i, j>> \in leq, i # j
      PROVE  rank[i] < rank[j]
  <2>1. Below(i) \in SUBSET Below(j)
    BY <1>3 DEF Ordered
  <2>2. j \in Below(j) /\ j \notin Below(i)
    BY <1>3 DEF Ordered
  <2>3. Cardinality(Below(i)) <= Cardinality(Below(j)) /\ Cardinality(Below(i)) # Cardinality(Below(j))
    <3>1. IsFiniteSet(Below(j))
      BY <1>2
    <3>2. Cardinality(Below(j)) = Cardinality(Below(i)) => Below(j) = Below(i)
      BY <2>1, <3>1, FS_Subset
    <3>3. Cardinality(Below(i)) <= Cardinality(Below(j))
      BY <2>1, <3>1, FS_Subset
    <3>4. QED BY <2>2, <3>2, <3>3
  <2>4. Cardinality(Below(i)) \in Int /\ Cardinality(Below(j)) \in Int
    <3>1. 1 .. Cardinality(I) \subseteq Int
      BY <1>0
    <3> HIDE DEF Below
    <3>2. QED BY <1>2, <3>1
  <2>5. QED BY <1>1, <2>3, <2>4
<1>4. rank \in [I -> 1 .. Cardinality(I)]
  BY <1>2
<1>5. \A i, j \in I : rank[i] = rank[j] => i = j
  <2> SUFFICES ASSUME NEW i \in I, NEW j \in I, i # j PROVE rank[i] # rank[j]
    OBVIOUS
  <2>1. rank[i] < rank[j] \/ rank[j] < rank[i]
    BY <1>3 DEF Ordered
  <2>2. rank[i] \in Int /\ rank[j] \in Int
    BY <1>4
  <2>3. QED BY <2>1, <2>2
<1>6. rank \in Injection(I, 1 .. Cardinality(I))
  BY <1>4, <1>5 DEF Injection, IsInjective
<1>7. IsFiniteSet(1 .. Cardinality(I)) /\ Cardinality(1 .. Cardinality(I)) = Cardinality(I)
  BY <1>0, FS_Interval
<1>8. rank \in Surjection(I, 1 .. Cardinality(I))
  BY <1>6, <1>7, FS_Injection
<1>9. QED BY <1>0, <1>3, <1>4, <1>8 DEF Surjection

\* A list has every member once, each before those that follow it in the order.
IsList(p, I, leq) ==
  /\ p \in Seq(I)
  /\ \A i \in I : \E k \in 1 .. Len(p) : p[k] = i
  /\ \A k, l \in 1 .. Len(p) : k < l => p[k] # p[l] /\ <<p[k], p[l]>> \in leq

LEMMA ListedIsList ==
  ASSUME NEW I, IsFiniteSet(I), NEW leq, Ordered(I, leq)
  PROVE  IsList(Listed(I, leq), I, leq)
<1> DEFINE p == Listed(I, leq)
           n == Cardinality(I)
<1>0. PICK rank : rank = [i \in I |-> Cardinality({j \in I : <<j, i>> \in leq})]
  OBVIOUS
<1>1. /\ n \in Nat
      /\ rank \in [I -> 1 .. n]
      /\ \A i, j \in I : <<i, j>> \in leq /\ i # j => rank[i] < rank[j]
      /\ \A k \in 1 .. n : \E i \in I : rank[i] = k
  BY <1>0, Ranks
<1>2. p = [k \in 1 .. n |-> CHOOSE i \in I : Cardinality({j \in I : <<j, i>> \in leq}) = k]
  BY DEF Listed
<1>3. ASSUME NEW k \in 1 .. n PROVE p[k] \in I /\ rank[p[k]] = k
  <2>1. \E i \in I : Cardinality({j \in I : <<j, i>> \in leq}) = k
    BY <1>0, <1>1
  <2>2. p[k] = CHOOSE i \in I : Cardinality({j \in I : <<j, i>> \in leq}) = k
    BY <1>2
  <2>3. p[k] \in I /\ Cardinality({j \in I : <<j, p[k]>> \in leq}) = k
    BY <2>1, <2>2, Zenon
  <2>4. QED BY <1>0, <2>3
<1> HIDE DEF p, n
<1>4. p \in Seq(I) /\ Len(p) = n /\ DOMAIN p = 1 .. n
  <2>1. p \in [1 .. n -> I]
    BY <1>2, <1>3
  <2>2. QED BY <1>1, <2>1
<1>5. ASSUME NEW i \in I PROVE \E k \in 1 .. Len(p) : p[k] = i
  <2>1. rank[i] \in 1 .. n
    BY <1>1
  <2>2. p[rank[i]] \in I /\ rank[p[rank[i]]] = rank[i]
    BY <1>3, <2>1
  <2>3. p[rank[i]] = i
    <3> SUFFICES ASSUME p[rank[i]] # i PROVE FALSE
      OBVIOUS
    <3>1. rank[i] < rank[p[rank[i]]] \/ rank[p[rank[i]]] < rank[i]
      BY <1>1, <2>2 DEF Ordered
    <3>2. QED BY <2>1, <2>2, <3>1
  <2>4. QED BY <1>4, <2>1, <2>3
<1>6. ASSUME NEW k \in 1 .. Len(p), NEW l \in 1 .. Len(p), k < l
      PROVE  p[k] # p[l] /\ <<p[k], p[l]>> \in leq
  <2>1. /\ p[k] \in I /\ rank[p[k]] = k
        /\ p[l] \in I /\ rank[p[l]] = l
        /\ k \in Int /\ l \in Int
    BY <1>1, <1>3, <1>4
  <2>2. p[k] # p[l]
    BY <1>6, <2>1
  <2>3. ~(<<p[l], p[k]>> \in leq)
    <3> SUFFICES ASSUME <<p[l], p[k]>> \in leq PROVE FALSE
      OBVIOUS
    <3>1. rank[p[l]] < rank[p[k]]
      BY <1>1, <2>1, <2>2
    <3>2. QED BY <1>6, <2>1, <3>1
  <2>4. QED BY <2>1, <2>2, <2>3 DEF Ordered
<1>7. QED BY <1>4, <1>5, <1>6 DEF IsList, p

-------------------------------------------------------------------------------
(* A selection of segments, and the segments sorted                          *)

\* out has the entries of segs at the positions that list names.
Picks(out, segs, list) ==
  Len(out) = Len(list) /\ \A k \in 1 .. Len(list) : out[k] = segs[list[k]]

LEMMA PositionsFinite ==
  ASSUME NEW S, NEW segs \in Seq(S), NEW I \in SUBSET DOMAIN segs
  PROVE  IsFiniteSet(I) /\ \A i \in I : i \in 1 .. Len(segs)
<1>1. DOMAIN segs = 1 .. Len(segs) /\ Len(segs) \in Nat
  OBVIOUS
<1>2. IsFiniteSet(1 .. Len(segs))
  BY <1>1, FS_Interval
<1>3. QED BY <1>1, <1>2, FS_Subset

LEMMA PickedIsSeq ==
  ASSUME NEW S, NEW segs \in Seq(S), NEW list \in Seq(DOMAIN segs),
         NEW out, out = Picked(segs, list)
  PROVE  /\ out = [k \in DOMAIN list |-> segs[list[k]]]
         /\ out \in Seq(S) /\ Picks(out, segs, list)
<1> DEFINE picked == [k \in DOMAIN list |-> segs[list[k]]]
<1>1. DOMAIN list = 1 .. Len(list) /\ Len(list) \in Nat
  OBVIOUS
<1>2. \A k \in 1 .. Len(list) : list[k] \in 1 .. Len(segs) /\ segs[list[k]] \in S
  BY <1>1
<1>3. picked \in Seq(S) /\ Len(picked) = Len(list)
  <2>1. picked \in [1 .. Len(list) -> S]
    BY <1>1, <1>2
  <2>2. QED BY <1>1, <2>1
<1>4. out = picked
  BY <1>3, ConcatEmptySeq DEF Picked
<1>5. QED BY <1>1, <1>3, <1>4 DEF Picks

LEMMA AtPicks ==
  ASSUME NEW S, NEW segs \in Seq(S), NEW I \in SUBSET DOMAIN segs
  PROVE  /\ At(segs, I) \in Seq(S)
         /\ \E list \in Seq(I) :
              /\ Picks(At(segs, I), segs, list)
              /\ \A i \in I : \E k \in 1 .. Len(list) : list[k] = i
              /\ \A k, l \in 1 .. Len(list) : k < l => list[k] < list[l]
<1> DEFINE leq == {q \in I \X I : q[1] <= q[2]}
           list == Listed(I, leq)
<1>1. \A i \in I : i \in Int
  BY PositionsFinite
<1>2. Ordered(I, leq)
  BY <1>1 DEF Ordered
<1>3. IsList(list, I, leq)
  BY <1>2, PositionsFinite, ListedIsList
<1>4. At(segs, I) = Picked(segs, list)
  BY DEF At
<1> HIDE DEF list
<1>5. list \in Seq(I) /\ list \in Seq(DOMAIN segs)
  BY <1>3 DEF IsList
<1>6. At(segs, I) \in Seq(S) /\ Picks(At(segs, I), segs, list)
  BY <1>4, <1>5, PickedIsSeq
<1>7. ASSUME NEW k \in 1 .. Len(list), NEW l \in 1 .. Len(list), k < l
      PROVE  list[k] < list[l]
  <2>1. list[k] # list[l] /\ list[k] <= list[l] /\ list[k] \in I /\ list[l] \in I
    BY <1>3, <1>5, <1>7 DEF IsList
  <2>2. QED BY <1>1, <2>1
<1>8. QED BY <1>3, <1>5, <1>6, <1>7 DEF IsList

LEMMA ByStartPicks ==
  ASSUME NEW S, NEW segs \in Seq(S), \A i \in DOMAIN segs : segs[i].start \in Int
  PROVE  /\ ByStart(segs) \in Seq(S)
         /\ \E list \in Seq(DOMAIN segs) :
              /\ Picks(ByStart(segs), segs, list)
              /\ \A i \in DOMAIN segs : \E k \in 1 .. Len(list) : list[k] = i
              /\ \A k, l \in 1 .. Len(list) :
                   k < l => list[k] # list[l] /\ segs[list[k]].start <= segs[list[l]].start
<1> DEFINE I == DOMAIN segs
           leq == {q \in I \X I : \/ segs[q[1]].start < segs[q[2]].start
                                  \/ segs[q[1]].start = segs[q[2]].start /\ q[1] <= q[2]}
           list == Listed(I, leq)
<1>1. \A i \in I : i \in Int
  BY PositionsFinite
<1>2. Ordered(I, leq)
  <2> DEFINE before(i, j) == \/ segs[i].start < segs[j].start
                             \/ segs[i].start = segs[j].start /\ i <= j
  <2>1. ASSUME NEW i \in I, NEW j \in I PROVE <<i, j>> \in leq <=> before(i, j)
    OBVIOUS
  <2>2. \A i \in I : i \in Int /\ segs[i].start \in Int
    BY <1>1
  <2> HIDE DEF leq, I
  <2>3. \A i, j \in I : before(i, j) \/ before(j, i)
    BY <2>2
  <2>4. \A i, j \in I : before(i, j) /\ before(j, i) => i = j
    BY <2>2
  <2>5. \A i, j, k \in I : before(i, j) /\ before(j, k) => before(i, k)
    BY <2>2
  <2> HIDE DEF before
  <2>6. QED BY <2>1, <2>3, <2>4, <2>5 DEF Ordered
<1>3. IsList(list, I, leq)
  BY <1>2, PositionsFinite, ListedIsList
<1>4. ByStart(segs) = Picked(segs, list)
  BY DEF ByStart
<1> HIDE DEF list
<1>5. list \in Seq(DOMAIN segs)
  BY <1>3 DEF IsList
<1>6. ByStart(segs) \in Seq(S) /\ Picks(ByStart(segs), segs, list)
  BY <1>4, <1>5, PickedIsSeq
<1>7. ASSUME NEW k \in 1 .. Len(list), NEW l \in 1 .. Len(list), k < l
      PROVE  list[k] # list[l] /\ segs[list[k]].start <= segs[list[l]].start
  <2>0. list[k] # list[l] /\ <<list[k], list[l]>> \in leq /\ list[k] \in I /\ list[l] \in I
    BY <1>3, <1>5, <1>7 DEF IsList
  <2>1. /\ list[k] # list[l] /\ list[k] \in I /\ list[l] \in I
        /\ \/ segs[list[k]].start < segs[list[l]].start
           \/ segs[list[k]].start = segs[list[l]].start
    BY <2>0
  <2>2. QED BY <2>1
<1>8. QED BY <1>3, <1>5, <1>6, <1>7 DEF IsList

-------------------------------------------------------------------------------
(* Segments that do not overlap                                              *)

Seg == {s \in [start : Time, end : Time, text : Text, low : BOOLEAN] : s.start < s.end}
Plain == {s \in Seg : ~s.low}
Tidy(segs) == segs \in Seq(Plain) /\ Apart(segs)
Window == {w \in Time \X Time : w[1] < w[2]}

LEMMA TimeType == Time \subseteq Nat /\ Duration \in Nat \ {0}
BY CoverageAssumption DEF Time

LEMMA SegType ==
  ASSUME NEW s \in Seg
  PROVE  /\ s.start \in Time /\ s.end \in Time /\ s.text \in Text /\ s.low \in BOOLEAN
         /\ s.start \in Nat /\ s.end \in Nat /\ s.start < s.end
BY TimeType DEF Seg

LEMMA Extremes ==
  ASSUME NEW a \in Int, NEW b \in Int
  PROVE  /\ Max({a, b}) = IF a >= b THEN a ELSE b
         /\ Min({a, b}) = IF a <= b THEN a ELSE b
<1>1. \A m : m \in {a, b} /\ (\A y \in {a, b} : m >= y) => m = IF a >= b THEN a ELSE b
  OBVIOUS
<1>2. \E m \in {a, b} : \A y \in {a, b} : m >= y
  OBVIOUS
<1>3. Max({a, b}) \in {a, b} /\ \A y \in {a, b} : Max({a, b}) >= y
  BY <1>2, Zenon DEF Max
<1>4. \A m : m \in {a, b} /\ (\A y \in {a, b} : m <= y) => m = IF a <= b THEN a ELSE b
  OBVIOUS
<1>5. \E m \in {a, b} : \A y \in {a, b} : m <= y
  OBVIOUS
<1>6. Min({a, b}) \in {a, b} /\ \A y \in {a, b} : Min({a, b}) <= y
  BY <1>5, Zenon DEF Min
<1>7. QED BY <1>1, <1>3, <1>4, <1>6

LEMMA TidyAt ==
  ASSUME NEW segs, Tidy(segs), NEW I \in SUBSET DOMAIN segs
  PROVE  Tidy(At(segs, I))
<1>1. segs \in Seq(Plain)
  BY DEF Tidy
<1>2. At(segs, I) \in Seq(Plain)
  BY <1>1, AtPicks
<1>3. PICK list \in Seq(I) :
        /\ Picks(At(segs, I), segs, list)
        /\ \A k, l \in 1 .. Len(list) : k < l => list[k] < list[l]
  BY <1>1, AtPicks
<1>4. Apart(At(segs, I))
  <2> SUFFICES ASSUME NEW k \in DOMAIN At(segs, I), NEW l \in DOMAIN At(segs, I), k < l
               PROVE  At(segs, I)[k].end <= At(segs, I)[l].start
    BY DEF Apart
  <2>1. k \in 1 .. Len(list) /\ l \in 1 .. Len(list)
    BY <1>2, <1>3 DEF Picks
  <2>2. list[k] \in DOMAIN segs /\ list[l] \in DOMAIN segs /\ list[k] < list[l]
    BY <1>3, <2>1
  <2>3. At(segs, I)[k] = segs[list[k]] /\ At(segs, I)[l] = segs[list[l]]
    BY <1>3, <2>1 DEF Picks
  <2>4. QED BY <2>2, <2>3 DEF Tidy, Apart
<1>5. QED BY <1>2, <1>4 DEF Tidy

\* Whatever their order, segments that are apart are apart in order when sorted.
LEMMA TidyByStart ==
  ASSUME NEW segs \in Seq(Plain),
         \A i, j \in DOMAIN segs :
            i # j => segs[i].end <= segs[j].start \/ segs[j].end <= segs[i].start
  PROVE  Tidy(ByStart(segs))
<1>0. \A i \in DOMAIN segs : segs[i] \in Seg
  BY DEF Plain
<1>1. \A i \in DOMAIN segs : segs[i].start \in Nat /\ segs[i].end \in Nat /\ segs[i].start < segs[i].end
  BY <1>0, SegType
<1>2. /\ ByStart(segs) \in Seq(Plain)
      /\ \E list \in Seq(DOMAIN segs) :
           /\ Picks(ByStart(segs), segs, list)
           /\ \A k, l \in 1 .. Len(list) :
                k < l => list[k] # list[l] /\ segs[list[k]].start <= segs[list[l]].start
  <2>1. \A i \in DOMAIN segs : segs[i].start \in Int
    BY <1>1
  <2>2. QED BY <2>1, ByStartPicks
<1>3. PICK list \in Seq(DOMAIN segs) :
        /\ Picks(ByStart(segs), segs, list)
        /\ \A k, l \in 1 .. Len(list) :
             k < l => list[k] # list[l] /\ segs[list[k]].start <= segs[list[l]].start
  BY <1>2
<1>4. Apart(ByStart(segs))
  <2> SUFFICES ASSUME NEW k \in DOMAIN ByStart(segs), NEW l \in DOMAIN ByStart(segs), k < l
               PROVE  ByStart(segs)[k].end <= ByStart(segs)[l].start
    BY DEF Apart
  <2>1. k \in 1 .. Len(list) /\ l \in 1 .. Len(list)
    BY <1>2, <1>3 DEF Picks
  <2>2. /\ list[k] \in DOMAIN segs /\ list[l] \in DOMAIN segs /\ list[k] # list[l]
        /\ segs[list[k]].start <= segs[list[l]].start
    BY <1>3, <2>1
  <2>3. ByStart(segs)[k] = segs[list[k]] /\ ByStart(segs)[l] = segs[list[l]]
    BY <1>3, <2>1 DEF Picks
  <2>4. segs[list[k]].end <= segs[list[l]].start \/ segs[list[l]].end <= segs[list[k]].start
    BY <2>2
  <2>5. /\ segs[list[k]].start \in Nat /\ segs[list[l]].start \in Nat
        /\ segs[list[l]].end \in Nat /\ segs[list[l]].start < segs[list[l]].end
    BY <1>1, <2>2
  <2>6. segs[list[k]].end <= segs[list[l]].start
    <3> DEFINE a == segs[list[k]].start  b == segs[list[k]].end
               c == segs[list[l]].start  d == segs[list[l]].end
    <3>1. a \in Nat /\ c \in Nat /\ d \in Nat /\ c < d /\ a <= c /\ (b <= c \/ d <= a)
      BY <2>2, <2>4, <2>5
    <3> HIDE DEF a, b, c, d
    <3>2. b <= c
      BY <3>1
    <3>3. QED BY <3>2 DEF b, c
  <2>7. QED BY <2>3, <2>6
<1>5. QED BY <1>2, <1>4 DEF Tidy

\* Every entry of a concatenation is one of the two parts, and the other way round.
LEMMA ConcatParts ==
  ASSUME NEW S, NEW a \in Seq(S), NEW b \in Seq(S)
  PROVE  /\ \A i \in DOMAIN (a \o b) :
              \/ i \in DOMAIN a /\ (a \o b)[i] = a[i]
              \/ \E j \in DOMAIN b : i = Len(a) + j /\ (a \o b)[i] = b[j]
         /\ \A i \in DOMAIN a : i \in DOMAIN (a \o b) /\ (a \o b)[i] = a[i]
         /\ \A j \in DOMAIN b : Len(a) + j \in DOMAIN (a \o b) /\ (a \o b)[Len(a) + j] = b[j]
<1>1. /\ a \o b \in Seq(S) /\ Len(a \o b) = Len(a) + Len(b)
      /\ \A i \in 1 .. Len(a) + Len(b) : (a \o b)[i] = IF i <= Len(a) THEN a[i] ELSE b[i - Len(a)]
  BY ConcatProperties
<1>2. /\ Len(a) \in Nat /\ Len(b) \in Nat /\ DOMAIN a = 1 .. Len(a) /\ DOMAIN b = 1 .. Len(b)
      /\ DOMAIN (a \o b) = 1 .. Len(a) + Len(b)
  BY <1>1
<1>3. ASSUME NEW i \in DOMAIN (a \o b)
      PROVE  \/ i \in DOMAIN a /\ (a \o b)[i] = a[i]
             \/ \E j \in DOMAIN b : i = Len(a) + j /\ (a \o b)[i] = b[j]
  <2>1. CASE i <= Len(a)
    BY <1>1, <1>2, <2>1
  <2>2. CASE i > Len(a)
    <3>1. i - Len(a) \in DOMAIN b /\ i = Len(a) + (i - Len(a)) /\ (a \o b)[i] = b[i - Len(a)]
      BY <1>1, <1>2, <2>2
    <3>2. QED BY <3>1
  <2>3. QED BY <1>2, <2>1, <2>2
<1>4. \A i \in DOMAIN a : i \in DOMAIN (a \o b) /\ (a \o b)[i] = a[i]
  BY <1>1, <1>2
<1>5. ASSUME NEW j \in DOMAIN b PROVE Len(a) + j \in DOMAIN (a \o b) /\ (a \o b)[Len(a) + j] = b[j]
  <2>1. /\ Len(a) + j \in 1 .. Len(a) + Len(b) /\ ~(Len(a) + j <= Len(a))
        /\ (Len(a) + j) - Len(a) = j
    BY <1>2
  <2>2. QED BY <1>1, <1>2, <2>1
<1>6. QED BY <1>3, <1>4, <1>5

LEMMA TidyConcat ==
  ASSUME NEW a, NEW b, Tidy(a), Tidy(b),
         \A i \in DOMAIN a, j \in DOMAIN b : a[i].end <= b[j].start
  PROVE  Tidy(a \o b)
<1>1. a \in Seq(Plain) /\ b \in Seq(Plain) /\ Apart(a) /\ Apart(b)
  BY DEF Tidy
<1>2. /\ a \o b \in Seq(Plain) /\ Len(a \o b) = Len(a) + Len(b)
      /\ \A i \in 1 .. Len(a) + Len(b) : (a \o b)[i] = IF i <= Len(a) THEN a[i] ELSE b[i - Len(a)]
  BY <1>1, ConcatProperties
<1>3. /\ Len(a) \in Nat /\ Len(b) \in Nat /\ DOMAIN a = 1 .. Len(a) /\ DOMAIN b = 1 .. Len(b)
      /\ DOMAIN (a \o b) = 1 .. Len(a) + Len(b)
  BY <1>1, <1>2
<1>4. Apart(a \o b)
  <2> SUFFICES ASSUME NEW i \in 1 .. Len(a) + Len(b), NEW j \in 1 .. Len(a) + Len(b), i < j
               PROVE  (a \o b)[i].end <= (a \o b)[j].start
    BY <1>3 DEF Apart
  <2>1. CASE j <= Len(a)
    <3>1. i \in DOMAIN a /\ j \in DOMAIN a /\ (a \o b)[i] = a[i] /\ (a \o b)[j] = a[j]
      BY <1>2, <1>3, <2>1
    <3>2. QED BY <1>1, <3>1 DEF Apart
  <2>2. CASE i <= Len(a) /\ j > Len(a)
    <3>1. i \in DOMAIN a /\ j - Len(a) \in DOMAIN b /\ (a \o b)[i] = a[i] /\ (a \o b)[j] = b[j - Len(a)]
      BY <1>2, <1>3, <2>2
    <3>2. QED BY <3>1
  <2>3. CASE i > Len(a)
    <3>1. /\ i - Len(a) \in DOMAIN b /\ j - Len(a) \in DOMAIN b /\ i - Len(a) < j - Len(a)
          /\ (a \o b)[i] = b[i - Len(a)] /\ (a \o b)[j] = b[j - Len(a)]
      BY <1>2, <1>3, <2>3
    <3>2. QED BY <1>1, <3>1 DEF Apart
  <2>4. QED BY <1>3, <2>1, <2>2, <2>3
<1>5. QED BY <1>2, <1>4 DEF Tidy

LEMMA TidyCollapse ==
  ASSUME NEW segs, Tidy(segs)
  PROVE  Tidy(Collapse(segs))
<1>1. DOMAIN segs \ Dropped(segs) \in SUBSET DOMAIN segs
  OBVIOUS
<1>2. QED BY <1>1, TidyAt DEF Collapse

LEMMA WindowType ==
  ASSUME NEW w \in Window
  PROVE  w[1] \in Time /\ w[2] \in Time /\ w[1] \in Nat /\ w[2] \in Nat /\ w[1] < w[2] /\ w = <<w[1], w[2]>>
<1>1. w \in Time \X Time /\ w[1] < w[2]
  BY DEF Window
<1>2. w[1] \in Time /\ w[2] \in Time /\ w = <<w[1], w[2]>>
  BY <1>1
<1>3. QED BY <1>1, <1>2, TimeType

LEMMA WithinReaches ==
  ASSUME NEW segs, Tidy(segs), NEW w
  PROVE  /\ Tidy(Within(segs, w))
         /\ \A i \in DOMAIN Within(segs, w) :
              Within(segs, w)[i].end > w[1] /\ Within(segs, w)[i].start < w[2]
<1> DEFINE I == {i \in DOMAIN segs : segs[i].end > w[1] /\ segs[i].start < w[2]}
<1>1. Within(segs, w) = At(segs, I) /\ I \in SUBSET DOMAIN segs
  BY DEF Within
<1>2. Tidy(At(segs, I)) /\ segs \in Seq(Plain)
  BY <1>1, TidyAt DEF Tidy
<1>3. PICK list \in Seq(I) : Picks(At(segs, I), segs, list)
  BY <1>1, <1>2, AtPicks
<1>4. ASSUME NEW i \in DOMAIN At(segs, I)
      PROVE  At(segs, I)[i].end > w[1] /\ At(segs, I)[i].start < w[2]
  <2>1. i \in 1 .. Len(list)
    BY <1>2, <1>3 DEF Picks, Tidy
  <2>2. list[i] \in I /\ At(segs, I)[i] = segs[list[i]]
    BY <1>3, <2>1 DEF Picks
  <2>3. QED BY <2>2
<1>5. QED BY <1>1, <1>2, <1>4

\* A clamped segment is a segment, within the gap.
LEMMA Clamped ==
  ASSUME NEW s \in Plain, NEW w \in Window, s.end > w[1], s.start < w[2],
         NEW c, c = [s EXCEPT !.start = Max({@, w[1]}), !.end = Min({@, w[2]})]
  PROVE  /\ c \in Plain /\ w[1] <= c.start /\ c.end <= w[2]
         /\ s.start <= c.start /\ c.end <= s.end
<1>1. /\ s \in [start : Time, end : Time, text : Text, low : BOOLEAN]
      /\ s.start \in Nat /\ s.end \in Nat /\ s.start < s.end /\ ~s.low
  BY SegType DEF Plain, Seg
<1>2. w[1] \in Time /\ w[2] \in Time /\ w[1] \in Nat /\ w[2] \in Nat /\ w[1] < w[2]
  BY WindowType
<1>3. /\ Max({s.start, w[1]}) = IF s.start >= w[1] THEN s.start ELSE w[1]
      /\ Min({s.end, w[2]}) = IF s.end <= w[2] THEN s.end ELSE w[2]
  <2>1. s.start \in Int /\ s.end \in Int /\ w[1] \in Int /\ w[2] \in Int
    BY <1>1, <1>2
  <2>2. QED BY <2>1, Extremes
<1>4. c = [s EXCEPT !.start = IF s.start >= w[1] THEN s.start ELSE w[1],
                    !.end = IF s.end <= w[2] THEN s.end ELSE w[2]]
  BY <1>3
<1>5. /\ c \in [start : Time, end : Time, text : Text, low : BOOLEAN] /\ ~c.low
      /\ c.start = IF s.start >= w[1] THEN s.start ELSE w[1]
      /\ c.end = IF s.end <= w[2] THEN s.end ELSE w[2]
  BY <1>1, <1>2, <1>4
<1>6. /\ c.start < c.end /\ w[1] <= c.start /\ c.end <= w[2]
      /\ s.start <= c.start /\ c.end <= s.end
  BY <1>1, <1>2, <1>5
<1>7. QED BY <1>5, <1>6 DEF Plain, Seg

LEMMA TidyClip ==
  ASSUME NEW segs, Tidy(segs), NEW w \in Window
  PROVE  /\ Tidy(Clip(segs, w))
         /\ \A i \in DOMAIN Clip(segs, w) :
              w[1] <= Clip(segs, w)[i].start /\ Clip(segs, w)[i].end <= w[2]
<1> DEFINE inside == Within(segs, w)
           clamp(s) == [s EXCEPT !.start = Max({@, w[1]}), !.end = Min({@, w[2]})]
           clamped == [i \in DOMAIN inside |-> clamp(inside[i])]
<1>1. Clip(segs, w) = ByStart(clamped)
  BY DEF Clip
<1>2. /\ inside \in Seq(Plain) /\ Apart(inside)
      /\ \A i \in DOMAIN inside : inside[i].end > w[1] /\ inside[i].start < w[2]
  BY WithinReaches DEF Tidy
<1> HIDE DEF inside
<1>3. ASSUME NEW i \in DOMAIN inside
      PROVE  /\ clamped[i] \in Plain /\ w[1] <= clamped[i].start /\ clamped[i].end <= w[2]
             /\ inside[i].start <= clamped[i].start /\ clamped[i].end <= inside[i].end
  <2>1. inside[i] \in Plain
    BY <1>2
  <2>2. clamped[i] = clamp(inside[i])
    OBVIOUS
  <2> HIDE DEF clamped
  <2>3. QED BY <1>2, <2>1, <2>2, Clamped
<1>4. DOMAIN clamped = DOMAIN inside /\ clamped \in Seq(Plain)
  <2>1. DOMAIN inside = 1 .. Len(inside) /\ Len(inside) \in Nat
    BY <1>2
  <2>2. DOMAIN clamped = 1 .. Len(inside) /\ clamped = [i \in 1 .. Len(inside) |-> clamped[i]]
    BY <2>1
  <2> HIDE DEF clamped
  <2>3. clamped \in [1 .. Len(inside) -> Plain]
    BY <1>3, <2>1, <2>2
  <2>4. QED BY <2>1, <2>2, <2>3
<1> HIDE DEF clamped
<1>5. ASSUME NEW i \in DOMAIN clamped, NEW j \in DOMAIN clamped, i < j
      PROVE  clamped[i].end <= clamped[j].start
  <2>1. inside[i].end <= inside[j].start
    BY <1>2, <1>4, <1>5 DEF Apart
  <2>2. inside[i] \in Seg /\ inside[j] \in Seg /\ clamped[i] \in Seg /\ clamped[j] \in Seg
    BY <1>2, <1>3, <1>4 DEF Plain
  <2>3. /\ inside[i].end \in Nat /\ inside[j].start \in Nat
        /\ clamped[i].end \in Nat /\ clamped[j].start \in Nat
    BY <2>2, SegType
  <2>4. QED BY <1>3, <1>4, <2>1, <2>3
<1>6. \A i, j \in DOMAIN clamped :
         i # j => clamped[i].end <= clamped[j].start \/ clamped[j].end <= clamped[i].start
  <2>1. \A i \in DOMAIN clamped : i \in Nat
    BY <1>4
  <2>2. QED BY <1>5, <2>1
<1>7. Tidy(ByStart(clamped))
  BY <1>4, <1>6, TidyByStart
<1>8. \A i \in DOMAIN clamped : clamped[i].start \in Int
  BY <1>4, SegType DEF Plain
<1>9. PICK list \in Seq(DOMAIN clamped) : Picks(ByStart(clamped), clamped, list)
  BY <1>4, <1>8, ByStartPicks
<1>10. ASSUME NEW i \in DOMAIN ByStart(clamped)
       PROVE  w[1] <= ByStart(clamped)[i].start /\ ByStart(clamped)[i].end <= w[2]
  <2>1. i \in 1 .. Len(list)
    BY <1>7, <1>9 DEF Picks, Tidy
  <2>2. list[i] \in DOMAIN clamped /\ ByStart(clamped)[i] = clamped[list[i]]
    BY <1>9, <2>1 DEF Picks
  <2>3. QED BY <1>3, <1>4, <2>2
<1>11. QED BY <1>1, <1>7, <1>10

\* What a selection returns satisfies what was selected for.
LEMMA AtHolds ==
  ASSUME NEW segs, Tidy(segs), NEW I \in SUBSET DOMAIN segs,
         NEW k \in DOMAIN At(segs, I)
  PROVE  \E i \in I : At(segs, I)[k] = segs[i]
<1>1. segs \in Seq(Plain) /\ At(segs, I) \in Seq(Plain)
  BY TidyAt DEF Tidy
<1>2. PICK list \in Seq(I) : Picks(At(segs, I), segs, list)
  BY <1>1, AtPicks
<1>3. k \in 1 .. Len(list)
  BY <1>1, <1>2 DEF Picks
<1>4. list[k] \in I /\ At(segs, I)[k] = segs[list[k]]
  BY <1>2, <1>3 DEF Picks
<1>5. QED BY <1>4

LEMMA AtHas ==
  ASSUME NEW segs, Tidy(segs), NEW I \in SUBSET DOMAIN segs, NEW i \in I
  PROVE  \E k \in DOMAIN At(segs, I) : At(segs, I)[k] = segs[i]
<1>1. segs \in Seq(Plain) /\ At(segs, I) \in Seq(Plain)
  BY TidyAt DEF Tidy
<1>2. PICK list \in Seq(I) :
        /\ Picks(At(segs, I), segs, list)
        /\ \A q \in I : \E k \in 1 .. Len(list) : list[k] = q
  BY <1>1, AtPicks
<1>3. PICK k \in 1 .. Len(list) : list[k] = i
  BY <1>2
<1>4. k \in DOMAIN At(segs, I) /\ At(segs, I)[k] = segs[i]
  BY <1>1, <1>2, <1>3 DEF Picks
<1>5. QED BY <1>4

LEMMA TidySplice ==
  ASSUME NEW segs, Tidy(segs), NEW w \in Window, NEW answer, Tidy(answer)
  PROVE  Tidy(Splice(segs, w, answer))
<1> DEFINE B == {i \in DOMAIN segs : segs[i].end <= w[1]}
           A == {i \in DOMAIN segs : segs[i].start >= w[2]}
           new == Clip(Collapse(answer), w)
<1>1. Splice(segs, w, answer) = At(segs, B) \o new \o At(segs, A)
  BY DEF Splice
<1>2. /\ Tidy(new)
      /\ \A i \in DOMAIN new : w[1] <= new[i].start /\ new[i].end <= w[2]
  BY TidyCollapse, TidyClip
<1> HIDE DEF new
<1>3. Tidy(At(segs, B)) /\ Tidy(At(segs, A))
  BY TidyAt
<1>4. \A k \in DOMAIN At(segs, B) : At(segs, B)[k].end <= w[1]
  BY AtHolds
<1>5. \A k \in DOMAIN At(segs, A) : At(segs, A)[k].start >= w[2]
  BY AtHolds
<1>6. ASSUME NEW t, Tidy(t), NEW i \in DOMAIN t
      PROVE  t[i].start \in Nat /\ t[i].end \in Nat
  <2>1. t[i] \in Seg
    BY <1>6 DEF Tidy, Plain
  <2>2. QED BY <2>1, SegType
<1>7. Tidy(At(segs, B) \o new)
  <2>1. ASSUME NEW i \in DOMAIN At(segs, B), NEW j \in DOMAIN new
        PROVE  At(segs, B)[i].end <= new[j].start
    <3>1. At(segs, B)[i].end <= w[1] /\ w[1] <= new[j].start
      BY <1>2, <1>4
    <3>2. At(segs, B)[i].end \in Nat /\ new[j].start \in Nat /\ w[1] \in Nat
      BY <1>2, <1>3, <1>6, WindowType
    <3>3. QED BY <3>1, <3>2
  <2>2. QED BY <1>2, <1>3, <2>1, TidyConcat
<1>8. ASSUME NEW i \in DOMAIN (At(segs, B) \o new)
      PROVE  (At(segs, B) \o new)[i].end <= w[2]
  <2>1. At(segs, B) \in Seq(Plain) /\ new \in Seq(Plain)
    BY <1>2, <1>3 DEF Tidy
  <2>2. CASE i \in DOMAIN At(segs, B) /\ (At(segs, B) \o new)[i] = At(segs, B)[i]
    <3>1. /\ At(segs, B)[i].end <= w[1] /\ At(segs, B)[i].end \in Nat
          /\ w[1] \in Nat /\ w[2] \in Nat /\ w[1] < w[2]
      BY <1>3, <1>4, <1>6, <2>2, WindowType
    <3>2. QED BY <2>2, <3>1
  <2>3. CASE \E j \in DOMAIN new : (At(segs, B) \o new)[i] = new[j]
    BY <1>2, <2>3
  <2>4. \/ i \in DOMAIN At(segs, B) /\ (At(segs, B) \o new)[i] = At(segs, B)[i]
        \/ \E j \in DOMAIN new : (At(segs, B) \o new)[i] = new[j]
    <3> DEFINE a == At(segs, B)
    <3>1. a \in Seq(Plain) /\ i \in DOMAIN (a \o new)
      BY <1>8, <2>1
    <3> HIDE DEF a
    <3>2. \/ i \in DOMAIN a /\ (a \o new)[i] = a[i]
          \/ \E j \in DOMAIN new : i = Len(a) + j /\ (a \o new)[i] = new[j]
      BY <2>1, <3>1, ConcatParts
    <3>3. QED BY <3>2 DEF a
  <2>5. QED BY <2>2, <2>3, <2>4
<1>9. QED
  <2>1. ASSUME NEW i \in DOMAIN (At(segs, B) \o new), NEW j \in DOMAIN At(segs, A)
        PROVE  (At(segs, B) \o new)[i].end <= At(segs, A)[j].start
    <3>1. (At(segs, B) \o new)[i].end <= w[2] /\ w[2] <= At(segs, A)[j].start
      BY <1>5, <1>8
    <3>2. (At(segs, B) \o new)[i].end \in Nat /\ At(segs, A)[j].start \in Nat /\ w[2] \in Nat
      BY <1>3, <1>6, <1>7, WindowType
    <3>3. QED BY <3>1, <3>2
  <2>2. QED BY <1>1, <1>3, <1>7, <2>1, TidyConcat

-------------------------------------------------------------------------------
(* Runs, loops and windows                                                   *)

LEMMA TidyEntry ==
  ASSUME NEW segs, Tidy(segs), NEW i \in DOMAIN segs
  PROVE  /\ i \in Nat \ {0} /\ segs[i] \in Plain
         /\ segs[i].start \in Time /\ segs[i].end \in Time
         /\ segs[i].start \in Nat /\ segs[i].end \in Nat /\ segs[i].start < segs[i].end
<1>1. segs \in Seq(Plain) /\ i \in 1 .. Len(segs) /\ Len(segs) \in Nat
  BY DEF Tidy
<1>2. segs[i] \in Plain /\ segs[i] \in Seg
  BY <1>1 DEF Plain
<1>3. QED BY <1>1, <1>2, SegType

\* A set of numbers has a least one.
LEMMA LeastNumber ==
    ASSUME NEW T \in SUBSET Nat, T # {}
    PROVE  \E k \in T : \A l \in T : k <= l
<1>1. PICK k \in T : \A l \in T : ~(<<l, k>> \in OpToRel(<, Nat))
  BY NatLessThanWellFounded, WFMin, Zenon
<1>2. ASSUME NEW l \in T
      PROVE  ~(l < k)
  <2>1. <<l, k>> \in Nat \X Nat /\ <<l, k>>[1] = l /\ <<l, k>>[2] = k
    BY <1>1
  <2>2. QED BY <1>1, <2>1, Zenon DEF OpToRel
<1>3. ASSUME NEW l \in T
      PROVE  k <= l
  <2>1. k \in Nat /\ l \in Nat /\ ~(l < k)
    BY <1>1, <1>2
  <2>2. QED BY <2>1
<1>4. QED BY <1>1, <1>3

LEMMA GreatestNumber ==
  ASSUME NEW S \in SUBSET Nat, S # {}, NEW n \in Nat, \A i \in S : i <= n
  PROVE  Max(S) \in S /\ \A i \in S : i <= Max(S)
<1> DEFINE T == {k \in Nat : n - k \in S}
<1>1. T \in SUBSET Nat /\ T # {}
  <2>1. PICK i \in S : TRUE
    OBVIOUS
  <2>2. n - i \in Nat /\ n - (n - i) = i
    BY <2>1
  <2>3. QED BY <2>1, <2>2
<1>2. PICK m \in T : \A j \in T : m <= j
  BY <1>1, LeastNumber
<1>3. n - m \in S /\ m \in Nat
  BY <1>2
<1>4. ASSUME NEW j \in S PROVE n - m >= j
  <2>1. n - j \in Nat /\ n - (n - j) = j
    BY <1>4
  <2>2. n - j \in T
    BY <2>1
  <2>3. m <= n - j /\ j \in Nat
    BY <1>2, <2>2
  <2>4. QED BY <1>3, <2>3
<1>5. Max(S) \in S /\ \A j \in S : Max(S) >= j
  BY <1>3, <1>4, Zenon DEF Max
<1>6. \A j \in S : j \in Int
  OBVIOUS
<1>7. QED BY <1>5, <1>6

\* A run is a stretch of positions; a loop has at least two.
LEMMA RunStretch ==
  ASSUME NEW segs, Tidy(segs), NEW i \in DOMAIN segs
  PROVE  LET run == Run(segs, i) IN
         /\ run \subseteq DOMAIN segs /\ i \in run /\ IsFiniteSet(run)
         /\ Max(run) \in run /\ \A j \in run : i <= j /\ j <= Max(run)
         /\ \A j \in i .. Max(run) : j \in run
<1> DEFINE run == Run(segs, i)
<1>1. DOMAIN segs = 1 .. Len(segs) /\ Len(segs) \in Nat
  BY DEF Tidy
<1>2. /\ run \subseteq DOMAIN segs /\ i \in run
      /\ \A j \in run : i <= j
  BY <1>1 DEF Run
<1>3. Max(run) \in run /\ \A j \in run : j <= Max(run)
  <2>1. run \in SUBSET Nat /\ run # {} /\ \A j \in run : j <= Len(segs)
    BY <1>1, <1>2
  <2> HIDE DEF run
  <2>2. QED BY <1>1, <2>1, GreatestNumber
<1>4. ASSUME NEW j \in i .. Max(run) PROVE j \in run
  <2>1. Max(run) \in DOMAIN segs /\ (i + 1 .. Max(run)) \cap RunStarts(segs) = {}
    BY <1>3 DEF Run
  <2> HIDE DEF run
  <2>2. j \in DOMAIN segs /\ j >= i /\ (i + 1 .. j) \subseteq (i + 1 .. Max(run))
    BY <1>1, <2>1
  <2>3. (i + 1 .. j) \cap RunStarts(segs) = {}
    BY <2>1, <2>2
  <2>4. QED BY <2>2, <2>3 DEF Run, run
<1>5. IsFiniteSet(run)
  BY <1>2, PositionsFinite DEF Tidy
<1>6. QED BY <1>2, <1>3, <1>4, <1>5

LEMMA LoopIsLong ==
  ASSUME NEW segs, Tidy(segs), NEW i \in LoopStarts(segs)
  PROVE  /\ i \in DOMAIN segs /\ i + 1 \in Run(segs, i)
         /\ i + 1 <= Max(Run(segs, i)) /\ Max(Run(segs, i)) \in Run(segs, i)
<1> DEFINE run == Run(segs, i)
<1>1. i \in DOMAIN segs /\ Loops(segs, i)
  BY DEF LoopStarts, RunStarts
<1>2. /\ run \subseteq DOMAIN segs /\ i \in run /\ IsFiniteSet(run)
      /\ Max(run) \in run /\ \A j \in run : i <= j /\ j <= Max(run)
      /\ \A j \in i .. Max(run) : j \in run
  BY <1>1, RunStretch
<1>3. Cardinality(run) > 1
  <2>1. Cardinality(run) \in Nat
    BY <1>2, FS_CardinalityType
  <2>2. ShortRun \in Nat \ {0} /\ LongRun \in Nat \ {0} /\ NearRun \in Nat \ {0, 1}
    BY SegmentsAssumption
  <2>3. \/ Cardinality(run) > ShortRun \/ Cardinality(run) > LongRun
        \/ Cardinality(run) >= NearRun
    BY <1>1 DEF Loops
  <2>4. QED BY <2>1, <2>2, <2>3
<1>4. run # {i}
  <2>1. Cardinality({i}) = 1
    BY FS_Singleton
  <2>2. QED BY <1>3, <2>1
<1>5. PICK j \in run : j # i
  BY <1>2, <1>4
<1>6. i \in Nat /\ j \in Nat /\ Max(run) \in Nat
  BY <1>1, <1>2, <1>5, TidyEntry
<1>7. i + 1 <= Max(run) /\ i + 1 \in i .. Max(run)
  BY <1>2, <1>5, <1>6
<1>8. QED BY <1>1, <1>2, <1>7

LEMMA IntervalType ==
  ASSUME NEW cells \in SUBSET Int, NEW w \in Intervals(cells)
  PROVE  /\ w[1] \in Int /\ w[2] \in Int /\ w = <<w[1], w[2]>> /\ w[1] < w[2]
         /\ w[1] \in cells /\ w[2] - 1 \in cells /\ w[2] \notin cells /\ w[1] - 1 \notin cells
         /\ \A c \in w[1] .. w[2] - 1 : c \in cells
<1> DEFINE above == {c + 1 : c \in cells}
<1>1. /\ w \in cells \X above
      /\ w[1] < w[2] /\ w[1] .. w[2] - 1 \subseteq cells /\ {w[1] - 1, w[2]} \cap cells = {}
  BY DEF Intervals, Cells
<1>2. above \subseteq Int
  OBVIOUS
<1> HIDE DEF above
<1>3. w[1] \in cells /\ w[2] \in above /\ w = <<w[1], w[2]>>
  BY <1>1
<1>4. w[1] \in Int /\ w[2] \in Int
  BY <1>2, <1>3
<1>5. w[2] - 1 \in w[1] .. w[2] - 1
  BY <1>1, <1>4
<1>6. QED BY <1>1, <1>3, <1>4, <1>5

\* Two maximal intervals of the same cells have a cell between them.
LEMMA IntervalsApart ==
  ASSUME NEW cells \in SUBSET Int, NEW w \in Intervals(cells), NEW v \in Intervals(cells), w # v
  PROVE  w[2] < v[1] \/ v[2] < w[1]
<1>1. ASSUME NEW a \in Intervals(cells), NEW b \in Intervals(cells), a[1] <= b[1], ~(a[2] < b[1])
      PROVE  a = b
  <2>1. /\ a[1] \in Int /\ a[2] \in Int /\ a = <<a[1], a[2]>> /\ a[1] < a[2]
        /\ b[1] \in Int /\ b[2] \in Int /\ b = <<b[1], b[2]>> /\ b[1] < b[2]
        /\ b[1] \in cells /\ a[2] \notin cells /\ b[2] \notin cells /\ b[1] - 1 \notin cells
        /\ \A c \in a[1] .. a[2] - 1 : c \in cells
        /\ \A c \in b[1] .. b[2] - 1 : c \in cells
    BY IntervalType
  <2>2. b[1] < a[2]
    BY <1>1, <2>1
  <2>3. ~(a[2] < b[2])
    <3>1. a[2] < b[2] => a[2] \in b[1] .. b[2] - 1
      BY <2>1, <2>2
    <3>2. QED BY <2>1, <3>1
  <2>4. ~(b[2] < a[2])
    <3>1. b[2] < a[2] => b[2] \in a[1] .. a[2] - 1
      BY <1>1, <2>1
    <3>2. QED BY <2>1, <3>1
  <2>5. ~(a[1] < b[1])
    <3>1. a[1] < b[1] => b[1] - 1 \in a[1] .. a[2] - 1
      BY <2>1, <2>2
    <3>2. QED BY <2>1, <3>1
  <2>6. a[1] = b[1] /\ a[2] = b[2]
    BY <1>1, <2>1, <2>3, <2>4, <2>5
  <2>7. QED BY <2>1, <2>6
<1>2. w[1] \in Int /\ v[1] \in Int
  BY IntervalType
<1>3. w[1] <= v[1] \/ v[1] <= w[1]
  BY <1>2
<1>4. QED BY <1>1, <1>3

Kept(segs) == DOMAIN segs \ Dropped(segs)

LEMMA CollapseKeeps ==
  ASSUME NEW segs, Tidy(segs)
  PROVE  /\ \A c \in DOMAIN Collapse(segs) : \E i \in Kept(segs) : Collapse(segs)[c] = segs[i]
         /\ \A i \in Kept(segs) : \E c \in DOMAIN Collapse(segs) : Collapse(segs)[c] = segs[i]
<1>1. Collapse(segs) = At(segs, Kept(segs)) /\ Kept(segs) \in SUBSET DOMAIN segs /\ segs \in Seq(Plain)
  BY DEF Collapse, Kept, Tidy
<1>2. Collapse(segs) \in Seq(Plain)
  BY <1>1, AtPicks
<1>3. PICK list \in Seq(Kept(segs)) :
        /\ Picks(Collapse(segs), segs, list)
        /\ \A i \in Kept(segs) : \E k \in 1 .. Len(list) : list[k] = i
  BY <1>1, AtPicks
<1>4. DOMAIN Collapse(segs) = 1 .. Len(list)
  BY <1>2, <1>3 DEF Picks
<1>5. \A c \in 1 .. Len(list) : list[c] \in Kept(segs)
  OBVIOUS
<1>6. QED BY <1>3, <1>4, <1>5 DEF Picks

LEMMA DiscardedType ==
  ASSUME NEW segs, Tidy(segs), NEW i \in LoopStarts(segs)
  PROVE  /\ <<segs[i + 1].start, segs[Max(Run(segs, i))].end>> \in Window
         /\ i + 1 \in DOMAIN segs /\ Max(Run(segs, i)) \in DOMAIN segs
<1> DEFINE m == Max(Run(segs, i))
<1>1. i + 1 \in DOMAIN segs /\ m \in DOMAIN segs /\ i + 1 <= m
  BY LoopIsLong, RunStretch
<1> HIDE DEF m
<1>2. /\ segs[i + 1].start \in Time /\ segs[m].end \in Time
      /\ segs[i + 1].start \in Nat /\ segs[i + 1].end \in Nat /\ segs[i + 1].start < segs[i + 1].end
      /\ segs[m].start \in Nat /\ segs[m].end \in Nat /\ segs[m].start < segs[m].end
      /\ i + 1 \in Nat /\ m \in Nat
  BY <1>1, TidyEntry
<1>3. i + 1 < m => segs[i + 1].end <= segs[m].start
  BY <1>1 DEF Tidy, Apart
<1>4. segs[i + 1].start < segs[m].end
  <2>1. CASE i + 1 = m
    BY <1>2, <2>1
  <2>2. CASE i + 1 < m
    BY <1>2, <1>3, <2>2
  <2>3. QED BY <1>1, <1>2, <2>1, <2>2
<1>5. QED BY <1>1, <1>2, <1>4 DEF Window, m

Opened(segs) ==
  ((0 .. Duration - 1) \ Covered(Collapse(segs))) \cup UNION {Cells(w) : w \in Discarded(segs)}

LEMMA OpenedCells ==
  ASSUME NEW segs, Tidy(segs)
  PROVE  /\ Opened(segs) \in SUBSET (0 .. Duration - 1) /\ Opened(segs) \in SUBSET Int
         /\ Windows(segs, Duration) = Intervals(Opened(segs))
         /\ Windows(segs, Duration) \subseteq Window
<1>1. ASSUME NEW w \in Discarded(segs), NEW c \in Cells(w) PROVE c \in 0 .. Duration - 1
  <2>1. w \in Window
    BY DiscardedType DEF Discarded
  <2>2. w[1] \in 0 .. Duration /\ w[2] \in 0 .. Duration /\ Duration \in Nat
    BY <2>1, WindowType, TimeType DEF Time
  <2>3. c \in w[1] .. w[2] - 1
    BY DEF Cells
  <2>4. QED BY <2>2, <2>3
<1>2. Opened(segs) \in SUBSET (0 .. Duration - 1)
  BY <1>1 DEF Opened
<1>3. Windows(segs, Duration) = Intervals(Opened(segs))
  BY DEF Windows, Opened
<1>4. 0 .. Duration - 1 \subseteq Int /\ Duration \in Nat
  BY TimeType
<1>5. ASSUME NEW w \in Intervals(Opened(segs)) PROVE w \in Window
  <2>1. /\ w[1] \in Int /\ w[2] \in Int /\ w = <<w[1], w[2]>> /\ w[1] < w[2]
        /\ w[1] \in 0 .. Duration - 1 /\ w[2] - 1 \in 0 .. Duration - 1
    BY <1>2, <1>4, IntervalType
  <2>2. w[1] \in 0 .. Duration /\ w[2] \in 0 .. Duration
    BY <1>4, <2>1
  <2>3. w \in Time \X Time
    BY <2>1, <2>2 DEF Time
  <2>4. QED BY <2>1, <2>3 DEF Window
<1>6. QED BY <1>2, <1>3, <1>4, <1>5

\* A segment lies in the open cells as a whole or not at all: what a loop loses
\* is all that stood between two segments that are kept.
LEMMA WholeSegment ==
  ASSUME NEW segs, Tidy(segs), NEW k \in DOMAIN segs
  PROVE  \/ Cells(Span(segs[k])) \cap Opened(segs) = {}
         \/ Cells(Span(segs[k])) \subseteq Opened(segs)
<1> DEFINE cells == segs[k].start .. segs[k].end - 1
           span(i) == <<segs[i + 1].start, segs[Max(Run(segs, i))].end>>
<1>1. Cells(Span(segs[k])) = cells
  BY DEF Cells, Span
<1>2. \A i \in LoopStarts(segs) : Cells(span(i)) = segs[i + 1].start .. segs[Max(Run(segs, i))].end - 1
  BY DEF Cells
<1>3. \A i, j \in DOMAIN segs : /\ i \in Nat /\ segs[i].start \in Nat /\ segs[i].end \in Nat
                                /\ segs[i].start < segs[i].end
                                /\ i < j => segs[i].end <= segs[j].start
  BY TidyEntry DEF Tidy, Apart
<1>4. \A i \in LoopStarts(segs) :
        /\ i \in DOMAIN segs /\ i + 1 \in DOMAIN segs /\ Max(Run(segs, i)) \in DOMAIN segs
        /\ \A j \in Run(segs, i) : i <= j /\ j <= Max(Run(segs, i))
        /\ \A j \in i .. Max(Run(segs, i)) : j \in Run(segs, i)
  BY LoopIsLong, DiscardedType, RunStretch
<1>5. CASE k \in Kept(segs)
  <2>1. cells \subseteq Covered(Collapse(segs))
    <3>1. PICK c \in DOMAIN Collapse(segs) : Collapse(segs)[c] = segs[k]
      BY <1>5, CollapseKeeps
    <3>2. Cells(Span(Collapse(segs)[c])) = cells
      BY <1>1, <3>1
    <3>3. QED BY <3>2 DEF Covered
  <2>2. ASSUME NEW i \in LoopStarts(segs), NEW c \in cells, c \in Cells(span(i)) PROVE FALSE
    <3> DEFINE m == Max(Run(segs, i))
    <3>1. /\ i \in DOMAIN segs /\ i + 1 \in DOMAIN segs /\ m \in DOMAIN segs
          /\ \A j \in i .. m : j \in Run(segs, i)
      BY <1>4
    <3>2. ~(k \in Run(segs, i) /\ k # i)
      BY <1>5 DEF Kept, Dropped
    <3>3. c \in segs[i + 1].start .. segs[m].end - 1
      BY <1>2, <2>2
    <3> HIDE DEF m
    <3>4. i \in Nat /\ m \in Nat /\ k \in Nat
      BY <1>3, <3>1
    <3>5. k <= i \/ k > m
      <4>1. i < k /\ k <= m => k \in i .. m
        BY <3>4
      <4>2. QED BY <3>1, <3>2, <3>4, <4>1
    <3>6. CASE k <= i
      <4>1. k < i + 1
        BY <3>4, <3>6
      <4>2. segs[k].end <= segs[i + 1].start
        BY <1>3, <3>1, <4>1
      <4>3. segs[k].end \in Nat /\ segs[i + 1].start \in Nat /\ segs[k].start \in Nat /\ segs[m].end \in Nat
        BY <1>3, <3>1
      <4>4. QED BY <3>3, <4>2, <4>3
    <3>7. CASE k > m
      <4>1. segs[m].end <= segs[k].start
        BY <1>3, <3>1, <3>4, <3>7
      <4>2. segs[k].end \in Nat /\ segs[i + 1].start \in Nat /\ segs[k].start \in Nat /\ segs[m].end \in Nat
        BY <1>3, <3>1
      <4>3. QED BY <3>3, <4>1, <4>2
    <3>8. QED BY <3>5, <3>6, <3>7
  <2>3. ASSUME NEW c \in cells PROVE c \notin Opened(segs)
    <3>1. c \notin UNION {Cells(w) : w \in Discarded(segs)}
      BY <2>2 DEF Discarded
    <3>2. QED BY <2>1, <3>1 DEF Opened
  <2>4. QED BY <1>1, <2>3
<1>6. CASE k \in Dropped(segs)
  <2>1. PICK i \in LoopStarts(segs) : k \in Run(segs, i) /\ k # i
    BY <1>6 DEF Dropped
  <2> DEFINE m == Max(Run(segs, i))
  <2>2. /\ i \in DOMAIN segs /\ i + 1 \in DOMAIN segs /\ m \in DOMAIN segs
        /\ i <= k /\ k <= m
    BY <1>4, <2>1
  <2>3. Cells(span(i)) = segs[i + 1].start .. segs[m].end - 1
    BY <1>2
  <2>4. Cells(span(i)) \subseteq Opened(segs)
    <3>1. span(i) \in Discarded(segs)
      BY DEF Discarded
    <3>2. QED BY <3>1 DEF Opened
  <2> HIDE DEF m, span
  <2>5. i \in Nat /\ m \in Nat /\ k \in Nat
    BY <1>3, <2>2
  <2>6. segs[i + 1].start <= segs[k].start
    <3>1. CASE k = i + 1
      BY <1>3, <2>2, <3>1
    <3>2. CASE i + 1 < k
      <4>1. segs[i + 1].end <= segs[k].start
        BY <1>3, <2>2, <3>2
      <4>2. QED BY <1>3, <2>2, <4>1
    <3>3. QED BY <2>1, <2>2, <2>5, <3>1, <3>2
  <2>7. segs[k].end <= segs[m].end
    <3>1. CASE k = m
      BY <1>3, <2>2, <3>1
    <3>2. CASE k < m
      <4>1. segs[k].end <= segs[m].start
        BY <1>3, <2>2, <3>2
      <4>2. QED BY <1>3, <2>2, <4>1
    <3>3. QED BY <2>2, <2>5, <3>1, <3>2
  <2>8. cells \subseteq Cells(span(i))
    <3>1. segs[k].end \in Nat /\ segs[i + 1].start \in Nat /\ segs[k].start \in Nat /\ segs[m].end \in Nat
      BY <1>3, <2>2
    <3>2. QED BY <2>3, <2>6, <2>7, <3>1
  <2>9. QED BY <1>1, <2>4, <2>8
<1>7. QED BY <1>5, <1>6 DEF Kept

-------------------------------------------------------------------------------
(* The slices that are asked about                                           *)

LEMMA SliceType ==
  ASSUME NEW w \in Window, NEW s \in Slices(w, MaxSlice)
  PROVE  s.span \in Window
<1>1. PICK k \in {j \in 0 .. Length(w) : w[1] + j * MaxSlice < w[2]} :
        s = [span |-> <<w[1] + k * MaxSlice, Min({w[2], w[1] + (k + 1) * MaxSlice})>>, leading |-> k = 0]
  BY DEF Slices
<1> DEFINE a == w[1] + k * MaxSlice
           b == w[1] + (k + 1) * MaxSlice
<1>2. /\ w[1] \in 0 .. Duration /\ w[2] \in 0 .. Duration /\ w[1] < w[2]
      /\ Duration \in Nat /\ MaxSlice \in Nat \ {0}
  BY WindowType, TimeType, CoverageAssumption DEF Time
<1>3. k \in Nat /\ a < w[2]
  BY <1>1, <1>2 DEF Length
<1>4. k * MaxSlice \in Nat /\ (k + 1) * MaxSlice = k * MaxSlice + MaxSlice
  BY <1>2, <1>3
<1>5. a \in Nat /\ b \in Nat /\ a < b /\ w[1] <= a
  BY <1>2, <1>4
<1>6. s.span = <<a, Min({w[2], b})>>
  BY <1>1
<1> HIDE DEF a, b
<1>7. Min({w[2], b}) = IF w[2] <= b THEN w[2] ELSE b
  <2>1. w[2] \in Int /\ b \in Int
    BY <1>2, <1>5
  <2>2. QED BY <2>1, Extremes
<1>8. Min({w[2], b}) \in 0 .. Duration /\ a \in 0 .. Duration /\ a < Min({w[2], b})
  BY <1>2, <1>3, <1>5, <1>7
<1> HIDE DEF Min
<1>9. <<a, Min({w[2], b})>> \in Time \X Time
  BY <1>8 DEF Time
<1>10. QED BY <1>6, <1>8, <1>9 DEF Window

LEMMA ChosenType ==
  ASSUME Tidy(working), NEW s \in Chosen
  PROVE  s.span \in Window /\ Target(s) \in Window /\ Cut(s) \in Time \X Time
<1>1. PICK w \in Candidates : s \in Slices(w, MaxSlice)
  BY DEF Chosen, Open, Pending
<1>2. w \in Window
  BY OpenedCells DEF Candidates
<1>3. s.span \in Window
  BY <1>1, <1>2, SliceType
<1>4. /\ s.span[1] \in 0 .. Duration /\ s.span[2] \in 0 .. Duration /\ s.span[1] < s.span[2]
      /\ Duration \in Nat /\ Distrust \in Nat /\ Backoff \in Nat
  BY <1>3, WindowType, TimeType, CoverageAssumption DEF Time
<1>5. Target(s)[1] \in 0 .. Duration /\ Target(s)[1] <= s.span[1] /\ Target(s)[2] = s.span[2]
      /\ Target(s) = <<Target(s)[1], Target(s)[2]>>
  <2>1. Max({0, s.span[1] - Distrust}) = IF 0 >= s.span[1] - Distrust THEN 0 ELSE s.span[1] - Distrust
    BY <1>4, Extremes
  <2>2. Max({0, s.span[1] - Distrust}) \in 0 .. Duration /\ Max({0, s.span[1] - Distrust}) <= s.span[1]
    BY <1>4, <2>1
  <2>3. QED BY <1>4, <2>2 DEF Target
<1>6. Target(s) \in Window
  <2>1. Target(s) \in Time \X Time
    BY <1>4, <1>5 DEF Time
  <2>2. QED BY <1>4, <1>5, <2>1 DEF Window
<1>7. Cut(s) \in Time \X Time
  <2>1. /\ Max({0, Target(s)[1] - Backoff}) = IF 0 >= Target(s)[1] - Backoff THEN 0 ELSE Target(s)[1] - Backoff
        /\ Min({Duration, s.span[2] + Backoff}) = IF Duration <= s.span[2] + Backoff THEN Duration ELSE s.span[2] + Backoff
    <3>1. /\ 0 \in Int /\ Target(s)[1] - Backoff \in Int
          /\ Duration \in Int /\ s.span[2] + Backoff \in Int
      BY <1>4, <1>5
    <3>2. QED BY <3>1, Extremes
  <2>2. /\ Max({0, Target(s)[1] - Backoff}) \in 0 .. Duration
        /\ Min({Duration, s.span[2] + Backoff}) \in 0 .. Duration
    BY <1>4, <1>5, <2>1
  <2>3. QED BY <2>2 DEF Cut, Time
<1>8. QED BY <1>3, <1>6, <1>7

LEMMA TranscriptIsTidy ==
  ASSUME NEW w, NEW n \in Nat, NEW a \in Transcript(w, n)
  PROVE  Tidy(a)
<1> DEFINE spans == {v \in Time \X Time : w[1] <= v[1] /\ v[1] < v[2] /\ v[2] <= w[2]}
           T == {Segment(v[1], v[2], t) : v \in spans, t \in Text}
<1>1. PICK k \in 0 .. n : a \in [1 .. k -> T]
  BY DEF Transcript
<1>2. Apart(a)
  BY DEF Transcript
<1>3. T \subseteq Plain
  <2>1. ASSUME NEW v \in spans, NEW t \in Text PROVE Segment(v[1], v[2], t) \in Plain
    <3>1. v[1] \in Time /\ v[2] \in Time /\ v[1] < v[2]
      OBVIOUS
    <3>2. QED BY <3>1 DEF Segment, Plain, Seg
  <2>2. QED BY <2>1
<1> HIDE DEF T
<1>4. a \in Seq(Plain)
  <2>1. a \in [1 .. k -> Plain] /\ k \in Nat
    BY <1>1, <1>3
  <2>2. QED BY <2>1
<1>5. QED BY <1>2, <1>4 DEF Tidy

-------------------------------------------------------------------------------
(* The pieces that are filled again, and with what                           *)

Ready == Tidy(working) /\ Tidy(first)

LEMMA CandidateType ==
  ASSUME Tidy(working), NEW w \in Candidates
  PROVE  /\ w \in Window /\ w \in Intervals(Opened(working)) /\ Opened(working) \in SUBSET Int
BY OpenedCells DEF Candidates

LEMMA PieceType ==
  ASSUME Tidy(working), NEW w \in Candidates, NEW p \in Without(w, silent)
  PROVE  /\ p \in Window /\ Cells(p) \cap Quiet = {}
         /\ Cells(w) \ Quiet \in SUBSET Int /\ p \in Intervals(Cells(w) \ Quiet)
         /\ w[1] <= p[1] /\ p[2] <= w[2]
<1>1. w \in Window
  BY CandidateType
<1>2. /\ w[1] \in 0 .. Duration /\ w[2] \in 0 .. Duration /\ Duration \in Nat
  BY <1>1, WindowType, TimeType DEF Time
<1>3. Cells(w) = w[1] .. w[2] - 1
  BY DEF Cells
<1>4. Cells(w) \ Quiet \in SUBSET Int /\ p \in Intervals(Cells(w) \ Quiet)
  BY <1>2, <1>3 DEF Without, Quiet
<1>5. /\ p[1] \in Int /\ p[2] \in Int /\ p = <<p[1], p[2]>> /\ p[1] < p[2]
      /\ p[1] \in Cells(w) \ Quiet /\ p[2] - 1 \in Cells(w) \ Quiet
      /\ \A c \in p[1] .. p[2] - 1 : c \in Cells(w) \ Quiet
  BY <1>4, IntervalType
<1>6. p[1] \in 0 .. Duration /\ p[2] \in 0 .. Duration /\ w[1] <= p[1] /\ p[2] <= w[2]
  BY <1>2, <1>3, <1>5
<1>7. p \in Time \X Time
  BY <1>5, <1>6 DEF Time
<1>8. Cells(p) \cap Quiet = {}
  BY <1>5 DEF Cells
<1>9. QED BY <1>4, <1>5, <1>6, <1>7, <1>8 DEF Window

LEMMA PiecesAreWindows ==
  ASSUME Tidy(working), NEW p \in Pieces
  PROVE  p \in Window /\ Cells(p) \cap Quiet = {}
BY PieceType DEF Pieces

\* Between two pieces there is a cell that is silent, in the same window, or
\* one that is not open at all.
LEMMA PiecesApart ==
  ASSUME Tidy(working), NEW p \in Pieces, NEW q \in Pieces, p[1] <= q[1], p # q
  PROVE  /\ p[2] < q[1]
         /\ \/ p[2] \in Quiet
            \/ p[2] - 1 \in Opened(working) /\ \E c \in p[2] .. q[1] - 1 : c \notin Opened(working)
<1>1. PICK w \in Candidates, v \in Candidates : p \in Without(w, silent) /\ q \in Without(v, silent)
  BY DEF Pieces
<1>2. /\ p[1] \in Nat /\ p[2] \in Nat /\ p[1] < p[2] /\ q[1] \in Nat /\ q[2] \in Nat /\ q[1] < q[2]
      /\ w[1] \in Nat /\ w[2] \in Nat /\ v[1] \in Nat /\ v[2] \in Nat
  BY <1>1, PieceType, CandidateType, WindowType
<1>3. w[1] <= p[1] /\ p[2] <= w[2] /\ v[1] <= q[1] /\ q[2] <= v[2]
  BY <1>1, PieceType
<1>4. CASE w = v
  <2> DEFINE cells == Cells(w) \ Quiet
  <2>1. cells \in SUBSET Int /\ p \in Intervals(cells) /\ q \in Intervals(cells)
    BY <1>1, <1>4, PieceType
  <2>2. p[2] < q[1] \/ q[2] < p[1]
    BY <2>1, IntervalsApart
  <2>3. p[2] < q[1]
    BY <1>2, <2>2
  <2>4. p[2] \in Cells(w)
    BY <1>2, <1>3, <1>4, <2>3 DEF Cells
  <2>5. p[2] \notin cells
    BY <2>1, IntervalType
  <2>6. QED BY <2>3, <2>4, <2>5
<1>5. CASE w # v
  <2>1. /\ Opened(working) \in SUBSET Int
        /\ w \in Intervals(Opened(working)) /\ v \in Intervals(Opened(working))
    BY CandidateType
  <2>2. w[2] < v[1] \/ v[2] < w[1]
    BY <1>5, <2>1, IntervalsApart
  <2>3. w[2] < v[1]
    BY <1>2, <1>3, <2>2
  <2>4. w[2] \notin Opened(working) /\ \A c \in w[1] .. w[2] - 1 : c \in Opened(working)
    BY <2>1, IntervalType
  <2>5. p[2] - 1 \in w[1] .. w[2] - 1 /\ w[2] \in p[2] .. q[1] - 1 /\ p[2] < q[1]
    BY <1>2, <1>3, <2>3
  <2>6. QED BY <2>4, <2>5
<1>6. QED BY <1>4, <1>5

LEMMA FirstPassType ==
  ASSUME Ready, NEW p \in Pieces
  PROVE  /\ Tidy(FirstPass(p))
         /\ \A i \in DOMAIN FirstPass(p) : p[1] <= FirstPass(p)[i].start /\ FirstPass(p)[i].end <= p[2]
<1>1. p \in Window
  BY PiecesAreWindows DEF Ready
<1>2. /\ Tidy(Clip(first, p))
      /\ \A i \in DOMAIN Clip(first, p) : p[1] <= Clip(first, p)[i].start /\ Clip(first, p)[i].end <= p[2]
  BY <1>1, TidyClip DEF Ready
<1>3. \A c \in DOMAIN Collapse(Clip(first, p)) :
        \E i \in DOMAIN Clip(first, p) : Collapse(Clip(first, p))[c] = Clip(first, p)[i]
  BY <1>2, CollapseKeeps DEF Kept
<1>4. QED BY <1>2, <1>3, TidyCollapse DEF FirstPass

LEMMA RestoredFromType ==
  ASSUME Ready, NEW p \in Pieces
  PROVE  /\ RestoredFrom(p) \in Time /\ RestoredFrom(p) <= p[1]
         /\ \/ Neighbour(p) = {} /\ RestoredFrom(p) = p[1]
            \/ \E n \in DOMAIN working :
                 /\ Neighbour(p) = {n}
                 /\ working[n].end = p[1] /\ RestoredFrom(p) = working[n].start
<1>1. p[1] \in Time /\ p[1] \in Nat
  BY PiecesAreWindows, WindowType DEF Ready
<1>2. CASE Neighbour(p) = {}
  <2>1. RestoredFrom(p) = Min({p[1], p[1]})
    <3>1. {p[1]} \cup {working[i].start : i \in Neighbour(p)} = {p[1], p[1]}
      BY <1>2
    <3>2. QED BY <3>1 DEF RestoredFrom
  <2>2. RestoredFrom(p) = p[1]
    BY <1>1, <2>1, Extremes
  <2>3. QED BY <1>1, <1>2, <2>2
<1>3. ASSUME NEW n \in Neighbour(p)
      PROVE  \E i \in DOMAIN working : /\ Neighbour(p) = {i} /\ working[i].end = p[1]
                                       /\ RestoredFrom(p) = working[i].start
             /\ RestoredFrom(p) \in Time /\ RestoredFrom(p) <= p[1]
  <2>1. n \in DOMAIN working /\ working[n].end = p[1] /\ \A j \in 1 .. n - 1 : working[j].end # p[1]
    BY DEF Neighbour
  <2>2. ASSUME NEW m \in Neighbour(p) PROVE m = n
    <3>1. /\ m \in DOMAIN working /\ working[m].end = p[1]
          /\ \A j \in 1 .. m - 1 : working[j].end # p[1]
      BY DEF Neighbour
    <3>2. m \in Nat \ {0} /\ n \in Nat \ {0}
      BY <2>1, <3>1, TidyEntry DEF Ready
    <3>3. ~(m < n) /\ ~(n < m)
      BY <2>1, <3>1, <3>2
    <3>4. QED BY <3>2, <3>3
  <2>3. Neighbour(p) = {n}
    BY <2>2
  <2>4. working[n].start \in Time /\ working[n].start \in Nat /\ working[n].start < p[1]
    BY <2>1, TidyEntry DEF Ready
  <2>5. RestoredFrom(p) = Min({p[1], working[n].start})
    <3>1. {p[1]} \cup {working[i].start : i \in Neighbour(p)} = {p[1], working[n].start}
      BY <2>3
    <3>2. QED BY <3>1 DEF RestoredFrom
  <2>6. RestoredFrom(p) = working[n].start
    <3>1. p[1] \in Int /\ working[n].start \in Int
      BY <1>1, <2>4
    <3>2. Min({p[1], working[n].start}) = IF p[1] <= working[n].start THEN p[1] ELSE working[n].start
      BY <3>1, Extremes
    <3>3. QED BY <2>4, <2>5, <3>1, <3>2
  <2>7. QED BY <1>1, <2>1, <2>3, <2>4, <2>6
<1>4. QED BY <1>2, <1>3

\* The restored segments of a piece reach from where the widened one starts to
\* the end of the piece.
LEMMA RestoredType ==
  ASSUME Ready, NEW p \in Pieces
  PROVE  /\ Restored(p) \in Seq(Seg) /\ Len(Restored(p)) = Len(FirstPass(p))
         /\ \A i \in DOMAIN Restored(p) :
              /\ Restored(p)[i] \in Seg /\ Restored(p)[i].low
              /\ RestoredFrom(p) <= Restored(p)[i].start
              /\ p[1] < Restored(p)[i].end /\ Restored(p)[i].end <= p[2]
              /\ i # 1 \/ Neighbour(p) = {} => p[1] <= Restored(p)[i].start
              /\ i = Len(Restored(p)) => Restored(p)[i].end = p[2]
         /\ \A i, j \in DOMAIN Restored(p) : i < j => Restored(p)[i].end <= Restored(p)[j].start
<1> DEFINE segs == FirstPass(p)
           n == Len(segs)
           r == Restored(p)
           from(i) == IF i = 1 /\ Neighbour(p) # {} THEN RestoredFrom(p) ELSE segs[i].start
           to(i) == IF i = n THEN p[2] ELSE segs[i].end
<1>1. /\ segs \in Seq(Plain) /\ n \in Nat /\ DOMAIN segs = 1 .. n
      /\ \A i \in 1 .. n : p[1] <= segs[i].start /\ segs[i].end <= p[2]
      /\ \A i, j \in 1 .. n : i < j => segs[i].end <= segs[j].start
  BY FirstPassType DEF Tidy, Apart
<1>2. /\ p[1] \in Time /\ p[2] \in Time /\ p[1] \in Nat /\ p[2] \in Nat
      /\ RestoredFrom(p) \in Time /\ RestoredFrom(p) \in Nat /\ RestoredFrom(p) <= p[1]
  BY PiecesAreWindows, WindowType, RestoredFromType, TimeType DEF Ready
<1>3. r = [i \in 1 .. n |-> [segs[i] EXCEPT !.low = TRUE, !.start = from(i), !.end = to(i)]]
  BY <1>1 DEF Restored
<1> HIDE DEF segs, n, r
<1>4. ASSUME NEW i \in 1 .. n
      PROVE  /\ segs[i] \in [start : Time, end : Time, text : Text, low : BOOLEAN]
             /\ segs[i].start \in Time /\ segs[i].end \in Time
             /\ segs[i].start \in Nat /\ segs[i].end \in Nat /\ segs[i].start < segs[i].end
  <2>1. segs[i] \in Seg
    BY <1>1 DEF Plain
  <2>2. QED BY <2>1, SegType DEF Seg
<1>5. ASSUME NEW i \in 1 .. n
      PROVE  /\ r[i] \in [start : Time, end : Time, text : Text, low : BOOLEAN]
             /\ r[i].low /\ r[i].start = from(i) /\ r[i].end = to(i)
             /\ from(i) \in Nat /\ to(i) \in Nat
  <2>1. r[i] = [segs[i] EXCEPT !.low = TRUE, !.start = from(i), !.end = to(i)]
    BY <1>3
  <2>2. from(i) \in Time /\ to(i) \in Time /\ from(i) \in Nat /\ to(i) \in Nat
    BY <1>2, <1>4
  <2> HIDE DEF from, to
  <2>3. QED BY <1>4, <2>1, <2>2
<1>6. ASSUME NEW i \in 1 .. n
      PROVE  /\ RestoredFrom(p) <= from(i) /\ from(i) <= segs[i].start
             /\ segs[i].end <= to(i) /\ to(i) <= p[2] /\ from(i) < to(i) /\ p[1] < to(i)
  <2>1. p[1] <= segs[i].start /\ segs[i].end <= p[2]
    BY <1>1
  <2>2. QED BY <1>2, <1>4, <2>1
<1>7. r \in Seq(Seg) /\ Len(r) = n /\ DOMAIN r = 1 .. n
  <2>1. \A i \in 1 .. n : r[i] \in Seg
    BY <1>5, <1>6 DEF Seg
  <2>2. r \in [1 .. n -> Seg]
    BY <1>3, <2>1
  <2>3. QED BY <1>1, <2>2
<1>8. ASSUME NEW i \in 1 .. n
      PROVE  /\ r[i] \in Seg /\ r[i].low
             /\ RestoredFrom(p) <= r[i].start
             /\ p[1] < r[i].end /\ r[i].end <= p[2]
             /\ i # 1 \/ Neighbour(p) = {} => p[1] <= r[i].start
             /\ i = Len(r) => r[i].end = p[2]
  <2>1. i # 1 \/ Neighbour(p) = {} => from(i) = segs[i].start
    OBVIOUS
  <2>2. i = n => to(i) = p[2]
    OBVIOUS
  <2> HIDE DEF from, to
  <2>3. r[i] \in Seg
    BY <1>5, <1>6 DEF Seg
  <2>4. QED BY <1>1, <1>5, <1>6, <1>7, <2>1, <2>2, <2>3
<1>9. ASSUME NEW i \in 1 .. n, NEW j \in 1 .. n, i < j
      PROVE  r[i].end <= r[j].start
  <2>1. to(i) = segs[i].end /\ from(j) = segs[j].start
    BY <1>1, <1>9
  <2> HIDE DEF from, to
  <2>2. QED BY <1>1, <1>5, <1>9, <2>1
<1>10. QED BY <1>7, <1>8, <1>9 DEF r, segs, n

LEMMA EntriesFinite ==
  ASSUME Ready
  PROVE  IsFiniteSet(Entries)
<1> DEFINE D(p) == {p} \X (DOMAIN Restored(p))
           S == {D(p) : p \in Restorable}
           f == [p \in Restorable |-> D(p)]
<1>1. IsFiniteSet(Restorable)
  <2>1. Restorable \subseteq Time \X Time
    BY PiecesAreWindows DEF Restorable, Ready, Window
  <2>2. IsFiniteSet(Time)
    BY TimeType, FS_Interval DEF Time
  <2>3. IsFiniteSet(Time \X Time)
    BY <2>2, FS_Product
  <2>4. QED BY <2>1, <2>3, FS_Subset
<1>2. ASSUME NEW p \in Restorable PROVE IsFiniteSet(D(p))
  <2>1. Restored(p) \in Seq(Seg)
    BY RestoredType DEF Restorable
  <2>2. IsFiniteSet(DOMAIN Restored(p))
    BY <2>1, PositionsFinite
  <2>3. IsFiniteSet({p})
    BY FS_Singleton
  <2>4. QED BY <2>2, <2>3, FS_Product
<1>3. f \in Surjection(Restorable, S)
  BY DEF Surjection
<1>4. IsFiniteSet(S)
  BY <1>1, <1>3, FS_Surjection
<1>5. IsFiniteSet(UNION S)
  <2>1. \A T \in S : IsFiniteSet(T)
    BY <1>2
  <2> HIDE DEF S
  <2>2. QED BY <1>4, <2>1, FS_UNION
<1>6. QED BY <1>5 DEF Entries

LEMMA EntryType ==
  ASSUME Ready, NEW e \in Entries
  PROVE  /\ e[1] \in Restorable /\ e[1] \in Pieces /\ e[2] \in DOMAIN Restored(e[1]) /\ e = <<e[1], e[2]>>
         /\ e[1][1] \in Nat /\ e[1][2] \in Nat /\ e[1][1] < e[1][2] /\ e[1] = <<e[1][1], e[1][2]>>
         /\ e[2] \in Nat
<1>1. PICK p \in Restorable : e \in {p} \X (DOMAIN Restored(p))
  BY DEF Entries
<1>2. e[1] = p /\ e[2] \in DOMAIN Restored(p) /\ e = <<e[1], e[2]>> /\ p \in Pieces
  BY <1>1 DEF Restorable
<1>3. p[1] \in Nat /\ p[2] \in Nat /\ p[1] < p[2] /\ p = <<p[1], p[2]>>
  BY <1>2, PiecesAreWindows, WindowType DEF Ready
<1>4. e[2] \in Nat
  <2>1. Restored(p) \in Seq(Seg)
    BY <1>2, RestoredType
  <2>2. QED BY <1>2, <2>1
<1>5. QED BY <1>1, <1>2, <1>3, <1>4

LEMMA AllRestoredIs ==
  ASSUME Ready
  PROVE  /\ AllRestored \in Seq(Seg)
         /\ \E list \in Seq(Entries) :
              /\ Len(AllRestored) = Len(list)
              /\ \A k \in 1 .. Len(list) : AllRestored[k] = Restored(list[k][1])[list[k][2]]
              /\ \A e \in Entries : \E k \in 1 .. Len(list) : list[k] = e
              /\ \A k, l \in 1 .. Len(list) : k < l => list[k] # list[l]
<1> DEFINE leq == {q \in Entries \X Entries : Sooner(q[1], q[2])}
           list == Listed(Entries, leq)
<1>1. Ordered(Entries, leq)
  <2>1. ASSUME NEW e \in Entries, NEW f \in Entries PROVE <<e, f>> \in leq <=> Sooner(e, f)
    OBVIOUS
  <2> HIDE DEF leq
  <2>2. \A e \in Entries : /\ e = <<e[1], e[2]>> /\ e[1] = <<e[1][1], e[1][2]>>
                           /\ e[1][1] \in Nat /\ e[1][2] \in Nat /\ e[2] \in Nat
    BY EntryType
  <2>3. ASSUME NEW e \in Entries, NEW f \in Entries PROVE Sooner(e, f) \/ Sooner(f, e)
    <3>1. e[1][1] = f[1][1] /\ e[1][2] = f[1][2] => e[1] = f[1]
      BY <2>2
    <3>2. QED BY <2>2, <3>1 DEF Sooner
  <2>4. ASSUME NEW e \in Entries, NEW f \in Entries, Sooner(e, f), Sooner(f, e) PROVE e = f
    <3>1. e[1] = f[1] /\ e[2] = f[2]
      BY <2>2, <2>4 DEF Sooner
    <3>2. e = <<e[1], e[2]>> /\ f = <<f[1], f[2]>>
      BY <2>2
    <3>3. QED BY <3>1, <3>2
  <2>5. ASSUME NEW e \in Entries, NEW f \in Entries, NEW g \in Entries, Sooner(e, f), Sooner(f, g)
        PROVE  Sooner(e, g)
    BY <2>2, <2>5 DEF Sooner
  <2>6. QED BY <2>1, <2>3, <2>4, <2>5 DEF Ordered
<1>2. IsList(list, Entries, leq)
  BY <1>1, EntriesFinite, ListedIsList
<1>3. AllRestored = [k \in DOMAIN list |-> Restored(list[k][1])[list[k][2]]]
  BY DEF AllRestored
<1> HIDE DEF list
<1>4. list \in Seq(Entries) /\ DOMAIN list = 1 .. Len(list) /\ Len(list) \in Nat
  BY <1>2 DEF IsList
<1>5. \A k \in 1 .. Len(list) : Restored(list[k][1])[list[k][2]] \in Seg
  <2>1. ASSUME NEW k \in 1 .. Len(list) PROVE Restored(list[k][1])[list[k][2]] \in Seg
    <3>1. list[k] \in Entries
      BY <1>4
    <3>2. list[k][1] \in Pieces /\ list[k][2] \in DOMAIN Restored(list[k][1])
      BY <3>1, EntryType
    <3>3. QED BY <3>2, RestoredType
  <2>2. QED BY <2>1
<1>6. AllRestored \in [1 .. Len(list) -> Seg]
  BY <1>3, <1>4, <1>5
<1>7. AllRestored \in Seq(Seg) /\ Len(AllRestored) = Len(list)
  BY <1>4, <1>6
<1>8. \A k \in 1 .. Len(list) : AllRestored[k] = Restored(list[k][1])[list[k][2]]
  BY <1>3, <1>4
<1>9. /\ \A e \in Entries : \E k \in 1 .. Len(list) : list[k] = e
      /\ \A k, l \in 1 .. Len(list) : k < l => list[k] # list[l]
  BY <1>2 DEF IsList
<1>10. QED BY <1>4, <1>7, <1>8, <1>9

\* How two segments of the transcript may stand to each other in the end.
Across(a, b) == a.low /\ b.low /\ (Cells(Span(a)) \cup Cells(Span(b))) \cap Quiet # {}
Fit(a, b) == a.end <= b.start \/ b.end <= a.start \/ Across(a, b)

\* A segment that is widened to before another piece covers the cell between the
\* two pieces, and that cell is silent: a segment of the transcript never reaches
\* from an open cell to one that is not.
LEMMA LaterPieceFits ==
  ASSUME Ready, NEW p \in Pieces, NEW q \in Pieces, p[1] <= q[1], p # q,
         NEW i \in DOMAIN Restored(p), NEW j \in DOMAIN Restored(q)
  PROVE  Restored(p)[i].end <= Restored(q)[j].start \/ Across(Restored(p)[i], Restored(q)[j])
<1> DEFINE a == Restored(p)[i]
           b == Restored(q)[j]
<1>1. /\ a \in Seg /\ b \in Seg /\ a.low /\ b.low /\ a.end <= p[2]
      /\ RestoredFrom(q) <= b.start /\ q[1] < b.end
      /\ Neighbour(q) = {} => q[1] <= b.start
  BY RestoredType
<1>2. /\ p[1] \in Nat /\ p[2] \in Nat /\ p[1] < p[2] /\ q[1] \in Nat
      /\ a.end \in Nat /\ b.start \in Nat /\ b.end \in Nat
      /\ RestoredFrom(q) \in Nat
  BY <1>1, SegType, PiecesAreWindows, WindowType, RestoredFromType, TimeType DEF Ready
<1>3. /\ p[2] < q[1]
      /\ \/ p[2] \in Quiet
         \/ p[2] - 1 \in Opened(working) /\ \E c \in p[2] .. q[1] - 1 : c \notin Opened(working)
  BY PiecesApart DEF Ready
<1> HIDE DEF a, b
<1>4. CASE p[2] <= b.start
  BY <1>1, <1>2, <1>4 DEF a, b
<1>5. CASE b.start < p[2] /\ p[2] \in Quiet
  <2>1. p[2] \in b.start .. b.end - 1
    BY <1>1, <1>2, <1>3, <1>5
  <2>2. p[2] \in Cells(Span(b)) \cap Quiet
    BY <1>5, <2>1 DEF Cells, Span
  <2>3. Across(a, b)
    BY <1>1, <2>2 DEF Across
  <2>4. QED BY <2>3 DEF a, b
<1>6. CASE /\ b.start < p[2]
           /\ p[2] - 1 \in Opened(working) /\ \E c \in p[2] .. q[1] - 1 : c \notin Opened(working)
  <2>1. Neighbour(q) # {}
    BY <1>1, <1>2, <1>3, <1>6
  <2>2. PICK n \in DOMAIN working : working[n].end = q[1] /\ RestoredFrom(q) = working[n].start
    BY <2>1, RestoredFromType
  <2>3. Cells(Span(working[n])) = RestoredFrom(q) .. q[1] - 1
    BY <2>2 DEF Cells, Span
  <2>4. PICK c \in p[2] .. q[1] - 1 : c \notin Opened(working)
    BY <1>6
  <2>5. p[2] - 1 \in RestoredFrom(q) .. q[1] - 1 /\ c \in RestoredFrom(q) .. q[1] - 1
    BY <1>1, <1>2, <1>3, <1>6
  <2>6. \/ Cells(Span(working[n])) \cap Opened(working) = {}
        \/ Cells(Span(working[n])) \subseteq Opened(working)
    BY WholeSegment DEF Ready
  <2>7. QED BY <1>6, <2>3, <2>4, <2>5, <2>6
<1>7. QED BY <1>2, <1>3, <1>4, <1>5, <1>6

LEMMA EntriesFit ==
  ASSUME Ready, NEW e \in Entries, NEW f \in Entries, e # f
  PROVE  Fit(Restored(e[1])[e[2]], Restored(f[1])[f[2]])
<1>1. /\ e[1] \in Pieces /\ e[2] \in DOMAIN Restored(e[1]) /\ e = <<e[1], e[2]>>
      /\ f[1] \in Pieces /\ f[2] \in DOMAIN Restored(f[1]) /\ f = <<f[1], f[2]>>
      /\ e[1][1] \in Nat /\ f[1][1] \in Nat /\ e[2] \in Nat /\ f[2] \in Nat
  BY EntryType
<1>2. CASE e[1] = f[1]
  <2>1. e[2] # f[2]
    BY <1>1, <1>2
  <2>2. e[2] < f[2] \/ f[2] < e[2]
    BY <1>1, <2>1
  <2>3. QED BY <1>1, <1>2, <2>2, RestoredType DEF Fit
<1>3. CASE e[1] # f[1] /\ e[1][1] <= f[1][1]
  BY <1>1, <1>3, LaterPieceFits DEF Fit
<1>4. CASE e[1] # f[1] /\ f[1][1] <= e[1][1]
  <2>1. \/ Restored(f[1])[f[2]].end <= Restored(e[1])[e[2]].start
        \/ Across(Restored(f[1])[f[2]], Restored(e[1])[e[2]])
    BY <1>1, <1>4, LaterPieceFits
  <2>2. QED BY <2>1 DEF Fit, Across
<1>5. QED BY <1>1, <1>2, <1>3, <1>4

-------------------------------------------------------------------------------
(* The transcript that the restoration leaves                                *)

\* What is spared overlaps no range that is filled again.
LEMMA SparedType ==
  ASSUME Ready, NEW k \in DOMAIN Spared(working)
  PROVE  /\ Spared(working)[k] \in Plain
         /\ \A p \in Restorable : \/ p[2] <= Spared(working)[k].start
                                  \/ Spared(working)[k].end <= RestoredFrom(p)
<1> DEFINE ranges == {<<RestoredFrom(p), p[2]>> : p \in Restorable}
           I == {i \in DOMAIN working : \A r \in ranges : working[i].start >= r[2] \/ working[i].end <= r[1]}
<1>1. Spared(working) = At(working, I) /\ I \in SUBSET DOMAIN working
  BY DEF Spared
<1>2. PICK i \in I : Spared(working)[k] = working[i]
  BY <1>1, AtHolds DEF Ready
<1>3. working[i] \in Plain /\ working[i].start \in Nat
  BY <1>2, TidyEntry DEF Ready
<1>4. ASSUME NEW p \in Restorable PROVE p[2] <= working[i].start \/ working[i].end <= RestoredFrom(p)
  <2>1. <<RestoredFrom(p), p[2]>> \in ranges
    OBVIOUS
  <2>2. working[i].start >= p[2] \/ working[i].end <= RestoredFrom(p)
    BY <2>1
  <2>3. p[2] \in Nat
    BY PiecesAreWindows, WindowType DEF Restorable, Ready
  <2>4. QED BY <1>3, <2>2, <2>3
<1>5. QED BY <1>2, <1>3, <1>4

LEMMA SparedTidy ==
  ASSUME Ready
  PROVE  Tidy(Spared(working))
<1> DEFINE ranges == {<<RestoredFrom(p), p[2]>> : p \in Restorable}
           I == {i \in DOMAIN working : \A r \in ranges : working[i].start >= r[2] \/ working[i].end <= r[1]}
<1>1. Spared(working) = At(working, I) /\ I \in SUBSET DOMAIN working
  BY DEF Spared
<1> HIDE DEF I
<1>2. QED BY <1>1, TidyAt DEF Ready

LEMMA AllRestoredEntry ==
  ASSUME Ready, NEW k \in DOMAIN AllRestored
  PROVE  \E e \in Entries : AllRestored[k] = Restored(e[1])[e[2]]
<1>1. PICK list \in Seq(Entries) :
        /\ AllRestored \in Seq(Seg) /\ Len(AllRestored) = Len(list)
        /\ \A l \in 1 .. Len(list) : AllRestored[l] = Restored(list[l][1])[list[l][2]]
  BY AllRestoredIs
<1>2. k \in 1 .. Len(list) /\ list[k] \in Entries
  BY <1>1
<1>3. QED BY <1>1, <1>2

LEMMA AllRestoredFit ==
  ASSUME Ready, NEW k \in DOMAIN AllRestored, NEW l \in DOMAIN AllRestored, k < l
  PROVE  Fit(AllRestored[k], AllRestored[l])
<1>1. PICK list \in Seq(Entries) :
        /\ AllRestored \in Seq(Seg) /\ Len(AllRestored) = Len(list)
        /\ \A m \in 1 .. Len(list) : AllRestored[m] = Restored(list[m][1])[list[m][2]]
        /\ \A m, n \in 1 .. Len(list) : m < n => list[m] # list[n]
  BY AllRestoredIs
<1>2. k \in 1 .. Len(list) /\ l \in 1 .. Len(list) /\ list[k] \in Entries /\ list[l] \in Entries
  BY <1>1
<1>3. list[k] # list[l]
  BY <1>1, <1>2
<1>4. Fit(Restored(list[k][1])[list[k][2]], Restored(list[l][1])[list[l][2]])
  BY <1>2, <1>3, EntriesFit
<1>5. QED BY <1>1, <1>2, <1>4

Combined == Spared(working) \o AllRestored

LEMMA CombinedFit ==
  ASSUME Ready
  PROVE  /\ Combined \in Seq(Seg)
         /\ \A i, j \in DOMAIN Combined : i < j => Fit(Combined[i], Combined[j])
<1> DEFINE a == Spared(working)
           b == AllRestored
<1>1. a \in Seq(Seg) /\ b \in Seq(Seg) /\ Tidy(a)
  <2>1. a \in Seq(Plain) /\ Plain \subseteq Seg
    BY SparedTidy DEF Tidy, Plain
  <2>2. QED BY <2>1, SparedTidy, SeqMonotonic, AllRestoredIs
<1>2. ASSUME NEW i \in DOMAIN a, NEW j \in DOMAIN b PROVE Fit(a[i], b[j])
  <2>1. PICK e \in Entries : b[j] = Restored(e[1])[e[2]]
    BY AllRestoredEntry
  <2>2. e[1] \in Restorable /\ e[1] \in Pieces /\ e[2] \in DOMAIN Restored(e[1])
    BY EntryType
  <2>3. b[j] \in Seg /\ RestoredFrom(e[1]) <= b[j].start /\ b[j].end <= e[1][2]
    BY <2>1, <2>2, RestoredType
  <2>4. a[i] \in Plain /\ (e[1][2] <= a[i].start \/ a[i].end <= RestoredFrom(e[1]))
    BY <2>2, SparedType
  <2>5. /\ a[i].start \in Nat /\ a[i].end \in Nat /\ b[j].start \in Nat /\ b[j].end \in Nat
        /\ e[1][2] \in Nat /\ RestoredFrom(e[1]) \in Nat
    BY <2>2, <2>3, <2>4, SegType, PiecesAreWindows, WindowType, RestoredFromType, TimeType DEF Plain, Ready
  <2>6. a[i].end <= b[j].start \/ b[j].end <= a[i].start
    BY <2>3, <2>4, <2>5
  <2>7. QED BY <2>6 DEF Fit
<1>3. ASSUME NEW i \in DOMAIN a, NEW j \in DOMAIN a, i < j PROVE Fit(a[i], a[j])
  BY <1>1, <1>3 DEF Tidy, Apart, Fit
<1>4. ASSUME NEW i \in DOMAIN b, NEW j \in DOMAIN b, i < j PROVE Fit(b[i], b[j])
  BY <1>4, AllRestoredFit
<1> HIDE DEF a, b
<1>5. /\ a \o b \in Seq(Seg)
      /\ \A i \in DOMAIN (a \o b) :
           \/ i \in DOMAIN a /\ (a \o b)[i] = a[i]
           \/ \E j \in DOMAIN b : i = Len(a) + j /\ (a \o b)[i] = b[j]
  BY <1>1, ConcatParts, ConcatProperties
<1>6. /\ DOMAIN a = 1 .. Len(a) /\ Len(a) \in Nat /\ DOMAIN b = 1 .. Len(b) /\ Len(b) \in Nat
  BY <1>1
<1>7. ASSUME NEW i \in DOMAIN (a \o b), NEW j \in DOMAIN (a \o b), i < j
      PROVE  Fit((a \o b)[i], (a \o b)[j])
  <2>1. CASE /\ i \in DOMAIN a /\ (a \o b)[i] = a[i]
             /\ j \in DOMAIN a /\ (a \o b)[j] = a[j]
    BY <1>3, <1>7, <2>1
  <2>2. ASSUME i \in DOMAIN a, (a \o b)[i] = a[i],
               NEW m \in DOMAIN b, (a \o b)[j] = b[m]
        PROVE  Fit((a \o b)[i], (a \o b)[j])
    BY <1>2, <2>2
  <2>3. ASSUME NEW l \in DOMAIN b, i = Len(a) + l, (a \o b)[i] = b[l],
               NEW m \in DOMAIN b, j = Len(a) + m, (a \o b)[j] = b[m]
        PROVE  Fit((a \o b)[i], (a \o b)[j])
    <3>1. l < m
      BY <1>6, <1>7, <2>3
    <3>2. QED BY <1>4, <2>3, <3>1
  <2>4. ASSUME NEW l \in DOMAIN b, i = Len(a) + l, j \in DOMAIN a PROVE FALSE
    BY <1>6, <1>7, <2>4
  <2>5. QED BY <1>5, <2>1, <2>2, <2>3, <2>4
<1>8. QED BY <1>5, <1>7 DEF Combined, a, b

\* Segments in order that overlap only where two restored ones may.
Settled(segs) ==
  /\ InOrder(segs)
  /\ \A i, j \in DOMAIN segs : i < j => segs[i].end <= segs[j].start \/ Across(segs[i], segs[j])

LEMMA TidyOrder ==
  ASSUME NEW segs, Tidy(segs), NEW i \in DOMAIN segs, NEW j \in DOMAIN segs, i < j
  PROVE  segs[i].end <= segs[j].start /\ segs[i].start <= segs[j].start
<1>1. segs[i].end <= segs[j].start
  BY DEF Tidy, Apart
<1>2. segs[i].start \in Nat /\ segs[i].end \in Nat /\ segs[i].start < segs[i].end /\ segs[j].start \in Nat
  BY TidyEntry
<1>3. QED BY <1>1, <1>2

LEMMA TidyIsSettled ==
  ASSUME NEW segs, Tidy(segs)
  PROVE  Settled(segs)
BY TidyOrder DEF Settled, InOrder

LEMMA RestoreIs ==
  ASSUME Ready
  PROVE  /\ Restore \in Seq(Seg) /\ Settled(Restore)
         /\ \A k \in DOMAIN Restore : \E i \in DOMAIN Combined : Restore[k] = Combined[i]
         /\ \A i \in DOMAIN Combined : \E k \in DOMAIN Restore : Restore[k] = Combined[i]
<1>1. /\ Combined \in Seq(Seg) /\ Restore = ByStart(Combined)
      /\ \A i, j \in DOMAIN Combined : i < j => Fit(Combined[i], Combined[j])
  BY CombinedFit DEF Restore, Combined
<1>2. \A i \in DOMAIN Combined : Combined[i].start \in Nat /\ Combined[i].end \in Nat
                                 /\ Combined[i].start < Combined[i].end
  BY <1>1, SegType
<1>3. \A i \in DOMAIN Combined : i \in Nat
  BY <1>1
<1>4. Restore \in Seq(Seg)
  <2>1. \A i \in DOMAIN Combined : Combined[i].start \in Int
    BY <1>2
  <2>2. QED BY <1>1, <2>1, ByStartPicks
<1>5. PICK list \in Seq(DOMAIN Combined) :
        /\ Picks(Restore, Combined, list)
        /\ \A i \in DOMAIN Combined : \E k \in 1 .. Len(list) : list[k] = i
        /\ \A k, l \in 1 .. Len(list) :
             k < l => list[k] # list[l] /\ Combined[list[k]].start <= Combined[list[l]].start
  <2>1. \A i \in DOMAIN Combined : Combined[i].start \in Int
    BY <1>2
  <2>2. QED BY <1>1, <2>1, ByStartPicks
<1>6. DOMAIN Restore = 1 .. Len(list)
  BY <1>4, <1>5 DEF Picks
<1>7. \A k \in 1 .. Len(list) : list[k] \in DOMAIN Combined /\ Restore[k] = Combined[list[k]]
  BY <1>5 DEF Picks
<1>8. ASSUME NEW k \in DOMAIN Restore, NEW l \in DOMAIN Restore, k < l
      PROVE  /\ Restore[k].start <= Restore[l].start
             /\ Restore[k].end <= Restore[l].start \/ Across(Restore[k], Restore[l])
  <2> DEFINE a == Combined[list[k]]
             b == Combined[list[l]]
  <2>1. /\ Restore[k] = a /\ Restore[l] = b
        /\ list[k] \in DOMAIN Combined /\ list[l] \in DOMAIN Combined
        /\ list[k] # list[l] /\ a.start <= b.start
    BY <1>5, <1>6, <1>7, <1>8
  <2>2. Fit(a, b) \/ Fit(b, a)
    <3>1. list[k] < list[l] \/ list[l] < list[k]
      BY <1>3, <2>1
    <3>2. QED BY <1>1, <2>1, <3>1
  <2>3. a.start \in Nat /\ b.start \in Nat /\ a.end \in Nat /\ b.end \in Nat /\ b.start < b.end
    BY <1>2, <2>1
  <2> HIDE DEF a, b
  <2>4. a.end <= b.start \/ b.end <= a.start \/ Across(a, b)
    BY <2>2 DEF Fit, Across
  <2>5. ~(b.end <= a.start)
    BY <2>1, <2>3
  <2>6. QED BY <2>1, <2>4, <2>5
<1>9. Settled(Restore)
  BY <1>8 DEF Settled, InOrder
<1>10. \A k \in DOMAIN Restore : \E i \in DOMAIN Combined : Restore[k] = Combined[i]
  BY <1>6, <1>7
<1>11. \A i \in DOMAIN Combined : \E k \in DOMAIN Restore : Restore[k] = Combined[i]
  <2> TAKE i \in DOMAIN Combined
  <2>1. PICK k \in 1 .. Len(list) : list[k] = i
    BY <1>5
  <2>2. k \in DOMAIN Restore /\ Restore[k] = Combined[i]
    BY <1>6, <1>7, <2>1
  <2>3. QED BY <2>2
<1>12. QED BY <1>4, <1>9, <1>10, <1>11

\* What ends up in the transcript is spared or restored, and all of that does.
LEMMA RestoreHas ==
  ASSUME Ready
  PROVE  /\ \A k \in DOMAIN Restore :
              \/ Restore[k] \in Plain
              \/ \E e \in Entries : Restore[k] = Restored(e[1])[e[2]]
         /\ \A e \in Entries : \E k \in DOMAIN Restore : Restore[k] = Restored(e[1])[e[2]]
<1> DEFINE a == Spared(working)
           b == AllRestored
<1>1. a \in Seq(Seg) /\ b \in Seq(Seg)
  <2>1. a \in Seq(Plain) /\ Plain \subseteq Seg
    BY SparedTidy DEF Tidy, Plain
  <2>2. QED BY <2>1, SeqMonotonic, AllRestoredIs
<1>2. \A i \in DOMAIN a : a[i] \in Plain
  BY SparedType
<1>3. \A j \in DOMAIN b : \E e \in Entries : b[j] = Restored(e[1])[e[2]]
  BY AllRestoredEntry
<1>4. ASSUME NEW e \in Entries PROVE \E j \in DOMAIN b : b[j] = Restored(e[1])[e[2]]
  <2>1. PICK list \in Seq(Entries) :
          /\ Len(b) = Len(list)
          /\ \A k \in 1 .. Len(list) : b[k] = Restored(list[k][1])[list[k][2]]
          /\ \A f \in Entries : \E k \in 1 .. Len(list) : list[k] = f
    BY AllRestoredIs
  <2>2. PICK k \in 1 .. Len(list) : list[k] = e
    BY <2>1
  <2>3. k \in DOMAIN b
    BY <1>1, <2>1
  <2>4. QED BY <2>1, <2>2, <2>3
<1> HIDE DEF a, b
<1>5. /\ Combined = a \o b
      /\ \A i \in DOMAIN (a \o b) :
           \/ i \in DOMAIN a /\ (a \o b)[i] = a[i]
           \/ \E j \in DOMAIN b : i = Len(a) + j /\ (a \o b)[i] = b[j]
      /\ \A j \in DOMAIN b : Len(a) + j \in DOMAIN (a \o b) /\ (a \o b)[Len(a) + j] = b[j]
  BY <1>1, ConcatParts DEF Combined, a, b
<1>6. ASSUME NEW k \in DOMAIN Restore
      PROVE  Restore[k] \in Plain \/ \E e \in Entries : Restore[k] = Restored(e[1])[e[2]]
  <2>1. PICK i \in DOMAIN Combined : Restore[k] = Combined[i]
    BY RestoreIs
  <2>2. \/ i \in DOMAIN a /\ Restore[k] = a[i]
        \/ \E j \in DOMAIN b : Restore[k] = b[j]
    BY <1>5, <2>1
  <2>3. QED BY <1>2, <1>3, <2>2
<1>7. ASSUME NEW e \in Entries PROVE \E k \in DOMAIN Restore : Restore[k] = Restored(e[1])[e[2]]
  <2>1. PICK j \in DOMAIN b : b[j] = Restored(e[1])[e[2]]
    BY <1>4
  <2>2. Len(a) + j \in DOMAIN Combined /\ Combined[Len(a) + j] = b[j]
    BY <1>5
  <2>3. QED BY <2>1, <2>2, RestoreIs
<1>8. QED BY <1>6, <1>7

-------------------------------------------------------------------------------
(* The invariant                                                             *)

\* Until the unit ends no two segments overlap and none is marked.
IInv ==
  /\ Tidy(first)
  /\ pc # "done" => Tidy(working)
  /\ OnlyRestoredOverlap

LEMMA SettledIs == OnlyRestoredOverlap <=> Settled(working)
BY DEF OnlyRestoredOverlap, Settled, Across

LEMMA InitInv == Init => IInv
<1> SUFFICES ASSUME Init PROVE IInv
  OBVIOUS
<1>1. first \in Transcript(<<0, Duration>>, MaxSegments) /\ working = first
  BY DEF Init
<1>2. Tidy(first)
  BY <1>1, TranscriptIsTidy, CoverageAssumption
<1>3. QED BY <1>1, <1>2, TidyIsSettled, SettledIs DEF IInv

LEMMA RecheckKeeps ==
  ASSUME IInv, Recheck
  PROVE  Tidy(working')
<1>1. Tidy(working) /\ pc = "recheck"
  BY DEF IInv, Recheck
<1>2. PICK s \in Chosen :
        \/ working' = working
        \/ \E a \in Answers[Cut(s)] : working' = working \/ working' = Splice(working, Target(s), a)
  BY DEF Recheck
<1>3. ASSUME NEW a \in Answers[Cut(s)] PROVE Tidy(Splice(working, Target(s), a))
  <2>1. Target(s) \in Window /\ Cut(s) \in Time \X Time
    BY <1>1, ChosenType
  <2>2. a \in Transcript(Cut(s), MaxAnswer)
    BY <2>1 DEF Answers
  <2>3. Tidy(a)
    BY <2>2, TranscriptIsTidy, CoverageAssumption
  <2>4. QED BY <1>1, <2>1, <2>3, TidySplice
<1>4. QED BY <1>1, <1>2, <1>3

LEMMA NextInv == IInv /\ [Next]_vars => IInv'
<1> SUFFICES ASSUME IInv, [Next]_vars PROVE IInv'
  OBVIOUS
<1>1. CASE working' = working /\ first' = first /\ silent' = silent /\ (pc = "done" <=> pc' = "done")
  BY <1>1 DEF IInv, Tidy, Apart, OnlyRestoredOverlap, InOrder, Quiet
<1>2. CASE Listen
  BY <1>1, <1>2 DEF Listen
<1>3. CASE Recheck
  <2>1. Tidy(working') /\ first' = first
    BY <1>3, RecheckKeeps DEF Recheck
  <2>2. Tidy(working)'
    BY <2>1 DEF Tidy, Apart
  <2>3. OnlyRestoredOverlap'
    <3>1. \A i, j \in DOMAIN working' : i < j => /\ working'[i].end <= working'[j].start
                                                /\ working'[i].start <= working'[j].start
      BY <2>1, TidyOrder
    <3>2. QED BY <3>1 DEF OnlyRestoredOverlap, InOrder
  <2>4. Tidy(first)'
    BY <2>1 DEF IInv, Tidy, Apart
  <2>5. QED BY <2>2, <2>3, <2>4 DEF IInv
<1>4. CASE Fail
  BY <1>1, <1>4 DEF Fail
<1>5. CASE Finish
  <2>1. /\ pc' = "done" /\ first' = first /\ silent' = silent
        /\ working' = working \/ working' = Restore
        /\ Ready
    BY <1>5 DEF Finish, IInv, Ready
  <2>2. Settled(working')
    BY <2>1, RestoreIs, TidyIsSettled DEF Ready
  <2>3. OnlyRestoredOverlap'
    BY <2>1, <2>2 DEF Settled, Across, OnlyRestoredOverlap, InOrder, Quiet
  <2>4. Tidy(first)'
    BY <2>1 DEF IInv, Tidy, Apart
  <2>5. QED BY <2>1, <2>3, <2>4 DEF IInv
<1>6. CASE Terminated
  BY <1>1, <1>6 DEF Terminated, vars
<1>7. CASE UNCHANGED vars
  BY <1>1, <1>7 DEF vars
<1>8. QED BY <1>2, <1>3, <1>4, <1>5, <1>6, <1>7 DEF Next

\* Every state of a unit satisfies the invariant.
THEOREM Invariance == Spec => []IInv
<1>1. QED BY InitInv, NextInv, PTL DEF Spec

\* No two segments overlap and none goes back in time, but for restored segments
\* that cover a stretch found silent.
THEOREM NoOverlap == Spec => []OnlyRestoredOverlap
<1>1. IInv => OnlyRestoredOverlap
  BY DEF IInv
<1>2. QED BY Invariance, <1>1, PTL

\* Until the unit ends, no two segments of the transcript overlap at all: no
\* answer of Whisper and no order of rechecks can make them.
THEOREM ApartUntilTheEnd == Spec => [](pc # "done" => Apart(working))
<1>1. IInv => (pc # "done" => Apart(working))
  BY DEF IInv, Tidy
<1>2. QED BY Invariance, <1>1, PTL

-------------------------------------------------------------------------------
(* What the last step does                                                   *)

LEMMA SilenceStep ==
  ASSUME IInv, [Next]_vars, ~(UNCHANGED vars), pc' = "done",
         NEW i \in DOMAIN working', working'[i].low
  PROVE  Cells(Span(working'[i])) \cap Quiet \subseteq Covered(working)
<1>1. Finish
  BY DEF Next, Listen, Recheck, Fail, Terminated, IInv
<1>2. Ready /\ (working' = working \/ working' = Restore)
  BY <1>1 DEF Finish, IInv, Ready
<1>3. working' # working
  BY <1>2, TidyEntry DEF Ready, Plain
<1>4. PICK e \in Entries : working'[i] = Restored(e[1])[e[2]]
  BY <1>2, <1>3, RestoreHas DEF Plain
<1> DEFINE p == e[1]
           r == Restored(e[1])[e[2]]
<1>5. p \in Pieces /\ r \in Seg /\ RestoredFrom(p) <= r.start /\ r.end <= p[2]
  BY <1>2, EntryType, RestoredType
<1>6. /\ p[1] \in Nat /\ p[2] \in Nat /\ RestoredFrom(p) \in Nat /\ r.start \in Nat /\ r.end \in Nat
      /\ Cells(p) \cap Quiet = {}
  BY <1>2, <1>5, SegType, PiecesAreWindows, WindowType, RestoredFromType, TimeType DEF Ready
<1>7. Cells(Span(r)) = r.start .. r.end - 1 /\ Cells(p) = p[1] .. p[2] - 1
  BY DEF Cells, Span
<1> HIDE DEF p, r
<1>8. ASSUME NEW c \in Cells(Span(r)), c \in Quiet PROVE c \in Covered(working)
  <2>1. c \in Int /\ RestoredFrom(p) <= c /\ c < p[1]
    BY <1>5, <1>6, <1>7, <1>8
  <2>2. PICK n \in DOMAIN working : working[n].end = p[1] /\ RestoredFrom(p) = working[n].start
    BY <1>2, <1>5, <1>6, <2>1, RestoredFromType
  <2>3. c \in Cells(Span(working[n]))
    BY <1>6, <2>1, <2>2 DEF Cells, Span
  <2>4. QED BY <2>3 DEF Covered
<1>9. QED BY <1>4, <1>8 DEF r

\* Text is not put back over a stretch that a recheck found silent.
THEOREM SilenceIsKept == Spec => SilenceStaysSilent
<1>1. IInv /\ [Next]_vars =>
        [pc' = "done" => \A i \in DOMAIN working' : working'[i].low
           => Cells(Span(working'[i])) \cap Quiet \subseteq Covered(working)]_vars
  BY SilenceStep
<1>2. QED BY Invariance, <1>1, PTL DEF Spec, SilenceStaysSilent

LEMMA CollapseNotEmpty ==
  ASSUME NEW segs, Tidy(segs), segs # <<>>
  PROVE  Collapse(segs) # <<>>
<1>1. segs \in Seq(Plain) /\ 1 \in DOMAIN segs
  BY DEF Tidy
<1>2. 1 \notin Dropped(segs)
  <2> SUFFICES ASSUME NEW i \in LoopStarts(segs), 1 \in Run(segs, i), i # 1 PROVE FALSE
    BY DEF Dropped
  <2>1. i \in DOMAIN segs /\ 1 >= i
    BY DEF LoopStarts, RunStarts, Run
  <2>2. i \in Nat \ {0}
    BY <2>1, TidyEntry
  <2>3. QED BY <2>1, <2>2
<1>3. PICK c \in DOMAIN Collapse(segs) : TRUE
  BY <1>1, <1>2, CollapseKeeps DEF Kept
<1>4. QED BY <1>3

LEMMA HoleStep ==
  ASSUME IInv, [Next]_vars, ~(UNCHANGED vars), pc' = "done",
         NEW p \in Pieces, Clip(first, p) # <<>>
  PROVE  Cells(p) \cap Covered(working') # {}
<1>1. Finish
  BY DEF Next, Listen, Recheck, Fail, Terminated, IInv
<1>2. Ready
  BY <1>1 DEF Finish, IInv, Ready
<1>3. p \in Restorable
  <2>1. Tidy(Clip(first, p))
    BY <1>2, PiecesAreWindows, TidyClip DEF Ready
  <2>2. QED BY <2>1, CollapseNotEmpty DEF FirstPass, Restorable
<1>4. working' = Restore
  BY <1>1, <1>3 DEF Finish
<1> DEFINE n == Len(Restored(p))
           r == Restored(p)[n]
<1>5. n \in DOMAIN Restored(p) /\ r \in Seg /\ r.end = p[2]
  <2>1. Restored(p) \in Seq(Seg) /\ Len(Restored(p)) = Len(FirstPass(p)) /\ FirstPass(p) \in Seq(Plain)
    BY <1>2, RestoredType, FirstPassType DEF Tidy
  <2>2. FirstPass(p) # <<>>
    BY <1>3 DEF Restorable
  <2>3. n \in DOMAIN Restored(p)
    BY <2>1, <2>2
  <2>4. QED BY <1>2, <2>3, RestoredType
<1>6. <<p, n>> \in Entries
  BY <1>3, <1>5 DEF Entries
<1>7. PICK k \in DOMAIN Restore : Restore[k] = r
  <2>1. <<p, n>>[1] = p /\ <<p, n>>[2] = n
    OBVIOUS
  <2>2. QED BY <1>2, <1>6, <2>1, RestoreHas
<1>8. p[1] \in Nat /\ p[2] \in Nat /\ p[1] < p[2] /\ r.start \in Nat /\ r.start < p[2]
  BY <1>2, <1>5, SegType, PiecesAreWindows, WindowType DEF Ready
<1>9. p[2] - 1 \in Cells(p) /\ p[2] - 1 \in Cells(Span(r))
  BY <1>5, <1>8 DEF Cells, Span
<1>10. p[2] - 1 \in Covered(working')
  BY <1>4, <1>7, <1>9 DEF Covered
<1>11. QED BY <1>9, <1>10

\* A piece of an open window for which the first pass had text has text.
THEOREM NoHoleWithText == Spec => WrongTextBeatsHole
<1>1. IInv /\ [Next]_vars =>
        [pc' = "done" => \A p \in Pieces : Clip(first, p) # <<>>
           => Cells(p) \cap Covered(working') # {}]_vars
  BY HoleStep
<1>2. QED BY Invariance, <1>1, PTL DEF Spec, WrongTextBeatsHole

-------------------------------------------------------------------------------
(* What the first pass heard is still there in the end                       *)

\* Every cell of a bounded set of cells lies in a maximal interval of it.
LEMMA IntervalAround ==
  ASSUME NEW n \in Nat, NEW cells \in SUBSET (0 .. n), NEW c \in cells
  PROVE  \E w \in Intervals(cells) : c \in Cells(w)
<1> DEFINE L == {a \in 0 .. c : \A d \in a .. c : d \in cells}
           H == {b \in Nat : b > c /\ b \notin cells}
<1>1. c \in Nat /\ c <= n /\ cells \subseteq Int
  OBVIOUS
<1>2. c \in L /\ L \in SUBSET Nat
  BY <1>1
<1>3. n + 1 \in H /\ H \in SUBSET Nat
  BY <1>1
<1>4. PICK a \in L : \A b \in L : a <= b
  BY <1>2, LeastNumber
<1>5. PICK b \in H : \A d \in H : b <= d
  BY <1>3, LeastNumber
<1>6. /\ a \in Nat /\ a <= c /\ \A d \in a .. c : d \in cells
      /\ b \in Nat /\ c < b /\ b \notin cells
  BY <1>4, <1>5
<1>7. a - 1 \notin cells
  <2> SUFFICES ASSUME a - 1 \in cells PROVE FALSE
    OBVIOUS
  <2>1. a - 1 \in 0 .. c
    BY <1>1, <1>6
  <2>2. \A d \in a - 1 .. c : d \in cells
    <3>1. \A d \in a - 1 .. c : d = a - 1 \/ d \in a .. c
      BY <1>1, <1>6
    <3>2. QED BY <1>6, <3>1
  <2>3. a - 1 \in L
    BY <2>1, <2>2
  <2>4. QED BY <1>4, <1>6, <2>3
<1>8. ASSUME NEW d \in a .. b - 1 PROVE d \in cells
  <2>1. CASE d <= c
    BY <1>1, <1>6, <2>1
  <2>2. CASE d > c
    <3>1. d \in Nat /\ d < b
      BY <1>6
    <3>2. d \notin H
      BY <1>5, <1>6, <3>1
    <3>3. QED BY <2>2, <3>1, <3>2
  <2>3. QED BY <1>1, <1>6, <2>1, <2>2
<1>9. <<a, b>> \in Intervals(cells) /\ c \in Cells(<<a, b>>)
  <2> DEFINE above == {d + 1 : d \in cells}
             w == <<a, b>>
  <2>1. a \in a .. b - 1 /\ b - 1 \in a .. b - 1 /\ c \in a .. b - 1
    BY <1>1, <1>6
  <2>2. a \in cells /\ b - 1 \in cells /\ b = (b - 1) + 1
    BY <1>6, <1>8, <2>1
  <2>3. b \in above
    BY <2>2
  <2> HIDE DEF above
  <2>4. w \in cells \X above /\ w[1] = a /\ w[2] = b /\ a < b
    BY <1>1, <1>6, <2>2, <2>3
  <2>5. Cells(w) = a .. b - 1
    BY <2>4 DEF Cells
  <2> HIDE DEF w
  <2>6. w \in Intervals(cells) /\ c \in Cells(w)
    BY <1>6, <1>7, <1>8, <2>1, <2>4, <2>5 DEF Intervals, above
  <2>7. QED BY <2>6 DEF w
<1>10. QED BY <1>9

LEMMA StretchSize ==
  ASSUME NEW a \in Int, NEW b \in Int, a <= b
  PROVE  Cardinality(a .. b) = b - a + 1
BY FS_Interval

\* What comes no later than i, of a stretch of numbers, has as many members as
\* there are steps from its beginning to i: a stretch is listed in its own order.
LEMMA ListedStretch ==
  ASSUME NEW lo \in Nat, NEW hi \in Nat, lo <= hi, NEW leq,
         \A i, j \in lo + 1 .. hi : <<i, j>> \in leq <=> i <= j
  PROVE  Listed(lo + 1 .. hi, leq) = [k \in 1 .. hi - lo |-> lo + k]
<1> DEFINE I == lo + 1 .. hi
           upto(i) == {j \in I : <<j, i>> \in leq}
<1>1. Cardinality(I) = hi - lo
  <2>1. Cardinality(lo + 1 .. hi) = IF lo + 1 > hi THEN 0 ELSE hi - (lo + 1) + 1
    BY FS_Interval
  <2>2. QED BY <2>1
<1>2. ASSUME NEW i \in I PROVE Cardinality(upto(i)) = i - lo
  <2>1. upto(i) = lo + 1 .. i
    <3>1. \A j \in lo + 1 .. hi : <<j, i>> \in leq <=> j <= i
      OBVIOUS
    <3>2. upto(i) = {j \in lo + 1 .. hi : j <= i}
      BY <3>1
    <3>3. {j \in lo + 1 .. hi : j <= i} = lo + 1 .. i
      OBVIOUS
    <3>4. QED BY <3>2, <3>3
  <2>2. Cardinality(lo + 1 .. i) = IF lo + 1 > i THEN 0 ELSE i - (lo + 1) + 1
    BY FS_Interval
  <2>3. i \in Nat /\ lo + 1 <= i
    OBVIOUS
  <2> HIDE DEF upto, I
  <2>4. QED BY <2>1, <2>2, <2>3
<1>3. ASSUME NEW k \in 1 .. hi - lo
      PROVE  (CHOOSE i \in I : Cardinality(upto(i)) = k) = lo + k
  <2>1. lo + k \in I /\ (lo + k) - lo = k
    OBVIOUS
  <2>2. \A i \in I : i - lo = k => i = lo + k
    OBVIOUS
  <2> HIDE DEF upto, I
  <2>3. Cardinality(upto(lo + k)) = k
    BY <1>2, <2>1
  <2>4. \A i \in I : Cardinality(upto(i)) = k => i = lo + k
    BY <1>2, <2>2
  <2>5. QED BY <2>1, <2>3, <2>4, Zenon
<1>4. Listed(I, leq) = [k \in 1 .. Cardinality(I) |-> CHOOSE i \in I : Cardinality(upto(i)) = k]
  BY DEF Listed
<1> HIDE DEF upto, I
<1>5. [k \in 1 .. Cardinality(I) |-> CHOOSE i \in I : Cardinality(upto(i)) = k]
        = [k \in 1 .. hi - lo |-> lo + k]
  BY <1>1, <1>3
<1>6. QED BY <1>4, <1>5 DEF I

\* Sorting what is in order already changes nothing.
LEMMA SortedStays ==
  ASSUME NEW segs, Tidy(segs)
  PROVE  ByStart(segs) = segs
<1> DEFINE n == Len(segs)
           before(i, j) == \/ segs[i].start < segs[j].start
                           \/ segs[i].start = segs[j].start /\ i <= j
           leq == {q \in (DOMAIN segs) \X (DOMAIN segs) : before(q[1], q[2])}
<1>1. n \in Nat /\ DOMAIN segs = 1 .. n /\ segs = [k \in 1 .. n |-> segs[k]]
  BY DEF Tidy
<1>2. ByStart(segs) = Picked(segs, Listed(DOMAIN segs, leq))
  BY DEF ByStart
<1>3. ASSUME NEW i \in 1 .. n, NEW j \in 1 .. n PROVE <<i, j>> \in leq <=> i <= j
  <2>1. <<i, j>> \in leq <=> before(i, j)
    BY <1>1
  <2>2. /\ segs[i].start \in Nat /\ segs[i].end \in Nat /\ segs[i].start < segs[i].end
        /\ segs[j].start \in Nat /\ segs[j].end \in Nat /\ segs[j].start < segs[j].end
    BY <1>1, TidyEntry
  <2>3. i < j => segs[i].end <= segs[j].start
    BY <1>1 DEF Tidy, Apart
  <2>4. j < i => segs[j].end <= segs[i].start
    BY <1>1 DEF Tidy, Apart
  <2> HIDE DEF leq, n
  <2>5. i \in Int /\ j \in Int
    BY <1>1
  <2>6. QED BY <2>1, <2>2, <2>3, <2>4, <2>5
<1> HIDE DEF leq, n
<1>4. Listed(1 .. n, leq) = [k \in 1 .. n |-> k]
  <2>1. Listed(0 + 1 .. n, leq) = [k \in 1 .. n - 0 |-> 0 + k]
    <3>0. 0 + 1 .. n = 1 .. n
      BY <1>1
    <3>1. \A i, j \in 0 + 1 .. n : <<i, j>> \in leq <=> i <= j
      BY <1>3, <3>0
    <3>2. 0 \in Nat /\ 0 <= n
      BY <1>1
    <3>3. QED BY <1>1, <3>1, <3>2, ListedStretch
  <2>2. 0 + 1 = 1 /\ n - 0 = n /\ \A k \in 1 .. n : 0 + k = k
    BY <1>1
  <2>3. QED BY <2>1, <2>2
<1>5. [k \in 1 .. n |-> k] \in Seq(DOMAIN segs)
  BY <1>1
<1>6. Picked(segs, [k \in 1 .. n |-> k]) = [k \in 1 .. n |-> segs[k]]
  <2>1. segs \in Seq(Plain)
    BY DEF Tidy
  <2> DEFINE list == [k \in 1 .. n |-> k]
  <2>2. list \in Seq(DOMAIN segs)
    BY <1>5
  <2> HIDE DEF list
  <2>3. PICK out : out = Picked(segs, list)
    OBVIOUS
  <2>4. out = [k \in DOMAIN list |-> segs[list[k]]]
    BY <2>1, <2>2, <2>3, PickedIsSeq
  <2>5. QED BY <2>3, <2>4 DEF list
<1>7. QED BY <1>1, <1>2, <1>4, <1>6

\* s, clamped to w.
Clamp(s, w) == [s EXCEPT !.start = Max({@, w[1]}), !.end = Min({@, w[2]})]

\* A gap is clipped to a stretch of neighbours, in their order.
LEMMA ClipStretch ==
  ASSUME NEW segs, Tidy(segs), NEW w \in Window
  PROVE  \E lo \in 0 .. Len(segs), hi \in 0 .. Len(segs) :
           /\ lo <= hi
           /\ lo + 1 .. hi = {i \in DOMAIN segs : segs[i].end > w[1] /\ segs[i].start < w[2]}
           /\ Clip(segs, w) = [k \in 1 .. hi - lo |-> Clamp(segs[lo + k], w)]
<1> DEFINE n == Len(segs)
           I == {i \in DOMAIN segs : segs[i].end > w[1] /\ segs[i].start < w[2]}
<1>1. n \in Nat /\ DOMAIN segs = 1 .. n /\ I \in SUBSET (1 .. n) /\ I \in SUBSET Nat
  BY DEF Tidy
<1>2. ASSUME NEW i \in I, NEW j \in I, NEW k \in i .. j PROVE k \in I
  <2>1. i \in Nat /\ j \in Nat /\ k \in Nat /\ i \in 1 .. n /\ j \in 1 .. n /\ i <= k /\ k <= j
    BY <1>1
  <2>2. k \in 1 .. n
    BY <1>1, <2>1
  <2>3. /\ segs[i].end > w[1] /\ segs[j].start < w[2]
        /\ i < k => segs[i].end <= segs[k].start
        /\ k < j => segs[k].end <= segs[j].start
    BY <1>1, <2>1, <2>2 DEF Tidy, Apart
  <2>4. /\ segs[i].end \in Nat /\ segs[k].start \in Nat /\ segs[k].end \in Nat
        /\ segs[k].start < segs[k].end /\ segs[j].start \in Nat /\ w[1] \in Nat /\ w[2] \in Nat
    BY <1>1, <2>1, <2>2, TidyEntry, WindowType
  <2>5. segs[k].end > w[1]
    <3>1. CASE i < k
      BY <2>3, <2>4, <3>1
    <3>2. CASE i = k
      BY <2>3, <3>2
    <3>3. QED BY <2>1, <3>1, <3>2
  <2>6. segs[k].start < w[2]
    <3>1. CASE k < j
      BY <2>3, <2>4, <3>1
    <3>2. CASE k = j
      BY <2>3, <3>2
    <3>3. QED BY <2>1, <3>1, <3>2
  <2>7. QED BY <1>1, <2>2, <2>5, <2>6
<1> HIDE DEF I
<1>3. \E lo \in 0 .. n, hi \in 0 .. n : lo <= hi /\ I = lo + 1 .. hi
  <2>1. CASE I = {}
    <3>1. 0 \in 0 .. n /\ 0 <= 0 /\ I = 0 + 1 .. 0
      BY <1>1, <2>1
    <3>2. QED BY <3>1
  <2>2. CASE I # {}
    <3>1. PICK a \in I : \A i \in I : a <= i
      BY <1>1, <2>2, LeastNumber
    <3>2. \A i \in I : i <= n
      BY <1>1
    <3>3. PICK b \in I : \A i \in I : i <= b
      BY <1>1, <2>2, <3>2, GreatestNumber
    <3>4. a \in 1 .. n /\ b \in 1 .. n /\ a <= b
      BY <1>1, <3>1
    <3>5. I = a .. b
      <4>1. \A i \in I : i \in a .. b
        BY <1>1, <3>1, <3>3
      <4>2. QED BY <1>2, <4>1
    <3>6. a - 1 \in 0 .. n /\ b \in 0 .. n /\ a - 1 <= b /\ (a - 1) + 1 = a
      BY <1>1, <3>4
    <3>7. QED BY <3>5, <3>6
  <2>3. QED BY <2>1, <2>2
<1>4. PICK lo \in 0 .. n, hi \in 0 .. n : lo <= hi /\ I = lo + 1 .. hi
  BY <1>3
<1> DEFINE inside == Within(segs, w)
           clamped == [i \in DOMAIN inside |-> Clamp(inside[i], w)]
           leq == {q \in I \X I : q[1] <= q[2]}
<1>5. inside = Picked(segs, Listed(I, leq))
  BY DEF Within, At, I
<1>6. Listed(I, leq) = [k \in 1 .. hi - lo |-> lo + k]
  <2>1. \A i, j \in lo + 1 .. hi : <<i, j>> \in leq <=> i <= j
    BY <1>4
  <2> HIDE DEF leq
  <2>2. lo \in Nat /\ hi \in Nat
    BY <1>1
  <2>3. QED BY <1>4, <2>1, <2>2, ListedStretch
<1> HIDE DEF leq
<1>7. inside = [k \in 1 .. hi - lo |-> segs[lo + k]]
  <2>1. hi - lo \in Nat /\ \A k \in 1 .. hi - lo : lo + k \in DOMAIN segs
    BY <1>1, <1>4
  <2>2. [k \in 1 .. hi - lo |-> lo + k] \in Seq(DOMAIN segs)
    BY <2>1
  <2>3. segs \in Seq(Plain)
    BY DEF Tidy
  <2> DEFINE list == [k \in 1 .. hi - lo |-> lo + k]
  <2>4. list \in Seq(DOMAIN segs) /\ inside = Picked(segs, list)
    BY <1>5, <1>6, <2>2
  <2>5. DOMAIN list = 1 .. hi - lo /\ \A k \in 1 .. hi - lo : list[k] = lo + k
    OBVIOUS
  <2> HIDE DEF list, inside
  <2>6. inside = [k \in DOMAIN list |-> segs[list[k]]]
    BY <2>3, <2>4, PickedIsSeq
  <2>7. QED BY <2>5, <2>6
<1>8. clamped = [k \in 1 .. hi - lo |-> Clamp(segs[lo + k], w)]
  BY <1>7
<1>9. Clip(segs, w) = ByStart(clamped)
  BY DEF Clip, Clamp
<1> HIDE DEF inside, clamped
<1>10. hi - lo \in Nat /\ \A k \in 1 .. hi - lo : lo + k \in I /\ lo + k \in DOMAIN segs /\ k \in Nat
  BY <1>1, <1>4
<1>11. ASSUME NEW k \in 1 .. hi - lo
       PROVE  /\ Clamp(segs[lo + k], w) \in Plain
              /\ segs[lo + k].start <= Clamp(segs[lo + k], w).start
              /\ Clamp(segs[lo + k], w).end <= segs[lo + k].end
  <2>1. segs[lo + k] \in Plain /\ segs[lo + k].end > w[1] /\ segs[lo + k].start < w[2]
    BY <1>10, TidyEntry DEF I
  <2>2. QED BY <2>1, Clamped DEF Clamp
<1>12. Tidy(clamped)
  <2>1. clamped \in [1 .. hi - lo -> Plain]
    BY <1>8, <1>11
  <2>2. clamped \in Seq(Plain) /\ DOMAIN clamped = 1 .. hi - lo
    BY <1>10, <2>1
  <2>3. ASSUME NEW i \in 1 .. hi - lo, NEW j \in 1 .. hi - lo, i < j
        PROVE  clamped[i].end <= clamped[j].start
    <3>1. lo + i < lo + j /\ lo + i \in DOMAIN segs /\ lo + j \in DOMAIN segs
      BY <1>1, <1>10, <2>3
    <3>2. segs[lo + i].end <= segs[lo + j].start
      BY <3>1 DEF Tidy, Apart
    <3>3. clamped[i] = Clamp(segs[lo + i], w) /\ clamped[j] = Clamp(segs[lo + j], w)
      BY <1>8
    <3>4. clamped[i] \in Seg /\ clamped[j] \in Seg
      BY <2>1 DEF Plain
    <3>5. /\ clamped[i].end \in Nat /\ clamped[j].start \in Nat
          /\ segs[lo + i].end \in Nat /\ segs[lo + j].start \in Nat
      BY <3>1, <3>4, SegType, TidyEntry
    <3>6. clamped[i].end <= segs[lo + i].end /\ segs[lo + j].start <= clamped[j].start
      BY <1>11, <3>3
    <3> DEFINE a == clamped[i].end  b == segs[lo + i].end
               c == segs[lo + j].start  d == clamped[j].start
    <3>7. a \in Nat /\ b \in Nat /\ c \in Nat /\ d \in Nat /\ a <= b /\ b <= c /\ c <= d
      BY <3>2, <3>5, <3>6
    <3> HIDE DEF a, b, c, d
    <3>8. a <= d
      BY <3>7
    <3>9. QED BY <3>8 DEF a, d
  <2>4. QED BY <2>2, <2>3 DEF Tidy, Apart
<1>13. Clip(segs, w) = clamped
  BY <1>9, <1>12, SortedStays
<1>14. QED BY <1>4, <1>8, <1>13 DEF I

\* The entries of part say what those of segs after the first lo say.
Echoes(part, segs, lo) ==
  lo + Len(part) <= Len(segs) /\ \A k \in 1 .. Len(part) : part[k].text = segs[lo + k].text

\* What a loop in a stretch of segments drops, a loop in all of them drops.
LEMMA LoopOfPart ==
  ASSUME NEW segs, Tidy(segs), NEW part, Tidy(part), NEW lo \in Nat, Echoes(part, segs, lo),
         NEW k \in Dropped(part)
  PROVE  lo + k \in Dropped(segs)
<1>0. /\ Len(part) \in Nat /\ DOMAIN part = 1 .. Len(part)
      /\ Len(segs) \in Nat /\ DOMAIN segs = 1 .. Len(segs) /\ lo + Len(part) <= Len(segs)
  BY DEF Tidy, Echoes
<1>1. PICK i \in LoopStarts(part) : k \in Run(part, i) /\ k # i
  BY DEF Dropped
<1> DEFINE R == Run(part, i)
           m == Max(R)
           S == {s \in RunStarts(segs) : s <= lo + i}
<1>2. /\ i \in DOMAIN part /\ i \in Nat \ {0} /\ k \in Nat \ {0} /\ m \in Nat \ {0}
      /\ R = i .. m /\ i <= m /\ i < k /\ k <= m /\ m <= Len(part)
      /\ Loops(part, i)
      /\ \A j \in i + 1 .. m : j \notin RunStarts(part)
  <2>1. i \in DOMAIN part /\ Loops(part, i)
    BY DEF LoopStarts, RunStarts
  <2>2. /\ R \subseteq DOMAIN part /\ i \in R /\ m \in R /\ \A j \in R : i <= j /\ j <= m
        /\ \A j \in i .. m : j \in R
    BY <2>1, RunStretch
  <2>3. (i + 1 .. m) \cap RunStarts(part) = {}
    BY <2>2 DEF Run
  <2> HIDE DEF R, m
  <2>4. k \in R
    BY <1>1 DEF R
  <2>5. i \in Nat \ {0} /\ k \in Nat \ {0} /\ m \in Nat \ {0} /\ m <= Len(part) /\ i <= k /\ k <= m
    BY <1>0, <2>1, <2>2, <2>4
  <2>6. \A j \in R : j \in Nat
    BY <1>0, <2>2
  <2>7. R = i .. m
    <3>1. \A j \in R : j \in i .. m
      BY <2>2, <2>5, <2>6
    <3>2. QED BY <2>2, <3>1
  <2>8. QED BY <1>1, <2>1, <2>3, <2>5, <2>7
<1> HIDE DEF R, m
<1>3. \E r \in S : \A s \in S : s <= r
  <2>1. 1 \in DOMAIN segs /\ lo + i \in Nat /\ 1 <= lo + i
    BY <1>0, <1>2
  <2>2. 1 \in S
    BY <2>1 DEF RunStarts
  <2>3. S \in SUBSET Nat
    BY <1>0 DEF RunStarts
  <2>4. \A s \in S : s <= lo + i
    OBVIOUS
  <2> HIDE DEF S
  <2>5. QED BY <2>1, <2>2, <2>3, <2>4, GreatestNumber
<1>4. PICK r \in S : \A s \in S : s <= r
  BY <1>3
<1>5. r \in RunStarts(segs) /\ r \in DOMAIN segs /\ r \in Nat \ {0} /\ r <= lo + i
  BY <1>0, <1>4 DEF RunStarts
<1> DEFINE P == Run(segs, r)
           Q == lo + i .. lo + m
<1>6. ASSUME NEW j \in r + 1 .. lo + m PROVE j \notin RunStarts(segs)
  <2>1. CASE j <= lo + i
    <3> SUFFICES ASSUME j \in RunStarts(segs) PROVE FALSE
      OBVIOUS
    <3>1. j \in S
      BY <2>1
    <3>2. j <= r /\ j >= r + 1 /\ j \in Int
      BY <1>2, <1>4, <1>5, <3>1
    <3>3. QED BY <1>5, <3>2
  <2>2. CASE j > lo + i
    <3> DEFINE q == j - lo
    <3>1. q \in i + 1 .. m /\ j = lo + q /\ q \in 1 .. Len(part) /\ q - 1 \in 1 .. Len(part)
          /\ q # 1 /\ j # 1 /\ j - 1 = lo + (q - 1)
      BY <1>0, <1>2, <1>5, <2>2
    <3> HIDE DEF q
    <3>2. Alike(part[q - 1].text, part[q].text)
      BY <1>0, <1>2, <3>1 DEF RunStarts
    <3>3. part[q].text = segs[j].text /\ part[q - 1].text = segs[j - 1].text
      BY <3>1 DEF Echoes
    <3>4. QED BY <3>1, <3>2, <3>3 DEF RunStarts
  <2>3. QED BY <1>2, <1>5, <2>1, <2>2
<1>7. ASSUME NEW j \in r .. lo + m PROVE j \in P
  <2>1. j \in DOMAIN segs /\ j >= r
    BY <1>0, <1>2, <1>5
  <2>2. (r + 1 .. j) \cap RunStarts(segs) = {}
    <3>1. \A q \in r + 1 .. j : q \in r + 1 .. lo + m
      BY <1>2, <1>5
    <3>2. QED BY <1>6, <3>1
  <2>3. QED BY <2>1, <2>2 DEF Run
<1>8. Q \subseteq P /\ r \in P /\ IsFiniteSet(P) /\ Cardinality(P) \in Nat
  <2>1. \A j \in Q : j \in r .. lo + m
    BY <1>2, <1>5
  <2>2. r \in r .. lo + m
    BY <1>2, <1>5
  <2>3. IsFiniteSet(P)
    BY <1>5, RunStretch
  <2> HIDE DEF P, Q
  <2>4. QED BY <1>7, <2>1, <2>2, <2>3, FS_CardinalityType
<1>9. /\ Cardinality(R) \in Nat /\ Cardinality(R) <= Cardinality(P)
      /\ P # Q => Cardinality(R) + 1 <= Cardinality(P)
  <2>0. i \in Int /\ m \in Int /\ i <= m /\ lo + i \in Int /\ lo + m \in Int /\ lo + i <= lo + m
        /\ R = i .. m
    BY <1>2
  <2>1. Cardinality(R) = m - i + 1
    BY <2>0, StretchSize
  <2>2. Cardinality(Q) = m - i + 1
    <3>1. Cardinality(lo + i .. lo + m) = (lo + m) - (lo + i) + 1
      BY <2>0, StretchSize
    <3>2. QED BY <2>0, <3>1
  <2>3. Cardinality(Q) <= Cardinality(P) /\ (Cardinality(Q) = Cardinality(P) => Q = P)
    <3>1. Q \in SUBSET P
      BY <1>8
    <3> HIDE DEF P, Q
    <3>2. QED BY <1>8, <3>1, FS_Subset
  <2> HIDE DEF P, Q
  <2>4. m - i + 1 \in Nat
    BY <2>0
  <2>5. QED BY <1>8, <2>1, <2>2, <2>3, <2>4
<1>10. \A j \in R : lo + j \in P /\ part[j].text = segs[lo + j].text
  <2>1. \A j \in i .. m : lo + j \in Q /\ j \in 1 .. Len(part)
    BY <1>2
  <2> HIDE DEF P, Q
  <2>2. QED BY <1>2, <1>8, <2>1 DEF Echoes
<1> DEFINE exact == \A j \in P : segs[j].text = segs[r].text
           same == \A j \in R : part[j].text = part[i].text
<1>11. i \in R
  BY <1>2
<1>12. IF same THEN Cardinality(R) > (IF part[i].text \in Short THEN ShortRun ELSE LongRun)
       ELSE Cardinality(R) >= NearRun
  BY <1>2 DEF Loops, R
<1>13. /\ ShortRun \in Nat /\ LongRun \in Nat /\ NearRun \in Nat
       /\ NearRun - 2 <= ShortRun /\ NearRun - 2 <= LongRun
  BY SegmentsAssumption, ThresholdsAssumption
<1>14. CASE exact
  <2>1. part[i].text = segs[r].text /\ same
    <3> HIDE DEF P
    <3>1. QED BY <1>10, <1>11, <1>14
  <2>2. Cardinality(P) > (IF segs[r].text \in Short THEN ShortRun ELSE LongRun)
    <3> HIDE DEF P, same
    <3>1. QED BY <1>8, <1>9, <1>12, <1>13, <2>1
  <2>3. Loops(segs, r)
    BY <1>14, <2>2 DEF Loops
  <2>4. QED
    <3>1. r \in LoopStarts(segs)
      BY <1>5, <2>3 DEF LoopStarts
    <3>2. lo + k \in P /\ lo + k # r
      BY <1>2, <1>5, <1>10
    <3>3. QED BY <3>1, <3>2 DEF Dropped
<1>15. CASE ~exact
  <2>1. same => P # Q
    <3> SUFFICES ASSUME same, P = Q PROVE FALSE
      OBVIOUS
    <3>1. \A j \in Q : j - lo \in R /\ lo + (j - lo) = j
      BY <1>2
    <3> HIDE DEF P, Q, R
    <3>2. \A j \in P : segs[j].text = part[i].text
      <4> TAKE j \in P
      <4>1. j - lo \in R /\ lo + (j - lo) = j
        BY <3>1
      <4>2. part[j - lo].text = segs[lo + (j - lo)].text /\ part[j - lo].text = part[i].text
        BY <1>10, <4>1
      <4>3. QED BY <4>1, <4>2
    <3>3. segs[r].text = part[i].text
      BY <1>8, <3>2
    <3>4. QED BY <1>15, <3>2, <3>3
  <2>2. Cardinality(P) >= NearRun
    <3> HIDE DEF P, Q, same
    <3>1. CASE same
      <4>1. Cardinality(R) > ShortRun \/ Cardinality(R) > LongRun
        BY <1>12, <3>1
      <4>2. Cardinality(R) + 1 <= Cardinality(P)
        BY <1>9, <2>1, <3>1
      <4>3. QED BY <1>8, <1>9, <1>13, <4>1, <4>2
    <3>2. CASE ~same
      <4>1. Cardinality(R) >= NearRun
        BY <1>12, <3>2
      <4>2. QED BY <1>8, <1>9, <1>13, <4>1
    <3>3. QED BY <3>1, <3>2
  <2>3. Loops(segs, r)
    BY <1>15, <2>2 DEF Loops
  <2>4. QED
    <3>1. r \in LoopStarts(segs)
      BY <1>5, <2>3 DEF LoopStarts
    <3>2. lo + k \in P /\ lo + k # r
      BY <1>2, <1>5, <1>10
    <3>3. QED BY <3>1, <3>2 DEF Dropped
<1>16. QED BY <1>14, <1>15

\* A restored segment covers at least what it restores.
LEMMA RestoredWider ==
  ASSUME Ready, NEW p \in Pieces, NEW i \in DOMAIN FirstPass(p)
  PROVE  /\ i \in DOMAIN Restored(p)
         /\ Restored(p)[i].start <= FirstPass(p)[i].start
         /\ FirstPass(p)[i].end <= Restored(p)[i].end
         /\ i = 1 /\ Neighbour(p) # {} => Restored(p)[i].start = RestoredFrom(p)
<1> DEFINE segs == FirstPass(p)
           from == IF i = 1 /\ Neighbour(p) # {} THEN RestoredFrom(p) ELSE segs[i].start
           to == IF i = Len(segs) THEN p[2] ELSE segs[i].end
<1>1. segs[i] \in Plain /\ p[1] <= segs[i].start /\ segs[i].end <= p[2]
  BY FirstPassType DEF Tidy
<1>2. /\ segs[i] \in [start : Time, end : Time, text : Text, low : BOOLEAN]
      /\ segs[i].start \in Nat /\ segs[i].end \in Nat
  BY <1>1, SegType DEF Plain, Seg
<1>3. i \in DOMAIN Restored(p)
      /\ Restored(p)[i] = [segs[i] EXCEPT !.low = TRUE, !.start = from, !.end = to]
  BY DEF Restored
<1>4. /\ p[1] \in Nat /\ p[2] \in Nat /\ RestoredFrom(p) \in Nat /\ RestoredFrom(p) <= p[1]
  BY PiecesAreWindows, WindowType, RestoredFromType, TimeType DEF Ready
<1>5. from <= segs[i].start /\ segs[i].end <= to
  BY <1>1, <1>2, <1>4
<1>6. i = 1 /\ Neighbour(p) # {} => from = RestoredFrom(p)
  OBVIOUS
<1> HIDE DEF segs, from, to
<1>7. Restored(p)[i].start = from /\ Restored(p)[i].end = to
  BY <1>2, <1>3
<1>8. QED BY <1>3, <1>5, <1>6, <1>7 DEF segs

\* What the first pass heard in a piece is restored there, for what its loops
\* drop there they drop in the whole.
LEMMA HeardInPiece ==
  ASSUME Ready, NEW p \in Pieces, NEW c \in Cells(p), c \in Covered(Collapse(first))
  PROVE  /\ p \in Restorable
         /\ \E j \in DOMAIN Restored(p) : c \in Cells(Span(Restored(p)[j]))
<1>0. p \in Window /\ p[1] \in Nat /\ p[2] \in Nat /\ c \in p[1] .. p[2] - 1 /\ Tidy(first)
  BY PiecesAreWindows, WindowType DEF Ready, Cells
<1>1. PICK a \in DOMAIN Collapse(first) : c \in Cells(Span(Collapse(first)[a]))
  BY DEF Covered
<1>2. PICK i \in Kept(first) : Collapse(first)[a] = first[i]
  BY <1>0, CollapseKeeps
<1>3. /\ i \in DOMAIN first /\ i \notin Dropped(first) /\ i \in Nat \ {0} /\ first[i] \in Plain
      /\ first[i].start \in Nat /\ first[i].end \in Nat
      /\ c \in first[i].start .. first[i].end - 1
  BY <1>0, <1>1, <1>2, TidyEntry DEF Kept, Cells, Span
<1>4. first[i].end > p[1] /\ first[i].start < p[2]
  BY <1>0, <1>3
<1> DEFINE clip == Clip(first, p)
<1>5. PICK lo \in 0 .. Len(first), hi \in 0 .. Len(first) :
        /\ lo <= hi
        /\ lo + 1 .. hi = {q \in DOMAIN first : first[q].end > p[1] /\ first[q].start < p[2]}
        /\ clip = [k \in 1 .. hi - lo |-> Clamp(first[lo + k], p)]
  BY <1>0, ClipStretch
<1>6. Tidy(clip)
  BY <1>0, TidyClip
<1> HIDE DEF clip
<1>7. lo \in Nat /\ hi \in Nat /\ Len(first) \in Nat /\ DOMAIN first = 1 .. Len(first)
  BY <1>0 DEF Tidy
<1>8. Len(clip) = hi - lo /\ DOMAIN clip = 1 .. hi - lo
  BY <1>5, <1>6, <1>7 DEF Tidy
<1>9. Echoes(clip, first, lo)
  <2>1. ASSUME NEW k \in 1 .. hi - lo PROVE clip[k].text = first[lo + k].text
    <3>1. lo + k \in DOMAIN first
      BY <1>5, <1>7
    <3>2. first[lo + k] \in [start : Time, end : Time, text : Text, low : BOOLEAN]
      BY <1>0, <3>1, TidyEntry DEF Plain, Seg
    <3>3. clip[k] = Clamp(first[lo + k], p)
      BY <1>5
    <3>4. QED BY <3>2, <3>3 DEF Clamp
  <2>2. QED BY <1>5, <1>7, <1>8, <2>1 DEF Echoes
<1> DEFINE k == i - lo
<1>10. k \in 1 .. hi - lo /\ lo + k = i
  <2>1. i \in lo + 1 .. hi
    BY <1>3, <1>4, <1>5
  <2>2. QED BY <1>7, <2>1
<1> HIDE DEF k
<1>11. k \in Kept(clip)
  BY <1>0, <1>3, <1>6, <1>7, <1>8, <1>9, <1>10, LoopOfPart DEF Kept
<1>12. PICK j \in DOMAIN FirstPass(p) : FirstPass(p)[j] = clip[k]
  BY <1>6, <1>11, CollapseKeeps DEF FirstPass, clip
<1>13. /\ clip[k].start = IF first[i].start >= p[1] THEN first[i].start ELSE p[1]
       /\ clip[k].end = IF first[i].end <= p[2] THEN first[i].end ELSE p[2]
  <2>1. first[i] \in [start : Time, end : Time, text : Text, low : BOOLEAN]
    BY <1>3 DEF Plain, Seg
  <2>2. clip[k] = Clamp(first[i], p)
    BY <1>5, <1>10
  <2>3. clip[k].start = Max({first[i].start, p[1]}) /\ clip[k].end = Min({first[i].end, p[2]})
    BY <2>1, <2>2 DEF Clamp
  <2>4. first[i].start \in Int /\ first[i].end \in Int /\ p[1] \in Int /\ p[2] \in Int
    BY <1>0, <1>3
  <2>5. QED BY <2>3, <2>4, Extremes
<1>14. clip[k].start <= c /\ c < clip[k].end /\ clip[k].start \in Nat /\ clip[k].end \in Nat
  BY <1>0, <1>3, <1>13
<1>15. /\ j \in DOMAIN Restored(p)
       /\ Restored(p)[j].start <= clip[k].start /\ clip[k].end <= Restored(p)[j].end
  BY <1>12, RestoredWider
<1>16. Restored(p)[j].start \in Nat /\ Restored(p)[j].end \in Nat
  BY <1>15, RestoredType, SegType
<1>17. c \in Cells(Span(Restored(p)[j]))
  <2> DEFINE from == Restored(p)[j].start
             to == Restored(p)[j].end
             low == clip[k].start
             high == clip[k].end
  <2>1. /\ from \in Nat /\ to \in Nat /\ low \in Nat /\ high \in Nat /\ c \in Int
        /\ from <= low /\ low <= c /\ c < high /\ high <= to
    BY <1>0, <1>14, <1>15, <1>16
  <2> HIDE DEF from, to, low, high
  <2>2. c \in from .. to - 1
    BY <2>1
  <2>3. QED BY <2>2 DEF Cells, Span, from, to
<1>18. p \in Restorable
  <2>1. FirstPass(p) # <<>>
    BY <1>12
  <2>2. QED BY <2>1 DEF Restorable
<1>19. QED BY <1>15, <1>17, <1>18

\* What overlaps nothing that is filled again stays.
LEMMA SparedStays ==
  ASSUME Ready, NEW k \in DOMAIN working,
         \A p \in Restorable : working[k].start >= p[2] \/ working[k].end <= RestoredFrom(p)
  PROVE  \E l \in DOMAIN Restore : Restore[l] = working[k]
<1> DEFINE ranges == {<<RestoredFrom(p), p[2]>> : p \in Restorable}
           I == {i \in DOMAIN working : \A r \in ranges : working[i].start >= r[2] \/ working[i].end <= r[1]}
           a == Spared(working)
           b == AllRestored
<1>1. a = At(working, I) /\ I \in SUBSET DOMAIN working /\ working \in Seq(Plain)
  BY DEF Spared, Ready, Tidy
<1>2. k \in I
  <2>1. ASSUME NEW r \in ranges PROVE working[k].start >= r[2] \/ working[k].end <= r[1]
    <3>1. PICK p \in Restorable : r = <<RestoredFrom(p), p[2]>>
      OBVIOUS
    <3>2. r[1] = RestoredFrom(p) /\ r[2] = p[2]
      BY <3>1
    <3>3. QED BY <3>2
  <2>2. QED BY <2>1
<1>3. a \in Seq(Seg) /\ b \in Seq(Seg)
  <2>1. a \in Seq(Plain) /\ Plain \subseteq Seg
    BY SparedTidy DEF Tidy, Plain
  <2>2. QED BY <2>1, SeqMonotonic, AllRestoredIs
<1> HIDE DEF I, a, b
<1>4. PICK l \in DOMAIN a : a[l] = working[k]
  BY <1>1, <1>2, AtHas DEF Ready
<1>5. l \in DOMAIN Combined /\ Combined[l] = working[k]
  BY <1>3, <1>4, ConcatParts DEF Combined, a, b
<1>6. QED BY <1>5, RestoreIs

\* What the first pass heard, no recheck found silent, and is not there in the
\* end was open, in a window that is too short to be checked.
LEMMA StillOpen ==
  ASSUME Ready, NEW c \in Covered(Collapse(first)), c \notin Quiet,
         NEW out, out = IF Restorable = {} THEN working ELSE Restore,
         c \notin Covered(out)
  PROVE  c \in Opened(working) /\ \A v \in Candidates : c \notin Cells(v)
<1>0. Tidy(working) /\ Tidy(first)
  BY DEF Ready
<1>1. ASSUME NEW p \in Pieces, c \in Cells(p) PROVE FALSE
  <2>1. PICK j \in DOMAIN Restored(p) : c \in Cells(Span(Restored(p)[j]))
    BY <1>1, HeardInPiece
  <2>2. p \in Restorable
    BY <1>1, HeardInPiece
  <2>3. <<p, j>> \in Entries /\ <<p, j>>[1] = p /\ <<p, j>>[2] = j
    BY <2>2 DEF Entries
  <2>4. PICK k \in DOMAIN Restore : Restore[k] = Restored(p)[j]
    BY <2>3, RestoreHas
  <2>5. out = Restore
    BY <2>2
  <2>6. QED BY <2>1, <2>4, <2>5 DEF Covered
<1>2. ASSUME NEW v \in Candidates, c \in Cells(v) PROVE FALSE
  <2>1. v \in Window
    BY <1>0, CandidateType
  <2>2. v[1] \in Nat /\ v[2] \in Nat /\ Cells(v) = v[1] .. v[2] - 1
    BY <2>1, WindowType DEF Cells
  <2>3. Cells(v) \ Quiet \in SUBSET (0 .. v[2]) /\ c \in Cells(v) \ Quiet
    BY <1>2, <2>2
  <2>4. PICK p \in Intervals(Cells(v) \ Quiet) : c \in Cells(p)
    BY <2>2, <2>3, IntervalAround
  <2>5. p \in Pieces
    BY <2>4 DEF Pieces, Without, Quiet
  <2>6. QED BY <1>1, <2>4, <2>5
<1>3. ASSUME c \notin Opened(working) PROVE FALSE
  <2>1. c \in 0 .. Duration - 1
    <3>1. PICK a \in DOMAIN Collapse(first) : c \in Cells(Span(Collapse(first)[a]))
      BY DEF Covered
    <3>2. /\ Collapse(first)[a].start \in Nat /\ Collapse(first)[a].end \in Nat
          /\ Collapse(first)[a].end \in Time
      BY <1>0, <3>1, TidyCollapse, TidyEntry
    <3>3. c \in Collapse(first)[a].start .. Collapse(first)[a].end - 1
      BY <3>1 DEF Cells, Span
    <3>4. QED BY <3>2, <3>3, TimeType DEF Time
  <2>2. c \in Covered(Collapse(working))
    BY <1>3, <2>1 DEF Opened
  <2>3. PICK b \in DOMAIN Collapse(working) : c \in Cells(Span(Collapse(working)[b]))
    BY <2>2 DEF Covered
  <2>4. PICK k \in Kept(working) : Collapse(working)[b] = working[k]
    BY <1>0, <2>3, CollapseKeeps
  <2>5. /\ k \in DOMAIN working /\ working[k].start \in Nat /\ working[k].end \in Nat
        /\ k \in Nat /\ c \in Cells(Span(working[k]))
        /\ c \in working[k].start .. working[k].end - 1
    BY <1>0, <2>3, <2>4, TidyEntry DEF Kept, Cells, Span
  <2>6. Restorable # {}
    BY <2>5 DEF Covered
  <2>7. out = Restore
    BY <2>6
  <2>8. Cells(Span(working[k])) \cap Opened(working) = {}
    BY <1>0, <1>3, <2>5, WholeSegment
  <2>9. PICK p \in Restorable : ~(working[k].start >= p[2] \/ working[k].end <= RestoredFrom(p))
    BY <2>5, <2>7, SparedStays DEF Covered
  <2>10. /\ p \in Pieces /\ p[1] \in Nat /\ p[2] \in Nat /\ p[1] < p[2]
         /\ RestoredFrom(p) \in Nat /\ RestoredFrom(p) <= p[1]
    BY <1>0, PiecesAreWindows, WindowType, RestoredFromType, TimeType DEF Restorable
  <2>11. \A d \in p[1] .. p[2] - 1 : d \in Opened(working)
    <3>1. PICK v \in Candidates : p \in Without(v, silent)
      BY <2>10 DEF Pieces
    <3>2. /\ v[1] <= p[1] /\ p[2] <= v[2] /\ v[1] \in Nat /\ v[2] \in Nat
          /\ \A d \in v[1] .. v[2] - 1 : d \in Opened(working)
      BY <1>0, <3>1, PieceType, CandidateType, WindowType, IntervalType
    <3>3. \A d \in p[1] .. p[2] - 1 : d \in v[1] .. v[2] - 1
      BY <2>10, <3>2
    <3>4. QED BY <3>2, <3>3
  <2>12. working[k].end <= p[1]
    <3> SUFFICES ASSUME working[k].end > p[1] PROVE FALSE
      BY <2>5, <2>10
    <3> DEFINE d == IF working[k].start >= p[1] THEN working[k].start ELSE p[1]
    <3>1. d \in p[1] .. p[2] - 1 /\ d \in working[k].start .. working[k].end - 1
      BY <2>5, <2>9, <2>10
    <3>2. d \in Cells(Span(working[k]))
      BY <3>1 DEF Cells, Span
    <3>3. QED BY <2>8, <2>11, <3>1, <3>2
  <2>13. RestoredFrom(p) <= working[k].end - 1 /\ RestoredFrom(p) # p[1]
    BY <2>5, <2>9, <2>10, <2>12
  <2>14. PICK n \in DOMAIN working :
           Neighbour(p) = {n} /\ working[n].end = p[1] /\ RestoredFrom(p) = working[n].start
    BY <2>10, <2>13, RestoredFromType
  <2>15. RestoredFrom(p) <= c /\ c < p[1]
    <3>1. n \in Nat /\ working[n].start \in Nat /\ working[n].end \in Nat
      BY <1>0, <2>14, TidyEntry
    <3>2. n < k => working[n].end <= working[k].start
      BY <1>0, <2>5, <2>14 DEF Tidy, Apart
    <3>3. k < n => working[k].end <= working[n].start
      BY <1>0, <2>5, <2>14 DEF Tidy, Apart
    <3>4. k = n
      BY <2>5, <2>9, <2>12, <2>14, <3>1, <3>2, <3>3
    <3>5. QED BY <2>5, <2>10, <2>14, <3>4
  <2>16. 1 \in DOMAIN FirstPass(p)
    <3>1. FirstPass(p) \in Seq(Plain) /\ FirstPass(p) # <<>>
      BY <2>10, FirstPassType DEF Tidy, Restorable
    <3>2. QED BY <3>1
  <2>17. 1 \in DOMAIN Restored(p) /\ Restored(p)[1].start = RestoredFrom(p)
    BY <2>10, <2>14, <2>16, RestoredWider
  <2>18. p[1] < Restored(p)[1].end /\ Restored(p)[1].end \in Nat
    BY <2>10, <2>17, RestoredType, SegType
  <2>19. c \in Cells(Span(Restored(p)[1]))
    <3>1. c \in RestoredFrom(p) .. Restored(p)[1].end - 1
      BY <2>1, <2>10, <2>15, <2>18
    <3>2. QED BY <2>17, <3>1 DEF Cells, Span
  <2>20. <<p, 1>> \in Entries /\ <<p, 1>>[1] = p /\ <<p, 1>>[2] = 1
    BY <2>17 DEF Entries
  <2>21. PICK l \in DOMAIN Restore : Restore[l] = Restored(p)[1]
    BY <2>20, RestoreHas
  <2>22. QED BY <2>7, <2>19, <2>21 DEF Covered
<1>4. QED BY <1>2, <1>3

LEMMA HeardStep ==
  ASSUME IInv, [Next]_vars, ~(UNCHANGED vars), pc' = "done",
         NEW w \in Intervals(Covered(Collapse(first)) \ (Quiet \cup Covered(working')))
  PROVE  Length(w) <= MinRecheck
<1>1. Finish
  BY DEF Next, Listen, Recheck, Fail, Terminated, IInv
<1>2. Ready /\ working' = IF Restorable = {} THEN working ELSE Restore
  BY <1>1 DEF Finish, IInv, Ready
<1> DEFINE X == Covered(Collapse(first)) \ (Quiet \cup Covered(working'))
<1>3. \A c \in X : c \in Opened(working) /\ \A v \in Candidates : c \notin Cells(v)
  BY <1>2, StillOpen
<1>4. Tidy(working) /\ Opened(working) \in SUBSET (0 .. Duration - 1) /\ Opened(working) \in SUBSET Int
      /\ Windows(working, Duration) = Intervals(Opened(working))
  BY <1>2, OpenedCells DEF Ready
<1>5. X \in SUBSET Int
  BY <1>3, <1>4
<1>6. w \in Intervals(X)
  OBVIOUS
<1> HIDE DEF X
<1>7. /\ w[1] \in Int /\ w[2] \in Int /\ w[1] < w[2]
      /\ w[1] \in X /\ \A c \in w[1] .. w[2] - 1 : c \in X
  BY <1>5, <1>6, IntervalType
<1>8. w[1] \in Opened(working) /\ Opened(working) \in SUBSET (0 .. Duration)
  BY <1>3, <1>4, <1>7, TimeType
<1>9. PICK v \in Intervals(Opened(working)) : w[1] \in Cells(v)
  BY <1>8, TimeType, IntervalAround
<1>10. v[1] \in Int /\ v[2] \in Int /\ v[2] \notin Opened(working) /\ v[1] <= w[1] /\ w[1] < v[2]
  <2>1. v[1] \in Int /\ v[2] \in Int /\ v[2] \notin Opened(working)
    BY <1>4, IntervalType
  <2>2. w[1] \in v[1] .. v[2] - 1
    BY <1>9 DEF Cells
  <2>3. QED BY <2>1, <2>2
<1>11. w[2] <= v[2]
  <2> SUFFICES ASSUME v[2] < w[2] PROVE FALSE
    BY <1>7, <1>10
  <2>1. v[2] \in w[1] .. w[2] - 1
    BY <1>7, <1>10
  <2>2. QED BY <1>3, <1>7, <1>10, <2>1
<1>12. ~(Length(v) > MinRecheck)
  <2>1. v \in Windows(working, Duration)
    BY <1>4
  <2>2. v \notin Candidates
    BY <1>3, <1>7, <1>9
  <2>3. QED BY <2>1, <2>2 DEF Candidates
<1>13. MinRecheck \in Nat
  BY CoverageAssumption
<1>14. QED BY <1>7, <1>10, <1>11, <1>12, <1>13 DEF Length

\* What the first pass heard, its loops collapsed, has text in the end, but for
\* what a recheck found silent and stretches too short to be checked, after any
\* number of splices.
THEOREM NothingHeardIsLost == Spec => HeardStays
<1>1. IInv /\ [Next]_vars =>
        [pc' = "done" =>
           \A w \in Intervals(Covered(Collapse(first)) \ (Quiet \cup Covered(working'))) :
             Length(w) <= MinRecheck]_vars
  BY HeardStep
<1>2. QED BY Invariance, <1>1, PTL DEF Spec, HeardStays

===============================================================================
