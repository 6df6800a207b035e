---------------------------- MODULE LlmClientProofs ----------------------------
(* The two sides of the LLM client, proved for any number of callers, slots, *)
(* concurrent calls, configurations and backends: first the slots of         *)
(* LlmSlots, then the bounded learning of Dialect, which has no state in     *)
(* common with them.                                                         *)
EXTENDS LlmSlots, Dialect, FiniteSetTheorems, SequenceTheorems, TLAPS

States == [free : Nat, line : Seq(Callers), pc : [Callers -> Steps]]

\* Whoever is in the line is asleep there, once.
Sound(s) ==
    /\ s \in States
    /\ \A i \in DOMAIN s.line : s.pc[s.line[i]] = "waiting"
    /\ \A i, k \in DOMAIN s.line : s.line[i] = s.line[k] => i = k

\* Permits that are free or held by a caller.
Permits(s) == s.free + Cardinality(HoldersIn(s.pc))

IInv ==
    /\ Sound(Now)
    /\ paused \in BOOLEAN
    /\ dropped \in Nat
    /\ Permits(Now) + dropped = MaxCalls

-----------------------------------------------------------------------------
\* The callers that hold a permit are finitely many.
LEMMA HoldersFinite ==
    ASSUME NEW f
    PROVE  IsFiniteSet(HoldersIn(f)) /\ Cardinality(HoldersIn(f)) \in Nat
<1>1. HoldersIn(f) \subseteq Callers
  BY DEF HoldersIn
<1>2. QED BY <1>1, CallersAssumption, FS_Subset, FS_CardinalityType

\* One caller moves: the number of holders follows.
LEMMA OneMoves ==
    ASSUME NEW f \in [Callers -> Steps], NEW c \in Callers, NEW step \in Steps
    PROVE  LET n == Cardinality(HoldersIn(f))
               m == Cardinality(HoldersIn([f EXCEPT ![c] = step]))
           IN  /\ f[c] \notin Holding /\ step \in Holding    => m = n + 1
               /\ f[c] \in Holding    /\ step \notin Holding => m = n - 1
               /\ (f[c] \in Holding <=> step \in Holding)    => m = n
<1> DEFINE g == [f EXCEPT ![c] = step]
<1>1. g[c] = step /\ \A k \in Callers : k # c => g[k] = f[k]
  OBVIOUS
<1> HIDE DEF g
<1>2. IsFiniteSet(HoldersIn(f)) /\ Cardinality(HoldersIn(f)) \in Nat
  BY HoldersFinite
<1>3. CASE f[c] \notin Holding /\ step \in Holding
  <2>1. HoldersIn(g) = HoldersIn(f) \cup {c} /\ c \notin HoldersIn(f)
    BY <1>1, <1>3 DEF HoldersIn
  <2>2. Cardinality(HoldersIn(g)) = Cardinality(HoldersIn(f)) + 1
    BY <1>2, <2>1, FS_AddElement
  <2>3. QED BY <1>3, <2>2 DEF g
<1>4. CASE f[c] \in Holding /\ step \notin Holding
  <2>1. HoldersIn(g) = HoldersIn(f) \ {c} /\ c \in HoldersIn(f)
    BY <1>1, <1>4 DEF HoldersIn
  <2>2. Cardinality(HoldersIn(g)) = Cardinality(HoldersIn(f)) - 1
    BY <1>2, <2>1, FS_RemoveElement
  <2>3. QED BY <1>4, <2>2 DEF g
<1>5. CASE f[c] \in Holding <=> step \in Holding
  <2>1. HoldersIn(g) = HoldersIn(f)
    BY <1>1, <1>5 DEF HoldersIn
  <2>2. QED BY <1>5, <2>1 DEF g
<1>6. QED BY <1>3, <1>4, <1>5

\* A caller that is not in the line goes to a step outside of it.
LEMMA AtSound ==
    ASSUME NEW s, Sound(s), NEW c \in Callers, s.pc[c] # "waiting",
           NEW step \in Steps
    PROVE  /\ Sound(At(s, c, step))
           /\ At(s, c, step).free = s.free
           /\ At(s, c, step).line = s.line
           /\ At(s, c, step).pc = [s.pc EXCEPT ![c] = step]
<1>1. At(s, c, step) = [free |-> s.free, line |-> s.line, pc |-> [s.pc EXCEPT ![c] = step]]
  BY DEF At, Sound, States
<1>2. \A i \in DOMAIN s.line : s.line[i] \in Callers /\ s.line[i] # c
  BY DEF Sound, States
<1>3. QED BY <1>1, <1>2 DEF Sound, States

\* The next waiter is woken: a free permit becomes his.
LEMMA WakeNextSound ==
    ASSUME NEW s, Sound(s), s.free > 0
    PROVE  /\ Sound(WakeNext(s))
           /\ Permits(WakeNext(s)) = Permits(s)
           /\ \A c \in Callers : s.pc[c] # "waiting" => WakeNext(s).pc[c] = s.pc[c]
           /\ \A c \in Callers : WakeNext(s).pc[c] = "calling" => s.pc[c] = "calling"
<1>1. CASE s.line = <<>>
  BY <1>1 DEF WakeNext
<1>2. CASE s.line # <<>>
  <2> DEFINE h == Head(s.line)
             f == [s.pc EXCEPT ![h] = "woken"]
  <2>1. WakeNext(s) = [free |-> s.free - 1, line |-> Tail(s.line), pc |-> f]
    BY <1>2 DEF WakeNext
  <2>2. /\ s.line \in Seq(Callers) /\ h = s.line[1] /\ h \in Callers
        /\ Tail(s.line) \in Seq(Callers)
        /\ DOMAIN Tail(s.line) = 1..(Len(s.line) - 1)
        /\ DOMAIN s.line = 1..Len(s.line)
        /\ Len(s.line) \in Nat \ {0}
        /\ \A i \in DOMAIN Tail(s.line) : i + 1 \in DOMAIN s.line /\ Tail(s.line)[i] = s.line[i + 1]
    BY <1>2 DEF Sound, States
  <2>3. s.pc[h] = "waiting"
    BY <2>2 DEF Sound
  <2>4. f \in [Callers -> Steps] /\ s.free - 1 \in Nat
    BY <2>2 DEF Sound, States, Steps
  <2>5. ASSUME NEW i \in DOMAIN Tail(s.line)
        PROVE  f[Tail(s.line)[i]] = "waiting"
    <3>1. s.line[i + 1] # h
      BY <2>2 DEF Sound
    <3>2. QED BY <2>2, <3>1 DEF Sound, States
  <2>6. ASSUME NEW i \in DOMAIN Tail(s.line), NEW k \in DOMAIN Tail(s.line),
               Tail(s.line)[i] = Tail(s.line)[k]
        PROVE  i = k
    <3>1. i + 1 \in DOMAIN s.line /\ k + 1 \in DOMAIN s.line /\ s.line[i + 1] = s.line[k + 1]
      BY <2>2, <2>6
    <3>2. i + 1 = k + 1
      BY <3>1 DEF Sound
    <3>3. i \in Int /\ k \in Int
      BY <2>2
    <3>4. QED BY <3>2, <3>3
  <2>7. Sound(WakeNext(s))
    BY <2>1, <2>2, <2>4, <2>5, <2>6 DEF Sound, States
  <2>8. Cardinality(HoldersIn(f)) = Cardinality(HoldersIn(s.pc)) + 1
    BY <2>2, <2>3, OneMoves DEF Sound, States, Holding, Steps
  <2>9. Permits(WakeNext(s)) = Permits(s)
    BY <2>1, <2>8, HoldersFinite DEF Permits, Sound, States
  <2>10. QED BY <2>1, <2>2, <2>3, <2>7, <2>9 DEF Sound, States
<1>3. QED BY <1>1, <1>2

\* A released permit is free or handed on.
LEMMA ReleaseSound ==
    ASSUME NEW s, Sound(s)
    PROVE  /\ Sound(Release(s))
           /\ Permits(Release(s)) = Permits(s) + 1
           /\ \A c \in Callers : Release(s).pc[c] = "calling" => s.pc[c] = "calling"
<1> DEFINE t == [s EXCEPT !.free = s.free + 1]
<1>1. t = [free |-> s.free + 1, line |-> s.line, pc |-> s.pc]
  BY DEF Sound, States
<1>2. Sound(t) /\ t.free > 0 /\ Permits(t) = Permits(s) + 1
  BY <1>1, HoldersFinite DEF Sound, States, Permits
<1>3. t.pc = s.pc
  BY <1>1
<1> HIDE DEF t
<1>4. Release(s) = WakeNext(t)
  BY DEF Release, t
<1>5. QED BY <1>2, <1>3, <1>4, WakeNextSound

\* A holder gives its permit back.
LEMMA GiveBackSound ==
    ASSUME NEW s, Sound(s), NEW c \in Callers, s.pc[c] \in Holding,
           NEW step \in {"idle", "polling"}
    PROVE  /\ Sound(GiveBack(s, c, step))
           /\ Permits(GiveBack(s, c, step)) = Permits(s)
           /\ \A k \in Callers : GiveBack(s, c, step).pc[k] = "calling" =>
                 k # c /\ s.pc[k] = "calling"
<1> DEFINE t == At(s, c, step)
<1>1. step \in Steps /\ step \notin Holding /\ s.pc[c] # "waiting" /\ s.pc \in [Callers -> Steps]
  BY DEF Steps, Holding, Sound, States
<1>2. Sound(t) /\ t.free = s.free /\ t.pc = [s.pc EXCEPT ![c] = step]
  BY <1>1, AtSound
<1>3. Cardinality(HoldersIn([s.pc EXCEPT ![c] = step])) = Cardinality(HoldersIn(s.pc)) - 1
  BY <1>1, OneMoves
<1>4. Permits(t) = Permits(s) - 1
  BY <1>2, <1>3, HoldersFinite DEF Permits, Sound, States
<1>5. Permits(s) \in Nat
  BY HoldersFinite DEF Permits, Sound, States
<1>6. \A k \in Callers : t.pc[k] = "calling" => k # c /\ s.pc[k] = "calling"
  BY <1>1, <1>2
<1> HIDE DEF t
<1>7. GiveBack(s, c, step) = Release(t)
  BY DEF GiveBack, t
<1>8. /\ Sound(Release(t)) /\ Permits(Release(t)) = Permits(t) + 1
      /\ \A k \in Callers : Release(t).pc[k] = "calling" => t.pc[k] = "calling"
  BY <1>2, ReleaseSound
<1>9. Permits(Release(t)) = Permits(s)
  BY <1>4, <1>5, <1>8
<1>10. QED BY <1>6, <1>7, <1>8, <1>9

\* acquire() returns at once or falls asleep.
LEMMA AcquireSound ==
    ASSUME NEW s, Sound(s), NEW c \in Callers, s.pc[c] \in {"idle", "polling"}
    PROVE  Sound(Acquire(s, c)) /\ Permits(Acquire(s, c)) = Permits(s)
<1>1. s.pc \in [Callers -> Steps] /\ s.line \in Seq(Callers) /\ s.free \in Nat
  BY DEF Sound, States
<1>2. CASE Unlocked(s)
  <2> DEFINE t == At(s, c, "calling")
             f == [s.pc EXCEPT ![c] = "calling"]
  <2>0. "calling" \in Steps /\ s.pc[c] # "waiting"
    BY DEF Steps
  <2>1. Sound(t) /\ t.free = s.free /\ t.line = s.line /\ t.pc = f
    BY <2>0, AtSound
  <2>2. Acquire(s, c) = [free |-> s.free - 1, line |-> s.line, pc |-> f]
    BY <1>2, <2>1 DEF Acquire, States, Sound
  <2>3. s.free - 1 \in Nat
    BY <1>1, <1>2 DEF Unlocked
  <2>4. Sound(Acquire(s, c))
    BY <2>1, <2>2, <2>3 DEF Sound, States
  <2>5. Cardinality(HoldersIn(f)) = Cardinality(HoldersIn(s.pc)) + 1
    BY <1>1, OneMoves DEF Steps, Holding
  <2>6. Acquire(s, c).free = s.free - 1 /\ Acquire(s, c).pc = f
    BY <2>2
  <2>7. Cardinality(HoldersIn(s.pc)) \in Nat
    BY HoldersFinite
  <2>8. Permits(Acquire(s, c)) = Permits(s)
    BY <1>1, <2>5, <2>6, <2>7 DEF Permits
  <2>9. QED BY <2>4, <2>8
<1>3. CASE ~Unlocked(s)
  <2> DEFINE t == At(s, c, "waiting")
             f == [s.pc EXCEPT ![c] = "waiting"]
             l == Append(s.line, c)
  <2>0. "waiting" \in Steps /\ s.pc[c] # "waiting"
    BY DEF Steps
  <2>1. t.free = s.free /\ t.line = s.line /\ t.pc = f /\ Sound(t)
    BY <2>0, AtSound
  <2>2. Acquire(s, c) = [free |-> s.free, line |-> l, pc |-> f]
    BY <1>3, <2>1 DEF Acquire, States, Sound
  <2>3. /\ l \in Seq(Callers) /\ DOMAIN l = 1..(Len(s.line) + 1)
        /\ DOMAIN s.line = 1..Len(s.line) /\ Len(s.line) \in Nat
        /\ l[Len(s.line) + 1] = c
        /\ \A i \in DOMAIN s.line : l[i] = s.line[i] /\ s.line[i] \in Callers
    BY <1>1
  <2>4. f \in [Callers -> Steps]
    BY <1>1 DEF Steps
  <2>5. \A i \in DOMAIN s.line : s.line[i] # c
    BY DEF Sound
  <2>6. \A i \in DOMAIN l : f[l[i]] = "waiting"
    BY <1>1, <2>3, <2>5 DEF Sound
  <2>7. \A i, k \in DOMAIN l : l[i] = l[k] => i = k
    BY <2>3, <2>5 DEF Sound
  <2>8. Sound(Acquire(s, c))
    BY <1>1, <2>2, <2>3, <2>4, <2>6, <2>7 DEF Sound, States
  <2>9. Cardinality(HoldersIn(f)) = Cardinality(HoldersIn(s.pc))
    BY <1>1, OneMoves DEF Steps, Holding
  <2>10. QED BY <2>2, <2>8, <2>9 DEF Permits
<1>4. QED BY <1>2, <1>3

\* A woken waiter goes on with its permit.
LEMMA ResumedSound ==
    ASSUME NEW s, Sound(s), NEW c \in Callers, s.pc[c] = "woken"
    PROVE  /\ Sound(Resumed(s, c))
           /\ Permits(Resumed(s, c)) = Permits(s)
           /\ Resumed(s, c).pc[c] = "calling"
           /\ \A k \in Callers : Resumed(s, c).pc[k] = "calling" => k = c \/ s.pc[k] = "calling"
<1> DEFINE t == At(s, c, "calling")
           f == [s.pc EXCEPT ![c] = "calling"]
<1>1. s.pc \in [Callers -> Steps] /\ s.free \in Nat
  BY DEF Sound, States
<1>2. Sound(t) /\ t.free = s.free /\ t.pc = f
  BY AtSound DEF Steps
<1>3. Cardinality(HoldersIn(f)) = Cardinality(HoldersIn(s.pc))
  BY <1>1, OneMoves DEF Steps, Holding
<1>4. Permits(t) = Permits(s)
  BY <1>2, <1>3 DEF Permits
<1>5. t.pc[c] = "calling" /\ \A k \in Callers : t.pc[k] = "calling" => k = c \/ s.pc[k] = "calling"
  BY <1>1, <1>2
<1> HIDE DEF t
<1>6. CASE t.free > 0
  <2>1. Resumed(s, c) = WakeNext(t)
    BY <1>6 DEF Resumed, t
  <2>2. WakeNext(t).pc[c] = "calling"
    BY <1>2, <1>5, <1>6, WakeNextSound
  <2>3. /\ Sound(WakeNext(t)) /\ Permits(WakeNext(t)) = Permits(t)
        /\ \A k \in Callers : WakeNext(t).pc[k] = "calling" => t.pc[k] = "calling"
    BY <1>2, <1>6, WakeNextSound
  <2>4. QED BY <1>4, <1>5, <2>1, <2>2, <2>3
<1>7. CASE ~(t.free > 0)
  <2>1. Resumed(s, c) = t
    BY <1>7 DEF Resumed, t
  <2>2. QED BY <1>2, <1>4, <1>5, <2>1
<1>8. QED BY <1>6, <1>7

\* A sequence without its i-th element.
LEMMA Removed ==
    ASSUME NEW S, NEW l \in Seq(S), NEW i \in 1..Len(l)
    PROVE  /\ RemoveAt(l, i) \in Seq(S)
           /\ Len(RemoveAt(l, i)) = Len(l) - 1
           /\ \A k \in 1..(Len(l) - 1) :
                 RemoveAt(l, i)[k] = l[IF k < i THEN k ELSE k + 1]
<1> DEFINE a == SubSeq(l, 1, i - 1)
           b == SubSeq(l, i + 1, Len(l))
<1>1. Len(l) \in Nat /\ \A k \in 1..Len(l) : l[k] \in S
  BY LenProperties
<1>2. /\ a \in Seq(S) /\ Len(a) = i - 1
      /\ \A k \in 1..(i - 1) : a[k] = l[k]
  BY <1>1, SubSeqProperties
<1>3. /\ b \in Seq(S) /\ Len(b) = Len(l) - i
      /\ \A k \in 1..(Len(l) - i) : b[k] = l[i + k]
  BY <1>1, SubSeqProperties
<1> HIDE DEF a, b
<1>4. /\ a \o b \in Seq(S) /\ Len(a \o b) = Len(l) - 1
      /\ \A k \in 1..(Len(l) - 1) :
            (a \o b)[k] = IF k <= i - 1 THEN a[k] ELSE b[k - (i - 1)]
  <2>1. /\ a \o b \in Seq(S) /\ Len(a \o b) = Len(a) + Len(b)
        /\ \A k \in 1..(Len(a) + Len(b)) :
              (a \o b)[k] = IF k <= Len(a) THEN a[k] ELSE b[k - Len(a)]
    BY <1>2, <1>3, ConcatProperties
  <2>2. Len(a) = i - 1 /\ Len(a) + Len(b) = Len(l) - 1
    BY <1>1, <1>2, <1>3
  <2>3. QED BY <2>1, <2>2
<1>5. ASSUME NEW k \in 1..(Len(l) - 1)
      PROVE  (a \o b)[k] = l[IF k < i THEN k ELSE k + 1]
  <2>1. CASE k < i
    <3>1. (a \o b)[k] = a[k] /\ k \in 1..(i - 1)
      BY <1>1, <1>4, <2>1
    <3>2. QED BY <1>2, <2>1, <3>1
  <2>2. CASE ~(k < i)
    <3>1. (a \o b)[k] = b[k - (i - 1)] /\ k - (i - 1) \in 1..(Len(l) - i)
      BY <1>1, <1>4, <2>2
    <3>2. b[k - (i - 1)] = l[i + (k - (i - 1))] /\ i + (k - (i - 1)) = k + 1
      BY <1>1, <1>3, <3>1
    <3>3. QED BY <2>2, <3>1, <3>2
  <2>3. QED BY <2>1, <2>2
<1>6. RemoveAt(l, i) = a \o b
  BY DEF RemoveAt, a, b
<1>7. QED BY <1>4, <1>5, <1>6

\* A sleeper is cancelled and leaves the line.
LEMMA LeavesLine ==
    ASSUME NEW s, Sound(s), NEW i \in DOMAIN s.line, NEW c \in Callers, s.line[i] = c,
           NEW t, t = [free |-> s.free, line |-> RemoveAt(s.line, i),
                       pc |-> [s.pc EXCEPT ![c] = "idle"]]
    PROVE  Sound(t) /\ Permits(t) = Permits(s)
<1> DEFINE n == Len(s.line)
           f == [s.pc EXCEPT ![c] = "idle"]
           l == RemoveAt(s.line, i)
<1>1. /\ s.pc \in [Callers -> Steps] /\ s.free \in Nat /\ s.line \in Seq(Callers)
      /\ n \in Nat /\ DOMAIN s.line = 1..n /\ i \in 1..n
  BY DEF Sound, States
<1>2. \A k \in 1..n : s.line[k] \in Callers
  BY <1>1, LenProperties
<1>3. l \in Seq(Callers) /\ Len(l) = n - 1
      /\ \A k \in 1..(n - 1) : l[k] = s.line[IF k < i THEN k ELSE k + 1]
  BY <1>1, Removed
<1>4. DOMAIN l = 1..(n - 1)
  BY <1>3, LenProperties
<1>5. s.pc[c] = "waiting" /\ f \in [Callers -> Steps]
  BY <1>1 DEF Sound, Steps
<1> HIDE DEF l
<1>6. \A k \in DOMAIN l : f[l[k]] = "waiting"
  <2>1. ASSUME NEW k \in DOMAIN l PROVE f[l[k]] = "waiting"
    <3>1. PICK p \in 1..n : p # i /\ l[k] = s.line[p]
      <4>1. k \in 1..(n - 1)
        BY <1>4
      <4>2. CASE k < i
        BY <1>1, <1>3, <4>1, <4>2
      <4>3. CASE ~(k < i)
        <5>1. k + 1 \in 1..n /\ k + 1 # i /\ l[k] = s.line[k + 1]
          BY <1>1, <1>3, <4>1, <4>3
        <5>2. QED BY <5>1
      <4>4. QED BY <4>2, <4>3
    <3>2. s.line[p] # c /\ s.pc[s.line[p]] = "waiting"
      BY <1>1, <3>1 DEF Sound
    <3>3. QED BY <1>1, <1>2, <3>1, <3>2
  <2>2. QED BY <2>1
<1>7. \A k, m \in DOMAIN l : l[k] = l[m] => k = m
  <2>1. ASSUME NEW k \in DOMAIN l, NEW m \in DOMAIN l, l[k] = l[m] PROVE k = m
    <3> DEFINE p == IF k < i THEN k ELSE k + 1
               q == IF m < i THEN m ELSE m + 1
    <3>1. k \in 1..(n - 1) /\ m \in 1..(n - 1)
      BY <1>4
    <3>2. p \in 1..n /\ q \in 1..n
      BY <1>1, <3>1
    <3>3. s.line[p] = s.line[q]
      BY <1>3, <2>1, <3>1
    <3>4. p = q
      BY <1>1, <3>2, <3>3 DEF Sound
    <3>5. QED BY <1>1, <3>1, <3>4
  <2>2. QED BY <2>1
<1>8. t.free = s.free /\ t.line = l /\ t.pc = f /\ t \in States
  BY <1>1, <1>3, <1>5 DEF States, l
<1>9. Sound(t)
  BY <1>6, <1>7, <1>8 DEF Sound
<1>10. Cardinality(HoldersIn(f)) = Cardinality(HoldersIn(s.pc))
  BY <1>1, <1>5, OneMoves DEF Steps, Holding
<1>11. QED BY <1>8, <1>9, <1>10 DEF Permits

-----------------------------------------------------------------------------
\* The invariant in terms of the state after a step.
LEMMA InvAfter ==
    ASSUME NEW s, Sound(s), Becomes(s), paused' \in BOOLEAN, dropped' \in Nat,
           Permits(s) + dropped' = MaxCalls
    PROVE  IInv'
<1>1. Now' = s
  BY DEF Becomes, Now, Sound, States
<1>2. Sound(Now)'
  BY <1>1 DEF Sound, States
<1>3. Permits(Now)' = Permits(s)
  BY <1>1 DEF Permits, HoldersIn
<1>4. QED BY <1>2, <1>3 DEF IInv

\* What the invariant says of the variables.
LEMMA Unfolded ==
    ASSUME IInv
    PROVE  /\ Now.pc = pc /\ Now.line = line /\ Now.free = free
           /\ pc \in [Callers -> Steps] /\ line \in Seq(Callers) /\ free \in Nat
           /\ Permits(Now) \in Nat
BY HoldersFinite DEF IInv, Now, Sound, States, Permits

\* The initial state satisfies the invariant.
LEMMA InitInv == Init => IInv
<1> SUFFICES ASSUME Init PROVE IInv
  OBVIOUS
<1>1. Sound(Now)
  BY MaxCallsAssumption DEF Init, Sound, States, Now, Steps
<1>2. HoldersIn(pc) = {}
  BY DEF Init, HoldersIn, Holding
<1>3. Cardinality(HoldersIn(pc)) = 0
  BY <1>2, FS_EmptySet
<1>4. Now.pc = pc /\ Now.free = MaxCalls /\ dropped = 0 /\ paused \in BOOLEAN
  BY DEF Init, Now
<1>5. Permits(Now) + dropped = MaxCalls
  BY <1>3, <1>4, MaxCallsAssumption DEF Permits
<1>6. QED BY <1>1, <1>4, <1>5 DEF IInv

\* A caller moves on without giving or taking a permit.
LEMMA MovesInv ==
    ASSUME IInv, NEW c \in Callers, NEW step \in Steps, pc[c] # "waiting",
           pc[c] \in Holding <=> step \in Holding,
           Becomes(At(Now, c, step)), UNCHANGED <<paused, dropped>>
    PROVE  IInv'
<1>1. Sound(At(Now, c, step)) /\ At(Now, c, step).free = free
      /\ At(Now, c, step).pc = [pc EXCEPT ![c] = step]
  <2>1. Sound(Now) /\ Now.pc = pc /\ Now.free = free
    BY Unfolded DEF IInv
  <2>2. QED BY <2>1, AtSound
<1>2. Cardinality(HoldersIn([pc EXCEPT ![c] = step])) = Cardinality(HoldersIn(pc))
  BY Unfolded, OneMoves
<1>3. Permits(At(Now, c, step)) = Permits(Now)
  BY <1>1, <1>2, Unfolded DEF Permits
<1>4. QED BY <1>1, <1>3, InvAfter DEF IInv

\* A caller goes for a slot.
LEMMA AcquireInv ==
    ASSUME IInv, NEW c \in Callers, pc[c] \in {"idle", "polling"},
           Becomes(Acquire(Now, c)), UNCHANGED <<paused, dropped>>
    PROVE  IInv'
<1>1. Sound(Acquire(Now, c)) /\ Permits(Acquire(Now, c)) = Permits(Now)
  BY Unfolded, AcquireSound DEF IInv
<1>2. QED BY <1>1, InvAfter DEF IInv

\* A caller gives its slot back.
LEMMA GiveBackInv ==
    ASSUME IInv, NEW c \in Callers, pc[c] \in Holding,
           Becomes(GiveBack(Now, c, "idle")), UNCHANGED <<paused, dropped>>
    PROVE  IInv'
<1>1. Sound(GiveBack(Now, c, "idle")) /\ Permits(GiveBack(Now, c, "idle")) = Permits(Now)
  BY Unfolded, GiveBackSound DEF IInv
<1>2. QED BY <1>1, InvAfter DEF IInv

\* acquire() returns to a waiter.
LEMMA AcquiredInv ==
    ASSUME IInv, NEW c \in Callers, Acquired(c)
    PROVE  IInv'
<1> DEFINE r == Resumed(Now, c)
<1>1. pc[c] = "woken" /\ UNCHANGED <<paused, dropped>>
  BY DEF Acquired
<1>2. Sound(r) /\ Permits(r) = Permits(Now) /\ r.pc[c] = "calling"
  BY <1>1, Unfolded, ResumedSound DEF IInv
<1>3. CASE c \in Patient /\ paused
  <2>1. Becomes(GiveBack(r, c, "polling"))
    BY <1>3 DEF Acquired
  <2>2. Sound(GiveBack(r, c, "polling")) /\ Permits(GiveBack(r, c, "polling")) = Permits(r)
    <3>1. r.pc[c] \in Holding
      BY <1>2 DEF Holding
    <3> HIDE DEF r
    <3>2. QED BY <1>2, <3>1, GiveBackSound
  <2>3. QED BY <1>1, <1>2, <2>1, <2>2, InvAfter DEF IInv
<1>4. CASE ~(c \in Patient /\ paused)
  <2>1. Becomes(r)
    BY <1>4 DEF Acquired
  <2>2. QED BY <1>1, <1>2, <2>1, InvAfter DEF IInv
<1>5. QED BY <1>3, <1>4

\* A consumer drops its generator, which keeps the permit.
LEMMA AbandonsInv ==
    ASSUME IInv, NEW c \in Callers, Abandons(c)
    PROVE  IInv'
<1> DEFINE t == At(Now, c, "idle")
<1>1. pc[c] = "delta" /\ Becomes(t) /\ dropped' = dropped + 1 /\ UNCHANGED paused
  BY DEF Abandons
<1>2. Sound(t) /\ t.free = free /\ t.pc = [pc EXCEPT ![c] = "idle"]
  <2>1. Sound(Now) /\ Now.pc = pc /\ Now.free = free
    BY Unfolded DEF IInv
  <2>2. "idle" \in Steps
    BY DEF Steps
  <2>3. QED BY <1>1, <2>1, <2>2, AtSound
<1>3. Cardinality(HoldersIn([pc EXCEPT ![c] = "idle"])) = Cardinality(HoldersIn(pc)) - 1
  BY <1>1, Unfolded, OneMoves DEF Steps, Holding
<1>4. Permits(t) = Permits(Now) - 1
  BY <1>2, <1>3, Unfolded, HoldersFinite DEF Permits
<1> HIDE DEF t
<1>5. Permits(t) + dropped' = MaxCalls /\ dropped' \in Nat
  BY <1>1, <1>4, Unfolded DEF IInv
<1>6. QED BY <1>1, <1>2, <1>5, InvAfter DEF IInv

\* A dropped generator is closed.
LEMMA ClosedInv == ASSUME IInv, Closed PROVE IInv'
<1>1. Sound(Release(Now)) /\ Permits(Release(Now)) = Permits(Now) + 1
  BY ReleaseSound DEF IInv
<1>2. dropped > 0 /\ dropped' = dropped - 1 /\ Becomes(Release(Now)) /\ UNCHANGED paused
  BY DEF Closed
<1>3. Permits(Release(Now)) + dropped' = MaxCalls /\ dropped' \in Nat
  BY <1>1, <1>2, Unfolded DEF IInv
<1>4. QED BY <1>1, <1>2, <1>3, InvAfter DEF IInv

\* A question's handler is cancelled.
LEMMA DisconnectsInv ==
    ASSUME IInv, NEW c \in Callers, Disconnects(c)
    PROVE  IInv'
<1>1. UNCHANGED <<paused, dropped>>
  BY DEF Disconnects
<1>2. ASSUME NEW i \in DOMAIN line, line[i] = c,
             Becomes([At(Now, c, "idle") EXCEPT !.line = RemoveAt(line, i)])
      PROVE  IInv'
  <2> DEFINE t == [At(Now, c, "idle") EXCEPT !.line = RemoveAt(line, i)]
  <2>1. t = [free |-> Now.free, line |-> RemoveAt(Now.line, i), pc |-> [Now.pc EXCEPT ![c] = "idle"]]
    <3>1. At(Now, c, "idle") = [free |-> free, line |-> line, pc |-> [pc EXCEPT ![c] = "idle"]]
      BY DEF At, Now
    <3>2. QED BY <3>1 DEF Now
  <2>2. i \in DOMAIN Now.line /\ Now.line[i] = c
    BY <1>2, Unfolded
  <2>3. Becomes(t)
    BY <1>2
  <2> HIDE DEF t
  <2>4. Sound(t) /\ Permits(t) = Permits(Now)
    BY <2>1, <2>2, LeavesLine DEF IInv
  <2>5. QED BY <1>1, <2>3, <2>4, InvAfter DEF IInv
<1>3. CASE pc[c] \in {"woken", "calling", "chunks"} /\ Becomes(GiveBack(Now, c, "idle"))
  BY <1>1, <1>3, GiveBackInv DEF Holding
<1>4. QED BY <1>2, <1>3 DEF Disconnects

\* Every step preserves the invariant.
LEMMA NextInv == IInv /\ [Next]_vars => IInv'
<1> SUFFICES ASSUME IInv, [Next]_vars PROVE IInv'
  OBVIOUS
<1>1. ASSUME NEW c \in Callers, Call(c) PROVE IInv'
  <2>1. CASE c \in Patient /\ paused
    BY <1>1, <2>1, MovesInv DEF Call, Steps, Holding
  <2>2. CASE ~(c \in Patient /\ paused)
    BY <1>1, <2>2, AcquireInv DEF Call
  <2>3. QED BY <2>1, <2>2
<1>2. ASSUME NEW c \in Callers, PollEnds(c) PROVE IInv'
  BY <1>2, AcquireInv DEF PollEnds
<1>3. ASSUME NEW c \in Callers, Acquired(c) PROVE IInv'
  BY <1>3, AcquiredInv
<1>4. ASSUME NEW c \in Callers, StreamOpens(c) PROVE IInv'
  BY <1>4, MovesInv DEF StreamOpens, Steps, Holding
<1>5. ASSUME NEW c \in Callers, ChunkArrives(c) PROVE IInv'
  BY <1>5, MovesInv DEF ChunkArrives, Steps, Holding
<1>6. ASSUME NEW c \in Callers, ConsumerResumes(c) PROVE IInv'
  BY <1>6, MovesInv DEF ConsumerResumes, Steps, Holding
<1>7. ASSUME NEW c \in Callers, Returns(c) PROVE IInv'
  BY <1>7, GiveBackInv DEF Returns, Holding
<1>8. ASSUME NEW c \in Callers, Abandons(c) PROVE IInv'
  BY <1>8, AbandonsInv
<1>9. ASSUME NEW c \in Callers, Disconnects(c) PROVE IInv'
  BY <1>9, DisconnectsInv
<1>10. CASE Closed
  BY <1>10, ClosedInv
<1>11. ASSUME Pause \/ Resume \/ UNCHANGED vars PROVE IInv'
  <2>1. Becomes(Now) /\ paused' \in BOOLEAN /\ dropped' = dropped
    BY <1>11 DEF Pause, Resume, vars, Becomes, Now, IInv
  <2>2. QED BY <2>1, InvAfter DEF IInv
<1>12. QED
  BY <1>1, <1>2, <1>3, <1>4, <1>5, <1>6, <1>7, <1>8, <1>9, <1>10, <1>11 DEF Next, CallStep

\* The inductive invariant holds in every reachable state.
THEOREM Invariance == Spec => []IInv
<1>1. QED BY InitInv, NextInv, PTL DEF Spec

\* No slot is lost and none is made up, for any number of slots and callers
\* (_acquire_llm_slot and the finally blocks of its callers).
THEOREM SlotsAreConserved == Spec => []SlotsConserved
<1>1. IInv => SlotsConserved
  BY Unfolded DEF IInv, SlotsConserved, Permits
<1>2. QED BY <1>1, Invariance, PTL

\* Every variable keeps its type: free permits and dropped generators never
\* exceed the number of slots.
THEOREM TypeCorrect == Spec => []TypeOK
<1>1. ASSUME IInv PROVE TypeOK
  <2>1. Cardinality(HoldersIn(Now.pc)) \in Nat
    BY HoldersFinite
  <2>2. QED BY <1>1, <2>1, Unfolded, MaxCallsAssumption DEF IInv, TypeOK, Permits
<1>2. QED BY <1>1, Invariance, PTL

\* In a step taken while paused, nobody but a question begins to call.
LEMMA QuietStep ==
    ASSUME IInv, Next, paused, paused', NEW k \in Patient, pc'[k] = "calling"
    PROVE  pc[k] = "calling"
<1>1. k \in Callers /\ pc \in [Callers -> Steps] /\ Now.pc = pc /\ Sound(Now)
  BY CallersAssumption, Unfolded DEF IInv
<1>2. ASSUME NEW c \in Callers, Call(c) PROVE pc[k] = "calling"
  <2>1. CASE c \in Patient
    <3>1. pc' = [pc EXCEPT ![c] = "polling"]
      BY <1>2, <2>1 DEF Call, Becomes, At, Now
    <3>2. QED BY <1>1, <3>1
  <2>2. CASE c \notin Patient
    <3>1. pc' = Acquire(Now, c).pc /\ k # c
      BY <1>2, <2>2 DEF Call, Becomes
    <3>2. Acquire(Now, c).pc \in {[pc EXCEPT ![c] = "calling"], [pc EXCEPT ![c] = "waiting"]}
      BY DEF Acquire, At, Now
    <3>3. QED BY <1>1, <3>1, <3>2
  <2>3. QED BY <2>1, <2>2
<1>3. ASSUME NEW c \in Callers, PollEnds(c) PROVE pc[k] = "calling"
  BY <1>3 DEF PollEnds
<1>4. ASSUME NEW c \in Callers, Acquired(c) PROVE pc[k] = "calling"
  <2> DEFINE r == Resumed(Now, c)
  <2>1. /\ Sound(r) /\ r.pc[c] = "calling"
        /\ \A m \in Callers : r.pc[m] = "calling" => m = c \/ pc[m] = "calling"
    BY <1>1, <1>4, ResumedSound DEF Acquired
  <2>2. CASE c \in Patient
    <3>1. pc' = GiveBack(r, c, "polling").pc
      BY <1>4, <2>2 DEF Acquired, Becomes
    <3>2. r.pc[c] \in Holding
      BY <2>1 DEF Holding
    <3> HIDE DEF r
    <3>3. \A m \in Callers : GiveBack(r, c, "polling").pc[m] = "calling" => m # c /\ r.pc[m] = "calling"
      BY <2>1, <3>2, GiveBackSound
    <3>4. k # c /\ r.pc[k] = "calling"
      BY <1>1, <3>1, <3>3
    <3>5. QED BY <1>1, <2>1, <3>4
  <2>3. CASE c \notin Patient
    <3>1. pc' = r.pc /\ k # c
      BY <1>4, <2>3 DEF Acquired, Becomes
    <3>2. QED BY <1>1, <2>1, <3>1
  <2>4. QED BY <2>2, <2>3
<1>5. ASSUME NEW c \in Callers, NEW step \in {"chunks", "delta", "idle"},
             Becomes(At(Now, c, step))
      PROVE  pc[k] = "calling"
  <2>1. pc' = [pc EXCEPT ![c] = step]
    BY <1>5 DEF Becomes, At, Now
  <2>2. QED BY <1>1, <2>1
<1>6. ASSUME NEW c \in Callers, pc[c] \in Holding, Becomes(GiveBack(Now, c, "idle"))
      PROVE  pc[k] = "calling"
  <2>1. pc' = GiveBack(Now, c, "idle").pc
    BY <1>6 DEF Becomes
  <2>2. QED BY <1>1, <1>6, <2>1, GiveBackSound
<1>7. ASSUME NEW c \in Callers, Disconnects(c) PROVE pc[k] = "calling"
  <2>1. ASSUME NEW i \in DOMAIN line,
               Becomes([At(Now, c, "idle") EXCEPT !.line = RemoveAt(line, i)])
        PROVE  pc[k] = "calling"
    <3>1. pc' = [pc EXCEPT ![c] = "idle"]
      BY <2>1 DEF Becomes, At, Now
    <3>2. QED BY <1>1, <3>1
  <2>2. QED BY <1>6, <1>7, <2>1 DEF Disconnects, Holding
<1>8. CASE Closed
  <2>1. pc' = Release(Now).pc
    BY <1>8 DEF Closed, Becomes
  <2>2. QED BY <1>1, <2>1, ReleaseSound
<1>9. CASE Pause \/ Resume
  BY <1>9 DEF Pause, Resume
<1>10. ASSUME NEW c \in Callers, CallStep(c) PROVE pc[k] = "calling"
  <2>1. CASE StreamOpens(c) \/ ChunkArrives(c) \/ ConsumerResumes(c) \/ Abandons(c)
    BY <1>5, <2>1 DEF StreamOpens, ChunkArrives, ConsumerResumes, Abandons
  <2>2. CASE Returns(c)
    BY <1>6, <2>2 DEF Returns, Holding
  <2>3. QED BY <1>2, <1>3, <1>4, <1>7, <1>10, <2>1, <2>2 DEF CallStep
<1>11. QED BY <1>8, <1>9, <1>10 DEF Next

\* While paused, no call that respects the pause starts, for any number of slots
\* and callers (the second look at the flag in _acquire_llm_slot).
THEOREM PauseHolds == Spec => PausedStartsNothing
<1>1. IInv /\ [Next]_vars =>
        [ paused /\ paused' => \A c \in Patient : pc'[c] = "calling" => pc[c] = "calling" ]_vars
  BY QuietStep
<1>2. QED BY <1>1, Invariance, PTL DEF Spec, PausedStartsNothing

-----------------------------------------------------------------------------
(* No wake-up is lost                                                       *)

\* With a permit to spare nobody sleeps, unless somebody is on his way to pass
\* it on: a newcomer may fall asleep beside a free permit behind one that has
\* been woken.
Wakes(s) == s.free > 0 /\ s.line # <<>> => \E c \in Callers : s.pc[c] = "woken"

NoWakeupLost == Wakes(Now)

\* Whoever wakes the next has seen to it.
LEMMA WakeNextWakes ==
    ASSUME NEW s, Sound(s)
    PROVE  Wakes(WakeNext(s))
<1>1. CASE s.line = <<>>
  BY <1>1 DEF WakeNext, Wakes
<1>2. CASE s.line # <<>>
  <2>1. Head(s.line) \in Callers /\ s.pc \in [Callers -> Steps]
    BY <1>2 DEF Sound, States
  <2>2. WakeNext(s).pc = [s.pc EXCEPT ![Head(s.line)] = "woken"]
    BY <1>2 DEF WakeNext
  <2>3. WakeNext(s).pc[Head(s.line)] = "woken"
    BY <2>1, <2>2
  <2>4. QED BY <2>1, <2>3 DEF Wakes
<1>3. QED BY <1>1, <1>2

\* So has whoever releases a permit.
LEMMA ReleaseWakes ==
    ASSUME NEW s, Sound(s)
    PROVE  Wakes(Release(s))
<1> DEFINE t == [s EXCEPT !.free = s.free + 1]
<1>1. t = [free |-> s.free + 1, line |-> s.line, pc |-> s.pc]
  BY DEF Sound, States
<1>2. Sound(t)
  BY <1>1 DEF Sound, States
<1> HIDE DEF t
<1>3. Release(s) = WakeNext(t)
  BY DEF Release, t
<1>4. QED BY <1>2, <1>3, WakeNextWakes

\* And a caller that gives its permit back.
LEMMA GiveBackWakes ==
    ASSUME NEW s, Sound(s), NEW c \in Callers, s.pc[c] \in Holding,
           NEW step \in {"idle", "polling"}
    PROVE  Wakes(GiveBack(s, c, step))
<1>1. step \in Steps /\ s.pc[c] # "waiting"
  BY DEF Steps, Holding
<1>2. Sound(At(s, c, step))
  BY <1>1, AtSound
<1>3. QED BY <1>2, ReleaseWakes DEF GiveBack

\* A woken waiter passes a spare permit on.
LEMMA ResumedWakes ==
    ASSUME NEW s, Sound(s), NEW c \in Callers, s.pc[c] = "woken"
    PROVE  Wakes(Resumed(s, c))
<1> DEFINE t == At(s, c, "calling")
<1>1. Sound(t) /\ t.free = s.free /\ s.free \in Nat
  <2>1. "calling" \in Steps /\ s.pc[c] # "waiting"
    BY DEF Steps
  <2>2. s.free \in Nat
    BY DEF Sound, States
  <2>3. QED BY <2>1, <2>2, AtSound
<1> HIDE DEF t
<1>2. CASE t.free > 0
  <2>1. Resumed(s, c) = WakeNext(t)
    BY <1>2 DEF Resumed, t
  <2>2. QED BY <1>1, <2>1, WakeNextWakes
<1>3. CASE ~(t.free > 0)
  <2>1. Resumed(s, c) = t
    BY <1>3 DEF Resumed, t
  <2>2. QED BY <1>3, <2>1 DEF Wakes
<1>4. QED BY <1>2, <1>3

\* One that was not woken moves: whoever was woken still is.
LEMMA AtWakes ==
    ASSUME NEW s, Sound(s), Wakes(s), NEW c \in Callers, s.pc[c] \notin {"waiting", "woken"},
           NEW step \in Steps
    PROVE  Wakes(At(s, c, step))
<1>1. /\ At(s, c, step).free = s.free /\ At(s, c, step).line = s.line
      /\ At(s, c, step).pc = [s.pc EXCEPT ![c] = step] /\ s.pc \in [Callers -> Steps]
  BY AtSound DEF Sound, States
<1>2. \A k \in Callers : s.pc[k] = "woken" => At(s, c, step).pc[k] = "woken"
  BY <1>1
<1>3. QED BY <1>1, <1>2 DEF Wakes

\* A caller falls asleep beside a free permit only behind another.
LEMMA AcquireWakes ==
    ASSUME NEW s, Sound(s), Wakes(s), NEW c \in Callers, s.pc[c] \in {"idle", "polling"}
    PROVE  Wakes(Acquire(s, c))
<1>1. s.pc \in [Callers -> Steps] /\ s.line \in Seq(Callers) /\ s.free \in Nat
  BY DEF Sound, States
<1>2. CASE Unlocked(s)
  <2>1. Acquire(s, c).line = s.line /\ s.line = <<>>
    <3>1. At(s, c, "calling") = [free |-> s.free, line |-> s.line,
                                 pc |-> [s.pc EXCEPT ![c] = "calling"]]
      BY DEF At, Sound, States
    <3>2. Acquire(s, c) = [free |-> s.free - 1, line |-> s.line,
                           pc |-> [s.pc EXCEPT ![c] = "calling"]]
      BY <1>2, <3>1 DEF Acquire
    <3>3. QED BY <1>2, <3>2 DEF Unlocked
  <2>2. QED BY <2>1 DEF Wakes
<1>3. CASE ~Unlocked(s)
  <2>1. Acquire(s, c) = [free |-> s.free, line |-> Append(s.line, c),
                         pc |-> [s.pc EXCEPT ![c] = "waiting"]]
    <3>1. At(s, c, "waiting") = [free |-> s.free, line |-> s.line,
                                 pc |-> [s.pc EXCEPT ![c] = "waiting"]]
      BY DEF At, Sound, States
    <3> DEFINE u == At(s, c, "waiting")
    <3>2. Acquire(s, c) = [u EXCEPT !.line = Append(u.line, c)]
      BY <1>3 DEF Acquire
    <3>3. u = [free |-> s.free, line |-> s.line, pc |-> [s.pc EXCEPT ![c] = "waiting"]]
      BY <3>1
    <3> HIDE DEF u
    <3>4. QED BY <3>2, <3>3
  <2>2. Acquire(s, c).free = s.free /\ Acquire(s, c).pc = [s.pc EXCEPT ![c] = "waiting"]
    BY <2>1
  <2>3. s.free > 0 => \E k \in Callers : s.pc[k] = "woken"
    BY <1>1, <1>3 DEF Unlocked, Wakes
  <2>4. \A k \in Callers : s.pc[k] = "woken" => Acquire(s, c).pc[k] = "woken"
    BY <1>1, <2>2
  <2>5. QED BY <2>2, <2>3, <2>4 DEF Wakes
<1>4. QED BY <1>2, <1>3

\* A step that ends in s.
LEMMA WakesAfter ==
    ASSUME NEW s, Sound(s), Becomes(s), Wakes(s)
    PROVE  NoWakeupLost'
<1>1. Now' = s
  BY DEF Becomes, Now, Sound, States
<1>2. QED BY <1>1 DEF NoWakeupLost, Wakes

\* A step of one caller, who is neither asleep nor woken.
LEMMA MovesWakes ==
    ASSUME IInv, NoWakeupLost, NEW c \in Callers, NEW step \in Steps,
           pc[c] \notin {"waiting", "woken"}, Becomes(At(Now, c, step))
    PROVE  NoWakeupLost'
<1>1. Sound(Now) /\ Wakes(Now) /\ Now.pc = pc
  BY Unfolded DEF IInv, NoWakeupLost
<1>2. Sound(At(Now, c, step)) /\ Wakes(At(Now, c, step))
  BY <1>1, AtSound, AtWakes
<1>3. QED BY <1>2, WakesAfter

\* The same for a caller that goes for a permit.
LEMMA AcquireKeepsAwake ==
    ASSUME IInv, NoWakeupLost, NEW c \in Callers, pc[c] \in {"idle", "polling"},
           Becomes(Acquire(Now, c))
    PROVE  NoWakeupLost'
<1>1. Sound(Now) /\ Wakes(Now) /\ Now.pc = pc
  BY Unfolded DEF IInv, NoWakeupLost
<1>2. Sound(Acquire(Now, c)) /\ Wakes(Acquire(Now, c))
  BY <1>1, AcquireSound, AcquireWakes
<1>3. QED BY <1>2, WakesAfter

\* The same for a caller that gives its permit back.
LEMMA GiveBackKeepsAwake ==
    ASSUME IInv, NEW c \in Callers, pc[c] \in Holding, Becomes(GiveBack(Now, c, "idle"))
    PROVE  NoWakeupLost'
<1>1. Sound(Now) /\ Now.pc = pc
  BY Unfolded DEF IInv
<1>2. Sound(GiveBack(Now, c, "idle")) /\ Wakes(GiveBack(Now, c, "idle"))
  BY <1>1, GiveBackSound, GiveBackWakes
<1>3. QED BY <1>2, WakesAfter

\* acquire() returns to a waiter.
LEMMA AcquiredKeepsAwake ==
    ASSUME IInv, NEW c \in Callers, Acquired(c)
    PROVE  NoWakeupLost'
<1> DEFINE r == Resumed(Now, c)
<1>1. Sound(Now) /\ Now.pc = pc /\ pc[c] = "woken"
  BY Unfolded DEF IInv, Acquired
<1>2. Sound(r) /\ Wakes(r) /\ r.pc[c] = "calling"
  BY <1>1, ResumedSound, ResumedWakes
<1>3. Becomes(r) \/ Becomes(GiveBack(r, c, "polling"))
  BY DEF Acquired
<1> HIDE DEF r
<1>4. Sound(GiveBack(r, c, "polling")) /\ Wakes(GiveBack(r, c, "polling"))
  BY <1>2, GiveBackSound, GiveBackWakes DEF Holding
<1>5. QED BY <1>2, <1>3, <1>4, WakesAfter

\* A question's handler is cancelled.
LEMMA DisconnectsKeepsAwake ==
    ASSUME IInv, NoWakeupLost, NEW c \in Callers, Disconnects(c)
    PROVE  NoWakeupLost'
<1>1. ASSUME NEW i \in DOMAIN line, line[i] = c,
             Becomes([At(Now, c, "idle") EXCEPT !.line = RemoveAt(line, i)])
      PROVE  NoWakeupLost'
  <2>1. /\ Sound(Now) /\ Wakes(Now) /\ Now.pc = pc /\ Now.line = line /\ Now.free = free
        /\ pc \in [Callers -> Steps] /\ pc[c] = "waiting" /\ line # <<>>
    BY <1>1, Unfolded DEF IInv, NoWakeupLost, Sound
  <2>2. At(Now, c, "idle") = [free |-> free, line |-> line, pc |-> [pc EXCEPT ![c] = "idle"]]
    BY DEF At, Now
  <2>3. free' = free /\ pc' = [pc EXCEPT ![c] = "idle"]
    <3> DEFINE u == At(Now, c, "idle")
               l == RemoveAt(line, i)
    <3>1. free' = [u EXCEPT !.line = l].free /\ pc' = [u EXCEPT !.line = l].pc
      BY <1>1 DEF Becomes
    <3>2. u = [free |-> free, line |-> line, pc |-> [pc EXCEPT ![c] = "idle"]]
      BY <2>2
    <3> HIDE DEF u, l
    <3>3. QED BY <3>1, <3>2
  <2>4. \A k \in Callers : pc[k] = "woken" => pc'[k] = "woken"
    BY <2>1, <2>3
  <2>5. Now'.free = free' /\ Now'.pc = pc'
    BY DEF Now
  <2>6. QED BY <2>1, <2>3, <2>4, <2>5 DEF NoWakeupLost, Wakes
<1>2. CASE pc[c] \in {"woken", "calling", "chunks"} /\ Becomes(GiveBack(Now, c, "idle"))
  BY <1>2, GiveBackKeepsAwake DEF Holding
<1>3. QED BY <1>1, <1>2 DEF Disconnects

\* No caller is left asleep beside a free slot with nobody on his way to wake it:
\* what the fairness of the questions rests on (client.py:343-364), for any
\* number of callers and slots, pauses, errors and disconnects.
THEOREM NobodyIsForgotten == Spec => []NoWakeupLost
<1>1. Init => NoWakeupLost
  BY DEF Init, NoWakeupLost, Wakes, Now
<1>2. ASSUME IInv, NoWakeupLost, [Next]_vars PROVE NoWakeupLost'
  <2>1. ASSUME NEW c \in Callers, Call(c) PROVE NoWakeupLost'
    <3>1. CASE c \in Patient /\ paused
      BY <1>2, <2>1, <3>1, MovesWakes DEF Call, Steps
    <3>2. CASE ~(c \in Patient /\ paused)
      BY <1>2, <2>1, <3>2, AcquireKeepsAwake DEF Call
    <3>3. QED BY <3>1, <3>2
  <2>2. ASSUME NEW c \in Callers, PollEnds(c) PROVE NoWakeupLost'
    BY <1>2, <2>2, AcquireKeepsAwake DEF PollEnds
  <2>3. ASSUME NEW c \in Callers, Acquired(c) PROVE NoWakeupLost'
    BY <1>2, <2>3, AcquiredKeepsAwake
  <2>4. ASSUME NEW c \in Callers, StreamOpens(c) PROVE NoWakeupLost'
    BY <1>2, <2>4, MovesWakes DEF StreamOpens, Steps
  <2>5. ASSUME NEW c \in Callers, ChunkArrives(c) PROVE NoWakeupLost'
    BY <1>2, <2>5, MovesWakes DEF ChunkArrives, Steps
  <2>6. ASSUME NEW c \in Callers, ConsumerResumes(c) PROVE NoWakeupLost'
    BY <1>2, <2>6, MovesWakes DEF ConsumerResumes, Steps
  <2>7. ASSUME NEW c \in Callers, Abandons(c) PROVE NoWakeupLost'
    BY <1>2, <2>7, MovesWakes DEF Abandons, Steps
  <2>8. ASSUME NEW c \in Callers, Returns(c) PROVE NoWakeupLost'
    BY <1>2, <2>8, GiveBackKeepsAwake DEF Returns, Holding
  <2>9. ASSUME NEW c \in Callers, Disconnects(c) PROVE NoWakeupLost'
    BY <1>2, <2>9, DisconnectsKeepsAwake
  <2>10. CASE Closed
    <3>1. Sound(Release(Now)) /\ Wakes(Release(Now)) /\ Becomes(Release(Now))
      BY <1>2, <2>10, ReleaseSound, ReleaseWakes DEF IInv, Closed
    <3>2. QED BY <3>1, WakesAfter
  <2>11. ASSUME Pause \/ Resume \/ UNCHANGED vars PROVE NoWakeupLost'
    BY <1>2, <2>11 DEF Pause, Resume, vars, NoWakeupLost, Wakes, Now
  <2>12. QED
    BY <1>2, <2>1, <2>2, <2>3, <2>4, <2>5, <2>6, <2>7, <2>8, <2>9, <2>10, <2>11
       DEF Next, CallStep
<1>3. QED BY <1>1, <1>2, Invariance, PTL DEF Spec
-------------------------------------------------------------------------------
(* What a dialect learns                                                     *)

\* A call in flight or answered has an object, has sent no correction that the
\* object has not learned, and has made one attempt more than corrections at most.
Paid(c) ==
    call[c].pc # "idle" =>
        /\ call[c].dialect \in Objects
        /\ call[c].sent \subseteq learned[call[c].dialect]
        /\ call[c].tries <= Cardinality(call[c].sent) + 1

DialectInv ==
    /\ DialectTypeOK
    /\ NeverExhausted
    /\ LearnedFromItsBackend
    /\ SuccessIsRemembered
    /\ \A c \in Calls : Paid(c)

-----------------------------------------------------------------------------
\* Sets of dimensions are finite and have three members at most.
LEMMA DimensionSets ==
    ASSUME NEW S \in SUBSET Dimensions
    PROVE  IsFiniteSet(S) /\ Cardinality(S) \in 0..3
<1>1. Dimensions = ((({} \cup {"token_param"}) \cup {"temperature"}) \cup {"reasoning_effort"})
  BY DEF Dimensions
<1>2. IsFiniteSet(Dimensions) /\ Cardinality(Dimensions) = 3
  <2>1. IsFiniteSet({}) /\ Cardinality({}) = 0
    BY FS_EmptySet
  <2>2. /\ IsFiniteSet({} \cup {"token_param"})
        /\ Cardinality({} \cup {"token_param"}) = 1
    BY <2>1, FS_AddElement
  <2>3. /\ IsFiniteSet(({} \cup {"token_param"}) \cup {"temperature"})
        /\ Cardinality(({} \cup {"token_param"}) \cup {"temperature"}) = 2
    BY <2>2, FS_AddElement
  <2>4. QED BY <2>3, <1>1, FS_AddElement
<1>3. QED BY <1>2, FS_Subset, FS_CardinalityType

\* A further dimension makes a set of dimensions larger.
LEMMA OneMore ==
    ASSUME NEW S \in SUBSET Dimensions, NEW T \in SUBSET Dimensions,
           S \subseteq T, NEW d \in T \ S
    PROVE  Cardinality(S) + 1 <= Cardinality(T)
<1>1. IsFiniteSet(S) /\ IsFiniteSet(T) /\ Cardinality(S) \in Nat /\ Cardinality(T) \in Nat
  BY DimensionSets
<1>2. Cardinality(S) < Cardinality(T)
  <2>1. S # T
    OBVIOUS
  <2>2. QED BY <1>1, <2>1, FS_Subset
<1>3. QED BY <1>1, <1>2

\* The first request of a call: nothing but what the object has learned.
LEMMA FirstSend ==
    ASSUME NEW o \in Objects, NEW S \in SUBSET Dimensions, NEW test \in BOOLEAN
    PROVE  [pc |-> "sent", test |-> test, dialect |-> o, sent |-> S, tries |-> 1] \in CallRecords
BY DEF CallRecords, MaxDialectAttempts

-----------------------------------------------------------------------------
\* The initial state satisfies the invariant.
LEMMA DialectInitInv == DialectInit => DialectInv
<1>1. NoCall \in CallRecords
  BY DEF NoCall, CallRecords, MaxDialectAttempts
<1>2. SUFFICES ASSUME DialectInit PROVE DialectInv
  OBVIOUS
<1>3. DialectTypeOK
  BY <1>1, <1>2 DEF DialectInit, DialectTypeOK
<1>4. \A c \in Calls : call[c].pc = "idle"
  BY <1>2 DEF DialectInit, NoCall
<1>5. LearnedFromItsBackend
  BY <1>2 DEF DialectInit, LearnedFromItsBackend
<1>6. QED
  BY <1>3, <1>4, <1>5 DEF DialectInv, NeverExhausted, SuccessIsRemembered, Paid

\* A call begins with an object just made for it, or copied for it with what
\* its original has learned, S.
LEMMA BeginsWithNew ==
    ASSUME DialectInv, NEW c \in Calls, NEW o \in Objects, NEW S \in SUBSET Dimensions,
           NEW new \in Setups, NEW test \in BOOLEAN, S \subseteq new.rejects \ new.pins,
           NewDialect(o, S, new), Sends(c, test, o, S, 1), cached' \in Objects \cup {None}
    PROVE  DialectInv'
<1>0. Unused(o)
  BY DEF NewDialect
<1>1. \A k \in Calls : call[k].dialect # o
  BY <1>0 DEF Unused
<1>2. DialectTypeOK'
  <2>1. learned' \in [Objects -> SUBSET Dimensions]
    BY DEF DialectInv, DialectTypeOK, NewDialect
  <2>2. setup' \in [Objects -> Setups]
    BY DEF DialectInv, DialectTypeOK, NewDialect
  <2>3. call' \in [Calls -> CallRecords]
    BY FirstSend DEF DialectInv, DialectTypeOK, Sends
  <2>4. QED BY <2>1, <2>2, <2>3 DEF DialectTypeOK
<1>3. /\ call'[c] = [pc |-> "sent", test |-> test, dialect |-> o, sent |-> S, tries |-> 1]
      /\ \A k \in Calls : k # c => call'[k] = call[k]
      /\ learned'[o] = S /\ setup'[o] = new
      /\ \A p \in Objects : p # o => learned'[p] = learned[p] /\ setup'[p] = setup[p]
  BY DEF DialectInv, DialectTypeOK, Sends, NewDialect
<1>4. NeverExhausted' /\ LearnedFromItsBackend'
  BY <1>3 DEF DialectInv, NeverExhausted, LearnedFromItsBackend
<1>5. SuccessIsRemembered'
  <2>1. ASSUME NEW k \in Calls, call'[k].pc = "ok"
        PROVE  setup'[call'[k].dialect].rejects \subseteq learned'[call'[k].dialect]
    <3>1. k # c /\ call'[k] = call[k]
      BY <1>3, <2>1
    <3>2. call[k].dialect \in Objects /\ call[k].dialect # o
      BY <1>1, <2>1, <3>1 DEF DialectInv, Paid
    <3>3. QED BY <1>3, <2>1, <3>1, <3>2 DEF DialectInv, SuccessIsRemembered
  <2>2. QED BY <2>1 DEF SuccessIsRemembered
<1>6. ASSUME NEW k \in Calls PROVE Paid(k)'
  <2>1. CASE k = c
    <3>1. Cardinality(S) \in Nat
      BY DimensionSets
    <3>2. QED BY <1>3, <2>1, <3>1 DEF Paid
  <2>2. CASE k # c
    BY <1>1, <1>3, <2>2 DEF DialectInv, Paid
  <2>3. QED BY <2>1, <2>2
<1>7. QED BY <1>2, <1>4, <1>5, <1>6 DEF DialectInv

\* A call begins with an object there is.
LEMMA BeginsWithOld ==
    ASSUME DialectInv, NEW c \in Calls, NEW o \in Objects, NEW test \in BOOLEAN,
           Sends(c, test, o, learned[o], 1), UNCHANGED <<cached, learned, setup>>
    PROVE  DialectInv'
<1>1. learned[o] \in SUBSET Dimensions
  BY DEF DialectInv, DialectTypeOK
<1>2. DialectTypeOK'
  BY <1>1, FirstSend DEF DialectInv, DialectTypeOK, Sends
<1>3. /\ call'[c] = [pc |-> "sent", test |-> test, dialect |-> o, sent |-> learned[o], tries |-> 1]
      /\ \A k \in Calls : k # c => call'[k] = call[k]
  BY DEF DialectInv, DialectTypeOK, Sends
<1>4. NeverExhausted' /\ LearnedFromItsBackend' /\ SuccessIsRemembered'
  BY <1>3 DEF DialectInv, NeverExhausted, LearnedFromItsBackend, SuccessIsRemembered
<1>5. \A k \in Calls : Paid(k)'
  <2>1. Cardinality(learned[o]) \in Nat
    BY <1>1, DimensionSets
  <2>2. QED BY <1>1, <1>3, <2>1 DEF DialectInv, Paid
<1>6. QED BY <1>2, <1>4, <1>5 DEF DialectInv

\* A test goes on with its object, or with a copy.
LEMMA ProbeGoesOnInv ==
    ASSUME DialectInv, NEW c \in Calls, ProbeGoesOn(c)
    PROVE  DialectInv'
<1> DEFINE old == call[c].dialect
<1>1. old \in Objects /\ cached' = cached /\ cached \in Objects \cup {None}
  BY DEF ProbeGoesOn, Results, DialectInv, Paid, DialectTypeOK
<1>2. CASE Sends(c, TRUE, old, learned[old], 1) /\ UNCHANGED <<learned, setup>>
  BY <1>1, <1>2, BeginsWithOld
<1>3. CASE \E o \in Objects, new \in Setups :
             /\ new.pins = setup[old].pins
             /\ new.rejects = setup[old].rejects \cup {"reasoning_effort"}
             /\ NewDialect(o, learned[old], new)
             /\ Sends(c, TRUE, o, learned[old], 1)
  <2>1. PICK o \in Objects, new \in Setups :
             /\ new.pins = setup[old].pins
             /\ new.rejects = setup[old].rejects \cup {"reasoning_effort"}
             /\ NewDialect(o, learned[old], new)
             /\ Sends(c, TRUE, o, learned[old], 1)
    BY <1>3
  <2>2. learned[old] \in SUBSET Dimensions
    BY <1>1 DEF DialectInv, DialectTypeOK
  <2>3. learned[old] \subseteq new.rejects \ new.pins
    BY <1>1, <2>1 DEF DialectInv, LearnedFromItsBackend
  <2>4. QED BY <1>1, <2>1, <2>2, <2>3, BeginsWithNew
<1>4. QED BY <1>2, <1>3 DEF ProbeGoesOn

\* A call that has failed all its attempts has corrected everything already.
LEMMA AttemptsSuffice ==
    ASSUME DialectInv, NEW c \in Calls, call[c].pc = "sent", NEW d \in Wrong(c)
    PROVE  call[c].tries < MaxDialectAttempts
<1>1. /\ call[c].sent \in SUBSET Dimensions /\ call[c].tries \in 0..4
      /\ call[c].dialect \in Objects /\ call[c].tries <= Cardinality(call[c].sent) + 1
  BY DEF DialectInv, DialectTypeOK, CallRecords, Paid, MaxDialectAttempts
<1>2. d \in Dimensions /\ d \notin call[c].sent
  BY <1>1, SetupsAssumption DEF Wrong, DialectInv, DialectTypeOK
<1>3. call[c].sent \cup {d} \in SUBSET Dimensions
  BY <1>1, <1>2
<1>4. Cardinality(call[c].sent) + 1 <= Cardinality(call[c].sent \cup {d})
  BY <1>1, <1>2, <1>3, OneMore
<1>5. Cardinality(call[c].sent) \in 0..3 /\ Cardinality(call[c].sent \cup {d}) \in 0..3
  BY <1>1, <1>3, DimensionSets
<1>6. QED BY <1>1, <1>4, <1>5 DEF MaxDialectAttempts

\* A refused call corrects its object and is repeated.
LEMMA AdaptsInv ==
    ASSUME DialectInv, NEW c \in Calls, Adapts(c)
    PROVE  DialectInv'
<1> DEFINE o == call[c].dialect
           test == call[c].test
<1>1. PICK d \in Wrong(c) \ setup[o].pins :
        /\ Corrects(c, d)
        /\ IF call[c].tries < MaxDialectAttempts
           THEN Sends(c, test, o, learned'[o], call[c].tries + 1)
           ELSE Ends(c, "exhausted")
  BY DEF Adapts
<1>2. call[c].pc = "sent" /\ UNCHANGED <<cached, setup>>
  BY DEF Adapts
<1>3. /\ o \in Objects /\ test \in BOOLEAN /\ call[c].sent \in SUBSET Dimensions /\ call[c].tries \in 0..4
      /\ call[c].sent \subseteq learned[o] /\ call[c].tries <= Cardinality(call[c].sent) + 1
  BY <1>2 DEF DialectInv, DialectTypeOK, CallRecords, Paid, MaxDialectAttempts
<1>4. d \in setup[o].rejects /\ d \in Dimensions /\ d \notin call[c].sent
  BY <1>1, <1>3, SetupsAssumption DEF Wrong, DialectInv, DialectTypeOK
<1>5. call[c].tries < MaxDialectAttempts
  BY <1>1, <1>2, AttemptsSuffice
<1> DEFINE now == learned[o] \cup {d}
<1>6. now \in SUBSET Dimensions
  BY <1>3, <1>4 DEF DialectInv, DialectTypeOK
<1>7. /\ learned' = [learned EXCEPT ![o] = now]
      /\ learned'[o] = now
      /\ \A p \in Objects : p # o => learned'[p] = learned[p]
  BY <1>1, <1>3 DEF Corrects, DialectInv, DialectTypeOK
<1>8. call' = [call EXCEPT ![c] = [pc |-> "sent", test |-> test, dialect |-> o,
                                   sent |-> now, tries |-> call[c].tries + 1]]
  BY <1>1, <1>5, <1>7 DEF Sends
<1>9. DialectTypeOK'
  <2>1. learned' \in [Objects -> SUBSET Dimensions]
    BY <1>6, <1>7 DEF DialectInv, DialectTypeOK
  <2>2. [pc |-> "sent", test |-> test, dialect |-> o, sent |-> now, tries |-> call[c].tries + 1] \in CallRecords
    BY <1>3, <1>5, <1>6 DEF CallRecords, MaxDialectAttempts
  <2>3. call' \in [Calls -> CallRecords]
    BY <1>8, <2>2 DEF DialectInv, DialectTypeOK
  <2>4. QED BY <1>2, <2>1, <2>3 DEF DialectInv, DialectTypeOK
<1>10. /\ call'[c] = [pc |-> "sent", test |-> test, dialect |-> o, sent |-> now, tries |-> call[c].tries + 1]
       /\ \A k \in Calls : k # c => call'[k] = call[k]
  BY <1>8 DEF DialectInv, DialectTypeOK
<1>11. NeverExhausted'
  BY <1>10 DEF DialectInv, NeverExhausted
<1>12. LearnedFromItsBackend'
  BY <1>1, <1>2, <1>4, <1>7 DEF DialectInv, LearnedFromItsBackend
<1>13. \A p \in Objects : learned[p] \subseteq learned'[p]
  BY <1>7
<1>14. SuccessIsRemembered'
  <2>1. ASSUME NEW k \in Calls, call'[k].pc = "ok"
        PROVE  setup'[call'[k].dialect].rejects \subseteq learned'[call'[k].dialect]
    <3>1. k # c /\ call'[k] = call[k]
      BY <1>10, <2>1
    <3>2. call[k].dialect \in Objects
      BY <2>1, <3>1 DEF DialectInv, Paid
    <3>3. QED BY <1>2, <1>13, <2>1, <3>1, <3>2 DEF DialectInv, SuccessIsRemembered
  <2>2. QED BY <2>1 DEF SuccessIsRemembered
<1>15. ASSUME NEW k \in Calls PROVE Paid(k)'
  <2>1. CASE k = c
    <3>1. Cardinality(call[c].sent) + 1 <= Cardinality(now)
      BY <1>3, <1>4, <1>6, OneMore
    <3>2. Cardinality(call[c].sent) \in Nat /\ Cardinality(now) \in Nat
      BY <1>3, <1>6, DimensionSets
    <3>3. call[c].tries + 1 <= Cardinality(now) + 1
      BY <1>3, <3>1, <3>2
    <3>4. call'[k].dialect = o /\ call'[k].sent = now /\ call'[k].tries = call[c].tries + 1
      BY <1>10, <2>1
    <3>5. call'[k].dialect \in Objects /\ call'[k].sent \subseteq learned'[call'[k].dialect]
      BY <1>3, <1>7, <3>4
    <3>6. call'[k].tries <= Cardinality(call'[k].sent) + 1
      BY <3>3, <3>4
    <3>7. QED BY <3>5, <3>6 DEF Paid
  <2>2. CASE k # c
    BY <1>10, <1>13, <2>2 DEF DialectInv, Paid
  <2>3. QED BY <2>1, <2>2
<1>16. QED BY <1>9, <1>11, <1>12, <1>14, <1>15 DEF DialectInv

\* A call ends; a success has sent everything its backend refuses.
LEMMA EndsInv ==
    ASSUME DialectInv, NEW c \in Calls, Accepted(c) \/ Refused(c) \/ Returned(c)
    PROVE  DialectInv'
<1>1. UNCHANGED <<cached, learned, setup>>
  BY DEF Accepted, Refused, Returned
<1>2. \A k \in Calls : k # c => call'[k] = call[k]
  BY DEF Accepted, Refused, Returned, Ends, DialectInv, DialectTypeOK
<1>3. CASE Returned(c)
  <2>1. NoCall \in CallRecords
    BY DEF NoCall, CallRecords, MaxDialectAttempts
  <2>2. call' = [call EXCEPT ![c] = NoCall]
    BY <1>3 DEF Returned
  <2>3. call'[c] = NoCall /\ NoCall.pc = "idle"
    BY <2>2 DEF DialectInv, DialectTypeOK, NoCall
  <2>4. DialectTypeOK'
    BY <1>1, <2>1, <2>2 DEF DialectInv, DialectTypeOK
  <2>5. QED BY <1>1, <1>2, <2>3, <2>4
    DEF DialectInv, NeverExhausted, LearnedFromItsBackend, SuccessIsRemembered, Paid
<1>4. CASE Accepted(c) \/ Refused(c)
  <2>1. PICK r \in {"ok", "refused"} :
          /\ call' = [call EXCEPT ![c] = [call[c] EXCEPT !.pc = r]]
          /\ r = "ok" => Wrong(c) = {}
    BY <1>4 DEF Accepted, Refused, Ends
  <2>2. call[c].pc = "sent" /\ call[c] \in CallRecords
    BY <1>4 DEF Accepted, Refused, DialectInv, DialectTypeOK
  <2>3. [call[c] EXCEPT !.pc = r] \in CallRecords
    BY <2>2 DEF CallRecords, Results
  <2>4. /\ call'[c].pc = r /\ call'[c].dialect = call[c].dialect
        /\ call'[c].sent = call[c].sent /\ call'[c].tries = call[c].tries
    BY <2>1, <2>2 DEF CallRecords, DialectInv, DialectTypeOK
  <2>5. DialectTypeOK'
    BY <1>1, <2>1, <2>3 DEF DialectInv, DialectTypeOK
  <2>6. r = "ok" => setup[call[c].dialect].rejects \subseteq learned[call[c].dialect]
    BY <2>1, <2>2 DEF Wrong, DialectInv, Paid
  <2>7. NeverExhausted' /\ LearnedFromItsBackend' /\ SuccessIsRemembered'
    BY <1>1, <1>2, <2>4, <2>6 DEF DialectInv, NeverExhausted, LearnedFromItsBackend, SuccessIsRemembered
  <2>8. \A k \in Calls : Paid(k)'
    BY <1>1, <1>2, <2>2, <2>4 DEF DialectInv, Paid
  <2>9. QED BY <2>5, <2>7, <2>8 DEF DialectInv
<1>5. QED BY <1>3, <1>4

\* Every step preserves the invariant.
LEMMA DialectNextInv == DialectInv /\ [DialectNext]_dialectVars => DialectInv'
<1> SUFFICES ASSUME DialectInv, [DialectNext]_dialectVars PROVE DialectInv'
  OBVIOUS
<1>1. ASSUME NEW c \in Calls, CallBegins(c) PROVE DialectInv'
  <2>1. CASE cached # None /\ Sends(c, FALSE, cached, learned[cached], 1)
             /\ UNCHANGED <<cached, learned, setup>>
    <3>1. cached \in Objects
      BY <2>1 DEF DialectInv, DialectTypeOK
    <3>2. QED BY <2>1, <3>1, BeginsWithOld
  <2>2. CASE \E o \in Objects, new \in Setups :
               NewDialect(o, {}, new) /\ cached' = o /\ Sends(c, FALSE, o, {}, 1)
    BY <2>2, BeginsWithNew
  <2>3. QED BY <1>1, <2>1, <2>2 DEF CallBegins
<1>2. ASSUME NEW c \in Calls, ProbeBegins(c) PROVE DialectInv'
  <2>1. PICK o \in Objects, new \in Setups :
               NewDialect(o, {}, new) /\ Sends(c, TRUE, o, {}, 1)
    BY <1>2 DEF ProbeBegins
  <2>2. cached' \in Objects \cup {None}
    BY <1>2 DEF ProbeBegins, DialectInv, DialectTypeOK
  <2>3. QED BY <2>1, <2>2, BeginsWithNew
<1>3. ASSUME NEW c \in Calls, Adapts(c) PROVE DialectInv'
  BY <1>3, AdaptsInv
<1>4. ASSUME NEW c \in Calls, Accepted(c) \/ Refused(c) \/ Returned(c) PROVE DialectInv'
  BY <1>4, EndsInv
<1>5. CASE ResetCaches
  BY <1>5 DEF ResetCaches, DialectInv, DialectTypeOK, NeverExhausted, LearnedFromItsBackend,
              SuccessIsRemembered, Paid
<1>6. CASE UNCHANGED dialectVars
  BY <1>6 DEF dialectVars, DialectInv, DialectTypeOK, NeverExhausted, LearnedFromItsBackend,
              SuccessIsRemembered, Paid
<1>7. ASSUME NEW c \in Calls, ProbeGoesOn(c) PROVE DialectInv'
  BY <1>7, ProbeGoesOnInv
<1>8. QED BY <1>1, <1>2, <1>3, <1>4, <1>5, <1>6, <1>7 DEF DialectNext

\* The inductive invariant holds in every reachable state.
THEOREM DialectInvariance == DialectSpec => []DialectInv
<1>1. QED BY DialectInitInv, DialectNextInv, PTL DEF DialectSpec

\* Type correctness for any number of calls, configurations and backends.
THEOREM DialectTypeCorrect == DialectSpec => []DialectTypeOK
<1>1. DialectInv => DialectTypeOK
  BY DEF DialectInv
<1>2. QED BY <1>1, DialectInvariance, PTL

\* No call uses up its attempts on learning, whatever the number of concurrent
\* calls, of configurations and of backends (call_with_dialect_adaptation).
THEOREM AttemptsAreEnough == DialectSpec => []NeverExhausted
<1>1. DialectInv => NeverExhausted
  BY DEF DialectInv
<1>2. QED BY <1>1, DialectInvariance, PTL

\* A dialect learns from its own backend only, across changes of configuration.
THEOREM NoCrossTalk == DialectSpec => []LearnedFromItsBackend
<1>1. DialectInv => LearnedFromItsBackend
  BY DEF DialectInv
<1>2. QED BY <1>1, DialectInvariance, PTL

\* After a success, later calls with the same object pay no refusal again.
THEOREM LearnedOnce == DialectSpec => []SuccessIsRemembered
<1>1. DialectInv => SuccessIsRemembered
  BY DEF DialectInv
<1>2. QED BY <1>1, DialectInvariance, PTL
===============================================================================
