------------------------------ MODULE FramesProofs ------------------------------
(* The frames of Frames, proved for any number of moments, callers and      *)
(* frames, and any budget.                                                  *)
EXTENDS Frames, FiniteSetTheorems, TLAPS

\* What a function of files has on disk, in all and for the other moments.
ShownIn(fs)    == {r \in Refs : r[2] <= fs[r[1]]}
BesideIn(fs, m) == {r \in ShownIn(fs) : r[1] # m}

\* A caller works for a moment, and asks for a frame at least.
FetchOK(f) ==
    /\ fetch[f].pc # "idle" => fetch[f].m \in Moments
    /\ fetch[f].pc \in Fetching => fetch[f].want \in 1..NumFrames

\* Where the conveyor is, and what it waits for.
BeltOK ==
    /\ at \in 0..(Selected + 1)
    /\ shown # 0 => at \in 1..Selected
    /\ at > Selected => fetch["conveyor"].pc = "idle"
    /\ shown # 0 /\ at = Selected => fetch["conveyor"].pc = "idle"
    /\ ConveyorInStep

\* Nothing runs before the row of an import is there.
BeforeTheRow ==
    /\ importing => row = "absent"
    /\ row = "absent" => at = 0 /\ \A f \in Fetchers : fetch[f].pc = "idle"

\* Who fetches alone has room for what he asked for.
AloneFits ==
    ~overlapped =>
        /\ \A f, g \in InFlight : f = g
        /\ \A f \in InFlight :
              Cardinality(BesideIn(files, fetch[f].m)) + fetch[f].want <= Budget

Files == [Moments -> 0..NumFrames]
Calls == [pc : {"idle", "plan", "done"} \cup Fetching, m : 0..Last,
          want : 0..NumFrames, got : 0..NumFrames]

\* The types, a part at a time.
RowOK ==
    /\ row \in {"absent", "running", "failed", "done", "gone"}
    /\ {importing, overlapped} \subseteq BOOLEAN
DiskOK ==
    /\ jobDir \in BOOLEAN
    /\ dirs \subseteq Moments
    /\ files \in Files
    /\ \A m \in Moments : files[m] # 0 => m \in dirs
    /\ dirs # {} => jobDir
FetchesOK == fetch \in [Fetchers -> Calls] /\ \A f \in Fetchers : FetchOK(f)
RefsOK    == {found, findings, messages} \subseteq SUBSET Refs

IInv ==
    /\ RowOK /\ DiskOK /\ FetchesOK /\ RefsOK
    /\ shown \in 0..NumFrames
    /\ BeltOK
    /\ BeforeTheRow
    /\ AloneFits

-----------------------------------------------------------------------------
(* Counting frames                                                          *)

\* What is selected is a number of moments, at least one.
LEMMA SelectedType == Selected \in 1..Last
<1>1. /\ Last \in Nat \ {0} /\ NumFrames \in Nat \ {0} /\ Budget \in Nat \ {0}
      /\ NumFrames <= Budget
  BY FramesAssumption
<1>2. Budget \div NumFrames \in Nat \ {0}
  BY <1>1
<1>3. QED BY <1>1, <1>2 DEF Selected, Capped

\* There are finitely many frames to be shown.
LEMMA FramesFinite ==
    ASSUME NEW S \in SUBSET Refs
    PROVE  IsFiniteSet(S) /\ Cardinality(S) \in Nat
<1>1. Last \in Int /\ NumFrames \in Int
  BY FramesAssumption
<1>2. IsFiniteSet(1..Last) /\ IsFiniteSet(1..NumFrames)
  BY <1>1, FS_Interval
<1>3. IsFiniteSet(Refs)
  BY <1>2, FS_Product DEF Refs, Moments
<1>4. QED BY <1>3, FS_Subset, FS_CardinalityType

\* The frames of one moment and those of the others.
LEMMA Parts ==
    ASSUME NEW fs \in Files, NEW m \in Moments
    PROVE  Cardinality(ShownIn(fs)) = Cardinality(BesideIn(fs, m)) + fs[m]
<1> DEFINE own == {r \in ShownIn(fs) : r[1] = m}
<1>1. /\ ShownIn(fs) \in SUBSET Refs /\ BesideIn(fs, m) \in SUBSET Refs /\ own \in SUBSET Refs
      /\ ShownIn(fs) = BesideIn(fs, m) \cup own /\ BesideIn(fs, m) \cap own = {}
  BY DEF ShownIn, BesideIn
<1>2. own = {m} \X (1..fs[m])
  <2>1. fs[m] \in 0..NumFrames /\ NumFrames \in Nat
    BY FramesAssumption DEF Files
  <2>2. ASSUME NEW r \in own PROVE r \in {m} \X (1..fs[m])
    <3>1. r \in Refs /\ r[1] = m /\ r[2] <= fs[m]
      BY DEF ShownIn
    <3>2. r = <<r[1], r[2]>> /\ r[2] \in 1..NumFrames
      BY <3>1 DEF Refs
    <3>3. r[2] \in 1..fs[m]
      BY <2>1, <3>1, <3>2
    <3>4. QED BY <3>1, <3>2, <3>3
  <2>3. ASSUME NEW r \in {m} \X (1..fs[m]) PROVE r \in own
    <3>1. r = <<r[1], r[2]>> /\ r[1] = m /\ r[2] \in 1..fs[m]
      OBVIOUS
    <3>2. r[2] \in 1..NumFrames /\ r[2] <= fs[m]
      BY <2>1, <3>1
    <3>3. QED BY <3>1, <3>2 DEF ShownIn, Refs
  <2>4. QED BY <2>2, <2>3
<1>3. Cardinality(own) = fs[m]
  <2>1. fs[m] \in Nat
    BY FramesAssumption DEF Files
  <2>2. IsFiniteSet(1..fs[m]) /\ Cardinality(1..fs[m]) = fs[m]
    <3> DEFINE k == fs[m]
    <3>1. 1 \in Int /\ k \in Int /\ k \in Nat
      BY <2>1
    <3> HIDE DEF k
    <3>2. IsFiniteSet(1..k) /\ Cardinality(1..k) = IF 1 > k THEN 0 ELSE k - 1 + 1
      BY <3>1, FS_Interval, Zenon
    <3>3. IsFiniteSet(1..k) /\ Cardinality(1..k) = k
      BY <3>1, <3>2
    <3>4. QED BY <3>3 DEF k
  <2>3. IsFiniteSet({m}) /\ Cardinality({m}) = 1
    BY FS_Singleton
  <2>4. Cardinality({m} \X (1..fs[m])) = 1 * fs[m]
    <3>1. Cardinality({m} \X (1..fs[m])) = Cardinality({m}) * Cardinality(1..fs[m])
      BY <2>2, <2>3, FS_Product, Zenon
    <3>2. QED BY <2>2, <2>3, <3>1, Zenon
  <2>5. 1 * fs[m] = fs[m]
    BY <2>1
  <2>6. QED BY <1>2, <2>4, <2>5
<1> HIDE DEF own
<1>4. /\ IsFiniteSet(BesideIn(fs, m)) /\ IsFiniteSet(own)
      /\ Cardinality(BesideIn(fs, m)) \in Nat /\ Cardinality(own) \in Nat
  BY <1>1, FramesFinite
<1>5. Cardinality(BesideIn(fs, m) \cup own)
         = Cardinality(BesideIn(fs, m)) + Cardinality(own) - Cardinality({})
  BY <1>1, <1>4, FS_Union
<1>6. Cardinality({}) = 0
  BY FS_EmptySet
<1>7. QED BY <1>1, <1>3, <1>4, <1>5, <1>6

\* Fewer frames everywhere are fewer frames.
LEMMA FewerFrames ==
    ASSUME NEW fs \in Files, NEW gs \in Files, \A n \in Moments : gs[n] <= fs[n],
           NEW m \in Moments
    PROVE  /\ Cardinality(ShownIn(gs)) <= Cardinality(ShownIn(fs))
           /\ Cardinality(BesideIn(gs, m)) <= Cardinality(BesideIn(fs, m))
<1>1. ShownIn(gs) \subseteq ShownIn(fs)
  <2> SUFFICES ASSUME NEW r \in Refs, r[2] <= gs[r[1]]
               PROVE  r[2] <= fs[r[1]]
    BY DEF ShownIn
  <2>1. r[1] \in Moments /\ r[2] \in 1..NumFrames /\ NumFrames \in Nat
    BY FramesAssumption DEF Refs
  <2>2. gs[r[1]] \in 0..NumFrames /\ fs[r[1]] \in 0..NumFrames /\ gs[r[1]] <= fs[r[1]]
    BY <2>1 DEF Files
  <2>3. QED BY <2>1, <2>2
<1>2. BesideIn(gs, m) \subseteq BesideIn(fs, m)
  BY <1>1 DEF BesideIn
<1>3. ShownIn(fs) \in SUBSET Refs /\ BesideIn(fs, m) \in SUBSET Refs
  BY DEF ShownIn, BesideIn
<1>4. QED BY <1>1, <1>2, <1>3, FramesFinite, FS_Subset

\* Beside a moment nothing depends on it.
LEMMA SameBeside ==
    ASSUME NEW fs \in Files, NEW gs \in Files, NEW m \in Moments,
           \A n \in Moments : n # m => gs[n] = fs[n]
    PROVE  BesideIn(gs, m) = BesideIn(fs, m)
<1>1. \A r \in Refs : r[1] \in Moments
  BY DEF Refs
<1>2. QED BY <1>1 DEF BesideIn, ShownIn

\* What Total counts, as a set that can be taken apart by moment.
LEMMA TotalIs == Total = Cardinality(ShownIn(files))
BY DEF Total, Shows, ShownIn

-----------------------------------------------------------------------------
(* Parts of the state                                                       *)

\* The invariant, taken apart.
LEMMA InParts ==
    ASSUME IInv
    PROVE  /\ RowOK /\ DiskOK /\ FetchesOK /\ RefsOK
           /\ shown \in 0..NumFrames /\ BeltOK /\ BeforeTheRow /\ AloneFits
BY DEF IInv

\* The same after a step, put together.
LEMMA FromParts ==
    ASSUME RowOK', DiskOK', FetchesOK', RefsOK', shown' \in 0..NumFrames, BeltOK',
           BeforeTheRow', AloneFits'
    PROVE  IInv'
BY DEF IInv

\* No frames are added and no fetch is started: there is room as before.
LEMMA RoomStays ==
    ASSUME IInv, DiskOK', FetchesOK', UNCHANGED overlapped,
           \A m \in Moments : files'[m] <= files[m],
           \A f \in Fetchers : fetch'[f].pc \in Fetching =>
              /\ fetch[f].pc \in Fetching
              /\ fetch'[f].m = fetch[f].m /\ fetch'[f].want = fetch[f].want
    PROVE  AloneFits'
<1> SUFFICES ASSUME ~overlapped
             PROVE  /\ \A f, g \in InFlight' : f = g
                    /\ \A f \in InFlight' :
                          Cardinality(BesideIn(files, fetch[f].m))' + fetch'[f].want <= Budget
  BY DEF AloneFits
<1>1. /\ \A f, g \in InFlight : f = g
      /\ \A f \in InFlight :
            Cardinality(BesideIn(files, fetch[f].m)) + fetch[f].want <= Budget
  BY InParts DEF AloneFits
<1>2. files \in Files /\ files' \in Files
  BY InParts DEF DiskOK
<1>3. InFlight' \subseteq InFlight
  BY DEF InFlight
<1>5. ASSUME NEW f \in InFlight'
      PROVE  Cardinality(BesideIn(files', fetch'[f].m)) + fetch'[f].want <= Budget
  <2> DEFINE m == fetch[f].m
             n == fetch[f].want
  <2>1. f \in InFlight /\ f \in Fetchers /\ fetch'[f].m = m /\ fetch'[f].want = n
    BY <1>3 DEF InFlight
  <2>2. m \in Moments /\ n \in Nat
    <3>1. FetchOK(f) /\ fetch[f].pc \in Fetching
      BY <2>1, InParts DEF FetchesOK, InFlight
    <3>2. fetch[f].pc # "idle" /\ NumFrames \in Nat
      BY <3>1, FramesAssumption DEF Fetching
    <3>3. QED BY <3>1, <3>2 DEF FetchOK
  <2>3. Cardinality(BesideIn(files, m)) + n <= Budget
    BY <1>1, <2>1
  <2> HIDE DEF m, n
  <2>4. Cardinality(BesideIn(files', m)) <= Cardinality(BesideIn(files, m))
    BY <1>2, <2>2, FewerFrames
  <2>5. Cardinality(BesideIn(files', m)) \in Nat /\ Cardinality(BesideIn(files, m)) \in Nat
    <3>1. BesideIn(files', m) \in SUBSET Refs /\ BesideIn(files, m) \in SUBSET Refs
      BY DEF BesideIn, ShownIn
    <3>2. QED BY <3>1, FramesFinite
  <2>6. Cardinality(BesideIn(files', m)) + n <= Budget
    BY <2>2, <2>3, <2>4, <2>5, FramesAssumption
  <2>7. QED BY <2>1, <2>6
<1>6. QED BY <1>1, <1>3, <1>5 DEF InFlight

\* The conveyor stays where it is, and what it waits for does.
LEMMA BeltStays ==
    ASSUME IInv, UNCHANGED <<at, shown>>, fetch'["conveyor"].m = fetch["conveyor"].m,
           fetch["conveyor"].pc = "idle" => fetch'["conveyor"].pc = "idle"
    PROVE  BeltOK'
BY InParts DEF BeltOK, ConveyorInStep, Selected, Capped

-----------------------------------------------------------------------------
(* Fetches                                                                  *)

\* What is left of the budget once the moment is cleared, and what is asked for.
LEMMA RoomLeft ==
    ASSUME NEW k \in Nat, NEW want,
           want = IF Budget - Capped(Budget, k) > 0
                  THEN Capped(NumFrames, Budget - Capped(Budget, k)) ELSE 0
    PROVE  /\ want \in 0..NumFrames
           /\ Budget - Capped(Budget, k) > 0 => want \in 1..NumFrames /\ k + want <= Budget
<1>1. Budget \in Nat /\ NumFrames \in Nat \ {0}
  BY FramesAssumption
<1>2. CASE k < Budget
  BY <1>1, <1>2 DEF Capped
<1>3. CASE ~(k < Budget)
  BY <1>1, <1>3 DEF Capped
<1>4. QED BY <1>2, <1>3

\* What the start of a fetch does to the frames, and what it leaves alone.
LEMMA StartsEffect ==
    ASSUME IInv, NEW f \in Fetchers, NEW m \in Moments, fetch[f].pc \notin Fetching, Starts(f, m)
    PROVE  /\ DiskOK' /\ FetchesOK' /\ AloneFits' /\ overlapped' \in BOOLEAN
           /\ fetch'[f].m = m /\ fetch'[f].pc \in {"download", "done"}
           /\ \A g \in Fetchers : g # f => fetch'[g] = fetch[g]
           /\ files' = [files EXCEPT ![m] = 0]
<1> DEFINE k == Cardinality(BesideIn(files, m))
           left == Budget - Capped(Budget, k)
           want == IF left > 0 THEN Capped(NumFrames, left) ELSE 0
<1>1. /\ DiskOK /\ FetchesOK /\ files \in Files /\ overlapped \in BOOLEAN
      /\ NumFrames \in Nat \ {0} /\ Budget \in Nat /\ files[m] \in Nat
  BY InParts, FramesAssumption DEF DiskOK, RowOK, Files
<1>2. k \in Nat /\ Total = k + files[m] /\ Total - files[m] = k
  <2>1. BesideIn(files, m) \in SUBSET Refs
    BY DEF BesideIn, ShownIn
  <2>2. k \in Nat /\ Total = k + files[m]
    BY <1>1, <2>1, FramesFinite, Parts, TotalIs
  <2>3. QED BY <1>1, <2>2
<1>3. /\ jobDir' = TRUE /\ dirs' = dirs \ {m} /\ files' = [files EXCEPT ![m] = 0]
      /\ fetch' = [fetch EXCEPT ![f] = [pc |-> IF left > 0 THEN "download" ELSE "done",
                                        m |-> m, want |-> want, got |-> 0]]
      /\ overlapped' = (overlapped \/ InFlight # {})
  BY <1>2 DEF Starts
<1>4. want \in 0..NumFrames /\ (left > 0 => want \in 1..NumFrames /\ k + want <= Budget)
  BY <1>2, RoomLeft
<1> HIDE DEF k, want
<1>5. /\ fetch'[f].pc = IF left > 0 THEN "download" ELSE "done"
      /\ fetch'[f].m = m /\ fetch'[f].want = want /\ fetch'[f] \in Calls
      /\ \A g \in Fetchers : g # f => fetch'[g] = fetch[g]
      /\ fetch' \in [Fetchers -> Calls]
  <2> DEFINE call == [pc |-> IF left > 0 THEN "download" ELSE "done",
                      m |-> m, want |-> want, got |-> 0]
  <2>1. call \in Calls
    <3>1. m \in 0..Last /\ 0 \in 0..NumFrames
      BY <1>1, FramesAssumption DEF Moments
    <3>2. QED BY <1>4, <3>1 DEF Calls, Fetching
  <2>2. fetch' = [fetch EXCEPT ![f] = call] /\ fetch \in [Fetchers -> Calls]
    BY <1>1, <1>3 DEF FetchesOK
  <2>3. /\ call.pc = (IF left > 0 THEN "download" ELSE "done")
        /\ call.m = m /\ call.want = want
    OBVIOUS
  <2> HIDE DEF call, left
  <2>4. QED BY <2>1, <2>2, <2>3
<1>6. /\ files' \in Files /\ files'[m] = 0 /\ \A n \in Moments : n # m => files'[n] = files[n]
  BY <1>1, <1>3 DEF Files
<1>7. DiskOK'
  BY <1>1, <1>3, <1>6 DEF DiskOK
<1>8. FetchesOK'
  <2>1. ASSUME NEW g \in Fetchers PROVE FetchOK(g)'
    <3>1. CASE g = f
      BY <1>4, <1>5, <3>1 DEF FetchOK, Fetching
    <3>2. CASE g # f
      BY <1>1, <1>5, <3>2 DEF FetchOK, FetchesOK
    <3>3. QED BY <3>1, <3>2
  <2>2. QED BY <1>5, <2>1 DEF FetchesOK
<1>9. ASSUME ~overlapped'
      PROVE  /\ InFlight' \subseteq {f}
             /\ f \in InFlight' =>
                   Cardinality(BesideIn(files', fetch'[f].m)) + fetch'[f].want <= Budget
  <2>1. InFlight = {}
    BY <1>3, <1>9
  <2>2. BesideIn(files', m) = BesideIn(files, m)
    BY <1>1, <1>6, SameBeside
  <2>3. InFlight' \subseteq {f}
    BY <1>5, <2>1 DEF InFlight
  <2>4. f \in InFlight' => k + want <= Budget
    BY <1>4, <1>5 DEF InFlight, Fetching
  <2>5. QED BY <1>5, <2>2, <2>3, <2>4 DEF k
<1>10. AloneFits'
  BY <1>9 DEF AloneFits
<1>11. overlapped' \in BOOLEAN
  BY <1>1, <1>3
<1>12. fetch'[f].pc \in {"download", "done"}
  BY <1>5
<1>13. QED BY <1>3, <1>5, <1>7, <1>8, <1>10, <1>11, <1>12

\* A call that ends leaves files of the kind, and no call beside it.
LEMMA RoomForResult ==
    ASSUME IInv, NEW f \in Fetchers, fetch[f].pc \in Fetching,
           NEW k \in 1..fetch[f].want,
           files' = [files EXCEPT ![fetch[f].m] = Bigger(files[fetch[f].m], k)],
           \A g \in Fetchers : g # f => fetch'[g] = fetch[g],
           fetch'[f].pc \notin Fetching, UNCHANGED overlapped
    PROVE  AloneFits' /\ files' \in Files /\ fetch[f].m \in Moments
<1> DEFINE m == fetch[f].m
<1>1. m \in Moments /\ fetch[f].want \in 1..NumFrames /\ files \in Files /\ NumFrames \in Nat
  <2>1. FetchOK(f) /\ fetch[f].pc # "idle" /\ files \in Files
    BY InParts DEF FetchesOK, Fetching, DiskOK
  <2>2. QED BY <2>1, FramesAssumption DEF FetchOK
<1>2. k \in 1..NumFrames /\ files[m] \in 0..NumFrames
  BY <1>1 DEF Files
<1>3. Bigger(files[m], k) \in 0..NumFrames
  BY <1>1, <1>2 DEF Bigger
<1>4. files' \in Files
  BY <1>1, <1>3 DEF Files
<1>5. ASSUME ~overlapped PROVE InFlight' = {}
  <2>1. f \in InFlight /\ \A g, h \in InFlight : g = h
    BY <1>5, InParts DEF AloneFits, InFlight
  <2>2. QED BY <2>1 DEF InFlight
<1>6. AloneFits'
  BY <1>5 DEF AloneFits
<1>7. QED BY <1>1, <1>4, <1>6

\* What such a call adds was set aside for it: if it is alone, and there are more
\* frames than before, they fit.
LEMMA ResultFits ==
    ASSUME IInv, NEW f \in Fetchers, fetch[f].pc \in Fetching, ~overlapped,
           NEW k \in 1..fetch[f].want,
           files' = [files EXCEPT ![fetch[f].m] = Bigger(files[fetch[f].m], k)],
           Total' > Total
    PROVE  Total' <= Budget
<1> DEFINE m == fetch[f].m
           c == Cardinality(BesideIn(files, m))
<1>1. /\ m \in Moments /\ fetch[f].want \in 1..NumFrames /\ files \in Files
      /\ NumFrames \in Nat /\ Budget \in Nat
  <2>1. FetchOK(f) /\ fetch[f].pc # "idle" /\ files \in Files
    BY InParts DEF FetchesOK, Fetching, DiskOK
  <2>2. QED BY <2>1, FramesAssumption DEF FetchOK
<1>2. k \in 1..NumFrames /\ k <= fetch[f].want /\ files[m] \in 0..NumFrames
  BY <1>1 DEF Files
<1>3. Bigger(files[m], k) \in 0..NumFrames
  BY <1>1, <1>2 DEF Bigger
<1>4. /\ files' \in Files /\ files'[m] = Bigger(files[m], k)
      /\ \A n \in Moments : n # m => files'[n] = files[n]
  BY <1>1, <1>3 DEF Files
<1>5. f \in InFlight /\ c + fetch[f].want <= Budget
  BY InParts DEF AloneFits, InFlight
<1> HIDE DEF m
<1>6. c \in Nat
  <2>1. BesideIn(files, m) \in SUBSET Refs
    BY DEF BesideIn, ShownIn
  <2>2. QED BY <2>1, FramesFinite
<1>7. Total = c + files[m]
  BY <1>1, Parts, TotalIs
<1>8. Total' = c + Bigger(files[m], k)
  <2>1. Cardinality(ShownIn(files')) = Cardinality(BesideIn(files', m)) + files'[m]
    BY <1>1, <1>4, Parts
  <2>2. BesideIn(files', m) = BesideIn(files, m)
    BY <1>1, <1>4, SameBeside
  <2>3. Total' = Cardinality(ShownIn(files'))
    BY DEF Total, Shows, ShownIn
  <2>4. QED BY <1>4, <2>1, <2>2, <2>3
<1> HIDE DEF c
<1>9. CASE files[m] < k
  BY <1>1, <1>2, <1>5, <1>6, <1>8, <1>9 DEF Bigger
<1>10. CASE ~(files[m] < k)
  BY <1>2, <1>6, <1>7, <1>8, <1>10 DEF Bigger
<1>11. QED BY <1>9, <1>10

-----------------------------------------------------------------------------
(* Steps                                                                    *)

\* What a step needs of the callers that it does not concern.
LEMMA IdleCall == Idle \in Calls /\ Idle.pc = "idle" /\ Idle.m = 0
<1>1. 0 \in 0..Last /\ 0 \in 0..NumFrames
  BY FramesAssumption
<1>2. QED BY <1>1 DEF Idle, Calls

\* A fetch gets going once the pause, or the PLAN call, is over.
LEMMA BeginsStep ==
    ASSUME IInv, NEW f \in Fetchers, Begins(f)
    PROVE  IInv'
<1> DEFINE m == fetch[f].m
<1>1. /\ fetch[f].pc = "plan" /\ Starts(f, m)
      /\ UNCHANGED <<row, importing, at, shown, found, findings, messages>>
  BY DEF Begins, belt, refs, hist
<1>2. m \in Moments
  BY <1>1, InParts DEF FetchesOK, FetchOK
<1> HIDE DEF m
<1>3. /\ DiskOK' /\ FetchesOK' /\ AloneFits' /\ overlapped' \in BOOLEAN
      /\ fetch'[f].m = m /\ \A g \in Fetchers : g # f => fetch'[g] = fetch[g]
  BY <1>1, <1>2, StartsEffect DEF Fetching
<1>4. BeltOK'
  <2>1. "conveyor" \in Fetchers
    BY DEF Fetchers
  <2>2. QED BY <1>1, <1>3, <2>1, BeltStays DEF m
<1>5. BeforeTheRow'
  BY <1>1, InParts DEF BeforeTheRow
<1>6. RowOK' /\ RefsOK' /\ shown' \in 0..NumFrames
  BY <1>1, <1>3, InParts DEF RowOK, RefsOK
<1>7. QED BY <1>3, <1>4, <1>5, <1>6, FromParts

\* A clip is downloaded.
LEMMA DownloadedStep ==
    ASSUME IInv, NEW f \in Fetchers, Downloaded(f)
    PROVE  IInv'
<1>1. /\ fetch[f].pc = "download" /\ fetch' = [fetch EXCEPT ![f].pc = "extract"]
      /\ jobDir' = TRUE /\ dirs' = dirs \cup {fetch[f].m}
      /\ UNCHANGED <<row, importing, files, at, shown, found, findings, messages, overlapped>>
  BY DEF Downloaded, belt, refs, hist
<1>2. /\ RowOK /\ DiskOK /\ FetchesOK /\ RefsOK /\ shown \in 0..NumFrames /\ BeforeTheRow
      /\ fetch[f].m \in Moments /\ fetch[f] \in Calls
  BY <1>1, InParts DEF FetchesOK, FetchOK
<1>3. /\ fetch' \in [Fetchers -> Calls]
      /\ fetch'[f].pc = "extract" /\ fetch'[f].m = fetch[f].m /\ fetch'[f].want = fetch[f].want
      /\ \A g \in Fetchers : g # f => fetch'[g] = fetch[g]
  BY <1>1, <1>2 DEF FetchesOK, Calls, Fetching
<1>4. FetchesOK'
  BY <1>1, <1>2, <1>3 DEF FetchesOK, FetchOK, Fetching
<1>5. DiskOK'
  BY <1>1, <1>2 DEF DiskOK
<1>6. AloneFits'
  <2>1. \A m \in Moments : files'[m] <= files[m]
    BY <1>1, <1>2, FramesAssumption DEF DiskOK, Files
  <2>2. \A g \in Fetchers : fetch'[g].pc \in Fetching =>
              /\ fetch[g].pc \in Fetching
              /\ fetch'[g].m = fetch[g].m /\ fetch'[g].want = fetch[g].want
    BY <1>1, <1>3 DEF Fetching
  <2>3. QED BY <1>1, <1>4, <1>5, <2>1, <2>2, RoomStays
<1>7. BeltOK'
  <2>1. "conveyor" \in Fetchers
    BY DEF Fetchers
  <2>2. fetch'["conveyor"].m = fetch["conveyor"].m
    BY <1>3, <2>1
  <2>3. fetch["conveyor"].pc = "idle" => fetch'["conveyor"].pc = "idle"
    BY <1>1, <1>3, <2>1
  <2>4. QED BY <1>1, <2>2, <2>3, BeltStays
<1>8. BeforeTheRow'
  BY <1>1, <1>2 DEF BeforeTheRow
<1>9. RowOK' /\ RefsOK' /\ shown' \in 0..NumFrames
  BY <1>1, <1>2 DEF RowOK, RefsOK
<1>10. QED BY <1>4, <1>5, <1>6, <1>7, <1>8, <1>9, FromParts

\* A call that is through, successful or not: the caller has its result.
LEMMA EndsEffect ==
    ASSUME IInv, NEW f \in Fetchers, fetch[f].pc \in Fetching, NEW n \in 0..NumFrames, Ends(f, n)
    PROVE  /\ FetchesOK'
           /\ fetch'[f].pc \in {"idle", "done"}
           /\ f = "conveyor" => fetch'[f].pc = "done" /\ fetch'[f].m = fetch[f].m
           /\ \A g \in Fetchers : g # f => fetch'[g] = fetch[g]
<1> DEFINE done == [pc |-> "done", m |-> fetch[f].m, want |-> fetch[f].want, got |-> n]
<1>1. /\ FetchesOK /\ fetch[f] \in Calls /\ fetch[f].m \in Moments
  BY InParts DEF FetchesOK, FetchOK, Fetching
<1>2. fetch' = [fetch EXCEPT ![f] = IF f \in Viewers THEN Idle ELSE done]
  BY DEF Ends
<1>3. done \in Calls /\ done.pc = "done" /\ done.m = fetch[f].m
  BY <1>1 DEF Calls
<1> HIDE DEF done
<1>4. /\ fetch' \in [Fetchers -> Calls]
      /\ fetch'[f] = IF f \in Viewers THEN Idle ELSE done
      /\ \A g \in Fetchers : g # f => fetch'[g] = fetch[g]
  BY <1>1, <1>2, <1>3, IdleCall DEF FetchesOK
<1>5. fetch'[f].pc \in {"idle", "done"} /\ (fetch'[f].pc = "done" => fetch'[f].m \in Moments)
  BY <1>1, <1>3, <1>4, IdleCall
<1>6. ASSUME NEW g \in Fetchers PROVE FetchOK(g)'
  <2>1. CASE g = f
    BY <1>5, <2>1 DEF FetchOK, Fetching
  <2>2. CASE g # f
    BY <1>1, <1>4, <2>2 DEF FetchesOK, FetchOK
  <2>3. QED BY <2>1, <2>2
<1>7. f = "conveyor" => f \notin Viewers
  BY FramesAssumption
<1>8. QED BY <1>3, <1>4, <1>5, <1>6, <1>7 DEF FetchesOK

\* What follows once a call has ended within its budget.
LEMMA CallEnds ==
    ASSUME IInv, NEW f \in Fetchers, fetch[f].pc \in Fetching, NEW n \in 0..NumFrames, Ends(f, n),
           DiskOK', AloneFits',
           UNCHANGED <<row, importing, at, shown, found, findings, messages, overlapped>>
    PROVE  IInv'
<1>1. /\ FetchesOK'
      /\ fetch'[f].pc \in {"idle", "done"}
      /\ f = "conveyor" => fetch'[f].pc = "done" /\ fetch'[f].m = fetch[f].m
      /\ \A g \in Fetchers : g # f => fetch'[g] = fetch[g]
  BY EndsEffect
<1>2. BeltOK'
  <2>1. "conveyor" \in Fetchers
    BY DEF Fetchers
  <2>2. fetch'["conveyor"].m = fetch["conveyor"].m
    BY <1>1, <2>1
  <2>3. fetch["conveyor"].pc = "idle" => fetch'["conveyor"].pc = "idle"
    BY <1>1, <2>1 DEF Fetching
  <2>4. QED BY <2>2, <2>3, BeltStays
<1>3. BeforeTheRow'
  BY InParts DEF BeforeTheRow, Fetching
<1>4. RowOK' /\ RefsOK' /\ shown' \in 0..NumFrames
  BY InParts DEF RowOK, RefsOK
<1>5. QED BY <1>1, <1>2, <1>3, <1>4, FromParts

\* A frame is extracted from its clip.
LEMMA ExtractedStep ==
    ASSUME IInv, NEW f \in Fetchers, Extracted(f)
    PROVE  IInv'
<1> DEFINE m == fetch[f].m
<1>1. PICK k \in 1..fetch[f].want : /\ files' = [files EXCEPT ![m] = Bigger(files[m], k)]
                                    /\ Ends(f, files'[m])
  BY DEF Extracted, FrameCounts
<1>2. /\ fetch[f].pc \in Fetching /\ m \in dirs
      /\ UNCHANGED <<row, importing, jobDir, dirs, at, shown, found, findings, messages,
                     overlapped>>
  BY DEF Extracted, belt, refs, Fetching, hist
<1>3. fetch'[f].pc \notin Fetching /\ \A g \in Fetchers : g # f => fetch'[g] = fetch[g]
  <2>1. fetch \in [Fetchers -> Calls]
    BY InParts DEF FetchesOK
  <2>2. QED BY <1>1, <2>1, IdleCall DEF Ends, Fetching
<1>4. AloneFits' /\ files' \in Files /\ m \in Moments
  BY <1>1, <1>2, <1>3, RoomForResult
<1>5. files'[m] \in 0..NumFrames
  BY <1>4 DEF Files
<1>6. DiskOK'
  BY <1>1, <1>2, <1>4, InParts DEF DiskOK, Files
<1>7. QED BY <1>1, <1>2, <1>4, <1>5, <1>6, CallEnds

\* A fetch fails.
LEMMA FetchFailsStep ==
    ASSUME IInv, NEW f \in Fetchers, FetchFails(f)
    PROVE  IInv'
<1> DEFINE m == fetch[f].m
<1>1. /\ fetch[f].pc \in Fetching /\ Ends(f, 0)
      /\ files' = files \/ (m \in dirs /\ files' = [files EXCEPT ![m] = Bigger(files[m], 1)])
      /\ UNCHANGED <<row, importing, jobDir, dirs, at, shown, found, findings, messages,
                     overlapped>>
  BY DEF FetchFails, belt, refs, hist
<1>2. 0 \in 0..NumFrames
  BY FramesAssumption
<1>3. /\ FetchesOK' /\ fetch'[f].pc \notin Fetching
      /\ \A g \in Fetchers : g # f => fetch'[g] = fetch[g]
  BY <1>1, <1>2, EndsEffect DEF Fetching
<1>4. DiskOK' /\ AloneFits'
  <2>1. CASE files' = files
    <3>1. DiskOK'
      BY <1>1, <2>1, InParts DEF DiskOK
    <3>2. \A n \in Moments : files'[n] <= files[n]
      BY <2>1, InParts, FramesAssumption DEF DiskOK, Files
    <3>3. \A g \in Fetchers : fetch'[g].pc \in Fetching =>
              /\ fetch[g].pc \in Fetching
              /\ fetch'[g].m = fetch[g].m /\ fetch'[g].want = fetch[g].want
      BY <1>3
    <3>4. QED BY <1>1, <1>3, <3>1, <3>2, <3>3, RoomStays
  <2>2. CASE m \in dirs /\ files' = [files EXCEPT ![m] = Bigger(files[m], 1)]
    <3>1. 1 \in 1..fetch[f].want
      BY <1>1, InParts, FramesAssumption DEF FetchesOK, FetchOK
    <3>2. AloneFits' /\ files' \in Files /\ m \in Moments
      BY <1>1, <1>3, <2>2, <3>1, RoomForResult
    <3>3. DiskOK'
      BY <1>1, <2>2, <3>2, InParts DEF DiskOK, Files
    <3>4. QED BY <3>2, <3>3
  <2>3. QED BY <1>1, <2>1, <2>2
<1>5. QED BY <1>1, <1>2, <1>4, CallEnds

-----------------------------------------------------------------------------
(* The conveyor                                                             *)

\* A caller that neither downloads nor extracts any more, or not yet.
LEMMA CallSet ==
    ASSUME FetchesOK, NEW f \in Fetchers, NEW c \in Calls, c.pc \notin Fetching,
           c.pc # "idle" => c.m \in Moments, fetch' = [fetch EXCEPT ![f] = c]
    PROVE  /\ FetchesOK' /\ fetch'[f] = c
           /\ \A g \in Fetchers : g # f => fetch'[g] = fetch[g]
           /\ \A g \in Fetchers : fetch'[g].pc \in Fetching =>
                 /\ fetch[g].pc \in Fetching
                 /\ fetch'[g].m = fetch[g].m /\ fetch'[g].want = fetch[g].want
<1>1. /\ fetch' \in [Fetchers -> Calls] /\ fetch'[f] = c
      /\ \A g \in Fetchers : g # f => fetch'[g] = fetch[g]
  BY DEF FetchesOK
<1>2. ASSUME NEW g \in Fetchers PROVE FetchOK(g)'
  <2>1. CASE g = f
    BY <1>1, <2>1 DEF FetchOK
  <2>2. CASE g # f
    BY <1>1, <2>2 DEF FetchesOK, FetchOK
  <2>3. QED BY <2>1, <2>2
<1>3. FetchesOK'
  BY <1>1, <1>2 DEF FetchesOK
<1>4. ASSUME NEW g \in Fetchers, fetch'[g].pc \in Fetching
      PROVE  /\ fetch[g].pc \in Fetching
             /\ fetch'[g].m = fetch[g].m /\ fetch'[g].want = fetch[g].want
  BY <1>1, <1>4
<1>5. QED BY <1>1, <1>3, <1>4

\* A call that is planned waits for nothing yet.
LEMMA PlannedEffect ==
    ASSUME FetchesOK, NEW f \in Fetchers, NEW m \in Moments, Planned(f, m)
    PROVE  /\ FetchesOK' /\ fetch'[f].pc = "plan" /\ fetch'[f].m = m
           /\ \A g \in Fetchers : g # f => fetch'[g] = fetch[g]
           /\ \A g \in Fetchers : fetch'[g].pc \in Fetching =>
                 /\ fetch[g].pc \in Fetching
                 /\ fetch'[g].m = fetch[g].m /\ fetch'[g].want = fetch[g].want
<1> DEFINE c == [pc |-> "plan", m |-> m, want |-> 0, got |-> 0]
<1>1. m \in 0..Last /\ 0 \in 0..NumFrames
  BY FramesAssumption DEF Moments
<1>2. c \in Calls /\ c.pc = "plan" /\ c.m = m /\ c.pc \notin Fetching
  BY <1>1 DEF Calls, Fetching
<1>3. fetch' = [fetch EXCEPT ![f] = c]
  BY DEF Planned
<1> HIDE DEF c
<1>4. QED BY <1>2, <1>3, CallSet

\* With the disk as it is, and no fetch started, there is room as before.
LEMMA SameDisk ==
    ASSUME IInv, UNCHANGED <<disk, overlapped>>, FetchesOK',
           \A g \in Fetchers : fetch'[g].pc \in Fetching =>
              /\ fetch[g].pc \in Fetching
              /\ fetch'[g].m = fetch[g].m /\ fetch'[g].want = fetch[g].want
    PROVE  DiskOK' /\ AloneFits'
<1>1. DiskOK'
  BY InParts DEF DiskOK, disk
<1>2. \A n \in Moments : files'[n] <= files[n]
  BY InParts, FramesAssumption DEF DiskOK, Files, disk
<1>3. UNCHANGED overlapped
  OBVIOUS
<1>4. QED BY <1>1, <1>2, <1>3, RoomStays

\* The conveyor starts with the first moment.
LEMMA ConveyorStartsStep ==
    ASSUME IInv, ConveyorStarts
    PROVE  IInv'
<1>1. /\ row = "running" /\ at = 0 /\ at' = 1 /\ found' = {} /\ Planned("conveyor", 1)
      /\ UNCHANGED <<row, importing, disk, shown, findings, messages, overlapped>>
  BY DEF ConveyorStarts, refs, hist
<1>2. "conveyor" \in Fetchers /\ 1 \in Moments /\ Selected \in 1..Last /\ Last \in Nat
  BY FramesAssumption, SelectedType DEF Fetchers, Moments
<1>3. /\ FetchesOK' /\ fetch'["conveyor"].pc = "plan" /\ fetch'["conveyor"].m = 1
      /\ \A g \in Fetchers : fetch'[g].pc \in Fetching =>
            /\ fetch[g].pc \in Fetching
            /\ fetch'[g].m = fetch[g].m /\ fetch'[g].want = fetch[g].want
  BY <1>1, <1>2, InParts, PlannedEffect
<1>4. DiskOK' /\ AloneFits'
  BY <1>1, <1>3, SameDisk
<1>5. shown = 0
  BY <1>1, <1>2, InParts DEF BeltOK
<1>6. BeltOK'
  <2>1. Selected' = Selected
    BY DEF Selected, Capped
  <2>2. QED BY <1>1, <1>2, <1>3, <1>5, <2>1 DEF BeltOK, ConveyorInStep
<1>7. RowOK' /\ RefsOK' /\ shown' \in 0..NumFrames /\ BeforeTheRow'
  BY <1>1, InParts DEF RowOK, RefsOK, BeforeTheRow
<1>8. QED BY <1>3, <1>4, <1>6, <1>7, FromParts

\* The conveyor takes the frames of the moment it is at.
LEMMA ConveyorTakesStep ==
    ASSUME IInv, ConveyorTakes
    PROVE  IInv'
<1> DEFINE task == fetch["conveyor"]
<1>1. /\ at # 0 /\ shown = 0 /\ task.pc = "done" /\ task.m = at
      /\ shown' \in {0, task.got}
      /\ at' = (IF shown' = 0 THEN at + 1 ELSE at)
      /\ UNCHANGED <<row, importing, found, findings, messages>>
  BY DEF ConveyorTakes, refs, hist
<1>2. "conveyor" \in Fetchers /\ Selected \in 1..Last /\ Last \in Nat
  BY FramesAssumption, SelectedType DEF Fetchers
<1>3. at \in 1..Selected
  <2>1. at \in 0..(Selected + 1) /\ (at > Selected => task.pc = "idle")
    BY InParts DEF BeltOK
  <2>2. QED BY <1>1, <1>2, <2>1
<1>4. {0, task.got} \subseteq 0..NumFrames /\ RowOK /\ RefsOK /\ row # "absent"
  BY <1>1, <1>2, InParts DEF FetchesOK, Calls, BeforeTheRow
<1>5. CASE at + 1 <= Selected
  <2>1. Starts("conveyor", at + 1) /\ at + 1 \in Moments
    BY <1>2, <1>3, <1>5 DEF ConveyorTakes, NextMoment, Moments
  <2>2. /\ DiskOK' /\ FetchesOK' /\ AloneFits' /\ overlapped' \in BOOLEAN
        /\ fetch'["conveyor"].m = at + 1
    BY <1>1, <1>2, <2>1, StartsEffect DEF Fetching
  <2>3. BeltOK'
    <3>1. Selected' = Selected
      BY DEF Selected, Capped
    <3>2. CASE shown' = 0
      BY <1>1, <1>2, <1>3, <1>5, <2>2, <3>1, <3>2 DEF BeltOK, ConveyorInStep
    <3>3. CASE shown' # 0
      BY <1>1, <1>2, <1>3, <1>5, <2>2, <3>1, <3>3 DEF BeltOK, ConveyorInStep
    <3>4. QED BY <3>2, <3>3
  <2>4. RowOK' /\ RefsOK' /\ shown' \in 0..NumFrames /\ BeforeTheRow'
    BY <1>1, <1>4, <2>2, InParts DEF RowOK, RefsOK, BeforeTheRow
  <2>5. QED BY <2>2, <2>3, <2>4, FromParts
<1>6. CASE ~(at + 1 <= Selected)
  <2>1. fetch' = [fetch EXCEPT !["conveyor"] = Idle] /\ UNCHANGED <<disk, overlapped>>
    BY <1>6 DEF ConveyorTakes, NextMoment, hist
  <2>2. /\ FetchesOK' /\ fetch'["conveyor"] = Idle
        /\ \A g \in Fetchers : fetch'[g].pc \in Fetching =>
              /\ fetch[g].pc \in Fetching
              /\ fetch'[g].m = fetch[g].m /\ fetch'[g].want = fetch[g].want
    <3>1. Idle.pc \notin Fetching
      BY IdleCall DEF Fetching
    <3>2. QED BY <1>2, <2>1, <3>1, IdleCall, InParts, CallSet
  <2>3. DiskOK' /\ AloneFits'
    BY <2>1, <2>2, SameDisk
  <2>4. BeltOK'
    <3>1. Selected' = Selected /\ at = Selected
      BY <1>2, <1>3, <1>6 DEF Selected, Capped
    <3>2. QED BY <1>1, <1>2, <2>2, <3>1, IdleCall DEF BeltOK, ConveyorInStep
  <2>5. RowOK' /\ RefsOK' /\ shown' \in 0..NumFrames /\ BeforeTheRow'
    BY <1>1, <1>4, <2>1, InParts DEF RowOK, RefsOK, BeforeTheRow
  <2>6. QED BY <2>2, <2>3, <2>4, <2>5, FromParts
<1>7. QED BY <1>5, <1>6

\* A vision call shows frames that are there.
LEMMA PicksAreFrames ==
    ASSUME IInv, NEW m \in Moments, NEW n \in 0..NumFrames, NEW rs \in Picks(m, n)
    PROVE  rs \subseteq Refs
<1>1. CASE rs = {}
  BY <1>1
<1>2. CASE rs # {}
  <2>1. PICK k \in 1..n : rs = {<<m, k>>}
    BY <1>2 DEF Picks
  <2>2. k \in 1..NumFrames
    BY FramesAssumption
  <2>3. QED BY <2>1, <2>2 DEF Refs
<1>3. QED BY <1>1, <1>2

\* No fetch is started or ended, and no caller planned one.
LEMMA SameFetches ==
    ASSUME IInv, UNCHANGED fetch
    PROVE  /\ FetchesOK'
           /\ \A g \in Fetchers : fetch'[g].pc \in Fetching =>
                 /\ fetch[g].pc \in Fetching
                 /\ fetch'[g].m = fetch[g].m /\ fetch'[g].want = fetch[g].want
BY InParts DEF FetchesOK, FetchOK

\* The model has looked at the frames of a moment.
LEMMA ConveyorLooksStep ==
    ASSUME IInv, ConveyorLooks
    PROVE  IInv'
<1>1. /\ shown # 0 /\ at' = at + 1 /\ shown' = 0
      /\ UNCHANGED <<row, importing, disk, fetch, findings, messages, overlapped>>
  BY DEF ConveyorLooks, refs, hist
<1>2. Selected \in 1..Last /\ Last \in Nat /\ Selected' = Selected /\ NumFrames \in Nat
  BY FramesAssumption, SelectedType DEF Selected, Capped
<1>3. at \in 1..Selected /\ at \in Moments /\ shown \in 0..NumFrames
  BY <1>1, <1>2, InParts DEF BeltOK, Moments
<1>4. FetchesOK' /\ DiskOK' /\ AloneFits'
  BY <1>1, SameFetches, SameDisk
<1>5. BeltOK'
  <2>1. CASE at < Selected
    <3>1. fetch["conveyor"].m = at + 1
      BY <1>1, <1>3, <2>1, InParts DEF BeltOK, ConveyorInStep
    <3>2. QED BY <1>1, <1>2, <1>3, <2>1, <3>1 DEF BeltOK, ConveyorInStep
  <2>2. CASE at = Selected
    <3>1. fetch["conveyor"].pc = "idle"
      BY <1>1, <2>2, InParts DEF BeltOK
    <3>2. QED BY <1>1, <1>2, <1>3, <2>2, <3>1 DEF BeltOK, ConveyorInStep
  <2>3. QED BY <1>2, <1>3, <2>1, <2>2
<1>6. RefsOK'
  <2>1. PICK rs \in Picks(at, shown) : found' = found \cup rs
    BY DEF ConveyorLooks, hist
  <2>2. rs \subseteq Refs
    BY <1>3, <2>1, PicksAreFrames
  <2>3. QED BY <1>1, <2>1, <2>2, InParts DEF RefsOK
<1>7. row # "absent"
  BY <1>2, <1>3, InParts DEF BeforeTheRow
<1>8. RowOK' /\ shown' \in 0..NumFrames /\ BeforeTheRow'
  BY <1>1, <1>2, <1>7, InParts DEF RowOK, BeforeTheRow
<1>9. QED BY <1>4, <1>5, <1>6, <1>8, FromParts

\* The conveyor has taken all it planned.
LEMMA ConveyorEndsStep ==
    ASSUME IInv, ConveyorEnds
    PROVE  IInv'
<1>1. /\ at > Selected /\ shown = 0 /\ at' = 0
      /\ findings' \in {findings, found}
      /\ row' \in {row, "done", "failed"}
      /\ UNCHANGED <<importing, disk, fetch, shown, found, messages, overlapped>>
  BY DEF ConveyorEnds, hist
<1>2. Selected \in 1..Last /\ Selected' = Selected /\ NumFrames \in Nat /\ Last \in Nat
  BY FramesAssumption, SelectedType DEF Selected, Capped
<1>3. at # 0
  BY <1>1, <1>2
<1>4. FetchesOK' /\ DiskOK' /\ AloneFits'
  BY <1>1, SameFetches, SameDisk
<1>5. BeltOK'
  BY <1>1, <1>2 DEF BeltOK, ConveyorInStep
<1>6. RowOK' /\ RefsOK' /\ shown' \in 0..NumFrames /\ BeforeTheRow'
  BY <1>1, <1>2, <1>3, InParts DEF RowOK, RefsOK, BeforeTheRow
<1>7. QED BY <1>4, <1>5, <1>6, FromParts

\* A failed job is taken up again.
LEMMA RetryStep ==
    ASSUME IInv, Retry
    PROVE  IInv'
<1>1. /\ row = "failed" /\ row' = "running"
      /\ UNCHANGED <<importing, disk, fetch, at, shown, found, findings, messages, overlapped>>
  BY DEF Retry, refs, belt, hist
<1>2. FetchesOK' /\ DiskOK' /\ AloneFits'
  BY <1>1, SameFetches, SameDisk
<1>3. BeltOK'
  BY <1>1, BeltStays
<1>4. RowOK' /\ RefsOK' /\ shown' \in 0..NumFrames /\ BeforeTheRow'
  BY <1>1, InParts DEF RowOK, RefsOK, BeforeTheRow
<1>5. QED BY <1>2, <1>3, <1>4, FromParts

-----------------------------------------------------------------------------
(* Questions and clicks                                                     *)

\* A question asks for the frame of a moment.
LEMMA QuestionAskedStep ==
    ASSUME IInv, NEW f \in Askers, NEW m \in Moments, QuestionAsked(f, m)
    PROVE  IInv'
<1>1. /\ row = "done" /\ Planned(f, m)
      /\ UNCHANGED <<row, importing, disk, at, shown, found, findings, messages, overlapped>>
  BY DEF QuestionAsked, refs, belt, hist
<1>2. f \in Fetchers /\ "conveyor" \in Fetchers /\ f # "conveyor"
  BY FramesAssumption DEF Fetchers
<1>3. /\ FetchesOK' /\ fetch'["conveyor"] = fetch["conveyor"]
      /\ \A g \in Fetchers : fetch'[g].pc \in Fetching =>
            /\ fetch[g].pc \in Fetching
            /\ fetch'[g].m = fetch[g].m /\ fetch'[g].want = fetch[g].want
  BY <1>1, <1>2, InParts, PlannedEffect
<1>4. DiskOK' /\ AloneFits'
  BY <1>1, <1>3, SameDisk
<1>5. BeltOK'
  BY <1>1, <1>3, BeltStays
<1>6. RowOK' /\ RefsOK' /\ shown' \in 0..NumFrames /\ BeforeTheRow'
  BY <1>1, InParts DEF RowOK, RefsOK, BeforeTheRow
<1>7. QED BY <1>3, <1>4, <1>5, <1>6, FromParts

\* A question has its answer.
LEMMA QuestionAnsweredStep ==
    ASSUME IInv, NEW f \in Askers, QuestionAnswered(f)
    PROVE  IInv'
<1> DEFINE task == fetch[f]
<1>1. /\ task.pc = "done" /\ fetch' = [fetch EXCEPT ![f] = Idle]
      /\ UNCHANGED <<row, importing, disk, at, shown, found, findings, overlapped>>
  BY DEF QuestionAnswered, belt, hist
<1>2. f \in Fetchers /\ "conveyor" \in Fetchers /\ f # "conveyor"
  BY FramesAssumption DEF Fetchers
<1>3. task.m \in Moments /\ task.got \in 0..NumFrames /\ row # "absent"
  BY <1>1, <1>2, InParts DEF FetchesOK, FetchOK, Calls, BeforeTheRow
<1>4. /\ FetchesOK' /\ fetch'["conveyor"] = fetch["conveyor"]
      /\ \A g \in Fetchers : fetch'[g].pc \in Fetching =>
            /\ fetch[g].pc \in Fetching
            /\ fetch'[g].m = fetch[g].m /\ fetch'[g].want = fetch[g].want
  <2>1. Idle.pc \notin Fetching
    BY IdleCall DEF Fetching
  <2>2. QED BY <1>1, <1>2, <2>1, IdleCall, InParts, CallSet
<1>5. DiskOK' /\ AloneFits'
  BY <1>1, <1>4, SameDisk
<1>6. BeltOK'
  BY <1>1, <1>4, BeltStays
<1>7. RefsOK'
  <2>1. PICK rs \in Picks(task.m, task.got) : messages' \in {messages, messages \cup rs}
    BY DEF QuestionAnswered, hist
  <2>2. rs \subseteq Refs
    BY <1>3, <2>1, PicksAreFrames
  <2>3. QED BY <1>1, <2>1, <2>2, InParts DEF RefsOK
<1>8. RowOK' /\ shown' \in 0..NumFrames /\ BeforeTheRow'
  BY <1>1, <1>3, InParts DEF RowOK, BeforeTheRow
<1>9. QED BY <1>4, <1>5, <1>6, <1>7, <1>8, FromParts

\* The viewer clicks on a moment.
LEMMA ViewerClicksStep ==
    ASSUME IInv, NEW f \in Viewers, NEW m \in Moments, ViewerClicks(f, m)
    PROVE  IInv'
<1>1. /\ Present /\ fetch[f].pc = "idle" /\ Starts(f, m)
      /\ UNCHANGED <<row, importing, at, shown, found, findings, messages>>
  BY DEF ViewerClicks, refs, belt, hist
<1>2. f \in Fetchers /\ "conveyor" \in Fetchers /\ f # "conveyor"
  BY FramesAssumption DEF Fetchers
<1>3. /\ DiskOK' /\ FetchesOK' /\ AloneFits' /\ overlapped' \in BOOLEAN
      /\ fetch'["conveyor"] = fetch["conveyor"]
  BY <1>1, <1>2, StartsEffect DEF Fetching
<1>4. BeltOK'
  BY <1>1, <1>3, BeltStays
<1>5. RowOK' /\ RefsOK' /\ shown' \in 0..NumFrames /\ BeforeTheRow'
  BY <1>1, <1>3, InParts DEF RowOK, RefsOK, BeforeTheRow, Present
<1>6. QED BY <1>3, <1>4, <1>5, FromParts

-----------------------------------------------------------------------------
(* Import, deletion, the sweep, a crash                                     *)

\* The tree of the job is removed.
LEMMA TreeGoes ==
    ASSUME IInv, RemoveTree, UNCHANGED <<fetch, overlapped>>
    PROVE  DiskOK' /\ FetchesOK' /\ AloneFits'
<1>1. /\ FetchesOK'
      /\ \A g \in Fetchers : fetch'[g].pc \in Fetching =>
            /\ fetch[g].pc \in Fetching
            /\ fetch'[g].m = fetch[g].m /\ fetch'[g].want = fetch[g].want
  BY SameFetches
<1>2. files' \in Files /\ \A m \in Moments : files'[m] = 0
  BY FramesAssumption DEF RemoveTree, Files
<1>3. DiskOK'
  BY <1>2 DEF DiskOK, RemoveTree
<1>4. \A m \in Moments : files'[m] <= files[m]
  BY <1>2, InParts, FramesAssumption DEF DiskOK, Files
<1>5. UNCHANGED overlapped
  OBVIOUS
<1>6. QED BY <1>1, <1>3, <1>4, <1>5, RoomStays

\* The import of a bundle begins.
LEMMA ImportBeginsStep ==
    ASSUME IInv, ImportBegins
    PROVE  IInv'
<1>1. /\ row = "absent" /\ importing' = TRUE /\ jobDir' = TRUE
      /\ UNCHANGED <<row, dirs, files, fetch, at, shown, found, findings, messages, overlapped>>
  BY DEF ImportBegins, refs, belt, hist
<1>2. /\ FetchesOK'
      /\ \A g \in Fetchers : fetch'[g].pc \in Fetching =>
            /\ fetch[g].pc \in Fetching
            /\ fetch'[g].m = fetch[g].m /\ fetch'[g].want = fetch[g].want
  BY <1>1, SameFetches
<1>3. DiskOK'
  BY <1>1, InParts DEF DiskOK
<1>4. AloneFits'
  <2>1. \A m \in Moments : files'[m] <= files[m]
    BY <1>1, InParts, FramesAssumption DEF DiskOK, Files
  <2>2. UNCHANGED overlapped
    BY <1>1
  <2>3. QED BY <1>2, <1>3, <2>1, <2>2, RoomStays
<1>5. BeltOK'
  BY <1>1, BeltStays
<1>6. RowOK' /\ RefsOK' /\ shown' \in 0..NumFrames /\ BeforeTheRow'
  BY <1>1, InParts DEF RowOK, RefsOK, BeforeTheRow
<1>7. QED BY <1>2, <1>3, <1>4, <1>5, <1>6, FromParts

\* The import writes a file of the bundle.
LEMMA ImportCopiesStep ==
    ASSUME IInv, NEW m \in Moments, ImportCopies(m)
    PROVE  IInv'
<1>1. PICK n \in 1..NumFrames : files' = [files EXCEPT ![m] = n]
  BY DEF ImportCopies, hist
<1>2. /\ importing /\ jobDir' = TRUE /\ dirs' = dirs \cup {m}
      /\ UNCHANGED <<row, importing, fetch, at, shown, found, findings, messages, overlapped>>
  BY DEF ImportCopies, refs, belt, hist
<1>3. FetchesOK'
  BY <1>2, SameFetches
<1>4. files \in Files /\ \A k \in Moments : files[k] # 0 => k \in dirs
  BY InParts DEF DiskOK
<1>5. files' \in Files /\ \A k \in Moments : k # m => files'[k] = files[k]
  BY <1>1, <1>4, FramesAssumption DEF Files
<1>6. DiskOK' /\ AloneFits'
  <2>1. DiskOK'
    BY <1>2, <1>4, <1>5, InParts DEF DiskOK
  <2>2. InFlight' = {}
    BY <1>2, InParts DEF InFlight, BeforeTheRow, Fetching
  <2>3. QED BY <2>1, <2>2 DEF AloneFits
<1>7. BeltOK'
  BY <1>2, BeltStays
<1>8. RowOK' /\ RefsOK' /\ shown' \in 0..NumFrames /\ BeforeTheRow'
  BY <1>2, InParts DEF RowOK, RefsOK, BeforeTheRow
<1>9. QED BY <1>3, <1>6, <1>7, <1>8, FromParts

\* The imported row is inserted.
LEMMA ImportInsertsStep ==
    ASSUME IInv, ImportInserts
    PROVE  IInv'
<1>1. /\ importing /\ importing' = FALSE /\ row' = "done"
      /\ {findings', messages'} \subseteq SUBSET (Moments \X {1})
      /\ UNCHANGED <<disk, fetch, at, shown, found, overlapped>>
  BY DEF ImportInserts, belt, hist
<1>2. FetchesOK' /\ DiskOK' /\ AloneFits'
  BY <1>1, SameFetches, SameDisk
<1>3. BeltOK'
  BY <1>1, BeltStays
<1>4. Moments \X {1} \subseteq Refs
  <2>1. 1 \in 1..NumFrames
    BY FramesAssumption
  <2>2. QED BY <2>1 DEF Refs
<1>5. RowOK' /\ RefsOK' /\ shown' \in 0..NumFrames /\ BeforeTheRow'
  BY <1>1, <1>4, InParts DEF RowOK, RefsOK, BeforeTheRow
<1>6. QED BY <1>2, <1>3, <1>5, FromParts

\* The import fails.
LEMMA ImportFailsStep ==
    ASSUME IInv, ImportFails
    PROVE  IInv'
<1>1. /\ importing' = FALSE /\ row' = "gone" /\ (RemoveTree \/ UNCHANGED disk)
      /\ UNCHANGED <<fetch, at, shown, found, findings, messages, overlapped>>
  BY DEF ImportFails, belt, refs, hist
<1>2. FetchesOK' /\ DiskOK' /\ AloneFits'
  <2>1. CASE RemoveTree
    BY <1>1, <2>1, TreeGoes
  <2>2. CASE UNCHANGED disk
    BY <1>1, <2>2, SameFetches, SameDisk
  <2>3. QED BY <1>1, <2>1, <2>2
<1>3. BeltOK'
  BY <1>1, BeltStays
<1>4. RowOK' /\ RefsOK' /\ shown' \in 0..NumFrames /\ BeforeTheRow'
  BY <1>1, InParts DEF RowOK, RefsOK, BeforeTheRow
<1>5. QED BY <1>2, <1>3, <1>4, FromParts

\* The job is deleted.
LEMMA DeleteStep ==
    ASSUME IInv, Delete
    PROVE  IInv'
<1>1. /\ Present /\ row' = "gone" /\ findings' = {} /\ messages' = {} /\ RemoveTree
      /\ UNCHANGED <<importing, fetch, at, shown, found, overlapped>>
  BY DEF Delete, belt, hist
<1>2. FetchesOK' /\ DiskOK' /\ AloneFits'
  BY <1>1, TreeGoes
<1>3. BeltOK'
  BY <1>1, BeltStays
<1>4. RowOK' /\ RefsOK' /\ shown' \in 0..NumFrames /\ BeforeTheRow'
  BY <1>1, InParts DEF RowOK, RefsOK, BeforeTheRow, Present
<1>5. QED BY <1>2, <1>3, <1>4, FromParts

\* The cleanup removes the files of rows that are gone.
LEMMA SweepStep ==
    ASSUME IInv, Sweep
    PROVE  IInv'
<1>1. /\ RemoveTree
      /\ UNCHANGED <<row, importing, fetch, at, shown, found, findings, messages, overlapped>>
  BY DEF Sweep, belt, refs, hist
<1>2. FetchesOK' /\ DiskOK' /\ AloneFits'
  BY <1>1, TreeGoes
<1>3. BeltOK'
  BY <1>1, BeltStays
<1>4. RowOK' /\ RefsOK' /\ shown' \in 0..NumFrames /\ BeforeTheRow'
  BY <1>1, InParts DEF RowOK, RefsOK, BeforeTheRow
<1>5. QED BY <1>2, <1>3, <1>4, FromParts

\* The daemon stops and starts again.
LEMMA CrashStep ==
    ASSUME IInv, Crash
    PROVE  IInv'
<1>1. /\ importing' = FALSE /\ fetch' = [f \in Fetchers |-> Idle]
      /\ at' = 0 /\ shown' = 0 /\ found' = {}
      /\ findings' \in {findings, {}} /\ messages' \in {messages, {}}
      /\ UNCHANGED <<disk, overlapped>>
  BY DEF Crash, hist
<1>2. row' \in {"absent", "running", "failed", "done", "gone"}
  <2>1. row \in {"absent", "running", "failed", "done", "gone"}
    BY InParts DEF RowOK
  <2>2. CASE row = "running"
    BY <2>2 DEF Crash
  <2>3. CASE row \in {"done", "failed"}
    BY <2>3 DEF Crash
  <2>4. CASE row \in {"absent", "gone"}
    <3>1. row' \in {IF importing THEN "gone" ELSE row}
      BY <2>4 DEF Crash
    <3>2. QED BY <2>4, <3>1
  <2>5. QED BY <2>1, <2>2, <2>3, <2>4
<1>3. /\ fetch' \in [Fetchers -> Calls] /\ \A f \in Fetchers : fetch'[f] = Idle
  BY <1>1, IdleCall
<1>4. FetchesOK'
  BY <1>3, IdleCall DEF FetchesOK, FetchOK, Fetching
<1>5. \A g \in Fetchers : fetch'[g].pc \notin Fetching
  BY <1>3, IdleCall DEF Fetching
<1>6. DiskOK' /\ AloneFits'
  BY <1>1, <1>4, <1>5, SameDisk
<1>7. BeltOK'
  <2>1. Selected \in 1..Last /\ Selected' = Selected /\ Last \in Nat
    BY FramesAssumption, SelectedType DEF Selected, Capped
  <2>2. QED BY <1>1, <2>1 DEF BeltOK, ConveyorInStep
<1>8. RowOK' /\ RefsOK' /\ shown' \in 0..NumFrames /\ BeforeTheRow'
  <2>1. 0 \in 0..NumFrames
    BY FramesAssumption
  <2>2. QED BY <1>1, <1>2, <1>3, <2>1, IdleCall, InParts DEF RowOK, RefsOK, BeforeTheRow
<1>9. QED BY <1>4, <1>6, <1>7, <1>8, FromParts

-----------------------------------------------------------------------------
(* The invariant                                                            *)

\* A job starts with no frames and no caller.
LEMMA InitEstablishes ==
    ASSUME Init
    PROVE  IInv
<1>1. Last \in Nat \ {0} /\ NumFrames \in Nat \ {0} /\ Budget \in Nat \ {0}
  BY FramesAssumption
<1>2. /\ files = [m \in Moments |-> 0] /\ files \in Files /\ dirs = {} /\ jobDir = FALSE
      /\ row \in {"running", "absent"} /\ importing = FALSE /\ overlapped = FALSE
      /\ at = 0 /\ shown = 0 /\ found = {} /\ findings = {} /\ messages = {}
  BY <1>1 DEF Init, Files
<1>3. /\ fetch \in [Fetchers -> Calls] /\ \A f \in Fetchers : fetch[f] = Idle
  BY IdleCall DEF Init
<1>4. RowOK /\ DiskOK /\ RefsOK /\ shown \in 0..NumFrames
  <2>1. \A m \in Moments : files[m] = 0
    BY <1>2
  <2>2. RefsOK /\ shown \in 0..NumFrames
    BY <1>1, <1>2 DEF RefsOK
  <2>3. QED BY <1>2, <2>1, <2>2 DEF RowOK, DiskOK
<1>5. FetchesOK
  BY <1>3, IdleCall DEF FetchesOK, FetchOK, Fetching
<1>6. BeltOK
  <2>1. Selected \in 1..Last
    BY SelectedType
  <2>2. QED BY <1>1, <1>2, <2>1 DEF BeltOK, ConveyorInStep
<1>7. BeforeTheRow
  BY <1>2, <1>3, IdleCall DEF BeforeTheRow
<1>8. AloneFits
  <2>1. InFlight = {}
    BY <1>3, IdleCall DEF InFlight, Fetching
  <2>2. QED BY <2>1 DEF AloneFits
<1>9. QED BY <1>4, <1>5, <1>6, <1>7, <1>8 DEF IInv

\* A step that changes nothing that is modelled.
LEMMA StutterStep ==
    ASSUME IInv, UNCHANGED vars
    PROVE  IInv'
<1>1. /\ UNCHANGED <<row, importing, disk, fetch, at, shown, found, findings, messages,
                     overlapped>>
  BY DEF vars, belt, refs, hist
<1>2. FetchesOK' /\ DiskOK' /\ AloneFits'
  BY <1>1, SameFetches, SameDisk
<1>3. BeltOK'
  BY <1>1, BeltStays
<1>4. RowOK' /\ RefsOK' /\ shown' \in 0..NumFrames /\ BeforeTheRow'
  BY <1>1, InParts DEF RowOK, RefsOK, BeforeTheRow
<1>5. QED BY <1>2, <1>3, <1>4, FromParts

\* Every step keeps the invariant.
LEMMA StepKeeps ==
    ASSUME IInv, [Next]_vars
    PROVE  IInv'
<1>1. ASSUME NEW f \in Fetchers, Begins(f) \/ FetchEnds(f) PROVE IInv'
  BY <1>1, BeginsStep, DownloadedStep, ExtractedStep, FetchFailsStep DEF FetchEnds
<1>2. CASE ConveyorStarts \/ ConveyorTakes \/ ConveyorLooks \/ ConveyorEnds \/ Retry
  BY <1>2, ConveyorStartsStep, ConveyorTakesStep, ConveyorLooksStep, ConveyorEndsStep, RetryStep
<1>3. ASSUME NEW f \in Askers,
             QuestionAnswered(f) \/ \E m \in Moments : QuestionAsked(f, m)
      PROVE  IInv'
  BY <1>3, QuestionAnsweredStep, QuestionAskedStep
<1>4. ASSUME NEW f \in Viewers, NEW m \in Moments, ViewerClicks(f, m) PROVE IInv'
  BY <1>4, ViewerClicksStep
<1>5. CASE ImportBegins \/ ImportInserts \/ ImportFails \/ \E m \in Moments : ImportCopies(m)
  BY <1>5, ImportBeginsStep, ImportInsertsStep, ImportFailsStep, ImportCopiesStep
<1>6. CASE Delete \/ Sweep \/ Crash
  BY <1>6, DeleteStep, SweepStep, CrashStep
<1>7. CASE UNCHANGED vars
  BY <1>7, StutterStep
<1>8. QED BY <1>1, <1>2, <1>3, <1>4, <1>5, <1>6, <1>7 DEF Next

\* The inductive invariant holds in every state.
THEOREM Invariance == Spec => []IInv
<1>1. Init => IInv
  BY InitEstablishes
<1>2. IInv /\ [Next]_vars => IInv'
  BY StepKeeps
<1>3. QED BY <1>1, <1>2, PTL DEF Spec

\* The conveyor waits for the moment it is at, and for no other.
THEOREM ConveyorKeepsStep == Spec => []ConveyorInStep
<1>1. IInv => ConveyorInStep
  BY DEF IInv, BeltOK
<1>2. QED BY <1>1, Invariance, PTL

-----------------------------------------------------------------------------
(* The budget                                                               *)

\* Where no moment has more files than before, the job has no more frames.
LEMMA NoMore ==
    ASSUME IInv, IInv', \A m \in Moments : files'[m] <= files[m]
    PROVE  ~(Total' > Total)
<1>1. files \in Files /\ files' \in Files /\ 1 \in Moments
  BY InParts, FramesAssumption DEF IInv, DiskOK, Moments
<1>2. Cardinality(ShownIn(files')) <= Cardinality(ShownIn(files))
  BY <1>1, FewerFrames
<1>3. Cardinality(ShownIn(files')) \in Nat /\ Cardinality(ShownIn(files)) \in Nat
  <2>1. ShownIn(files') \in SUBSET Refs /\ ShownIn(files) \in SUBSET Refs
    BY DEF ShownIn
  <2>2. QED BY <2>1, FramesFinite
<1>4. Total = Cardinality(ShownIn(files)) /\ Total' = Cardinality(ShownIn(files'))
  BY DEF Total, Shows, ShownIn
<1>5. QED BY <1>2, <1>3, <1>4

\* Which steps add files: a call that is through, or half-way, and an import.
LEMMA WhoAdds ==
    ASSUME IInv, [Next]_vars, ~importing
    PROVE  \/ \A m \in Moments : files'[m] <= files[m]
           \/ \E f \in Fetchers :
                 /\ fetch[f].pc \in Fetching /\ UNCHANGED overlapped
                 /\ \E k \in 1..fetch[f].want :
                       files' = [files EXCEPT ![fetch[f].m] = Bigger(files[fetch[f].m], k)]
<1>1. files \in Files /\ NumFrames \in Nat /\ \A m \in Moments : files[m] \in 0..NumFrames
  BY InParts, FramesAssumption DEF DiskOK, Files
<1>2. ASSUME UNCHANGED files PROVE \A m \in Moments : files'[m] <= files[m]
  BY <1>1, <1>2
<1>3. ASSUME NEW m \in Moments, files' = [files EXCEPT ![m] = 0]
      PROVE  \A n \in Moments : files'[n] <= files[n]
  BY <1>1, <1>3 DEF Files
<1>4. ASSUME RemoveTree PROVE \A m \in Moments : files'[m] <= files[m]
  BY <1>1, <1>4 DEF RemoveTree
<1>5. ASSUME NEW f \in Fetchers, Begins(f) PROVE \A m \in Moments : files'[m] <= files[m]
  <2>1. fetch[f].m \in Moments
    BY <1>5, InParts DEF Begins, FetchesOK, FetchOK
  <2>2. files' = [files EXCEPT ![fetch[f].m] = 0]
    BY <1>5 DEF Begins, Starts
  <2>3. QED BY <1>3, <2>1, <2>2
<1>6. ASSUME NEW f \in Fetchers, Extracted(f) \/ FetchFails(f)
      PROVE  \/ UNCHANGED files
             \/ /\ fetch[f].pc \in Fetching /\ UNCHANGED overlapped
                /\ \E k \in 1..fetch[f].want :
                      files' = [files EXCEPT ![fetch[f].m] = Bigger(files[fetch[f].m], k)]
  <2>1. CASE Extracted(f)
    BY <2>1 DEF Extracted, FrameCounts, hist, Fetching
  <2>2. CASE FetchFails(f)
    <3>1. fetch[f].pc \in Fetching /\ UNCHANGED overlapped
      BY <2>2 DEF FetchFails, hist
    <3>2. 1 \in 1..fetch[f].want
      BY <3>1, InParts, FramesAssumption DEF FetchesOK, FetchOK
    <3>3. UNCHANGED files \/ files' = [files EXCEPT ![fetch[f].m] = Bigger(files[fetch[f].m], 1)]
      BY <2>2 DEF FetchFails
    <3>4. QED BY <3>1, <3>2, <3>3
  <2>3. QED BY <1>6, <2>1, <2>2
<1>7. ASSUME NEW f \in Fetchers, Downloaded(f) PROVE UNCHANGED files
  BY <1>7 DEF Downloaded
<1>8. ASSUME ConveyorTakes PROVE \A m \in Moments : files'[m] <= files[m]
  <2>1. CASE NextMoment <= Selected
    <3>1. files' = [files EXCEPT ![NextMoment] = 0]
      BY <1>8, <2>1 DEF ConveyorTakes, Starts
    <3>2. NextMoment \in Moments
      <4>1. at \in 0..(Selected + 1) /\ Selected \in 1..Last /\ Last \in Nat
        BY InParts, SelectedType, FramesAssumption DEF BeltOK
      <4>2. QED BY <2>1, <4>1 DEF NextMoment, Moments
    <3>3. QED BY <1>3, <3>1, <3>2
  <2>2. CASE ~(NextMoment <= Selected)
    <3>1. UNCHANGED files
      BY <1>8, <2>2 DEF ConveyorTakes, disk
    <3>2. QED BY <1>2, <3>1
  <2>3. QED BY <2>1, <2>2
<1>9. ASSUME ConveyorStarts \/ ConveyorLooks \/ ConveyorEnds \/ Retry PROVE UNCHANGED files
  BY <1>9 DEF ConveyorStarts, ConveyorLooks, ConveyorEnds, Retry, disk
<1>10. ASSUME NEW f \in Askers, QuestionAnswered(f) \/ \E m \in Moments : QuestionAsked(f, m)
       PROVE  UNCHANGED files
  BY <1>10 DEF QuestionAnswered, QuestionAsked, disk
<1>11. ASSUME NEW f \in Viewers, NEW m \in Moments, ViewerClicks(f, m)
       PROVE  \A n \in Moments : files'[n] <= files[n]
  <2>1. files' = [files EXCEPT ![m] = 0]
    BY <1>11 DEF ViewerClicks, Starts
  <2>2. QED BY <1>3, <2>1
<1>12. ASSUME ImportBegins \/ ImportInserts \/ ImportFails \/ \E m \in Moments : ImportCopies(m)
       PROVE  UNCHANGED files
  <2>1. ~ImportInserts /\ ~ImportFails /\ \A m \in Moments : ~ImportCopies(m)
    BY DEF ImportInserts, ImportFails, ImportCopies
  <2>2. QED BY <1>12, <2>1 DEF ImportBegins
<1>13. ASSUME Delete \/ Sweep \/ Crash PROVE RemoveTree \/ UNCHANGED files
  BY <1>13 DEF Delete, Sweep, Crash, disk
<1>14. CASE UNCHANGED vars
  BY <1>2, <1>14 DEF vars, disk
<1>15. CASE \E f \in Fetchers : Begins(f) \/ FetchEnds(f)
  BY <1>2, <1>5, <1>6, <1>7, <1>15 DEF FetchEnds
<1>16. CASE \/ ConveyorStarts \/ ConveyorTakes \/ ConveyorLooks \/ ConveyorEnds \/ Retry
  BY <1>2, <1>8, <1>9, <1>16
<1>17. CASE \/ \E f \in Askers : QuestionAnswered(f) \/ \E m \in Moments : QuestionAsked(f, m)
            \/ \E f \in Viewers : \E m \in Moments : ViewerClicks(f, m)
  BY <1>2, <1>10, <1>11, <1>17
<1>18. CASE \/ ImportBegins \/ ImportInserts \/ ImportFails \/ \E m \in Moments : ImportCopies(m)
            \/ Delete \/ Sweep \/ Crash
  BY <1>2, <1>4, <1>12, <1>13, <1>18
<1>19. QED BY <1>14, <1>15, <1>16, <1>17, <1>18 DEF Next

\* Whatever adds frames leaves the job within its budget, unless fetches overlapped
\* or an import copies what its bundle has: across callers, retries, replaced
\* frames, crashes, and jobs that were imported with more than the budget.
THEOREM BudgetHolds == Spec => AloneWithinBudget
<1>1. ASSUME IInv, IInv', [Next]_vars, ~overlapped', ~importing, Total' > Total
      PROVE  Total' <= Budget
  <2>1. PICK f \in Fetchers :
           /\ fetch[f].pc \in Fetching /\ UNCHANGED overlapped
           /\ \E k \in 1..fetch[f].want :
                 files' = [files EXCEPT ![fetch[f].m] = Bigger(files[fetch[f].m], k)]
    BY <1>1, WhoAdds, NoMore
  <2>2. QED BY <1>1, <2>1, ResultFits
<1>2. IInv /\ IInv' /\ [Next]_vars =>
         [~overlapped' /\ ~importing /\ Total' > Total => Total' <= Budget]_vars
  BY <1>1
<1>3. QED BY <1>2, Invariance, PTL DEF Spec, AloneWithinBudget

-----------------------------------------------------------------------------
(* The frames that are referred to                                          *)

\* The first k frames of a moment are there, or were taken away with the others.
Kept(m, k) == k <= files[m] \/ m \in lost

\* What is stored, what the conveyor has found, and what vision calls look at.
\* Before the row of an import there is nothing of the kind.
Served ==
    /\ lost \subseteq Moments
    /\ row = "absent" => found = {}
    /\ Present =>
          /\ \A r \in findings \cup messages \cup found : Kept(r[1], r[2])
          /\ \A f \in Askers : fetch[f].pc = "done" => Kept(fetch[f].m, fetch[f].got)
          /\ shown # 0 => Kept(at, shown)

\* While the job is there, a moment keeps its files unless they are cleared for a
\* fetch that says so.
FilesKept ==
    /\ lost \subseteq lost' /\ lost' \subseteq Moments
    /\ \A m \in Moments : files[m] <= files'[m] \/ m \in lost'

\* A step of a job that is there before and after it keeps its files.
LEMMA FilesStay ==
    ASSUME IInv, IInv', lost \subseteq Moments, [Next]_vars, Present, Present'
    PROVE  FilesKept
<1>1. files \in Files /\ NumFrames \in Nat /\ \A m \in Moments : files[m] \in 0..NumFrames
  BY InParts, FramesAssumption DEF DiskOK, Files
<1>2. row # "absent" /\ row # "gone" /\ row' # "gone" /\ ~importing
  BY InParts DEF Present, BeforeTheRow
<1>3. ASSUME UNCHANGED <<files, lost>> PROVE FilesKept
  BY <1>1, <1>3 DEF FilesKept
<1>4. ASSUME NEW m \in Moments, files' = [files EXCEPT ![m] = 0], Loses(m) PROVE FilesKept
  BY <1>1, <1>4 DEF FilesKept, Loses, Files
<1>5. ASSUME NEW f \in Fetchers, Begins(f) PROVE FilesKept
  <2>1. fetch[f].m \in Moments
    BY <1>5, InParts DEF Begins, FetchesOK, FetchOK
  <2>2. files' = [files EXCEPT ![fetch[f].m] = 0] /\ Loses(fetch[f].m)
    BY <1>5 DEF Begins, Starts
  <2>3. QED BY <1>4, <2>1, <2>2
<1>6. ASSUME NEW f \in Fetchers, Extracted(f) \/ FetchFails(f) PROVE FilesKept
  <2> DEFINE m == fetch[f].m
  <2>1. /\ fetch[f].pc \in Fetching /\ UNCHANGED lost /\ m \in Moments
        /\ fetch[f].want \in 1..NumFrames
    BY <1>6, InParts DEF Extracted, FetchFails, Fetching, hist, FetchesOK, FetchOK
  <2>2. UNCHANGED files \/ \E k \in 1..fetch[f].want :
                              files' = [files EXCEPT ![m] = Bigger(files[m], k)]
    <3>1. CASE Extracted(f)
      BY <3>1 DEF Extracted, FrameCounts
    <3>2. CASE FetchFails(f)
      <4>1. 1 \in 1..fetch[f].want
        BY <2>1, FramesAssumption
      <4>2. UNCHANGED files \/ files' = [files EXCEPT ![m] = Bigger(files[m], 1)]
        BY <3>2 DEF FetchFails
      <4>3. QED BY <4>1, <4>2
    <3>3. QED BY <1>6, <3>1, <3>2
  <2>3. ASSUME NEW k \in 1..fetch[f].want, files' = [files EXCEPT ![m] = Bigger(files[m], k)]
        PROVE  FilesKept
    <3>1. k \in Nat /\ files[m] \in Nat /\ files[m] <= Bigger(files[m], k)
      BY <1>1, <2>1 DEF Bigger
    <3>2. \A n \in Moments : files[n] <= files'[n]
      BY <1>1, <2>1, <2>3, <3>1 DEF Files
    <3>3. QED BY <2>1, <3>2 DEF FilesKept
  <2>4. QED BY <1>3, <2>1, <2>2, <2>3
<1>7. ASSUME NEW f \in Fetchers, Downloaded(f) PROVE FilesKept
  BY <1>3, <1>7 DEF Downloaded, hist
<1>8. ASSUME ConveyorTakes PROVE FilesKept
  <2>1. CASE NextMoment <= Selected
    <3>1. files' = [files EXCEPT ![NextMoment] = 0] /\ Loses(NextMoment)
      BY <1>8, <2>1 DEF ConveyorTakes, Starts
    <3>2. NextMoment \in Moments
      <4>1. at \in 0..(Selected + 1) /\ Selected \in 1..Last /\ Last \in Nat
        BY InParts, SelectedType, FramesAssumption DEF BeltOK
      <4>2. QED BY <2>1, <4>1 DEF NextMoment, Moments
    <3>3. QED BY <1>4, <3>1, <3>2
  <2>2. CASE ~(NextMoment <= Selected)
    <3>1. UNCHANGED <<files, lost>>
      BY <1>8, <2>2 DEF ConveyorTakes, disk, hist
    <3>2. QED BY <1>3, <3>1
  <2>3. QED BY <2>1, <2>2
<1>9. ASSUME ConveyorStarts \/ ConveyorLooks \/ ConveyorEnds \/ Retry PROVE FilesKept
  <2>1. UNCHANGED <<files, lost>>
    BY <1>9 DEF ConveyorStarts, ConveyorLooks, ConveyorEnds, Retry, disk, hist
  <2>2. QED BY <1>3, <2>1
<1>10. ASSUME NEW f \in Askers, QuestionAnswered(f) \/ \E m \in Moments : QuestionAsked(f, m)
       PROVE  FilesKept
  BY <1>3, <1>10 DEF QuestionAnswered, QuestionAsked, disk, hist
<1>11. ASSUME NEW f \in Viewers, NEW m \in Moments, ViewerClicks(f, m) PROVE FilesKept
  <2>1. files[m] = 0 /\ files' = [files EXCEPT ![m] = 0] /\ UNCHANGED lost
    BY <1>11 DEF ViewerClicks, Starts
  <2>2. files' = files
    BY <1>1, <2>1 DEF Files
  <2>3. QED BY <1>3, <2>1, <2>2
<1>12. ~(\/ ImportBegins \/ ImportInserts \/ ImportFails \/ \E m \in Moments : ImportCopies(m)
         \/ Delete \/ Sweep)
  BY <1>2 DEF ImportBegins, ImportInserts, ImportFails, ImportCopies, Delete, Sweep
<1>13. ASSUME Crash PROVE FilesKept
  BY <1>2, <1>3, <1>13 DEF Crash, disk
<1>14. CASE UNCHANGED vars
  BY <1>3, <1>14 DEF vars, disk, hist
<1>15. CASE \E f \in Fetchers : Begins(f) \/ FetchEnds(f)
  BY <1>5, <1>6, <1>7, <1>15 DEF FetchEnds
<1>16. CASE \/ \E f \in Askers : QuestionAnswered(f) \/ \E m \in Moments : QuestionAsked(f, m)
            \/ \E f \in Viewers : \E m \in Moments : ViewerClicks(f, m)
  BY <1>10, <1>11, <1>16
<1>17. QED BY <1>8, <1>9, <1>12, <1>13, <1>14, <1>15, <1>16 DEF Next

\* What was kept is kept.
LEMMA KeptStays ==
    ASSUME IInv, IInv', FilesKept, NEW m \in Moments, NEW k \in 0..NumFrames, Kept(m, k)
    PROVE  Kept(m, k)'
<1>1. files[m] \in 0..NumFrames /\ files'[m] \in 0..NumFrames /\ NumFrames \in Nat
  BY InParts, FramesAssumption DEF IInv, DiskOK, Files
<1>2. files[m] <= files'[m] \/ m \in lost'
  BY DEF FilesKept
<1>3. CASE k <= files[m]
  BY <1>1, <1>2, <1>3 DEF Kept
<1>4. CASE m \in lost
  BY <1>4 DEF Kept, FilesKept
<1>5. QED BY <1>3, <1>4 DEF Kept

\* Fewer frames of a moment are kept with more.
LEMMA KeptLess ==
    ASSUME IInv, NEW m \in Moments, NEW n \in 0..NumFrames, Kept(m, n), NEW k \in 0..n
    PROVE  Kept(m, k)
<1>1. files[m] \in 0..NumFrames /\ NumFrames \in Nat
  BY InParts, FramesAssumption DEF DiskOK, Files
<1>2. QED BY <1>1 DEF Kept

\* Only moments are lost, and what a bundle refers to are frames of moments.
LEMMA LostType ==
    ASSUME IInv, IInv', lost \subseteq Moments, [Next]_vars
    PROVE  lost' \subseteq Moments
<1>1. ASSUME NEW m \in Moments, Loses(m) PROVE lost' \subseteq Moments
  BY <1>1 DEF Loses
<1>2. ASSUME NEW f \in Fetchers, Begins(f) PROVE lost' \subseteq Moments
  <2>1. fetch[f].m \in Moments /\ Loses(fetch[f].m)
    BY <1>2, InParts DEF Begins, FetchesOK, FetchOK
  <2>2. QED BY <1>1, <2>1
<1>3. ASSUME ConveyorTakes PROVE lost' \subseteq Moments
  <2>1. CASE NextMoment <= Selected
    <3>1. Loses(NextMoment)
      BY <1>3, <2>1 DEF ConveyorTakes
    <3>2. NextMoment \in Moments
      <4>1. at \in 0..(Selected + 1) /\ Selected \in 1..Last /\ Last \in Nat
        BY InParts, SelectedType, FramesAssumption DEF BeltOK
      <4>2. QED BY <2>1, <4>1 DEF NextMoment, Moments
    <3>3. QED BY <1>1, <3>1, <3>2
  <2>2. CASE ~(NextMoment <= Selected)
    BY <1>3, <2>2 DEF ConveyorTakes, hist
  <2>3. QED BY <2>1, <2>2
<1>4. ASSUME ImportInserts PROVE lost' \subseteq Moments
  <2>1. PICK S, T \in {{}} \cup {{<<m, 1>>} : m \in Moments} :
           lost' = lost \cup {r[1] : r \in {s \in S \cup T : ~Shows(s)}}
    BY <1>4 DEF ImportInserts
  <2>2. \A r \in S \cup T : r[1] \in Moments
    OBVIOUS
  <2>3. QED BY <2>1, <2>2
<1>5. ASSUME Delete \/ Crash PROVE lost' \subseteq Moments
  BY <1>5 DEF Delete, Crash
<1>6. ASSUME NEW f \in Fetchers, FetchEnds(f) PROVE UNCHANGED lost
  BY <1>6 DEF FetchEnds, Downloaded, Extracted, FetchFails, hist
<1>7. ASSUME \/ ConveyorStarts \/ ConveyorLooks \/ ConveyorEnds \/ Retry
             \/ \E f \in Askers : QuestionAnswered(f) \/ \E m \in Moments : QuestionAsked(f, m)
             \/ \E f \in Viewers : \E m \in Moments : ViewerClicks(f, m)
      PROVE  UNCHANGED lost
  BY <1>7 DEF ConveyorStarts, ConveyorLooks, ConveyorEnds, Retry, QuestionAnswered,
              QuestionAsked, ViewerClicks, hist
<1>8. ASSUME ImportBegins \/ ImportFails \/ (\E m \in Moments : ImportCopies(m)) \/ Sweep
      PROVE  UNCHANGED lost
  BY <1>8 DEF ImportBegins, ImportFails, ImportCopies, Sweep, hist
<1>9. CASE UNCHANGED vars
  BY <1>9 DEF vars, hist
<1>10. QED BY <1>2, <1>3, <1>4, <1>5, <1>6, <1>7, <1>8, <1>9 DEF Next

\* Only an import makes a job present, and there is nothing found without one.
LEMMA RowsCome ==
    ASSUME IInv, [Next]_vars
    PROVE  /\ Present' => Present \/ ImportInserts
           /\ row' = "absent" => row = "absent" /\ (found' = found \/ found' = {})
<1>1. ASSUME NEW f \in Fetchers, Begins(f) \/ FetchEnds(f) PROVE UNCHANGED <<row, found>>
  BY <1>1 DEF Begins, FetchEnds, Downloaded, Extracted, FetchFails, belt
<1>2. ASSUME ConveyorStarts \/ ConveyorTakes \/ Retry
      PROVE  /\ Present' => Present
             /\ row' # "absent" \/ UNCHANGED <<row, found>>
  BY <1>2 DEF ConveyorStarts, ConveyorTakes, Retry, Present, belt
<1>3. ASSUME ConveyorLooks PROVE row # "absent" /\ UNCHANGED row
  <2>1. shown # 0 /\ UNCHANGED row /\ at \in 1..Selected /\ Selected \in 1..Last /\ Last \in Nat
    BY <1>3, InParts, SelectedType, FramesAssumption DEF ConveyorLooks, BeltOK
  <2>2. at # 0
    BY <2>1
  <2>3. QED BY <2>1, <2>2, InParts DEF BeforeTheRow
<1>4. ASSUME ConveyorEnds PROVE (Present' => Present) /\ (row' = "absent" => row = "absent")
                                /\ found' = found
  BY <1>4 DEF ConveyorEnds, Present
<1>5. ASSUME \/ \E f \in Askers : QuestionAnswered(f) \/ \E m \in Moments : QuestionAsked(f, m)
             \/ \E f \in Viewers : \E m \in Moments : ViewerClicks(f, m)
             \/ ImportBegins \/ (\E m \in Moments : ImportCopies(m)) \/ Sweep
      PROVE  UNCHANGED <<row, found>>
  BY <1>5 DEF QuestionAnswered, QuestionAsked, ViewerClicks, ImportBegins, ImportCopies, Sweep,
              belt
<1>6. ASSUME ImportFails \/ Delete PROVE row' = "gone"
  BY <1>6 DEF ImportFails, Delete
<1>7. ASSUME ImportInserts PROVE row' = "done"
  BY <1>7 DEF ImportInserts
<1>8. ASSUME Crash
      PROVE  (Present' => Present) /\ (row' = "absent" => row = "absent") /\ found' = {}
  <2>1. row \in {"absent", "running", "failed", "done", "gone"} /\ found' = {}
    BY <1>8, InParts DEF RowOK, Crash
  <2>2. CASE row = "running"
    BY <1>8, <2>1, <2>2 DEF Crash, Present
  <2>3. CASE row \in {"done", "failed"}
    BY <1>8, <2>1, <2>3 DEF Crash, Present
  <2>4. CASE row \in {"absent", "gone"}
    <3>1. row' \in {"gone", row}
      <4>1. row' \in {IF importing THEN "gone" ELSE row}
        BY <1>8, <2>4 DEF Crash
      <4>2. QED BY <4>1
    <3>2. QED BY <2>1, <2>4, <3>1 DEF Present
  <2>5. QED BY <2>1, <2>2, <2>3, <2>4
<1>9. CASE UNCHANGED vars
  BY <1>9 DEF vars, belt, Present
<1>10. CASE \E f \in Fetchers : Begins(f) \/ FetchEnds(f)
  BY <1>1, <1>10 DEF Present
<1>11. CASE \/ ConveyorStarts \/ ConveyorTakes \/ ConveyorLooks \/ ConveyorEnds \/ Retry
  BY <1>2, <1>3, <1>4, <1>11 DEF Present
<1>12. CASE \/ \E f \in Askers : QuestionAnswered(f) \/ \E m \in Moments : QuestionAsked(f, m)
            \/ \E f \in Viewers : \E m \in Moments : ViewerClicks(f, m)
            \/ ImportBegins \/ (\E m \in Moments : ImportCopies(m)) \/ Sweep
  BY <1>5, <1>12 DEF Present
<1>13. CASE ImportFails \/ Delete \/ ImportInserts \/ Crash
  BY <1>6, <1>7, <1>8, <1>13 DEF Present
<1>14. QED BY <1>9, <1>10, <1>11, <1>12, <1>13 DEF Next

\* What is referred to is kept: nothing new is, but what a vision call looks at.
LEMMA RefsStep ==
    ASSUME IInv, IInv', Served, [Next]_vars, Present, Present', FilesKept
    PROVE  (\A r \in findings \cup messages \cup found : Kept(r[1], r[2]))'
<1> DEFINE old == findings \cup messages \cup found
           Picked(r) == \E m \in Moments, n \in 0..NumFrames :
                           /\ Kept(m, n)
                           /\ \E k \in 1..n : r = <<m, k>>
<1>1. \A r \in old : r \in Refs /\ Kept(r[1], r[2])
  BY InParts DEF RefsOK, Served
<1>2. ~importing /\ row' # "gone" /\ row # "absent"
  BY InParts DEF Present, BeforeTheRow
<1>3. \A r \in findings' \cup messages' \cup found' : r \in old \/ Picked(r)
  <2>1. ASSUME NEW f \in Fetchers, Begins(f) \/ FetchEnds(f)
        PROVE  UNCHANGED <<findings, messages, found>>
    BY <2>1 DEF Begins, FetchEnds, Downloaded, Extracted, FetchFails, belt, refs
  <2>2. ASSUME ConveyorStarts \/ ConveyorTakes \/ ConveyorEnds \/ Retry
        PROVE  /\ messages' = messages /\ findings' \in {findings, found}
               /\ found' \in {found, {}}
    BY <2>2 DEF ConveyorStarts, ConveyorTakes, ConveyorEnds, Retry, belt, refs
  <2>3. ASSUME ConveyorLooks PROVE \A r \in findings' \cup messages' \cup found' :
                                      r \in old \/ Picked(r)
    <3>1. PICK rs \in Picks(at, shown) : found' = found \cup rs
      BY <2>3 DEF ConveyorLooks
    <3>2. UNCHANGED <<findings, messages>> /\ shown # 0
      BY <2>3 DEF ConveyorLooks, refs
    <3>3. at \in Moments /\ shown \in 0..NumFrames
      <4>1. at \in 1..Selected /\ Selected \in 1..Last /\ Last \in Nat /\ shown \in 0..NumFrames
        BY <3>2, InParts, SelectedType, FramesAssumption DEF BeltOK
      <4>2. QED BY <4>1 DEF Moments
    <3>4. Kept(at, shown)
      BY <3>2 DEF Served
    <3>5. \A r \in rs : Picked(r)
      BY <3>3, <3>4 DEF Picks
    <3> HIDE DEF Picked
    <3>6. QED BY <3>1, <3>2, <3>5
  <2>4. ASSUME NEW f \in Askers, QuestionAnswered(f)
        PROVE  \A r \in findings' \cup messages' \cup found' : r \in old \/ Picked(r)
    <3> DEFINE task == fetch[f]
    <3>1. PICK rs \in Picks(task.m, task.got) : messages' \in {messages, messages \cup rs}
      BY <2>4 DEF QuestionAnswered
    <3>2. UNCHANGED <<findings, found>> /\ task.pc = "done"
      BY <2>4 DEF QuestionAnswered, belt
    <3>3. task.m \in Moments /\ task.got \in 0..NumFrames
      BY <3>2, InParts DEF FetchesOK, FetchOK, Calls, Fetchers
    <3>4. Kept(task.m, task.got)
      BY <3>2 DEF Served
    <3>5. \A r \in rs : Picked(r)
      BY <3>3, <3>4 DEF Picks
    <3> HIDE DEF Picked, task
    <3>6. QED BY <3>1, <3>2, <3>5
  <2>5. ASSUME \/ \E f \in Askers : \E m \in Moments : QuestionAsked(f, m)
               \/ \E f \in Viewers : \E m \in Moments : ViewerClicks(f, m)
        PROVE  UNCHANGED <<findings, messages, found>>
    BY <2>5 DEF QuestionAsked, ViewerClicks, belt, refs
  <2>6. ~(\/ ImportBegins \/ ImportInserts \/ ImportFails \/ \E m \in Moments : ImportCopies(m)
          \/ Delete \/ Sweep)
    BY <1>2 DEF ImportBegins, ImportInserts, ImportFails, ImportCopies, Delete, Sweep
  <2>7. ASSUME Crash PROVE UNCHANGED <<findings, messages>> /\ found' = {}
    BY <1>2, <2>7 DEF Crash
  <2>8. CASE UNCHANGED vars
    BY <2>8 DEF vars, belt, refs
  <2> HIDE DEF Picked
  <2>9. CASE ConveyorStarts \/ ConveyorTakes \/ ConveyorLooks \/ ConveyorEnds \/ Retry
    BY <2>2, <2>3, <2>9
  <2>10. CASE \/ \E f \in Askers : QuestionAnswered(f) \/ \E m \in Moments : QuestionAsked(f, m)
              \/ \E f \in Viewers : \E m \in Moments : ViewerClicks(f, m)
    BY <2>4, <2>5, <2>10
  <2>11. QED BY <2>1, <2>6, <2>7, <2>8, <2>9, <2>10 DEF Next
<1>4. ASSUME NEW r \in old PROVE Kept(r[1], r[2])'
  <2>1. r[1] \in Moments /\ r[2] \in 0..NumFrames /\ Kept(r[1], r[2])
    BY <1>1, FramesAssumption DEF Refs
  <2>2. QED BY <2>1, KeptStays
<1>5. ASSUME NEW r, Picked(r) PROVE Kept(r[1], r[2])'
  <2>1. PICK m \in Moments, n \in 0..NumFrames : Kept(m, n) /\ \E k \in 1..n : r = <<m, k>>
    BY <1>5
  <2>2. PICK k \in 1..n : r = <<m, k>>
    BY <2>1
  <2>3. k \in 0..n /\ k \in 0..NumFrames
    BY FramesAssumption
  <2>4. Kept(m, k)'
    BY <2>1, <2>3, KeptLess, KeptStays
  <2>5. QED BY <2>2, <2>4
<1> HIDE DEF Picked, old
<1>6. QED BY <1>3, <1>4, <1>5

\* What a question's vision call looks at is kept.
LEMMA CallsStep ==
    ASSUME IInv, IInv', Served, [Next]_vars, Present, Present', FilesKept,
           NEW f \in Askers, fetch'[f].pc = "done"
    PROVE  (Kept(fetch[f].m, fetch[f].got))'
<1>0. PICK m \in Moments, n \in 0..NumFrames : fetch'[f].m = m /\ fetch'[f].got = n
  <2>1. FetchesOK' /\ f \in Fetchers
    BY DEF IInv, Fetchers
  <2>2. QED BY <2>1, FramesAssumption DEF FetchesOK, FetchOK, Calls
<1>1. f \in Fetchers /\ f # "conveyor" /\ f \notin Viewers /\ fetch \in [Fetchers -> Calls]
  BY InParts, FramesAssumption DEF FetchesOK, Fetchers
<1>2. files'[m] \in Nat
  BY FramesAssumption DEF IInv, DiskOK, Files
<1>3. ASSUME fetch'[f] = fetch[f] PROVE Kept(m, n)'
  <2>1. Kept(m, n)
    BY <1>0, <1>3 DEF Served
  <2>2. QED BY <2>1, KeptStays
<1>4. ASSUME n = 0 PROVE Kept(m, n)'
  BY <1>2, <1>4 DEF Kept
<1>5. ASSUME NEW g \in Fetchers, Begins(g) PROVE Kept(m, n)'
  <2>1. CASE g = f
    <3>1. n = 0
      BY <1>0, <1>1, <1>5, <2>1 DEF Begins, Starts
    <3>2. QED BY <1>4, <3>1
  <2>2. CASE g # f
    BY <1>1, <1>3, <1>5, <2>2 DEF Begins, Starts
  <2>3. QED BY <2>1, <2>2
<1>6. ASSUME NEW g \in Fetchers, Extracted(g) PROVE Kept(m, n)'
  <2>1. CASE g = f
    <3>1. Ends(f, files'[fetch[f].m])
      BY <1>6, <2>1 DEF Extracted
    <3>2. n = files'[m]
      BY <1>0, <1>1, <3>1 DEF Ends
    <3>3. QED BY <1>2, <3>2 DEF Kept
  <2>2. CASE g # f
    BY <1>1, <1>3, <1>6, <2>2 DEF Extracted, Ends
  <2>3. QED BY <2>1, <2>2
<1>7. ASSUME NEW g \in Fetchers, FetchFails(g) PROVE Kept(m, n)'
  <2>1. CASE g = f
    <3>1. n = 0
      BY <1>0, <1>1, <1>7, <2>1 DEF FetchFails, Ends
    <3>2. QED BY <1>4, <3>1
  <2>2. CASE g # f
    BY <1>1, <1>3, <1>7, <2>2 DEF FetchFails, Ends
  <2>3. QED BY <2>1, <2>2
<1>8. ASSUME NEW g \in Fetchers, Downloaded(g) PROVE Kept(m, n)'
  <2>1. CASE g = f
    BY <1>1, <1>8, <2>1 DEF Downloaded
  <2>2. CASE g # f
    BY <1>1, <1>3, <1>8, <2>2 DEF Downloaded
  <2>3. QED BY <2>1, <2>2
<1>9. ASSUME ConveyorStarts \/ ConveyorTakes \/ ConveyorLooks \/ ConveyorEnds \/ Retry
      PROVE  Kept(m, n)'
  <2>1. fetch'[f] = fetch[f]
    BY <1>1, <1>9 DEF ConveyorStarts, ConveyorTakes, ConveyorLooks, ConveyorEnds, Retry,
                      Planned, Starts
  <2>2. QED BY <1>3, <2>1
<1>10. ASSUME NEW g \in Askers, QuestionAnswered(g) \/ \E k \in Moments : QuestionAsked(g, k)
       PROVE  Kept(m, n)'
  <2>1. CASE g = f
    BY <1>1, <1>10, <2>1 DEF QuestionAnswered, QuestionAsked, Planned, Idle
  <2>2. CASE g # f
    BY <1>1, <1>3, <1>10, <2>2 DEF QuestionAnswered, QuestionAsked, Planned
  <2>3. QED BY <2>1, <2>2
<1>11. ASSUME NEW g \in Viewers, NEW k \in Moments, ViewerClicks(g, k) PROVE Kept(m, n)'
  <2>1. g # f
    BY <1>1
  <2>2. QED BY <1>1, <1>3, <1>11, <2>1 DEF ViewerClicks, Starts
<1>12. ~(\/ ImportBegins \/ ImportInserts \/ ImportFails \/ \E k \in Moments : ImportCopies(k)
         \/ Delete \/ Sweep)
  BY InParts DEF ImportBegins, ImportInserts, ImportFails, ImportCopies, Delete, Sweep, Present,
                 BeforeTheRow
<1>13. ~Crash
  BY <1>1 DEF Crash, Idle
<1>14. ASSUME UNCHANGED vars PROVE Kept(m, n)'
  BY <1>3, <1>14 DEF vars
<1>15. ASSUME NEW g \in Fetchers, Begins(g) \/ FetchEnds(g) PROVE Kept(m, n)'
  BY <1>5, <1>6, <1>7, <1>8, <1>15 DEF FetchEnds
<1>16. Kept(m, n)'
  BY <1>9, <1>10, <1>11, <1>12, <1>13, <1>14, <1>15 DEF Next
<1>17. QED BY <1>0, <1>16 DEF Kept

\* What the conveyor's vision call looks at is kept.
LEMMA ShownStep ==
    ASSUME IInv, IInv', Served, [Next]_vars, Present, Present', FilesKept, shown' # 0
    PROVE  Kept(at, shown)'
<1>1. at' \in Moments /\ shown' \in 0..NumFrames
  <2>1. at' \in 1..Selected' /\ Selected' = Selected /\ shown' \in 0..NumFrames
    BY DEF IInv, BeltOK, Selected, Capped
  <2>2. QED BY <2>1, SelectedType, FramesAssumption DEF Moments
<1>2. ASSUME UNCHANGED <<at, shown>> PROVE Kept(at, shown)'
  <2>1. Kept(at, shown) /\ at \in Moments /\ shown \in 0..NumFrames
    BY <1>1, <1>2 DEF Served
  <2>2. QED BY <1>2, <2>1, KeptStays DEF Kept
<1>3. ASSUME ConveyorTakes PROVE Kept(at, shown)'
  <2>1. at' = at /\ shown' <= files[at]
    BY <1>3 DEF ConveyorTakes
  <2>2. Kept(at, shown')
    BY <2>1 DEF Kept
  <2>3. QED BY <1>1, <2>1, <2>2, KeptStays DEF Kept
<1>4. ~ConveyorStarts /\ ~ConveyorLooks /\ ~ConveyorEnds /\ ~Crash
  <2>1. at = 0 => shown = 0
    <3>1. Selected \in 1..Last /\ Last \in Nat
      BY SelectedType, FramesAssumption
    <3>2. QED BY <3>1, InParts DEF BeltOK
  <2>2. QED BY <2>1 DEF ConveyorStarts, ConveyorLooks, ConveyorEnds, Crash
<1>5. ASSUME NEW f \in Fetchers, Begins(f) \/ FetchEnds(f) PROVE UNCHANGED <<at, shown>>
  BY <1>5 DEF Begins, FetchEnds, Downloaded, Extracted, FetchFails, belt
<1>6. ASSUME \/ Retry
             \/ \E f \in Askers : QuestionAnswered(f) \/ \E m \in Moments : QuestionAsked(f, m)
             \/ \E f \in Viewers : \E m \in Moments : ViewerClicks(f, m)
      PROVE  UNCHANGED <<at, shown>>
  BY <1>6 DEF Retry, QuestionAnswered, QuestionAsked, ViewerClicks, belt
<1>7. ASSUME \/ ImportBegins \/ ImportInserts \/ ImportFails \/ \E m \in Moments : ImportCopies(m)
             \/ Delete \/ Sweep
      PROVE  UNCHANGED <<at, shown>>
  BY <1>7 DEF ImportBegins, ImportInserts, ImportFails, ImportCopies, Delete, Sweep, belt
<1>8. CASE UNCHANGED vars
  BY <1>2, <1>8 DEF vars, belt
<1>9. QED BY <1>2, <1>3, <1>4, <1>5, <1>6, <1>7, <1>8 DEF Next

\* An import says which of the frames it refers to are not there.
LEMMA ImportedStep ==
    ASSUME IInv, IInv', Served, ImportInserts
    PROVE  /\ (\A r \in findings \cup messages \cup found : Kept(r[1], r[2]))'
           /\ \A f \in Askers : fetch'[f].pc # "done"
           /\ shown' = 0
<1>1. PICK S, T \in {{}} \cup {{<<m, 1>>} : m \in Moments} :
         /\ findings' = S /\ messages' = T
         /\ lost' = lost \cup {r[1] : r \in {s \in S \cup T : ~Shows(s)}}
  BY DEF ImportInserts
<1>2. row = "absent" /\ UNCHANGED <<files, fetch, at, shown, found>>
  BY InParts DEF ImportInserts, BeforeTheRow, disk, belt
<1>3. at = 0 /\ found = {} /\ \A f \in Fetchers : fetch[f].pc = "idle"
  BY <1>2, InParts DEF BeforeTheRow, Served
<1>4. shown = 0
  <2>1. Selected \in 1..Last /\ Last \in Nat
    BY SelectedType, FramesAssumption
  <2>2. QED BY <1>3, <2>1, InParts DEF BeltOK
<1>5. \A r \in S \cup T : r[2] <= files'[r[1]] \/ r[1] \in lost'
  BY <1>1, <1>2 DEF Shows
<1>6. QED BY <1>1, <1>2, <1>3, <1>4, <1>5 DEF Kept, Fetchers

\* Every step keeps what is referred to.
LEMMA ServedStep ==
    ASSUME IInv, IInv', Served, [Next]_vars
    PROVE  Served'
<1>1. lost \subseteq Moments /\ lost' \subseteq Moments
  BY LostType DEF Served
<1>2. row' = "absent" => found' = {}
  BY RowsCome DEF Served
<1>3. ASSUME Present, Present'
      PROVE  /\ (\A r \in findings \cup messages \cup found : Kept(r[1], r[2]))'
             /\ \A f \in Askers : fetch'[f].pc = "done" => (Kept(fetch[f].m, fetch[f].got))'
             /\ shown' # 0 => Kept(at, shown)'
  <2>1. FilesKept
    BY <1>1, <1>3, FilesStay
  <2>2. QED BY <1>3, <2>1, RefsStep, CallsStep, ShownStep
<1>4. ASSUME ~Present, Present'
      PROVE  /\ (\A r \in findings \cup messages \cup found : Kept(r[1], r[2]))'
             /\ \A f \in Askers : fetch'[f].pc = "done" => (Kept(fetch[f].m, fetch[f].got))'
             /\ shown' # 0 => Kept(at, shown)'
  <2>1. ImportInserts
    BY <1>4, RowsCome
  <2>2. QED BY <2>1, ImportedStep
<1>5. QED BY <1>1, <1>2, <1>3, <1>4 DEF Served

THEOREM ServedInvariance == Spec => []Served
<1>1. Init => Served
  BY IdleCall DEF Init, Served, Kept, Fetchers
<1>2. IInv /\ IInv' /\ Served /\ [Next]_vars => Served'
  BY ServedStep
<1>3. QED BY <1>1, <1>2, Invariance, PTL DEF Spec

\* What the variables hold: there are no frames without their directory, and no
\* directory of a moment without the one of the job.
THEOREM TypeCorrect == Spec => []TypeOK
<1>1. IInv /\ Served => TypeOK
  <2> SUFFICES ASSUME IInv, Served PROVE TypeOK
    OBVIOUS
  <2>1. at \in 0..(Last + 1)
    <3>1. at \in 0..(Selected + 1) /\ Selected \in 1..Last /\ Last \in Nat
      BY InParts, SelectedType, FramesAssumption DEF BeltOK
    <3>2. QED BY <3>1
  <2>2. QED BY <2>1 DEF IInv, Served, TypeOK, RowOK, DiskOK, FetchesOK, RefsOK, Files, Calls
<1>2. QED BY <1>1, Invariance, ServedInvariance, PTL

\* A frame that a finding or a message refers to is there, or its moment was cleared
\* for a fetch of a question or of the conveyor, or it never came with the bundle.
THEOREM StoredAreServed == Spec => []StoredFramesServed
<1>1. Served => StoredFramesServed
  BY DEF Served, StoredFramesServed, Kept, Shows
<1>2. QED BY <1>1, ServedInvariance, PTL

=============================================================================
