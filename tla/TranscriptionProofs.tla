--------------------------- MODULE TranscriptionProofs ---------------------------
(***************************************************************************)
(* Proofs about Transcription, for any number of other transcriptions,     *)
(* slots, chunks, rechecks and languages: the language that is forced on   *)
(* the requests is justified, and the transcript has the audio that was    *)
(* cut, in order.                                                          *)
(***************************************************************************)
EXTENDS Transcription, FiniteSetTheorems, SequenceTheorems, TLAPS

Answers == [reported : Maybe, detected : Maybe]
Planned == pc \notin {"begin", "split"}

\* Who waits is in the queue; the job itself asks only while an answer is due.
SlotsOK ==
  /\ \A a \in Asker : req[a] = "queued" <=> \E i \in DOMAIN waiting : waiting[i] = a
  /\ req[Me] # "none" => Wants(Me)

\* The units before the one at work are merged, and no others.
UnitsOK ==
  /\ ~Planned => units = <<>> /\ pos = 1 /\ merged = <<>> /\ tries = 0
  /\ Planned => pos <= Len(units)
  /\ Len(units) <= NumChunks
  /\ Len(merged) = IF pc = "done" THEN pos ELSE pos - 1
  /\ pc = "done" => pos = Len(units)
  /\ \A i \in 1 .. Len(merged) : merged[i] = units[i]

\* The first answers of the first two units, as far as they are in.
HeardOK ==
  /\ ~Planned => heard = <<>> /\ pin = meta /\ cand = NoLanguage
  /\ pc = "first" => Len(heard) = IF pos <= 2 THEN pos - 1 ELSE 2
  /\ pc = "recheck" => Len(heard) = IF pos <= 2 THEN pos ELSE 2

\* What the publisher declares is forced; a candidate is what the text of the
\* first chunk looked like.
PinOK ==
  /\ meta # NoLanguage => pin = meta
  /\ cand # NoLanguage => heard # <<>> /\ heard[1].detected = cand
  /\ PinIsJustified

IInv == TypeOK /\ SlotsOK /\ UnitsOK /\ HeardOK /\ PinOK

-----------------------------------------------------------------------------
(* The queue and the units                                                   *)

\* The queue relation, for a given queue and given requests.
Queued == \A a \in Asker : req[a] = "queued" <=> \E i \in DOMAIN waiting : waiting[i] = a
SlotsTyped ==
  /\ req \in [Asker -> {"none", "queued", "sent"}]
  /\ waiting \in Seq(Asker) /\ IsInjective(waiting)

\* A request joins the queue at its end.
LEMMA AskKeeps ==
  ASSUME SlotsTyped, Queued, NEW a \in Asker, Ask(a)
  PROVE  SlotsTyped' /\ Queued'
<1>1. /\ req' = [req EXCEPT ![a] = "queued"] /\ req[a] = "none" /\ waiting' = Append(waiting, a)
      /\ waiting \in Seq(Asker) /\ Len(waiting) \in Nat /\ IsInjective(waiting)
      /\ DOMAIN waiting = 1 .. Len(waiting)
  BY DEF Ask, SlotsTyped
<1>2. /\ waiting' \in Seq(Asker) /\ DOMAIN waiting' = 1 .. (Len(waiting) + 1)
      /\ waiting'[Len(waiting) + 1] = a
      /\ \A i \in 1 .. Len(waiting) : waiting'[i] = waiting[i]
  BY <1>1
<1>3. \A i \in DOMAIN waiting : waiting[i] # a
  BY <1>1 DEF Queued
<1>4. IsInjective(waiting')
  BY <1>1, <1>2, <1>3 DEF IsInjective
<1>5. req' \in [Asker -> {"none", "queued", "sent"}]
  BY <1>1 DEF SlotsTyped
<1>6. ASSUME NEW b \in Asker
      PROVE  req'[b] = "queued" <=> \E i \in DOMAIN waiting' : waiting'[i] = b
  <2>1. CASE b = a
    BY <1>1, <1>2, <2>1 DEF SlotsTyped
  <2>2. CASE b # a
    <3>1. req'[b] = req[b]
      BY <1>1, <2>2 DEF SlotsTyped
    <3>2. (\E i \in DOMAIN waiting' : waiting'[i] = b)
             <=> \E i \in DOMAIN waiting : waiting[i] = b
      BY <1>1, <1>2, <2>2
    <3>3. QED BY <3>1, <3>2 DEF Queued
  <2>3. QED BY <2>1, <2>2
<1>7. QED BY <1>2, <1>4, <1>5, <1>6 DEF SlotsTyped, Queued

\* The one at the head is sent, and leaves the queue.
LEMMA SendKeeps ==
  ASSUME SlotsTyped, Queued, NEW a \in Asker, Send(a)
  PROVE  SlotsTyped' /\ Queued' /\ req[a] = "queued"
<1>1. /\ req' = [req EXCEPT ![a] = "sent"] /\ waiting' = Tail(waiting)
      /\ waiting \in Seq(Asker) /\ Len(waiting) \in Nat /\ Len(waiting) > 0 /\ waiting[1] = a
      /\ IsInjective(waiting) /\ DOMAIN waiting = 1 .. Len(waiting)
  BY DEF Send, SlotsTyped
<1>2. /\ waiting' \in Seq(Asker) /\ DOMAIN waiting' = 1 .. (Len(waiting) - 1)
      /\ \A i \in 1 .. (Len(waiting) - 1) : waiting'[i] = waiting[i + 1]
  BY <1>1
<1>3. req[a] = "queued"
  BY <1>1 DEF Queued
<1>4. IsInjective(waiting')
  <2> SUFFICES ASSUME NEW i \in DOMAIN waiting', NEW k \in DOMAIN waiting',
                      waiting'[i] = waiting'[k]
               PROVE  i = k
    BY DEF IsInjective
  <2>1. /\ i \in Nat /\ k \in Nat /\ i + 1 \in DOMAIN waiting /\ k + 1 \in DOMAIN waiting
        /\ waiting[i + 1] = waiting[k + 1]
    BY <1>1, <1>2
  <2>2. i + 1 = k + 1
    BY <1>1, <2>1 DEF IsInjective
  <2>3. QED BY <2>1, <2>2
<1>5. req' \in [Asker -> {"none", "queued", "sent"}]
  BY <1>1 DEF SlotsTyped
<1>6. ASSUME NEW b \in Asker
      PROVE  req'[b] = "queued" <=> \E i \in DOMAIN waiting' : waiting'[i] = b
  <2>1. ASSUME NEW i \in DOMAIN waiting', waiting'[i] = b
        PROVE  b # a /\ \E k \in DOMAIN waiting : waiting[k] = b
    <3>1. i + 1 \in DOMAIN waiting /\ waiting[i + 1] = b /\ i + 1 # 1 /\ 1 \in DOMAIN waiting
      BY <1>1, <1>2, <2>1
    <3>2. QED BY <1>1, <3>1 DEF IsInjective
  <2>2. ASSUME NEW i \in DOMAIN waiting, waiting[i] = b, b # a
        PROVE  \E k \in DOMAIN waiting' : waiting'[k] = b
    <3>1. i \in 1 .. Len(waiting) /\ i # 1
      BY <1>1, <2>2
    <3>2. i - 1 \in 1 .. (Len(waiting) - 1) /\ waiting'[i - 1] = waiting[(i - 1) + 1]
      BY <1>1, <1>2, <3>1
    <3>3. (i - 1) + 1 = i
      BY <1>1, <3>1
    <3>4. QED BY <1>2, <2>2, <3>2, <3>3
  <2>3. req'[b] = IF b = a THEN "sent" ELSE req[b]
    BY <1>1 DEF SlotsTyped
  <2>4. QED BY <2>1, <2>2, <2>3 DEF Queued
<1>7. QED BY <1>2, <1>3, <1>4, <1>5, <1>6 DEF SlotsTyped, Queued

\* An answer changes nothing in the queue.
LEMMA BackKeeps ==
  ASSUME SlotsTyped, Queued, NEW a \in Asker, Back(a)
  PROVE  /\ SlotsTyped' /\ Queued' /\ req'[a] = "none"
         /\ \A b \in Asker : b # a => req'[b] = req[b]
<1>1. req[a] = "sent" /\ req' = [req EXCEPT ![a] = "none"] /\ waiting' = waiting
  BY DEF Back
<1>2. \A b \in Asker : req'[b] = IF b = a THEN "none" ELSE req[b]
  BY <1>1 DEF SlotsTyped
<1>3. SlotsTyped'
  BY <1>1 DEF SlotsTyped
<1>4. QED BY <1>1, <1>2, <1>3 DEF Queued

\* The chunks that are cut: at least one, no more than planned.
LEMMA CutChunks ==
  ASSUME NEW cut \in SUBSET (1 .. NumChunks), cut # {}, NEW s \in InOrder(cut)
  PROVE  s \in Seq(0 .. NumChunks) /\ Len(s) \in 1 .. NumChunks
<1>1. NumChunks \in Nat \ {0, 1}
  BY TranscriptionAssumption
<1>2. NumChunks \in Int /\ 1 \in Int
  BY <1>1
<1>3. IsFiniteSet(1 .. NumChunks) /\ Cardinality(1 .. NumChunks) = NumChunks
  <2>1. ~(1 > NumChunks)
    BY <1>1
  <2>2. /\ IsFiniteSet(1 .. NumChunks)
        /\ Cardinality(1 .. NumChunks) = IF 1 > NumChunks THEN 0 ELSE NumChunks - 1 + 1
    BY <1>2, FS_Interval
  <2>3. NumChunks - 1 + 1 = NumChunks
    BY <1>1
  <2>4. QED BY <2>1, <2>2, <2>3
<1>4. IsFiniteSet(cut) /\ Cardinality(cut) <= NumChunks /\ Cardinality(cut) \in Nat
  BY <1>3, FS_Subset, FS_CardinalityType
<1>5. Cardinality(cut) # 0
  BY <1>4, FS_EmptySet
<1> DEFINE n == Cardinality(cut)
<1>6. s \in [1 .. n -> cut]
  BY DEF InOrder, SetToSeqs
<1>7. n \in Nat /\ n # 0 /\ n <= NumChunks
  BY <1>4, <1>5
<1> HIDE DEF n
<1>8. cut \subseteq 0 .. NumChunks
  BY <1>1
<1>9. s \in Seq(0 .. NumChunks) /\ Len(s) = n
  <2>1. s \in [1 .. n -> 0 .. NumChunks]
    BY <1>6, <1>8
  <2>2. s \in Seq(0 .. NumChunks)
    BY <1>7, <2>1, SeqDef
  <2>3. DOMAIN s = 1 .. n
    BY <2>1
  <2>4. QED BY <1>7, <2>2, <2>3
<1>10. QED BY <1>1, <1>7, <1>9

-----------------------------------------------------------------------------
(* Parts of the state                                                        *)

LangTyped == {meta, pin, cand} \subseteq Maybe /\ heard \in Seq(Answers)
WorkTyped ==
  /\ pc \in {"begin", "split", "first", "recheck", "done", "failed"}
  /\ pos \in 1 .. NumChunks /\ tries \in 0 .. MaxRechecks
  /\ {mayFall, known, second} \subseteq BOOLEAN
  /\ units \in Seq(0 .. NumChunks) /\ merged \in Seq(0 .. NumChunks)
Asked == req[Me] # "none" => Wants(Me)

\* The invariant, taken apart and put together.
LEMMA Parts ==
  IInv <=> /\ SlotsTyped /\ Queued /\ Asked
           /\ WorkTyped /\ UnitsOK
           /\ LangTyped /\ HeardOK /\ PinOK
BY DEF IInv, TypeOK, SlotsOK, SlotsTyped, Queued, Asked, WorkTyped, LangTyped, Answers

\* The same after a step, in the direction in which the proofs need it.
LEMMA FromParts ==
  ASSUME SlotsTyped', Queued', Asked', WorkTyped', UnitsOK', LangTyped', HeardOK', PinOK'
  PROVE  IInv'
BY DEF IInv, TypeOK, SlotsOK, SlotsTyped, Queued, Asked, WorkTyped, LangTyped, Answers

-----------------------------------------------------------------------------
(* Steps                                                                     *)

\* A unit is merged, and the next one is due, if there is one.
LEMMA UnitMerged ==
  ASSUME WorkTyped, UnitsOK, pc \in {"first", "recheck"}, UnitEnds, UNCHANGED plan
  PROVE  /\ WorkTyped' /\ UnitsOK' /\ pc' \in {"first", "done"}
         /\ pc' = "first" => pos' = pos + 1
         /\ pc' = "done" => pos' = pos
<1>1. /\ NumChunks \in Nat \ {0, 1} /\ MaxRechecks \in Nat
      /\ units' = units /\ mayFall' = mayFall /\ known' = known
      /\ merged' = Append(merged, units[pos]) /\ tries' = 0 /\ second' = FALSE
  BY TranscriptionAssumption DEF UnitEnds, plan
<1>2. /\ Planned /\ pos \in Nat \ {0} /\ pos <= Len(units) /\ Len(units) \in Nat
      /\ Len(units) <= NumChunks /\ Len(merged) = pos - 1 /\ Len(merged) \in Nat
      /\ merged \in Seq(0 .. NumChunks) /\ units \in Seq(0 .. NumChunks)
      /\ \A i \in 1 .. Len(merged) : merged[i] = units[i]
  BY <1>1 DEF WorkTyped, UnitsOK, Planned
<1>3. units[pos] \in 0 .. NumChunks
  <2>1. pos \in 1 .. Len(units)
    BY <1>2
  <2>2. QED BY <1>2, <2>1, ElementOfSeq
<1>4. /\ merged' \in Seq(0 .. NumChunks) /\ Len(merged') = pos /\ merged'[pos] = units[pos]
      /\ \A i \in 1 .. (pos - 1) : merged'[i] = merged[i]
  BY <1>1, <1>2, <1>3
<1>5. \A i \in 1 .. Len(merged') : merged'[i] = units'[i]
  <2> SUFFICES ASSUME NEW i \in 1 .. pos PROVE merged'[i] = units[i]
    BY <1>1, <1>4
  <2>1. CASE i = pos
    BY <1>4, <2>1
  <2>2. CASE i # pos
    <3>1. i \in 1 .. (pos - 1)
      BY <1>2, <2>2
    <3>2. merged'[i] = merged[i] /\ merged[i] = units[i]
      BY <1>2, <1>4, <3>1
    <3>3. QED BY <3>2
  <2>3. QED BY <2>1, <2>2
<1>6. \/ pc' = "first" /\ pos' = pos + 1 /\ pos < Len(units)
      \/ pc' = "done" /\ pos' = pos /\ pos = Len(units)
  <2>1. CASE pos < Len(units)
    BY <2>1 DEF UnitEnds
  <2>2. CASE ~(pos < Len(units))
    <3>1. pos = Len(units)
      BY <1>2, <2>2
    <3>2. QED BY <2>2, <3>1 DEF UnitEnds
  <2>3. QED BY <2>1, <2>2
<1>7. pos' \in 1 .. NumChunks /\ pos' <= Len(units) /\ tries' \in 0 .. MaxRechecks
  BY <1>1, <1>2, <1>6
<1>8. WorkTyped'
  BY <1>1, <1>2, <1>4, <1>6, <1>7 DEF WorkTyped
<1>9. Len(merged') = IF pc' = "done" THEN pos' ELSE pos' - 1
  BY <1>2, <1>4, <1>6
<1>10. UnitsOK'
  BY <1>1, <1>2, <1>5, <1>6, <1>7, <1>9 DEF UnitsOK, Planned
<1>11. QED BY <1>6, <1>8, <1>10

\* A step that changes nothing but the slots, and asks only for an answer that
\* is due.
LEMMA OnlySlots ==
  ASSUME IInv, SlotsTyped', Queued', req'[Me] # "none" => Wants(Me),
         UNCHANGED <<pc, meta, plan, lang, progress>>
  PROVE  IInv'
<1>1. Wants(Me)' = Wants(Me)
  BY DEF Wants, progress
<1>2. Asked'
  BY <1>1 DEF Asked
<1>3. WorkTyped' /\ UnitsOK'
  BY Parts DEF WorkTyped, UnitsOK, Planned, plan, progress
<1>4. LangTyped' /\ HeardOK' /\ PinOK'
  BY Parts DEF LangTyped, HeardOK, PinOK, PinIsJustified, Planned, Chunked, plan, lang, progress
<1>5. QED BY <1>2, <1>3, <1>4, FromParts

\* The requests of all, and the answers to the others.
LEMMA SlotsStep ==
  ASSUME IInv,
         \/ \E a \in Asker : Ask(a) \/ Send(a)
         \/ \E a \in Other : OtherAnswered(a)
  PROVE  IInv'
<1>1. SlotsTyped /\ Queued /\ Asked /\ Me \in Asker /\ Me \notin Other
  BY Parts, TranscriptionAssumption DEF Asker
<1>2. ASSUME NEW a \in Asker, Ask(a) PROVE IInv'
  <2>1. SlotsTyped' /\ Queued'
    BY <1>1, <1>2, AskKeeps
  <2>2. req'[Me] # "none" => Wants(Me)
    BY <1>1, <1>2 DEF Ask, Asked, SlotsTyped
  <2>3. QED BY <1>2, <2>1, <2>2, OnlySlots DEF Ask
<1>3. ASSUME NEW a \in Asker, Send(a) PROVE IInv'
  <2>1. SlotsTyped' /\ Queued' /\ req[a] = "queued"
    BY <1>1, <1>3, SendKeeps
  <2>2. req'[Me] # "none" => Wants(Me)
    BY <1>1, <1>3, <2>1 DEF Send, Asked, SlotsTyped
  <2>3. QED BY <1>3, <2>1, <2>2, OnlySlots DEF Send
<1>4. ASSUME NEW a \in Other, OtherAnswered(a) PROVE IInv'
  <2>1. a \in Asker /\ Back(a)
    BY <1>4 DEF OtherAnswered, Asker
  <2>2. SlotsTyped' /\ Queued' /\ req'[Me] = req[Me]
    BY <1>1, <2>1, BackKeeps
  <2>3. QED BY <1>1, <1>4, <2>2, OnlySlots DEF OtherAnswered, Asked
<1>5. QED BY <1>2, <1>3, <1>4

\* Before anything is sent, nobody has asked for the job.
LEMMA NothingAsked ==
  ASSUME Asked, SlotsTyped, Queued, pc \in {"begin", "split"}, UNCHANGED slots
  PROVE  SlotsTyped' /\ Queued' /\ Asked'
<1>1. req[Me] = "none" /\ req' = req /\ waiting' = waiting
  BY DEF Asked, Wants, slots
<1>2. QED BY <1>1 DEF SlotsTyped, Queued, Asked

\* The first unit of a plan is due.
LEMMA PlanMade ==
  ASSUME IInv, pc \in {"begin", "split"}, pc' = "first", UNCHANGED <<slots, meta, mayFall, lang, progress>>,
         known' \in BOOLEAN, units' \in Seq(0 .. NumChunks), Len(units') \in 1 .. NumChunks
  PROVE  IInv'
<1>1. /\ ~Planned /\ WorkTyped /\ UnitsOK /\ LangTyped /\ HeardOK /\ PinOK
      /\ pos = 1 /\ merged = <<>> /\ tries = 0 /\ heard = <<>> /\ pin = meta /\ cand = NoLanguage
      /\ NumChunks \in Nat
  BY Parts, TranscriptionAssumption DEF UnitsOK, HeardOK, Planned
<1>2. /\ UNCHANGED <<meta, mayFall, pin, cand, heard, pos, tries, second, merged>>
  BY DEF lang, progress
<1>3. SlotsTyped' /\ Queued' /\ Asked'
  BY NothingAsked, Parts
<1>4. WorkTyped'
  BY <1>1, <1>2 DEF WorkTyped
<1>5. UnitsOK'
  <2>1. Len(merged') = 0 /\ Len(units') \in Nat /\ Len(units') >= 1 /\ Len(units') <= NumChunks
    BY <1>1, <1>2
  <2>2. QED BY <1>1, <1>2, <2>1 DEF UnitsOK, Planned
<1>6. LangTyped' /\ HeardOK' /\ PinOK'
  BY <1>1, <1>2 DEF LangTyped, HeardOK, PinOK, PinIsJustified, Planned
<1>7. QED BY <1>3, <1>4, <1>5, <1>6, FromParts

\* What is small enough is sent whole, the rest is cut.
LEMMA BeginStep ==
  ASSUME IInv, Begin
  PROVE  IInv'
<1>1. CASE mayFall
  <2>1. /\ pc = "begin" /\ pc' = "first" /\ units' = <<Whole>>
        /\ UNCHANGED <<slots, meta, mayFall, known, lang, progress>>
    BY <1>1 DEF Begin
  <2>2. known' \in BOOLEAN
    BY <2>1, Parts DEF WorkTyped
  <2>3. units' \in Seq(0 .. NumChunks) /\ Len(units') \in 1 .. NumChunks
    BY <2>1, TranscriptionAssumption DEF Whole
  <2>4. QED BY <2>1, <2>2, <2>3, PlanMade
<1>2. CASE ~mayFall
  <2>1. /\ pc = "begin" /\ pc' = "split"
        /\ UNCHANGED <<slots, meta, plan, lang, progress>>
    BY <1>2 DEF Begin, plan
  <2>2. SlotsTyped' /\ Queued' /\ Asked'
    BY <2>1, NothingAsked, Parts
  <2>3. WorkTyped' /\ UnitsOK'
    BY <2>1, Parts DEF WorkTyped, UnitsOK, Planned, plan, progress
  <2>4. LangTyped' /\ HeardOK' /\ PinOK'
    BY <2>1, Parts DEF LangTyped, HeardOK, PinOK, PinIsJustified, Planned, Chunked, plan, lang,
                       progress
  <2>5. QED BY <2>2, <2>3, <2>4, FromParts
<1>3. QED BY <1>1, <1>2, Parts DEF WorkTyped

\* The chunks are cut.
LEMMA SplitStep ==
  ASSUME IInv, Split
  PROVE  IInv'
<1>1. /\ pc = "split" /\ pc' = "first"
      /\ UNCHANGED <<slots, meta, mayFall, lang, progress>>
  BY DEF Split
<1>2. known' \in BOOLEAN
  BY Parts DEF Split, WorkTyped
<1>3. units' \in Seq(0 .. NumChunks) /\ Len(units') \in 1 .. NumChunks
  <2>1. CASE units' = <<Whole>>
    BY <2>1, TranscriptionAssumption DEF Whole
  <2>2. ASSUME NEW cut \in SUBSET (1 .. NumChunks), cut # {}, units' \in InOrder(cut)
        PROVE  units' \in Seq(0 .. NumChunks) /\ Len(units') \in 1 .. NumChunks
    BY <2>2, CutChunks
  <2>3. QED BY <2>1, <2>2 DEF Split
<1>4. QED BY <1>1, <1>2, <1>3, PlanMade

\* The unit at work is covered, or its rechecks are spent.
LEMMA CoveredStep ==
  ASSUME IInv, Covered
  PROVE  IInv'
<1>1. /\ pc = "recheck" /\ req[Me] = "none" /\ UnitEnds
      /\ UNCHANGED <<slots, meta, plan, lang>>
  BY DEF Covered
<1>2. /\ WorkTyped /\ UnitsOK /\ LangTyped /\ HeardOK /\ PinOK /\ SlotsTyped /\ Queued
      /\ pos \in Nat \ {0}
  BY Parts DEF WorkTyped
<1>3. /\ WorkTyped' /\ UnitsOK' /\ pc' \in {"first", "done"}
      /\ pc' = "first" => pos' = pos + 1
  BY <1>1, <1>2, UnitMerged
<1>4. SlotsTyped' /\ Queued' /\ Asked'
  BY <1>1, <1>2 DEF SlotsTyped, Queued, Asked, slots
<1>5. LangTyped' /\ PinOK'
  BY <1>1, <1>2 DEF LangTyped, PinOK, PinIsJustified, Chunked, plan, lang
<1>6. HeardOK'
  <2>1. Len(heard) = (IF pos <= 2 THEN pos ELSE 2) /\ heard' = heard
    BY <1>1, <1>2 DEF HeardOK, lang
  <2>2. CASE pc' = "first"
    <3>1. Len(heard') = IF pos' <= 2 THEN pos' - 1 ELSE 2
      <4>1. pos' = pos + 1
        BY <1>3, <2>2
      <4>2. CASE pos = 1
        BY <2>1, <4>1, <4>2
      <4>3. CASE pos = 2
        BY <2>1, <4>1, <4>3
      <4>4. CASE pos # 1 /\ pos # 2
        <5>1. ~(pos <= 2) /\ ~(pos' <= 2)
          BY <1>2, <4>1, <4>4
        <5>2. QED BY <2>1, <5>1
      <4>5. QED BY <4>2, <4>3, <4>4
    <3>2. QED BY <2>2, <3>1 DEF HeardOK, Planned
  <2>3. CASE pc' = "done"
    BY <2>3 DEF HeardOK, Planned
  <2>4. QED BY <1>3, <2>2, <2>3
<1>7. QED BY <1>3, <1>4, <1>5, <1>6, FromParts

\* The pin after the first answer of a unit, and what it rests on.
LEMMA PinKept ==
  ASSUME IInv, pc = "first", UNCHANGED <<meta, plan>>,
         NEW reported \in Maybe, NEW detected \in Maybe,
         pin' = PinnedAfter(reported, detected),
         cand' = IF Chunked /\ pos = 1 /\ pin' = NoLanguage THEN detected ELSE cand,
         heard' = IF pos > 2 THEN heard
                  ELSE Append(heard, [reported |-> reported, detected |-> detected])
  PROVE  /\ LangTyped' /\ PinOK'
         /\ Len(heard') = IF pos <= 2 THEN pos ELSE 2
<1>1. /\ pos \in Nat \ {0} /\ heard \in Seq(Answers) /\ {meta, pin, cand} \subseteq Maybe
      /\ Len(heard) = (IF pos <= 2 THEN pos - 1 ELSE 2) /\ Len(heard) \in Nat
      /\ units \in Seq(0 .. NumChunks) /\ pos <= Len(units)
      /\ meta # NoLanguage => pin = meta
      /\ cand # NoLanguage => heard # <<>> /\ heard[1].detected = cand
      /\ PinIsJustified
  BY Parts, TranscriptionAssumption DEF WorkTyped, LangTyped, HeardOK, UnitsOK, PinOK, Planned
<1>2. PICK h \in Answers : h.reported = reported /\ h.detected = detected
                          /\ h = [reported |-> reported, detected |-> detected]
  BY DEF Answers
<1>3. heard' = IF pos > 2 THEN heard ELSE Append(heard, h)
  BY <1>2
<1>4. /\ heard' \in Seq(Answers) /\ heard' # <<>>
      /\ Len(heard') = IF pos <= 2 THEN pos ELSE 2
  <2>1. CASE pos > 2
    <3>1. heard' = heard /\ Len(heard) = 2
      BY <1>1, <1>3, <2>1
    <3>2. ~(pos <= 2) /\ heard # <<>>
      BY <1>1, <2>1, <3>1
    <3>3. QED BY <1>1, <3>1, <3>2
  <2>2. CASE ~(pos > 2)
    <3>1. pos <= 2 /\ heard' = Append(heard, h) /\ Len(heard) = pos - 1
      BY <1>1, <1>3, <2>2
    <3>2. heard' \in Seq(Answers) /\ Len(heard') = Len(heard) + 1
      BY <1>1, <3>1
    <3>3. QED BY <1>1, <3>1, <3>2
  <2>3. QED BY <2>1, <2>2
<1>5. heard # <<>> => heard'[1] = heard[1]
  BY <1>1, <1>3
<1>6. /\ pos = 1 => heard'[1] = h
      /\ pos = 2 => heard # <<>> /\ heard'[2] = h
  BY <1>1, <1>3
<1>7. /\ meta' = meta /\ units' = units
  BY DEF plan
<1>8. \/ pin # NoLanguage /\ pin' = pin
      \/ pin = NoLanguage /\ pos = 1 /\ pin' = reported
      \/ pin = NoLanguage /\ pos = 2 /\ detected = cand /\ pin' = cand
      \/ pin = NoLanguage /\ pin' = NoLanguage
  BY DEF PinnedAfter
<1>9. LangTyped'
  <2>1. pin' \in Maybe /\ cand' \in Maybe
    BY <1>1, <1>8
  <2>2. QED BY <1>1, <1>4, <1>7, <2>1 DEF LangTyped
<1>10. meta' # NoLanguage => pin' = meta'
  BY <1>1, <1>7, <1>8
<1>11. cand' # NoLanguage => heard' # <<>> /\ heard'[1].detected = cand'
  <2>1. CASE Chunked /\ pos = 1 /\ pin' = NoLanguage
    BY <1>2, <1>4, <1>6, <2>1
  <2>2. CASE ~(Chunked /\ pos = 1 /\ pin' = NoLanguage)
    BY <1>1, <1>4, <1>5, <2>2
  <2>3. QED BY <2>1, <2>2
<1>12. PinIsJustified'
  <2>1. CASE pin # NoLanguage /\ pin' = pin
    <3>1. CASE pin = meta
      BY <1>7, <2>1, <3>1 DEF PinIsJustified
    <3>2. CASE meta = NoLanguage /\ heard # <<>> /\ heard[1].reported = pin
      BY <1>4, <1>5, <1>7, <2>1, <3>2 DEF PinIsJustified
    <3>3. CASE /\ meta = NoLanguage /\ Chunked /\ Len(heard) = 2
               /\ heard[1].detected = pin /\ heard[2].detected = pin
      <4>1. heard' = heard
        BY <1>1, <1>3, <3>3
      <4>2. QED BY <1>7, <2>1, <3>3, <4>1 DEF PinIsJustified, Chunked
    <3>4. QED BY <1>1, <2>1, <3>1, <3>2, <3>3 DEF PinIsJustified
  <2>2. CASE pin = NoLanguage /\ pos = 1 /\ pin' = reported
    <3>1. pin' # NoLanguage => meta' = NoLanguage /\ heard' # <<>> /\ heard'[1].reported = pin'
      BY <1>1, <1>2, <1>4, <1>6, <1>7, <2>2
    <3>2. QED BY <3>1 DEF PinIsJustified
  <2>3. CASE pin = NoLanguage /\ pos = 2 /\ detected = cand /\ pin' = cand
    <3>1. SUFFICES ASSUME pin' # NoLanguage PROVE PinIsJustified'
      BY DEF PinIsJustified
    <3>2. meta' = NoLanguage
      BY <1>1, <1>7, <2>3
    <3>3. Chunked'
      <4>1. Len(units) >= 2 /\ Len(units) \in Nat
        <5>1. pos = 2 /\ pos <= Len(units) /\ Len(units) \in Nat
          BY <1>1, <2>3
        <5>2. QED BY <5>1
      <4>2. Len(<<Whole>>) = 1 /\ 1 # 2 /\ ~(1 >= 2)
        OBVIOUS
      <4>3. units # <<Whole>>
        BY <4>1, <4>2
      <4>4. QED BY <1>7, <4>3 DEF Chunked
    <3>4. Len(heard') = 2 /\ heard'[1].detected = pin' /\ heard'[2].detected = pin'
      BY <1>1, <1>2, <1>4, <1>5, <1>6, <2>3, <3>1
    <3>5. QED BY <3>2, <3>3, <3>4 DEF PinIsJustified
  <2>4. CASE pin' = NoLanguage
    BY <2>4 DEF PinIsJustified
  <2>5. QED BY <1>8, <2>1, <2>2, <2>3, <2>4
<1>13. QED BY <1>4, <1>9, <1>10, <1>11, <1>12 DEF PinOK

\* The first answer of a unit.
LEMMA FirstAnswerStep ==
  ASSUME IInv, FirstAnswer
  PROVE  IInv'
<1>1. /\ pc = "first" /\ Back(Me) /\ UNCHANGED <<meta, plan>>
      /\ IF known THEN pc' = "recheck" /\ UNCHANGED progress ELSE UnitEnds
  BY DEF FirstAnswer
<1>2. /\ WorkTyped /\ UnitsOK /\ SlotsTyped /\ Queued /\ pos \in Nat \ {0}
      /\ known \in BOOLEAN /\ Me \in Asker
  BY Parts DEF WorkTyped, Asker
<1>3. PICK reported, detected \in Maybe :
        /\ pin' = PinnedAfter(reported, detected)
        /\ cand' = IF Chunked /\ pos = 1 /\ pin' = NoLanguage THEN detected ELSE cand
        /\ heard' = IF pos > 2 THEN heard
                    ELSE Append(heard, [reported |-> reported, detected |-> detected])
  BY DEF FirstAnswer
<1>4. LangTyped' /\ PinOK' /\ Len(heard') = IF pos <= 2 THEN pos ELSE 2
  BY <1>1, <1>3, PinKept
<1>5. SlotsTyped' /\ Queued' /\ Asked'
  BY <1>1, <1>2, BackKeeps DEF Asked
<1>6. CASE known
  <2>1. pc' = "recheck" /\ UNCHANGED <<plan, progress>>
    BY <1>1, <1>6
  <2>2. WorkTyped' /\ UnitsOK'
    BY <1>1, <1>2, <2>1 DEF WorkTyped, UnitsOK, Planned, plan, progress
  <2>3. HeardOK'
    BY <1>4, <2>1 DEF HeardOK, Planned, progress
  <2>4. QED BY <1>4, <1>5, <2>2, <2>3, FromParts
<1>7. CASE ~known
  <2>1. /\ WorkTyped' /\ UnitsOK' /\ pc' \in {"first", "done"}
        /\ pc' = "first" => pos' = pos + 1
    BY <1>1, <1>2, <1>7, UnitMerged
  <2>2. HeardOK'
    <3>1. CASE pc' = "first"
      <4>1. Len(heard') = IF pos' <= 2 THEN pos' - 1 ELSE 2
        BY <1>2, <1>4, <2>1, <3>1
      <4>2. QED BY <3>1, <4>1 DEF HeardOK, Planned
    <3>2. CASE pc' = "done"
      BY <3>2 DEF HeardOK, Planned
    <3>3. QED BY <2>1, <3>1, <3>2
  <2>3. QED BY <1>4, <1>5, <2>1, <2>2, FromParts
<1>8. QED BY <1>2, <1>6, <1>7

\* The answer to a recheck.
LEMMA RecheckAnswerStep ==
  ASSUME IInv, RecheckAnswer
  PROVE  IInv'
<1>1. /\ pc = "recheck" /\ Back(Me) /\ UNCHANGED <<pc, meta, plan, lang, pos, merged>>
      /\ IF second THEN second' = FALSE /\ UNCHANGED tries
         ELSE tries' = tries + 1 /\ second' \in (IF pin = NoLanguage THEN {FALSE} ELSE BOOLEAN)
  BY DEF RecheckAnswer
<1>2. /\ WorkTyped /\ UnitsOK /\ LangTyped /\ HeardOK /\ PinOK
      /\ SlotsTyped /\ Queued /\ Asked /\ Me \in Asker
      /\ MaxRechecks \in Nat /\ tries \in 0 .. MaxRechecks /\ second \in BOOLEAN
  BY Parts, TranscriptionAssumption DEF WorkTyped, Asker
<1>3. SlotsTyped' /\ Queued' /\ Asked'
  BY <1>1, <1>2, BackKeeps DEF Asked
<1>4. second' \in BOOLEAN /\ tries' \in 0 .. MaxRechecks
  <2>1. CASE second
    BY <1>1, <1>2, <2>1
  <2>2. CASE ~second
    <3>1. tries < MaxRechecks
      BY <1>1, <1>2, <2>2 DEF Back, Asked, Wants
    <3>2. second' \in BOOLEAN
      BY <1>1, <2>2
    <3>3. tries' = tries + 1
      BY <1>1, <2>2
    <3>4. QED BY <1>2, <3>1, <3>2, <3>3
  <2>3. QED BY <1>2, <2>1, <2>2
<1>5. WorkTyped' /\ UnitsOK'
  BY <1>1, <1>2, <1>4 DEF WorkTyped, UnitsOK, Planned, plan
<1>6. LangTyped' /\ HeardOK' /\ PinOK'
  BY <1>1, <1>2 DEF LangTyped, HeardOK, PinOK, PinIsJustified, Planned, Chunked, plan, lang
<1>7. QED BY <1>3, <1>5, <1>6, FromParts

\* The transcription fails; what it had stays.
LEMMA Fails ==
  ASSUME IInv, pc \in {"first", "recheck"}, Back(Me), pc' = "failed",
         UNCHANGED <<meta, plan, lang, progress>>
  PROVE  IInv'
<1>1. /\ WorkTyped /\ UnitsOK /\ LangTyped /\ HeardOK /\ PinOK
      /\ SlotsTyped /\ Queued /\ Me \in Asker
  BY Parts DEF Asker
<1>2. SlotsTyped' /\ Queued' /\ Asked'
  BY <1>1, BackKeeps DEF Asked
<1>3. WorkTyped' /\ UnitsOK'
  BY <1>1 DEF WorkTyped, UnitsOK, Planned, plan, progress
<1>4. LangTyped' /\ HeardOK' /\ PinOK'
  BY <1>1 DEF LangTyped, HeardOK, PinOK, PinIsJustified, Planned, Chunked, plan, lang
<1>5. QED BY <1>2, <1>3, <1>4, FromParts

\* The backend refuses the audio as too large: all starts over, in chunks.
LEMMA TooLargeStep ==
  ASSUME IInv, TooLarge
  PROVE  IInv'
<1>1. CASE mayFall
  <2>1. /\ Back(Me) /\ UNCHANGED meta /\ UNCHANGED known
        /\ pc' = "split" /\ mayFall' = FALSE /\ units' = <<>>
        /\ pos' = 1 /\ tries' = 0 /\ second' = FALSE /\ merged' = <<>>
        /\ pin' = meta /\ cand' = NoLanguage /\ heard' = <<>>
    BY <1>1 DEF TooLarge, StartOver
  <2>2. /\ NumChunks \in Nat \ {0, 1} /\ MaxRechecks \in Nat /\ WorkTyped /\ LangTyped
        /\ SlotsTyped /\ Queued /\ Me \in Asker
    BY Parts, TranscriptionAssumption DEF Asker
  <2>3. SlotsTyped' /\ Queued' /\ Asked'
    BY <2>1, <2>2, BackKeeps DEF Asked
  <2>4. WorkTyped'
    <3>1. known' \in BOOLEAN /\ mayFall' \in BOOLEAN /\ second' \in BOOLEAN
      BY <2>1, <2>2 DEF WorkTyped
    <3>2. /\ pos' \in 1 .. NumChunks /\ tries' \in 0 .. MaxRechecks
          /\ units' \in Seq(0 .. NumChunks) /\ merged' \in Seq(0 .. NumChunks)
      BY <2>1, <2>2
    <3>3. QED BY <2>1, <3>1, <3>2 DEF WorkTyped
  <2>5. UnitsOK'
    BY <2>1, <2>2 DEF UnitsOK, Planned
  <2>6. LangTyped' /\ HeardOK' /\ PinOK'
    BY <2>1, <2>2 DEF LangTyped, HeardOK, PinOK, PinIsJustified, Planned, Maybe
  <2>7. QED BY <2>3, <2>4, <2>5, <2>6, FromParts
<1>2. CASE ~mayFall
  BY <1>2, Fails DEF TooLarge
<1>3. QED BY <1>1, <1>2

-----------------------------------------------------------------------------
(* The theorems                                                              *)

\* Nothing is asked, planned or merged when the transcription begins.
LEMMA InitHolds ==
  ASSUME Init
  PROVE  IInv
<1>1. NumChunks \in Nat \ {0, 1} /\ MaxRechecks \in Nat /\ Me \in Asker
  BY TranscriptionAssumption DEF Asker
<1>2. SlotsTyped /\ Queued /\ Asked
  BY <1>1 DEF Init, SlotsTyped, Queued, Asked, IsInjective
<1>3. WorkTyped /\ UnitsOK
  <2>1. /\ pos = 1 /\ tries = 0 /\ units = <<>> /\ merged = <<>> /\ pc = "begin"
        /\ {mayFall, known, second} \subseteq BOOLEAN
    BY DEF Init
  <2>2. /\ pos \in 1 .. NumChunks /\ tries \in 0 .. MaxRechecks
        /\ units \in Seq(0 .. NumChunks) /\ merged \in Seq(0 .. NumChunks)
        /\ Len(units) = 0 /\ Len(merged) = 0
    BY <1>1, <2>1
  <2>3. QED BY <1>1, <2>1, <2>2 DEF WorkTyped, UnitsOK, Planned
<1>4. LangTyped /\ HeardOK /\ PinOK
  BY DEF Init, LangTyped, HeardOK, PinOK, PinIsJustified, Planned, Maybe
<1>5. QED BY <1>2, <1>3, <1>4, Parts

\* The invariant is inductive.
THEOREM Invariance == Spec => []IInv
<1>1. Init => IInv
  BY InitHolds
<1>2. ASSUME IInv, [Next]_vars PROVE IInv'
  <2>1. CASE UNCHANGED vars
    <3>1. SlotsTyped /\ Queued /\ Asked
      BY <1>2, Parts
    <3>2. UNCHANGED <<req, waiting, pc, meta, plan, lang, progress>>
      BY <2>1 DEF vars, slots
    <3>3. SlotsTyped' /\ Queued' /\ (req'[Me] # "none" => Wants(Me))
      BY <3>1, <3>2 DEF SlotsTyped, Queued, Asked
    <3>4. QED BY <1>2, <3>2, <3>3, OnlySlots
  <2>2. CASE \/ \E a \in Asker : Ask(a) \/ Send(a)
             \/ \E a \in Other : OtherAnswered(a)
    BY <1>2, <2>2, SlotsStep
  <2>3. CASE FirstAnswer
    BY <1>2, <2>3, FirstAnswerStep
  <2>4. CASE RecheckAnswer
    BY <1>2, <2>4, RecheckAnswerStep
  <2>5. CASE TooLarge
    BY <1>2, <2>5, TooLargeStep
  <2>6. CASE Error
    BY <1>2, <2>6, Fails DEF Error
  <2>7. CASE Begin
    BY <1>2, <2>7, BeginStep
  <2>8. CASE Split
    BY <1>2, <2>8, SplitStep
  <2>9. CASE Covered
    BY <1>2, <2>9, CoveredStep
  <2>10. QED BY <1>2, <2>1, <2>2, <2>3, <2>4, <2>5, <2>6, <2>7, <2>8, <2>9
             DEF Next, Answer, Step
<1>3. QED BY <1>1, <1>2, PTL DEF Spec

\* Requests, plan, languages and transcript have their types in every state.
THEOREM TypeCorrect == Spec => []TypeOK
<1>1. IInv => TypeOK
  BY DEF IInv
<1>2. QED BY <1>1, Invariance, PTL

\* A language is forced on the requests only because the publisher declared it,
\* the first answer of this attempt reported it, or the texts of two chunks agree
\* on it (transcribe.py:1064-1084, 1209-1231).
THEOREM PinJustified == Spec => []PinIsJustified
<1>1. IInv => PinIsJustified
  BY DEF IInv, PinOK
<1>2. QED BY <1>1, Invariance, PTL

\* What is merged is, at any time, the beginning of what was cut, and all of it
\* when the transcription is done (transcribe.py:1253-1312).
THEOREM CutsAreMerged == Spec => []EveryCutIsMerged
<1>1. ASSUME IInv PROVE EveryCutIsMerged
  <2>1. /\ units \in Seq(0 .. NumChunks) /\ merged \in Seq(0 .. NumChunks)
        /\ Len(units) \in Nat /\ Len(merged) \in Nat /\ pos \in Nat \ {0}
        /\ \A i \in 1 .. Len(merged) : merged[i] = units[i]
        /\ Len(merged) = IF pc = "done" THEN pos ELSE pos - 1
        /\ pc = "done" => pos = Len(units)
    BY <1>1, Parts DEF WorkTyped, UnitsOK
  <2>2. Len(merged) <= Len(units)
    <3>1. CASE Planned
      <4>1. pos <= Len(units)
        BY <1>1, <3>1, Parts DEF UnitsOK
      <4>2. QED BY <2>1, <4>1
    <3>2. CASE ~Planned
      <4>1. merged = <<>>
        BY <1>1, <3>2, Parts DEF UnitsOK
      <4>2. QED BY <2>1, <4>1
    <3>3. QED BY <3>1, <3>2
  <2>3. IsPrefix(merged, units)
    <3> DEFINE start == SubSeq(units, 1, Len(merged))
    <3>1. \A i \in 1 .. Len(merged) : units[i] \in 0 .. NumChunks
      <4>1. \A i \in 1 .. Len(merged) : i \in 1 .. Len(units)
        BY <2>1, <2>2
      <4>2. QED BY <2>1, <4>1, ElementOfSeq
    <3>2. /\ start \in Seq(0 .. NumChunks)
          /\ Len(start) = IF 1 <= Len(merged) THEN Len(merged) - 1 + 1 ELSE 0
          /\ \A i \in 1 .. Len(merged) - 1 + 1 : start[i] = units[1 + i - 1]
      BY <2>1, <3>1, SubSeqProperties
    <3> HIDE DEF start
    <3>3. Len(start) = Len(merged) /\ \A i \in 1 .. Len(merged) : start[i] = merged[i]
      BY <2>1, <3>2
    <3>4. merged = start
      BY <2>1, <3>2, <3>3
    <3>5. QED BY <2>2, <3>4 DEF IsPrefix, start
  <2>4. ASSUME pc = "done" PROVE merged = units /\ merged # <<>>
    <3>1. Len(merged) = Len(units) /\ Len(merged) # 0
      BY <2>1, <2>4
    <3>2. merged # <<>>
      BY <3>1
    <3>3. merged = units
      BY <2>1, <3>1
    <3>4. QED BY <3>2, <3>3
  <2>5. QED BY <2>3, <2>4 DEF EveryCutIsMerged
<1>2. QED BY <1>1, Invariance, PTL

=============================================================================
