------------------------------- MODULE LlmSlots -------------------------------
(***************************************************************************)
(* The slots of the LLM backend (llm/client.py): one semaphore for every   *)
(* completion and stream of the daemon, taken with an eye on the pause.    *)
(* Summaries, translations and PDF pages wait while the workers are        *)
(* paused; questions and answers do not.  The semaphore is asyncio's: it   *)
(* wakes its waiters in order, and a woken waiter runs later.              *)
(***************************************************************************)
EXTENDS Integers, Sequences, FiniteSets, SequencesExt

CONSTANTS
    Callers,   \* tasks that call the LLM, one call at a time
    Patient,   \* those that call with respect_pause=True
    MaxCalls   \* llm.max_concurrent_calls

ASSUME CallersAssumption  == IsFiniteSet(Callers) /\ Patient \subseteq Callers
ASSUME MaxCallsAssumption == MaxCalls \in Nat \ {0}

VARIABLES
    paused,   \* WorkerControl._paused
    free,     \* Semaphore._value
    line,     \* callers asleep in acquire(), in order
    pc,       \* where each caller is
    dropped   \* stream generators let go at a yield, not yet closed

vars == <<paused, free, line, pc, dropped>>

\* "polling" sleeps in wait_if_paused, "waiting" in acquire(); "woken" has been
\* given a permit and not run yet; "calling" awaits the response, "chunks" the
\* next chunk; "delta": the generator is suspended at its yield, the consumer runs.
Steps   == {"idle", "polling", "waiting", "woken", "calling", "chunks", "delta"}
Holding == {"woken", "calling", "chunks", "delta"}

-----------------------------------------------------------------------------
(* asyncio.Semaphore: what its methods do to the state [free, line, pc].    *)

Now == [free |-> free, line |-> line, pc |-> pc]
Becomes(s) == free' = s.free /\ line' = s.line /\ pc' = s.pc

At(s, c, step) == [s EXCEPT !.pc = [s.pc EXCEPT ![c] = step]]

WakeNext(s) ==
    IF s.line = <<>> THEN s
    ELSE [free |-> s.free - 1, line |-> Tail(s.line),
          pc   |-> [s.pc EXCEPT ![Head(s.line)] = "woken"]]

Release(s) == WakeNext([s EXCEPT !.free = @ + 1])

\* Nobody overtakes a waiter, not even one that is already woken.
Unlocked(s) == s.free > 0 /\ s.line = <<>> /\ \A c \in Callers : s.pc[c] # "woken"

Acquire(s, c) ==
    IF Unlocked(s)
    THEN [At(s, c, "calling") EXCEPT !.free = @ - 1]
    ELSE [At(s, c, "waiting") EXCEPT !.line = Append(@, c)]

\* A waiter that goes on passes a spare permit to the next.
Resumed(s, c) ==
    LET t == At(s, c, "calling") IN IF t.free > 0 THEN WakeNext(t) ELSE t

GiveBack(s, c, step) == Release(At(s, c, step))

-----------------------------------------------------------------------------
(* llm/client.py                                                            *)

\* A call begins: wait for the pause to clear, then for a slot.
Call(c) ==
    /\ pc[c] = "idle"
    /\ Becomes(IF c \in Patient /\ paused THEN At(Now, c, "polling") ELSE Acquire(Now, c))
    /\ UNCHANGED <<paused, dropped>>

\* The sleeping poll sees the pause cleared.
PollEnds(c) ==
    /\ pc[c] = "polling" /\ ~paused
    /\ Becomes(Acquire(Now, c))
    /\ UNCHANGED <<paused, dropped>>

\* Faults: no second look at the pause; the slot kept over the pause; the slot
\* forgotten at the second look.
AcquiredWithoutRecheck(c) ==
    /\ pc[c] = "woken"
    /\ Becomes(Resumed(Now, c))
    /\ UNCHANGED <<paused, dropped>>
AcquiredKeepsSlot(c) ==
    /\ pc[c] = "woken"
    /\ ~(c \in Patient /\ paused)
    /\ Becomes(Resumed(Now, c))
    /\ UNCHANGED <<paused, dropped>>
AcquiredForgetsSlot(c) ==
    /\ pc[c] = "woken"
    /\ Becomes(IF c \in Patient /\ paused
               THEN At(Resumed(Now, c), c, "polling")
               ELSE Resumed(Now, c))
    /\ UNCHANGED <<paused, dropped>>

\* acquire() returns to a waiter: look at the pause again, and give the slot
\* back if the flag has gone up in the meantime.
Acquired(c) ==
    /\ pc[c] = "woken"
    /\ Becomes(IF c \in Patient /\ paused
               THEN GiveBack(Resumed(Now, c), c, "polling")
               ELSE Resumed(Now, c))
    /\ UNCHANGED <<paused, dropped>>

\* The backend starts to stream its answer.
StreamOpens(c) ==
    /\ pc[c] = "calling"
    /\ Becomes(At(Now, c, "chunks"))
    /\ UNCHANGED <<paused, dropped>>

\* A chunk with text is handed to the consumer, who comes back for more.
ChunkArrives(c) ==
    /\ pc[c] = "chunks"
    /\ Becomes(At(Now, c, "delta"))
    /\ UNCHANGED <<paused, dropped>>
ConsumerResumes(c) ==
    /\ pc[c] = "delta"
    /\ Becomes(At(Now, c, "chunks"))
    /\ UNCHANGED <<paused, dropped>>

\* Fault: an error of the call skips the release.
ReturnsWithoutRelease(c) ==
    /\ pc[c] \in {"calling", "chunks"}
    /\ \/ Becomes(GiveBack(Now, c, "idle"))
       \/ Becomes(At(Now, c, "idle"))
    /\ UNCHANGED <<paused, dropped>>

\* The response, the end of the stream, a stalled stream, or an error: the
\* finally block gives the slot back.
Returns(c) ==
    /\ pc[c] \in {"calling", "chunks"}
    /\ Becomes(GiveBack(Now, c, "idle"))
    /\ UNCHANGED <<paused, dropped>>

\* A consumer stops reading (a repetition loop, an error of its own) and drops
\* the generator, which keeps the slot until the event loop closes it.
Abandons(c) ==
    /\ pc[c] = "delta"
    /\ Becomes(At(Now, c, "idle"))
    /\ dropped' = dropped + 1
    /\ UNCHANGED paused

\* The event loop closes a dropped generator: its finally block runs.
Closed ==
    /\ dropped > 0
    /\ dropped' = dropped - 1
    /\ Becomes(Release(Now))
    /\ UNCHANGED paused

\* The client of a question disconnects and its handler is cancelled where it
\* waits: asleep in acquire(), woken, or in the call.
Disconnects(c) ==
    /\ c \notin Patient
    /\ \/ \E i \in DOMAIN line :
             /\ line[i] = c
             /\ Becomes([At(Now, c, "idle") EXCEPT !.line = RemoveAt(line, i)])
       \/ /\ pc[c] \in {"woken", "calling", "chunks"}
          /\ Becomes(GiveBack(Now, c, "idle"))
    /\ UNCHANGED <<paused, dropped>>

Pause ==
    /\ ~paused
    /\ paused' = TRUE
    /\ UNCHANGED <<free, line, pc, dropped>>
Resume ==
    /\ paused
    /\ paused' = FALSE
    /\ UNCHANGED <<free, line, pc, dropped>>

-----------------------------------------------------------------------------
Init ==
    /\ paused  = FALSE
    /\ free    = MaxCalls
    /\ line    = <<>>
    /\ pc      = [c \in Callers |-> "idle"]
    /\ dropped = 0

CallStep(c) ==
    \/ Call(c)         \/ PollEnds(c)        \/ Acquired(c)
    \/ StreamOpens(c)  \/ ChunkArrives(c)    \/ ConsumerResumes(c)
    \/ Returns(c)      \/ Abandons(c)        \/ Disconnects(c)

Next ==
    \/ \E c \in Callers : CallStep(c)
    \/ Closed
    \/ Pause \/ Resume

\* The loop runs every ready task and closes what was dropped; a backend answers
\* or times out, and max_tokens bounds a stream whose consumer keeps reading.
\* Nobody has to call, to hang up, to pause or to resume.
Fairness ==
    /\ \A c \in Callers :
          /\ WF_vars(PollEnds(c))
          /\ WF_vars(Acquired(c))
          /\ SF_vars(Returns(c))
          /\ WF_vars(ConsumerResumes(c))
    /\ WF_vars(Closed)

Spec     == Init /\ [][Next]_vars
FairSpec == Spec /\ Fairness

-----------------------------------------------------------------------------
(* Properties                                                               *)

TypeOK ==
    /\ paused  \in BOOLEAN
    /\ free    \in 0..MaxCalls
    /\ line    \in Seq(Callers)
    /\ pc      \in [Callers -> Steps]
    /\ dropped \in 0..MaxCalls

HoldersIn(f) == {c \in Callers : f[c] \in Holding}

\* No slot is lost and none is made up: whatever is not free is held by a call
\* or by a generator about to be closed.  (Releases are spread over a finally
\* block, the re-check of the pause and the semaphore's own cancellation.)
SlotsConserved == free + Cardinality(HoldersIn(pc)) + dropped = MaxCalls

\* While paused no call that respects the pause starts, however many were
\* waiting for a slot when the pause came (client.py:20-26).
PausedStartsNothing ==
    [][ paused /\ paused' =>
        \A c \in Patient : pc'[c] = "calling" => pc[c] = "calling" ]_vars

\* A question waiting for a slot gets it, even if the workers stay paused and
\* the slot first goes round the paused callers ahead of it in the line.
QuestionsServed ==
    \A c \in Callers \ Patient : pc[c] = "waiting" ~> pc[c] \in {"calling", "idle"}

\* Once the pause is over for good, every call that waited for it is made.
PatientServed ==
    (<>[]~paused) =>
        \A c \in Patient : pc[c] \in {"polling", "waiting", "woken"} ~> pc[c] = "calling"

=============================================================================
