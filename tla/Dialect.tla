------------------------------- MODULE Dialect -------------------------------
(***************************************************************************)
(* How the daemon learns the request shape its LLM backend accepts         *)
(* (llm/client.py, "dialect"): a call that is refused with an HTTP 400     *)
(* corrects the dialect object it was built from, which concurrent calls   *)
(* share, and is repeated a bounded number of times.  A change of the      *)
(* configuration replaces the object under the calls in flight; a          *)
(* connectivity test (POST /config/test) brings an object of its own.      *)
(* The specification carries the prefix Dialect because LlmClientProofs    *)
(* extends this module and LlmSlots.                                       *)
(***************************************************************************)
EXTENDS Integers, FiniteSets

CONSTANTS
    Calls,     \* calls that may be in flight at once
    Objects,   \* identities of _Dialect objects
    Setups,    \* what an object is made for: what its backend refuses in the
               \* default form, what its configuration pins
    None       \* no object cached yet

\* The parts of a request that backends disagree about.
Dimensions == {"token_param", "temperature", "reasoning_effort"}
\* Those a configuration may pin.
Pinnable   == {"token_param", "temperature"}

FewerDialectAttempts == 3   \* Fault: no attempt left to succeed
MaxDialectAttempts   == 4

ASSUME CallsAssumption == IsFiniteSet(Calls)
ASSUME ObjectsAssumption == None \notin Objects
ASSUME SetupsAssumption  ==
    Setups \subseteq [rejects : SUBSET Dimensions, pins : SUBSET Pinnable] /\ Setups # {}

VARIABLES
    cached,    \* the object _dialect() returns, None if it is still to be built
    learned,   \* per object: the dimensions it sends in the corrected form
    setup,     \* per object: what it was made for
    call       \* per call: progress, whether it belongs to a connectivity test,
               \* object, dimensions corrected in the request, attempts made

dialectVars == <<cached, learned, setup, call>>

Results == {"ok", "refused", "exhausted"}
NoCall  == [pc |-> "idle", test |-> FALSE, dialect |-> None, sent |-> {}, tries |-> 0]
CallRecords == [pc : {"idle", "sent"} \cup Results, test : BOOLEAN,
                dialect : Objects \cup {None},
                sent : SUBSET Dimensions, tries : 0..MaxDialectAttempts]

\* An object nobody refers to stands for one still to be allocated.
Unused(o) == o # cached /\ \A c \in Calls : call[c].dialect # o

\* A dialect for some backend and configuration.  A pinned dimension is sent as
\* the configuration says, right or wrong.
NewDialect(o, corrected, new) ==
    /\ Unused(o)
    /\ learned' = [learned EXCEPT ![o] = corrected]
    /\ setup'   = [setup EXCEPT ![o] = new]

Sends(c, test, o, corrected, tries) ==
    call' = [call EXCEPT ![c] =
               [pc |-> "sent", test |-> test, dialect |-> o, sent |-> corrected,
                tries |-> tries]]

Ends(c, result) == call' = [call EXCEPT ![c].pc = result]

-----------------------------------------------------------------------------
\* A call with the cached object, which it builds if there is none.
CallBegins(c) ==
    /\ call[c].pc = "idle"
    /\ \/ /\ cached # None
          /\ Sends(c, FALSE, cached, learned[cached], 1)
          /\ UNCHANGED <<cached, learned, setup>>
       \/ /\ cached = None
          /\ \E o \in Objects, new \in Setups :
                /\ NewDialect(o, {}, new)
                /\ cached' = o
                /\ Sends(c, FALSE, o, {}, 1)

\* A connectivity test, with a throwaway object.
ProbeBegins(c) ==
    /\ call[c].pc = "idle"
    /\ \E o \in Objects, new \in Setups :
          /\ NewDialect(o, {}, new)
          /\ Sends(c, TRUE, o, {}, 1)
    /\ UNCHANGED cached

\* A test makes further calls with its object, or with a copy that sends
\* reasoning_effort where the object left it out.
ProbeGoesOn(c) ==
    /\ call[c].test /\ call[c].pc \in Results
    /\ LET old == call[c].dialect IN
       \/ /\ Sends(c, TRUE, old, learned[old], 1)
          /\ UNCHANGED <<learned, setup>>
       \/ \E o \in Objects, new \in Setups :
             /\ new.pins = setup[old].pins
             /\ new.rejects = setup[old].rejects \cup {"reasoning_effort"}
             /\ NewDialect(o, learned[old], new)
             /\ Sends(c, TRUE, o, learned[old], 1)
    /\ UNCHANGED cached

\* What is wrong with the request of c, for the backend it was sent to.
Wrong(c) == setup[call[c].dialect].rejects \ call[c].sent

Accepted(c) ==
    /\ call[c].pc = "sent" /\ Wrong(c) = {}
    /\ Ends(c, "ok")
    /\ UNCHANGED <<cached, learned, setup>>

\* Fault: the correction goes to the object cached by now.
CorrectsCached(c, d) ==
    LET o == IF cached = None THEN call[c].dialect ELSE cached IN
    learned' = [learned EXCEPT ![o] = @ \cup {d}]

\* The 400 blames d: the object the call was built from is corrected.
Corrects(c, d) == learned' = [learned EXCEPT ![call[c].dialect] = @ \cup {d}]

\* A 400 that blames a dimension the dialect may correct: another attempt, with
\* all that was learned in the meantime, as long as there are attempts.
Adapts(c) ==
    /\ call[c].pc = "sent"
    /\ \E d \in Wrong(c) \ setup[call[c].dialect].pins :
          /\ Corrects(c, d)
          /\ IF call[c].tries < MaxDialectAttempts
             THEN Sends(c, call[c].test, call[c].dialect, learned'[call[c].dialect],
                        call[c].tries + 1)
             ELSE Ends(c, "exhausted")
    /\ UNCHANGED <<cached, setup>>

\* A 400 about something else, or about a pinned dimension.
Refused(c) ==
    /\ call[c].pc = "sent"
    /\ Ends(c, "refused")
    /\ UNCHANGED <<cached, learned, setup>>

\* The result is handed over; the caller may call again.
Returned(c) ==
    /\ call[c].pc \in Results
    /\ call' = [call EXCEPT ![c] = NoCall]
    /\ UNCHANGED <<cached, learned, setup>>

\* Fault: the object is reset in place, under the calls in flight.
ResetInPlace ==
    /\ cached # None
    /\ learned' = [learned EXCEPT ![cached] = {}]
    /\ UNCHANGED <<cached, setup, call>>

\* PATCH /config: the cached object goes, the calls in flight keep theirs.
ResetCaches ==
    /\ cached' = None
    /\ UNCHANGED <<learned, setup, call>>

-----------------------------------------------------------------------------
DialectInit ==
    /\ cached  = None
    /\ learned = [o \in Objects |-> {}]
    /\ setup   \in [Objects -> Setups]
    /\ call    = [c \in Calls |-> NoCall]

DialectNext ==
    \/ \E c \in Calls :
          \/ CallBegins(c)  \/ ProbeBegins(c)  \/ ProbeGoesOn(c)
          \/ Accepted(c)    \/ Adapts(c)
          \/ Refused(c)     \/ Returned(c)
    \/ ResetCaches

DialectSpec == DialectInit /\ [][DialectNext]_dialectVars

-----------------------------------------------------------------------------
(* Properties                                                               *)

DialectTypeOK ==
    /\ cached  \in Objects \cup {None}
    /\ learned \in [Objects -> SUBSET Dimensions]
    /\ setup   \in [Objects -> Setups]
    /\ call    \in [Calls -> CallRecords]

\* However many dimensions a backend refuses, one per answer, and whatever other
\* calls learn meanwhile: no call uses up its attempts on learning
\* (client.py:220-229).
NeverExhausted == \A c \in Calls : call[c].pc # "exhausted"

\* A dialect is only ever corrected where its own backend refused it: a late 400
\* from the backend of an earlier configuration, or from one under test, does
\* not spoil the dialect in use.
LearnedFromItsBackend == \A o \in Objects : learned[o] \subseteq setup[o].rejects \ setup[o].pins

\* What one call has paid for, no later call pays again: after a success, the
\* object sends everything its backend refuses in the corrected form.
SuccessIsRemembered ==
    \A c \in Calls : call[c].pc = "ok" => setup[call[c].dialect].rejects \subseteq learned[call[c].dialect]

=============================================================================
