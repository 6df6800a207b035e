\* Two callers that respect the pause and two that do not, on two slots.
SPECIFICATION FairSpec
CONSTANTS
    Callers = {s1, s2, q1, q2}
    Patient = {s1, s2}
    MaxCalls = 2
INVARIANTS SlotsConserved
PROPERTIES PausedStartsNothing QuestionsServed PatientServed
