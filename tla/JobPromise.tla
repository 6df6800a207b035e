----------------------------- MODULE JobPromise -----------------------------
(***************************************************************************)
(* What the daemon promises about a job, without pipelines, queue, workers *)
(* or pause: an accepted job is held by exactly one executor until that    *)
(* executor gives it a final status; only a failed job that nobody holds   *)
(* is taken up again; a deleted job never comes back.  JobLifecycle        *)
(* implements it.                                                          *)
(***************************************************************************)
CONSTANT Jobs

VARIABLES
    state,  \* "absent", "open" (queued or running), "done", "failed", "deleted"
    held    \* an executor works on the job, or will

Init ==
    /\ state = [j \in Jobs |-> "absent"]
    /\ held  = [j \in Jobs |-> FALSE]

Move(j, from, to, now) ==
    /\ state[j] = from
    /\ state' = [state EXCEPT ![j] = to]
    /\ held'  = [held EXCEPT ![j] = now]

Accept(j)    == ~held[j] /\ Move(j, "absent", "open", TRUE)
Retry(j)     == ~held[j] /\ Move(j, "failed", "open", TRUE)
Settle(j, s) == held[j] /\ Move(j, "open", s, FALSE)
\* The executor of a deleted job is not told: it finds out, and lets go.
LetGo(j)     == held[j] /\ Move(j, "deleted", "deleted", FALSE)

Delete(j) ==
    /\ state[j] \in {"open", "done", "failed"}
    /\ state' = [state EXCEPT ![j] = "deleted"]
    /\ UNCHANGED held

\* The daemon starts again: every open job is held again or failed at once,
\* and nothing else is held.
Recover ==
    \E lost \in SUBSET {j \in Jobs : state[j] = "open"} :
        /\ state' = [j \in Jobs |-> IF j \in lost THEN "failed" ELSE state[j]]
        /\ held'  = [j \in Jobs |-> state'[j] = "open"]

Next ==
    \/ \E j \in Jobs :
          \/ Accept(j) \/ Retry(j) \/ Delete(j) \/ LetGo(j)
          \/ \E s \in {"done", "failed"} : Settle(j, s)
    \/ Recover

Spec == Init /\ [][Next]_<<state, held>>

=============================================================================
