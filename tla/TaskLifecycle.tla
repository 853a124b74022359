--------------------------- MODULE TaskLifecycle ---------------------------
(***************************************************************************)
(* What the coordinator promises about one task, whatever its queue, its   *)
(* leases, its counters and its clock do: a task is submitted once, is     *)
(* granted to one worker at a time, is completed only by the worker that   *)
(* holds it and has begun it, is given up as failed only after every       *)
(* attempt was spent, and never leaves a terminal phase.                   *)
(***************************************************************************)
EXTENDS Naturals

CONSTANTS Tasks, Workers, Nobody, MaxAttempts

Ended  == {"Completed", "Failed", "Cancelled", "Expired"}
Phases == {"Unknown", "Queued", "Leased", "Running"} \cup Ended

VARIABLES
    phase,      \* phase of each task
    owner,      \* the worker that holds it
    attempts    \* how often it was granted

vars == <<phase, owner, attempts>>

Init ==
    /\ phase = [t \in Tasks |-> "Unknown"]
    /\ owner = [t \in Tasks |-> Nobody]
    /\ attempts = [t \in Tasks |-> 0]

\* t moves to phase p, held by w, after n grants.
Becomes(t, p, w, n) == phase'[t] = p /\ owner'[t] = w /\ attempts'[t] = n

Submit(t) == phase[t] = "Unknown" /\ Becomes(t, "Queued", Nobody, 0)

Grant(t) ==
    /\ phase[t] = "Queued" /\ attempts[t] < MaxAttempts
    /\ \E w \in Workers : Becomes(t, "Leased", w, attempts[t] + 1)

Begin(t) == phase[t] = "Leased" /\ Becomes(t, "Running", owner[t], attempts[t])

\* The attempt is lost: its worker failed it, went away or let the lease lapse.
Retry(t) ==
    /\ phase[t] \in {"Leased", "Running"} /\ attempts[t] < MaxAttempts
    /\ Becomes(t, "Queued", Nobody, attempts[t])

GiveUp(t) ==
    /\ phase[t] \in {"Leased", "Running"} /\ attempts[t] = MaxAttempts
    /\ Becomes(t, "Failed", Nobody, attempts[t])

Complete(t) == phase[t] = "Running" /\ Becomes(t, "Completed", Nobody, attempts[t])

Drop(t) ==
    /\ phase[t] \in {"Queued", "Leased", "Running"}
    /\ \E p \in {"Cancelled", "Expired"} : Becomes(t, p, Nobody, attempts[t])

Stay(t) == Becomes(t, phase[t], owner[t], attempts[t])

TaskStep(t) ==
    Submit(t) \/ Grant(t) \/ Begin(t) \/ Retry(t) \/ GiveUp(t) \/ Complete(t) \/ Drop(t)

\* Recovery and expiry move several tasks in one command.
Next ==
    /\ phase' \in [Tasks -> Phases]
    /\ owner' \in [Tasks -> Workers \cup {Nobody}]
    /\ attempts' \in [Tasks -> 0..MaxAttempts]
    /\ \A t \in Tasks : TaskStep(t) \/ Stay(t)

Spec == Init /\ [][Next]_vars
=============================================================================
