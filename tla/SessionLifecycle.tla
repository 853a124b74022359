-------------------------- MODULE SessionLifecycle --------------------------
(***************************************************************************)
(* What the decision loop and the web runtime promise about a session      *)
(* (src/crates/termivar-scanner/src/decision_loop/state.rs): an action is  *)
(* issued by a plan or by an outcome, every outcome answers an issued      *)
(* action and an action has at most two (a passive one and, if that        *)
(* escalated, an active one), a session ends completed, exhausted (no      *)
(* eligible action) or stopped (limits, review, cancellation), and only    *)
(* exhaustion may still be turned into something else.                     *)
(***************************************************************************)
EXTENDS Naturals

CONSTANT MaxIssued

VARIABLES phase, issued, outcomes

slVars == <<phase, issued, outcomes>>

Awaited == {"AwaitingPassive", "AwaitingActive"}

slInit == phase = "Ready" /\ issued = 0 /\ outcomes = 0

IssueOne ==
    /\ issued < MaxIssued
    /\ issued' = issued + 1
    /\ phase' = "AwaitingPassive"

\* A plan issues an action or ends the session.
Plan ==
    /\ phase = "Ready"
    /\ \/ IssueOne
       \/ phase' \in {"Exhausted", "Stopped"} /\ UNCHANGED issued
    /\ UNCHANGED outcomes

\* An outcome answers the awaited evidence; only a passive one escalates.
Conclude ==
    /\ phase \in Awaited
    /\ outcomes' = outcomes + 1
    /\ \/ IssueOne
       \/ /\ phase' \in {"Ready", "Completed", "Stopped"}
          /\ UNCHANGED issued
       \/ /\ phase = "AwaitingPassive" /\ phase' = "AwaitingActive"
          /\ UNCHANGED issued

\* An issued action is given up before it is dispatched.
Suppress ==
    /\ phase \in Awaited
    /\ phase' = "Ready"
    /\ UNCHANGED <<issued, outcomes>>

\* The host stops the session.
Stop ==
    /\ phase # "Completed"
    /\ phase' = "Stopped"
    /\ UNCHANGED <<issued, outcomes>>

\* The aggregate of an exhausted session: complete, or to be reviewed.
Finalize ==
    /\ phase = "Exhausted"
    /\ phase' \in {"Completed", "Stopped"}
    /\ UNCHANGED <<issued, outcomes>>

slNext == Plan \/ Conclude \/ Suppress \/ Stop \/ Finalize

slSpec == slInit /\ [][slNext]_slVars

=============================================================================
