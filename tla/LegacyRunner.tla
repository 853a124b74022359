---------------------------- MODULE LegacyRunner ----------------------------
(***************************************************************************)
(* ScanRunner::run_pipeline (termivar-scanner/src/runner.rs), which polls   *)
(* the registered phases one after another in a biased race against the     *)
(* host's cancellation and a timer, with the ledger of verified outcomes    *)
(* its context keeps (context.rs) and the checks RunReport::new makes of    *)
(* what it assembles (termivar-core/src/run_report.rs).                     *)
(*                                                                          *)
(* A phase is the set of things it can do while it is polled: commit a      *)
(* batch of reports, stay pending, or return in one of the ways             *)
(* classify_phase_result tells apart.  The token is read by the select once *)
(* per poll, so a phase that is being polled runs on after a cancellation   *)
(* until it returns or yields.                                              *)
(***************************************************************************)
EXTENDS Integers, Sequences, SequencesExt, FiniteSets

CONSTANTS
    MaxPhases,    \* bound: how many phases are registered
    MaxSteps,     \* MAX_RUN_REPORT_STEPS
    MaxOutcomes,  \* MAX_RUN_REPORT_OUTCOMES
    BatchLimit    \* phase -> how many reports its action may commit (0: not allowlisted)

(* record_legacy_verification_reports takes two reports of the SQL phase    *)
(* and one each of two others; a phase is its number and name, so there is  *)
(* one SQL phase at most.                                                   *)
ASSUME LegacyRunnerAssumption ==
    /\ {MaxPhases, MaxSteps, MaxOutcomes} \subseteq Nat
    /\ BatchLimit \in [1..MaxSteps -> 0..2]
    /\ \A p, q \in 1..MaxSteps : BatchLimit[p] = 2 /\ BatchLimit[q] = 2 => p = q

(* The outcomes of as many phases as are registered fit the report: each    *)
(* adds one, the SQL phase another.  MAX_RUN_REPORT_STEPS is                *)
(* MAX_RUN_REPORT_OUTCOMES, so with phases up to the limit they need not.   *)
RoomForOutcomes == \A n \in 0..MaxPhases : n <= MaxSteps => n < MaxOutcomes

VARIABLES
    count,       \* how many phases are registered
    usable,      \* the target is unchanged and no two phases are the same
    zero,        \* phase_timeout_secs is zero
    token,       \* the host's CancellationToken
    expired,     \* the bounded authority's wall time is used up
    pc,          \* where run_pipeline stands
    index,       \* the phase in hand
    timer,       \* its timeout has elapsed
    committed,   \* it has committed its batch of reports
    ledger,      \* legacy_verification_outcomes
    checkpoint,  \* the ledger's length when the phase began
    steps,       \* the statuses reported so far
    outcomes,    \* the outcomes reported so far
    saw,         \* saw_timeout, saw_join_failure, saw_budget_exhaustion
    cancelled,   \* the runner's own flag
    events,      \* what was published on the event bus
    report       \* status and stop code of the report

vars == <<count, usable, zero, token, expired, pc, index, timer, committed, ledger, checkpoint,
          steps, outcomes, saw, cancelled, events, report>>

Executions ==
    {"Succeeded", "Failed", "Panicked", "JoinFailed", "TimedOut", "Cancelled", "BudgetExhausted"}

(* The step status a phase execution is reported with.                      *)
StatusOf(execution) ==
    IF execution \in {"Panicked", "JoinFailed"} THEN "Failed" ELSE execution

NoReport == [status |-> "None", code |-> "None"]

Skipped(n) == [i \in 1..n |-> "Skipped"]

-----------------------------------------------------------------------------
lrInit ==
    /\ count \in 0..MaxPhases
    /\ usable \in BOOLEAN
    /\ zero \in BOOLEAN
    /\ token \in BOOLEAN
    /\ expired = FALSE
    /\ pc = "call"
    /\ index = 0
    /\ timer = FALSE
    /\ committed = FALSE
    /\ ledger = <<>>
    /\ checkpoint = 0
    /\ steps = <<>>
    /\ outcomes = <<>>
    /\ saw = {}
    /\ cancelled = FALSE
    /\ events = <<>>
    /\ report = NoReport

Done == pc \in {"refused", "reported", "rejected", "dropped"}

(* The host cancels, from any thread.                                       *)
HostCancels ==
    /\ ~token /\ ~Done
    /\ token' = TRUE
    /\ UNCHANGED <<count, usable, zero, expired, pc, index, timer, committed, ledger, checkpoint,
                   steps, outcomes, saw, cancelled, events, report>>

(* The authority the bounded phases share runs out of time.                 *)
AuthorityExpires ==
    /\ ~expired /\ ~Done
    /\ expired' = TRUE
    /\ UNCHANGED <<count, usable, zero, token, pc, index, timer, committed, ledger, checkpoint,
                   steps, outcomes, saw, cancelled, events, report>>

(* The head of run_pipeline: what it refuses before any effect, then the    *)
(* cancellation that was there before it.                                   *)
Begin ==
    /\ pc = "call"
    /\ IF ~usable \/ count > MaxSteps
       THEN pc' = "refused" /\ UNCHANGED <<steps, cancelled>>
       ELSE /\ cancelled' = token
            /\ pc' = IF token THEN "classify" ELSE "next"
            /\ steps' = IF token THEN Skipped(count) ELSE steps
    /\ UNCHANGED <<count, usable, zero, token, expired, index, timer, committed, ledger,
                   checkpoint, outcomes, saw, events, report>>

(* The head of the loop: a cancellation skips what is left, otherwise the   *)
(* ledger's checkpoint is taken and the phase announced.                    *)
NextPhase ==
    /\ pc = "next"
    /\ \/ /\ index = count
          /\ pc' = "classify"
          /\ UNCHANGED <<index, timer, committed, checkpoint, steps, cancelled, events>>
       \/ /\ index < count /\ token
          /\ steps' = steps \o Skipped(count - index)
          /\ cancelled' = TRUE
          /\ pc' = "classify"
          /\ UNCHANGED <<index, timer, committed, checkpoint, events>>
       \/ /\ index < count /\ ~token
          /\ index' = index + 1
          /\ timer' = zero
          /\ committed' = FALSE
          /\ checkpoint' = Len(ledger)
          /\ events' = Append(events, <<"PhaseStarted", index + 1>>)
          /\ pc' = IF zero THEN "timed_out" ELSE "poll"
          /\ UNCHANGED <<steps, cancelled>>
    /\ UNCHANGED <<count, usable, zero, token, expired, ledger, outcomes, saw, report>>

\* Bug: a phase that did not succeed keeps what it had committed.
RolledBackKept(execution) == ledger

(* rollback_legacy_verification_outcomes, on everything but success.        *)
RolledBack(execution) ==
    IF execution = "Succeeded" THEN ledger ELSE SubSeq(ledger, 1, checkpoint)

(* An outcome is its number in its phase's batch, 0 for an unknown one.      *)
Unknown(phase) == <<0, phase>>

(* What a phase's end adds to the outcomes: the verified ones since its     *)
(* checkpoint, or one unknown for raw findings without any.                 *)
Accepted(execution, findings) ==
    LET verified == SubSeq(ledger, checkpoint + 1, Len(ledger))
    IN  CASE execution # "Succeeded" -> <<>>
          [] execution = "Succeeded" /\ verified # <<>> -> verified
          [] execution = "Succeeded" /\ verified = <<>> ->
                IF findings THEN <<Unknown(index)>> ELSE <<>>

(* The flags an execution leaves for the classification.                    *)
Seen(execution) ==
    CASE execution = "TimedOut" -> {"timeout"}
      [] execution \in {"Panicked", "JoinFailed"} -> {"join"}
      [] execution = "BudgetExhausted" -> {"budget"}
      [] OTHER -> {}

(* What ends the loop early.                                                *)
StopsRun(execution) == execution \in {"Cancelled", "BudgetExhausted"}

(* publish_finished.                                                        *)
FinishedAs(execution) == IF execution = "Succeeded" THEN "PhaseCompleted" ELSE "PhaseFailed"

(* The rest of the loop's body, which runs without another await.           *)
Settle(execution, findings) ==
    /\ ledger' = RolledBack(execution)
    /\ outcomes' = outcomes \o Accepted(execution, findings)
    /\ saw' = saw \union Seen(execution)
    /\ cancelled' = (cancelled \/ execution = "Cancelled")
    /\ events' = Append(events, <<FinishedAs(execution), index>>)
    /\ steps' = Append(steps, StatusOf(execution)) \o
                    (IF StopsRun(execution) THEN Skipped(count - index) ELSE <<>>)
    /\ pc' = IF StopsRun(execution) THEN "classify" ELSE "next"
    /\ UNCHANGED <<count, usable, zero, token, expired, index, timer, committed, checkpoint, report>>

(* A zero timeout times out without polling the phase at all.               *)
TimesOutAtOnce ==
    /\ pc = "timed_out"
    /\ Settle("TimedOut", FALSE)

TimerFires ==
    /\ pc \in {"poll", "polling"} /\ ~timer
    /\ timer' = TRUE
    /\ UNCHANGED <<count, usable, zero, token, expired, pc, index, committed, ledger, checkpoint,
                   steps, outcomes, saw, cancelled, events, report>>

\* Bug: the select is not biased and happens to poll the phase first.
PollPhaseFirst ==
    /\ pc = "poll"
    /\ pc' = "polling"
    /\ UNCHANGED <<count, usable, zero, token, expired, index, timer, committed, ledger,
                   checkpoint, steps, outcomes, saw, cancelled, events, report>>

(* The select is polled: cancellation first, by its bias, then the phase.   *)
Poll ==
    /\ pc = "poll"
    /\ \/ token /\ Settle("Cancelled", FALSE)
       \/ /\ ~token
          /\ pc' = "polling"
          /\ UNCHANGED <<count, usable, zero, token, expired, index, timer, committed, ledger,
                         checkpoint, steps, outcomes, saw, cancelled, events, report>>

(* record_legacy_verification_reports: the commit is refused after a        *)
(* cancellation or past the deadline, and the ledger is bounded.            *)
CommitReports(n) ==
    /\ pc = "polling"
    /\ ~committed
    /\ n \in 1..BatchLimit[index]
    /\ ~token /\ ~expired
    /\ Len(ledger) + n <= MaxOutcomes
    /\ ledger' = ledger \o [i \in 1..n |-> <<i, index>>]
    /\ committed' = TRUE
    /\ UNCHANGED <<count, usable, zero, token, expired, pc, index, timer, checkpoint, steps,
                   outcomes, saw, cancelled, events, report>>

(* The polled phase returns, or panics.                                     *)
PhaseReturns(execution, findings) ==
    /\ pc = "polling"
    /\ execution \in Executions \ {"TimedOut"}
    /\ findings => execution = "Succeeded"
    /\ Settle(execution, findings)

(* The polled phase is pending: the timer is looked at last.                *)
PhasePends ==
    /\ pc = "polling"
    /\ \/ timer /\ Settle("TimedOut", FALSE)
       \/ /\ ~timer
          /\ pc' = "poll"
          /\ UNCHANGED <<count, usable, zero, token, expired, index, timer, committed, ledger,
                         checkpoint, steps, outcomes, saw, cancelled, events, report>>

(* The caller drops run_pipeline's future where it waits.                   *)
CallerDrops ==
    /\ pc = "poll"
    /\ pc' = "dropped"
    /\ UNCHANGED <<count, usable, zero, token, expired, index, timer, committed, ledger,
                   checkpoint, steps, outcomes, saw, cancelled, events, report>>

Succeeded == {i \in DOMAIN steps : steps[i] = "Succeeded"}

FailedSteps == {i \in DOMAIN steps : steps[i] \notin {"Succeeded", "Cancelled", "Skipped"}}

StopCode ==
    IF "join" \in saw THEN "TaskJoinFailed"
    ELSE IF "budget" \in saw THEN "BudgetExhausted"
    ELSE IF "timeout" \in saw THEN "StepTimedOut" ELSE "StepFailed"

(* classify_run.                                                            *)
Classify ==
    CASE cancelled -> [status |-> "Cancelled", code |-> "Cancelled"]
      [] ~cancelled /\ count = 0 -> [status |-> "Complete", code |-> "NoEligibleAction"]
      [] ~cancelled /\ count > 0 /\ FailedSteps = {} -> [status |-> "Complete", code |-> "Completed"]
      [] OTHER -> [status |-> IF Succeeded # {} THEN "Partial" ELSE "Failed", code |-> StopCode]

Has(status) == \E i \in DOMAIN steps : steps[i] = status

(* RunReport::new: bounds, status_matches_stop,                             *)
(* validate_aggregate_consistency and the fingerprints.                     *)
Consistent(r) ==
    /\ Len(steps) <= MaxSteps
    /\ Len(outcomes) <= MaxOutcomes
    /\ CASE r.status = "Complete" ->
                /\ r.code \in {"Completed", "NoEligibleAction"}
                /\ \A i \in DOMAIN steps : steps[i] = "Succeeded"
                /\ r.code = "Completed" => steps # <<>>
         [] r.status = "Partial" ->
                /\ r.code \in {"BudgetExhausted", "StepFailed", "StepTimedOut", "TaskJoinFailed"}
                /\ Has("Succeeded") \/ outcomes # <<>>
                /\ ~Has("Cancelled")
         [] r.status = "Failed" ->
                /\ r.code \in {"BudgetExhausted", "StepFailed", "StepTimedOut", "TaskJoinFailed"}
                /\ ~Has("Succeeded") /\ outcomes = <<>>
         [] r.status = "Cancelled" ->
                /\ r.code = "Cancelled"
                /\ steps = <<>> \/ Has("Cancelled") \/ Has("Skipped")
    /\ r.code \in {"StepFailed", "TaskJoinFailed"} => Has("Failed")
    /\ r.code = "StepTimedOut" => Has("TimedOut")
    /\ r.status = "Partial" /\ r.code = "BudgetExhausted" =>
           Has("BudgetExhausted") \/ Has("Succeeded")
    /\ IsInjective(outcomes)

(* The end of run_pipeline.                                                 *)
BuildReport ==
    /\ pc = "classify"
    /\ report' = Classify
    /\ pc' = IF Consistent(Classify) THEN "reported" ELSE "rejected"
    /\ UNCHANGED <<count, usable, zero, token, expired, index, timer, committed, ledger,
                   checkpoint, steps, outcomes, saw, cancelled, events>>

RunnerStep ==
    \/ Begin
    \/ NextPhase
    \/ TimesOutAtOnce
    \/ Poll
    \/ \E e \in Executions, f \in BOOLEAN : PhaseReturns(e, f)
    \/ PhasePends
    \/ BuildReport

lrNext ==
    \/ HostCancels
    \/ AuthorityExpires
    \/ TimerFires
    \/ \E n \in 1..2 : CommitReports(n)
    \/ CallerDrops
    \/ RunnerStep

lrSpec == lrInit /\ [][lrNext]_vars

(* tokio keeps polling the run and fires its timer; a polled phase returns  *)
(* to the select, if only to say that it is pending.                        *)
lrFairSpec == lrSpec /\ WF_vars(RunnerStep) /\ WF_vars(TimerFires)

-----------------------------------------------------------------------------
(* The runner's state is of its types and within the context's ledger bound. *)
lrTypeOK ==
    /\ pc \in {"call", "next", "timed_out", "poll", "polling", "classify",
               "refused", "reported", "rejected", "dropped"}
    /\ index \in 0..count
    /\ checkpoint \in 0..Len(ledger)
    /\ Len(ledger) <= MaxOutcomes
    /\ saw \subseteq {"timeout", "join", "budget"}
    /\ \A i \in DOMAIN steps : steps[i] \in {"Succeeded", "Failed", "TimedOut", "Cancelled",
                                             "BudgetExhausted", "Skipped"}
    /\ report = NoReport \/ report.status \in {"Complete", "Partial", "Failed", "Cancelled"}

(* A run that has had effects ends with a report: what run_pipeline         *)
(* assembles passes every check of RunReport::new, whatever the phases did. *)
ReportIsAccepted == pc # "rejected"

(* The order of the phases, and of the reports in a batch.                  *)
Precedes(o, p) == o[2] < p[2] \/ (o[2] = p[2] /\ o[1] < p[1])
InOrder(seq) == \A i, j \in DOMAIN seq : i < j => Precedes(seq[i], seq[j])

(* The outcomes in the report are those of phases that returned normally:   *)
(* what a phase committed before it failed, timed out or was cancelled is   *)
(* not in the report, and not in the ledger a later phase builds on, which  *)
(* holds the report's verified outcomes in the report's order.              *)
OutcomesAreOfSucceeded ==
    pc \in {"next", "classify", "reported"} =>
        /\ \A i \in DOMAIN outcomes : steps[outcomes[i][2]] = "Succeeded"
        /\ InOrder(outcomes) /\ InOrder(ledger)
        /\ Range(ledger) = {o \in Range(outcomes) : o[1] # 0}

(* Every registered phase has exactly one step, in order, and only a tail   *)
(* of them is skipped: all that follow a cancelled or budget-exhausted one, *)
(* or the moment the runner saw the cancellation.                           *)
EveryPhaseHasAStep ==
    pc \in {"classify", "reported"} =>
        /\ Len(steps) = count
        /\ \A i \in 1..count - 1 :
              steps[i] \in {"Cancelled", "BudgetExhausted", "Skipped"} => steps[i + 1] = "Skipped"
        /\ Has("Skipped") => cancelled \/ Has("BudgetExhausted")

(* The event bus tells the same story as the report: each phase that was    *)
(* not skipped was announced once and then finished once, with the event    *)
(* its step's status calls for, and no phase is announced after the end.    *)
EventsMatchSteps ==
    pc = "reported" =>
        LET ran == {i \in DOMAIN steps : steps[i] # "Skipped"}
        IN  /\ Len(events) = 2 * Cardinality(ran)
            /\ \A i \in ran :
                  /\ events[2 * i - 1] = <<"PhaseStarted", i>>
                  /\ events[2 * i] =
                        <<IF steps[i] = "Succeeded" THEN "PhaseCompleted" ELSE "PhaseFailed", i>>

(* However its phases end, the run is accounted for: it has a report that   *)
(* is accepted, with a step and events for every phase and the outcomes of  *)
(* those that succeeded (run_pipeline, RunReport::new).                     *)
RunIsAccountedFor ==
    /\ lrTypeOK /\ ReportIsAccepted /\ OutcomesAreOfSucceeded
    /\ EveryPhaseHasAStep /\ EventsMatchSteps

(* Once the host has cancelled, no phase is polled again and none that was  *)
(* not being polled already succeeds: the steps after it are cancelled,     *)
(* skipped or, with a zero timeout, timed out unpolled.                     *)
CancellationIsPrompt ==
    [][token =>
          /\ pc' = "polling" => pc = "polling"
          /\ pc # "polling" =>
                \A i \in DOMAIN steps' :
                    i > Len(steps) => steps'[i] \in {"Cancelled", "Skipped", "TimedOut"}]_vars

(* Every run ends, even with a phase that never completes.                  *)
RunEnds == pc = "next" ~> Done

(* A run ends by itself and soon after a cancellation: the biased race of   *)
(* cancellation, phase and timer starves neither (run_pipeline's select).   *)
RunEndsPromptly == CancellationIsPrompt /\ RunEnds

=============================================================================
