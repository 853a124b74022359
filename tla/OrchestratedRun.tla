--------------------------- MODULE OrchestratedRun ---------------------------
(***************************************************************************)
(* One run of the lab orchestrator (termivar-exploit/src/orchestration.rs): *)
(* ExploitOrchestrator::authorize and ::execute, which drive an external    *)
(* step executor through attempt, trigger and impact verification, and the  *)
(* mandatory cleanup and its verification, while the host may cancel at any *)
(* moment from another thread.                                              *)
(*                                                                          *)
(* The run reads the cancellation generation at seven places and is blind   *)
(* to it in between; every stretch between two reads, or between a read and *)
(* an executor call, is one action here.  What a step does to its target is *)
(* not modelled: an executor is the set of answers the code distinguishes.  *)
(* Of the twelve budget dimensions the four call counts and the evidence    *)
(* references are kept; the others are summed and compared in the same way. *)
(***************************************************************************)
EXTENDS Integers, FiniteSets

CONSTANTS
    Plans,          \* the sealed plans: records of the fields below
    Budgets,        \* what a grant or a host may allow
    ManifestBudget, \* the manifest's ceiling
    References,     \* evidence references an executor can name
    MaxCancels      \* bound: how often the host cancels

VARIABLES
    pc,          \* where the run stands
    plan,        \* the sealed plan and its manifest's contract
    budget,      \* effective_budget
    generation,  \* ExploitCancellation::generation
    seen,        \* the generation read last, which a later read is compared with
    lifecycle,   \* ExploitLifecycle
    furthest,    \* furthest_proven_state
    pending,     \* the failure the run has met, if any
    trigger,     \* trigger_evidence
    impact,      \* ExploitImpactStatus
    cleanup,     \* ExploitCleanupStatus
    obligation,  \* cleanup_obligation
    usage,       \* ExploitRunUsage
    called,      \* whether the step under way was affordable and so called
    outcome,     \* the report's outcome
    proof,       \* ghost: the evidence impact was verified with
    lateCalls    \* ghost: verification calls begun after a cancellation

vars == <<pc, plan, budget, generation, seen, lifecycle, furthest, pending, trigger,
          impact, cleanup, obligation, usage, called, outcome, proof, lateCalls>>

Phases == {"Attempt", "TriggerVerification", "ImpactVerification", "Cleanup", "CleanupVerification"}

CleanupPhases == {"Cleanup", "CleanupVerification"}

Calls == {"Attempt", "Verification", "Cleanup"}

(* A plan's contract.  Cleanup is demanded of exactly the plans with a      *)
(* reversible side effect: of the risks OperationalRisk::validate accepts,  *)
(* a lab grant's policy admits no other that changes state.                 *)
Contracts ==
    [cleanup : BOOLEAN, reversible : BOOLEAN, independent : BOOLEAN, minimum : Nat,
     applicability : Nat, cost : [Phases -> Nat]]

Amounts == [steps : Nat, calls : [Calls -> Nat], evidence : Nat]

ASSUME PlansAssumption == Plans \subseteq {p \in Contracts : p.reversible = p.cleanup}

ASSUME BudgetsAssumption == Budgets \subseteq Amounts /\ ManifestBudget \in Amounts

ASSUME EnvironmentAssumption == IsFiniteSet(References) /\ MaxCancels \in Nat

(* What each phase counts against (record_call).                            *)
CallOf(phase) ==
    CASE phase = "Attempt" -> "Attempt"
      [] phase \in {"TriggerVerification", "ImpactVerification"} -> "Verification"
      [] phase \in CleanupPhases -> "Cleanup"

(* The phases a validated plan has: one step each, cleanup only when the    *)
(* manifest demands it.                                                     *)
PhasesOf(p) == IF p.cleanup THEN Phases ELSE Phases \ CleanupPhases

(* The evidence the whole plan may name (checked_add over its steps).       *)
Aggregate(p) ==
    p.cost["Attempt"] + p.cost["TriggerVerification"] + p.cost["ImpactVerification"] +
        (IF p.cleanup THEN p.cost["Cleanup"] + p.cost["CleanupVerification"] ELSE 0)

CallsOf(p, call) == Cardinality({ph \in PhasesOf(p) : CallOf(ph) = call})

Lesser(m, n) == IF m < n THEN m ELSE n

(* ExploitExecutionBudget::intersection.                                    *)
Intersection(b, c) ==
    [steps |-> Lesser(b.steps, c.steps),
     calls |-> [k \in Calls |-> Lesser(b.calls[k], c.calls[k])],
     evidence |-> Lesser(b.evidence, c.evidence)]

BudgetWithin(b, c) ==
    /\ b.steps <= c.steps
    /\ \A k \in Calls : b.calls[k] <= c.calls[k]
    /\ b.evidence <= c.evidence

(* validate_shape: the phases' steps fit into the planned ones.             *)
ShapeOk(b) == b.calls["Attempt"] + b.calls["Verification"] + b.calls["Cleanup"] <= b.steps

(* ExploitPlan::fits_budget.                                                *)
FitsBudget(p, b) ==
    /\ Cardinality(PhasesOf(p)) <= b.steps
    /\ \A k \in Calls : CallsOf(p, k) <= b.calls[k]
    /\ Aggregate(p) + p.applicability <= b.evidence

(* validate_steps: what the sealed plan was already held to.                *)
WellFormed(p) ==
    /\ Cardinality(PhasesOf(p)) <= ManifestBudget.steps
    /\ \A k \in Calls : CallsOf(p, k) <= ManifestBudget.calls[k]
    /\ Aggregate(p) <= ManifestBudget.evidence
    /\ p.minimum \in 1..ManifestBudget.evidence

NoUsage == [steps |-> 0, calls |-> [k \in Calls |-> 0], evidence |-> 0]

(* is_within, and what a call and a step's cost add.                        *)
UsageWithin(u) == BudgetWithin(u, budget)

RecordCall(u, phase) ==
    [u EXCEPT !.steps = @ + 1, !.calls[CallOf(phase)] = @ + 1]

Charge(u, cost) == [u EXCEPT !.evidence = @ + cost]

Terminal ==
    {"AuthorizationDenied", "CleanupFailed", "Completed", "Failed", "Cancelled",
     "BudgetExhausted", "Incomplete"}

EndStates == {"Failed", "Cancelled", "BudgetExhausted", "Incomplete"}

States ==
    Terminal \union
    {"Planned", "AttemptStarted", "AttemptDelivered", "TriggerObserved", "ImpactVerified",
     "CleanupRequired", "CleanupStarted", "CleanupVerified"}

(* ExploitLifecycle::transition, from Planned on.                           *)
Legal(from, to) ==
    /\ from \notin Terminal
    /\ \/ <<from, to>> \in
            {<<"Planned", "AttemptStarted">>,
             <<"AttemptStarted", "CleanupRequired">>, <<"AttemptStarted", "AttemptDelivered">>,
             <<"AttemptDelivered", "TriggerObserved">>, <<"TriggerObserved", "ImpactVerified">>,
             <<"AttemptDelivered", "CleanupRequired">>, <<"TriggerObserved", "CleanupRequired">>,
             <<"ImpactVerified", "CleanupRequired">>, <<"CleanupRequired", "CleanupStarted">>,
             <<"CleanupStarted", "CleanupVerified">>, <<"CleanupStarted", "CleanupFailed">>,
             <<"CleanupVerified", "Completed">>, <<"ImpactVerified", "Completed">>}
       \/ to \in EndStates

(* A transition the lifecycle refuses panics: Execution::transition expects *)
(* every one of its transitions to be legal.                                *)
After(from, to) == IF from # "panicked" /\ Legal(from, to) THEN to ELSE "panicked"

(* Execution::transition.                                                   *)
Transition(to) ==
    /\ lifecycle' = After(lifecycle, to)
    /\ furthest' = IF to \in EndStates THEN furthest ELSE to

None == [category |-> "None", terminal |-> "None", outcome |-> "None"]

Failure(category, end) == [category |-> category, terminal |-> end, outcome |-> end]

CancelledFailure == Failure("Cancelled", "Cancelled")
BudgetFailure == Failure("BudgetExhausted", "BudgetExhausted")
IncompleteFailure == Failure("Incomplete", "Incomplete")

(* cancelled_incomplete: a new cancellation during cleanup.                 *)
CancelledIncomplete ==
    [category |-> "Cancelled", terminal |-> "Incomplete", outcome |-> "Cancelled"]

(* failed_for.                                                              *)
FailedFor(phase) ==
    CASE phase = "Attempt" -> Failure("AttemptFailed", "Failed")
      [] phase = "TriggerVerification" -> Failure("TriggerNotObserved", "Incomplete")
      [] phase = "ImpactVerification" -> Failure("ImpactNotVerified", "Incomplete")
      [] phase = "Cleanup" -> Failure("CleanupFailed", "CleanupFailed")
      [] phase = "CleanupVerification" -> Failure("CleanupVerificationFailed", "CleanupFailed")

(* with_cleanup_terminal and cleanup_status.                                *)
CleanupTerminal(failure) ==
    [failure EXCEPT !.terminal = "CleanupFailed", !.outcome = "CleanupFailed"]

CleanupStatusOf(failure) ==
    IF failure.category \in {"CleanupFailed", "CleanupVerificationFailed"} THEN "Failed" ELSE "Incomplete"

Expected(phase) ==
    CASE phase = "Attempt" -> "AttemptDelivered"
      [] phase = "TriggerVerification" -> "TriggerObserved"
      [] phase = "ImpactVerification" -> "ImpactVerified"
      [] phase = "Cleanup" -> "CleanupPerformed"
      [] phase = "CleanupVerification" -> "CleanupVerified"

NotPerformed(phase) ==
    {"Failed", "Incomplete"} \union
        (IF phase \in {"Attempt", "Cleanup"} THEN {} ELSE {"NotObserved"})

(* What an executor can answer, as receipt_matches_permit sorts the         *)
(* receipts: a valid one names at most the references its step may cost,    *)
(* and proves an expected verification with at least one.                   *)
Receipts(phase) ==
    {[kind |-> "receipt", observation |-> o, evidence |-> e] :
        o \in NotPerformed(phase) \union {Expected(phase)},
        e \in {r \in SUBSET References : Cardinality(r) <= plan.cost[phase]}}

Proves(phase) == phase \in {"TriggerVerification", "ImpactVerification", "CleanupVerification"}

ValidReceipts(phase) ==
    {r \in Receipts(phase) :
        ~(Proves(phase) /\ r.observation = Expected(phase) /\ r.evidence = {})}

Mishaps == {"invalid receipt", "panic", "failed", "incomplete"}

NoReceipt(kind) == [kind |-> kind, observation |-> "None", evidence |-> {}]

(* What invoke has to deal with: the executor's answer, or its own refusal  *)
(* to call an executor for a step that cannot be afforded.                  *)
Answers(phase) ==
    IF called THEN ValidReceipts(phase) \union {NoReceipt(m) : m \in Mishaps}
    ELSE {NoReceipt("refused")}

(* invoke's reservation: the call happens only if the step's full cost fits *)
Affordable(phase) == UsageWithin(Charge(RecordCall(usage, phase), plan.cost[phase]))

(* invoke's charge after the call: the receipt's own usage, or the step's   *)
(* full cost when there is no receipt to trust.                             *)
Charged(phase, answer) ==
    CASE answer.kind = "receipt" -> Charge(usage, Cardinality(answer.evidence))
      [] answer.kind \in Mishaps -> Charge(usage, plan.cost[phase])
      [] answer.kind = "refused" -> usage

(* What invoke returns once its charge is made, None standing for Ok.       *)
InvokeFailure(phase, answer) ==
    CASE answer.kind = "refused" \/ ~UsageWithin(Charged(phase, answer)) -> BudgetFailure
      [] OTHER ->
        CASE answer.kind = "receipt" -> None
          [] answer.kind = "invalid receipt" -> Failure("InvalidReceipt", "Incomplete")
          [] answer.kind = "panic" -> Failure("ExecutorPanicked", "Failed")
          [] answer.kind = "failed" -> FailedFor(phase)
          [] answer.kind = "incomplete" -> IncompleteFailure

(* failure_from_receipt.                                                    *)
ReceiptFailure(phase, answer) ==
    IF answer.observation = "Incomplete" THEN IncompleteFailure ELSE FailedFor(phase)

StepFailure(phase, answer) ==
    IF InvokeFailure(phase, answer) # None THEN InvokeFailure(phase, answer)
    ELSE IF answer.observation # Expected(phase) THEN ReceiptFailure(phase, answer)
    ELSE None

(* run_verification_step's test of the impact receipt's evidence.           *)
ImpactIsProven(evidence) ==
    /\ plan.independent => trigger \intersect evidence = {}
    /\ Cardinality(trigger \union evidence) >= plan.minimum

-----------------------------------------------------------------------------
orInit ==
    /\ pc = "prepared"
    /\ plan \in {p \in Plans : WellFormed(p)}
    /\ budget = ManifestBudget
    /\ generation = 0 /\ seen = 0
    /\ lifecycle = "Planned" /\ furthest = "Planned"
    /\ pending = None
    /\ trigger = {} /\ proof = {}
    /\ impact = "NotVerified"
    /\ cleanup = "NotRequired"
    /\ obligation = FALSE
    /\ usage = NoUsage
    /\ called = FALSE
    /\ outcome = "None"
    /\ lateCalls = 0

(* ExploitCancellation::cancel, from any thread at any time.                *)
Cancel ==
    /\ generation < MaxCancels
    /\ pc \notin {"ended", "denied"}
    /\ generation' = generation + 1
    /\ UNCHANGED <<called, pc, plan, budget, seen, lifecycle, furthest, pending, trigger, impact,
                   cleanup, obligation, usage, outcome, proof, lateCalls>>

(* ExploitOrchestrator::authorize, and Execution::new for the plan it       *)
(* authorizes.                                                              *)
Authorize(grant, host) ==
    LET effective == Intersection(grant, host)
    IN  /\ pc = "prepared"
        /\ BudgetWithin(grant, ManifestBudget)
        /\ IF /\ BudgetWithin(host, ManifestBudget)
              /\ ShapeOk(effective)
              /\ FitsBudget(plan, effective)
           THEN /\ pc' = "authorized"
                /\ budget' = effective
                /\ cleanup' = IF plan.cleanup THEN "Required" ELSE "NotRequired"
                /\ usage' = Charge(NoUsage, plan.applicability)
           ELSE /\ pc' = "denied"
                /\ UNCHANGED <<budget, cleanup, usage>>
        /\ UNCHANGED <<called, plan, generation, seen, lifecycle, furthest, pending, trigger, impact,
                       obligation, outcome, proof, lateCalls>>

(* finish_terminal and into_report.                                         *)
Report(failure) ==
    /\ Transition(failure.terminal)
    /\ pc' = "ended"
    /\ outcome' = failure.outcome
    /\ pending' = failure

(* The head of run: a cancellation from before the run ends it at once.     *)
Start ==
    /\ pc = "authorized"
    /\ IF generation # 0
       THEN Report(CancelledFailure)
       ELSE /\ Transition("AttemptStarted")
            /\ pc' = "attempt"
            /\ UNCHANGED <<outcome, pending>>
    /\ UNCHANGED <<called, plan, budget, generation, seen, trigger, impact, cleanup, obligation, usage,
                   proof, lateCalls>>

(* invoke up to the call: the call is counted and made only if the step's   *)
(* full cost fits what is left of the budget.                               *)
Invoke(phase) ==
    /\ pc' = phase
    /\ called' = Affordable(phase)
    /\ usage' = IF Affordable(phase) THEN RecordCall(usage, phase) ELSE usage
    /\ lateCalls' = lateCalls +
           (IF CallOf(phase) = "Verification" /\ generation # 0 THEN 1 ELSE 0)

\* Bug: the obligation is recorded only once the attempt was delivered.
ObligedLater == FALSE

(* The obligation a mutating attempt leaves, recorded before it is made.    *)
Obliged == plan.cleanup /\ plan.reversible

(* The attempt-start linearization point, and the attempt's call.           *)
BeginAttempt ==
    /\ pc = "attempt"
    /\ IF generation # 0
       THEN /\ Report(CancelledFailure)
            /\ UNCHANGED <<obligation, usage, called, lateCalls>>
       ELSE /\ obligation' = Obliged
            /\ Invoke("Attempt")
            /\ UNCHANGED <<lifecycle, furthest, pending, outcome>>
    /\ UNCHANGED <<plan, budget, generation, seen, trigger, impact, cleanup, proof>>

ToCleanup == IF obligation THEN "clean up" ELSE "finish"

(* Where the run goes after an attempt or a verification.                   *)
Continue(phase, failure) ==
    CASE failure # None \/ phase = "ImpactVerification" -> ToCleanup
      [] failure = None /\ phase = "Attempt" -> "check trigger"
      [] failure = None /\ phase = "TriggerVerification" -> "check impact"

(* The attempt's answer: its receipt, then the cancellation that arrived    *)
(* while it ran, which outweighs any other failure.                         *)
AttemptAnswered(answer) ==
    LET failed == StepFailure("Attempt", answer)
        failure == IF generation # 0 THEN CancelledFailure ELSE failed
    IN  /\ pc = "Attempt"
        /\ usage' = Charged("Attempt", answer)
        /\ IF failed = None THEN Transition("AttemptDelivered") ELSE UNCHANGED <<lifecycle, furthest>>
        /\ pending' = failure
        /\ pc' = Continue("Attempt", failure)
        /\ UNCHANGED <<called, plan, budget, generation, seen, trigger, impact, cleanup, obligation,
                       outcome, proof, lateCalls>>

(* run_verification_step asks is_cancelled first ...                        *)
VerifyUnlessCancelled(phase) ==
    /\ pc = IF phase = "TriggerVerification" THEN "check trigger" ELSE "check impact"
    /\ IF generation # 0
       THEN /\ pending' = CancelledFailure
            /\ pc' = ToCleanup
       ELSE /\ pc' = IF phase = "TriggerVerification" THEN "read trigger" ELSE "read impact"
            /\ UNCHANGED pending
    /\ UNCHANGED <<called, plan, budget, generation, seen, lifecycle, furthest, trigger, impact,
                   cleanup, obligation, usage, outcome, proof, lateCalls>>

(* ... and then reads the generation it will compare with after the call: a *)
(* cancellation between the two reads is not noticed by this step.          *)
BeginVerification(phase) ==
    /\ pc = IF phase = "TriggerVerification" THEN "read trigger" ELSE "read impact"
    /\ seen' = generation
    /\ Invoke(phase)
    /\ UNCHANGED <<plan, budget, generation, lifecycle, furthest, pending, trigger, impact,
                   cleanup, obligation, outcome, proof>>

(* The answer to a verification: discarded when the run was cancelled       *)
(* during the call, otherwise judged.                                       *)
VerificationAnswered(phase, answer) ==
    LET step == StepFailure(phase, answer)
        unproven == phase = "ImpactVerification" /\ ~ImpactIsProven(answer.evidence)
        failure == IF generation # seen THEN CancelledFailure
                   ELSE IF step = None /\ unproven THEN FailedFor("ImpactVerification") ELSE step
    IN  /\ pc = phase
        /\ usage' = Charged(phase, answer)
        /\ IF failure = None
           THEN /\ Transition(Expected(phase))
                /\ trigger' = IF phase = "TriggerVerification" THEN answer.evidence ELSE trigger
                /\ impact' = IF phase = "ImpactVerification" THEN "Verified" ELSE impact
                /\ proof' = IF phase = "ImpactVerification" THEN answer.evidence ELSE proof
           ELSE UNCHANGED <<lifecycle, furthest, trigger, impact, proof>>
        /\ pending' = failure
        /\ pc' = Continue(phase, failure)
        /\ UNCHANGED <<called, plan, budget, generation, seen, cleanup, obligation, outcome, lateCalls>>

(* The head of cleanup: the generation that counts as an earlier            *)
(* cancellation is read, the obligation announced, the cleanup called.      *)
BeginCleanup ==
    /\ pc = "clean up"
    /\ seen' = generation
    /\ lifecycle' = After(After(lifecycle, "CleanupRequired"), "CleanupStarted")
    /\ furthest' = "CleanupStarted"
    /\ pending' = IF pending = None /\ generation # 0 THEN CancelledFailure ELSE pending
    /\ Invoke("Cleanup")
    /\ UNCHANGED <<plan, budget, generation, trigger, impact, cleanup, obligation, outcome, proof>>

(* The end of a run whose cleanup did not succeed: what failed, for invoke's *)
(* own errors their category under the cleanup's terminal state.            *)
CleanupReport(phase, answer) ==
    LET invoke == InvokeFailure(phase, answer)
    IN  IF invoke # None
        THEN /\ cleanup' = CleanupStatusOf(invoke)
             /\ Report(CleanupTerminal(invoke))
        ELSE /\ cleanup' = "Failed"
             /\ Report(FailedFor(phase))

\* Bug: a cancellation during cleanup is not told from an earlier one.
CancelledDuringCleanupIgnored == FALSE

(* Whether the generation moved since the cleanup began.                    *)
CancelledDuringCleanup == generation # seen

(* The cleanup's answer, then the call that verifies it.                    *)
CleanupAnswered(answer) ==
    /\ pc = "Cleanup"
    /\ usage' = Charged("Cleanup", answer)
    /\ \/ /\ StepFailure("Cleanup", answer) # None
          /\ CleanupReport("Cleanup", answer)
       \/ /\ StepFailure("Cleanup", answer) = None
          /\ CancelledDuringCleanup
          /\ cleanup' = "Incomplete"
          /\ Report(CancelledIncomplete)
       \/ /\ StepFailure("Cleanup", answer) = None
          /\ ~CancelledDuringCleanup
          /\ pc' = "verify cleanup"
          /\ UNCHANGED <<lifecycle, furthest, pending, cleanup, outcome>>
    /\ UNCHANGED <<called, plan, budget, generation, seen, trigger, impact, obligation, proof, lateCalls>>

BeginCleanupVerification ==
    /\ pc = "verify cleanup"
    /\ Invoke("CleanupVerification")
    /\ UNCHANGED <<plan, budget, generation, seen, lifecycle, furthest, pending, trigger, impact,
                   cleanup, obligation, outcome, proof>>

CleanupVerificationAnswered(answer) ==
    /\ pc = "CleanupVerification"
    /\ usage' = Charged("CleanupVerification", answer)
    /\ \/ /\ StepFailure("CleanupVerification", answer) # None
          /\ CleanupReport("CleanupVerification", answer)
       \/ /\ StepFailure("CleanupVerification", answer) = None
          /\ CancelledDuringCleanup
          /\ cleanup' = "Incomplete"
          /\ Report(CancelledIncomplete)
       \/ /\ StepFailure("CleanupVerification", answer) = None
          /\ ~CancelledDuringCleanup
          /\ cleanup' = "Verified"
          /\ Transition("CleanupVerified")
          /\ pc' = "finish"
          /\ UNCHANGED <<pending, outcome>>
    /\ UNCHANGED <<called, plan, budget, generation, seen, trigger, impact, obligation, proof, lateCalls>>

(* What the run ends on: its failure, a cancellation since the attempt      *)
(* began, or an impact never verified.                                      *)
FinalFailure ==
    IF pending # None THEN pending
    ELSE IF generation # 0 THEN CancelledFailure
    ELSE IF impact # "Verified" THEN IncompleteFailure ELSE None

(* Completion is linearized here.                                           *)
Finish ==
    /\ pc = "finish"
    /\ IF FinalFailure = None
       THEN /\ Transition("Completed")
            /\ pc' = "ended"
            /\ outcome' = "Completed"
            /\ UNCHANGED pending
       ELSE Report(FinalFailure)
    /\ UNCHANGED <<called, plan, budget, generation, seen, trigger, impact, cleanup, obligation, usage,
                   proof, lateCalls>>

Verifications == {"TriggerVerification", "ImpactVerification"}

(* What execute does by itself, and the executor's answers.                 *)
RunStep ==
    \/ Start
    \/ BeginAttempt
    \/ \E phase \in Verifications : VerifyUnlessCancelled(phase)
    \/ \E phase \in Verifications : BeginVerification(phase)
    \/ BeginCleanup
    \/ BeginCleanupVerification
    \/ Finish

ExecutorAnswers ==
    \/ pc = "Attempt" /\ \E answer \in Answers("Attempt") : AttemptAnswered(answer)
    \/ \E phase \in Verifications :
           pc = phase /\ \E answer \in Answers(phase) : VerificationAnswered(phase, answer)
    \/ pc = "Cleanup" /\ \E answer \in Answers("Cleanup") : CleanupAnswered(answer)
    \/ pc = "CleanupVerification" /\
           \E answer \in Answers("CleanupVerification") : CleanupVerificationAnswered(answer)

orNext ==
    \/ Cancel
    \/ \E grant, host \in Budgets : Authorize(grant, host)
    \/ RunStep
    \/ ExecutorAnswers

orSpec == orInit /\ [][orNext]_vars

-----------------------------------------------------------------------------
(* The state of the run is of the types orchestration.rs declares.          *)
orTypeOK ==
    /\ generation \in 0..MaxCancels /\ seen \in 0..MaxCancels
    /\ lifecycle \in States \union {"panicked"} /\ furthest \in States
    /\ trigger \subseteq References /\ proof \subseteq References
    /\ impact \in {"NotVerified", "Verified"}
    /\ cleanup \in {"NotRequired", "Required", "Verified", "Failed", "Incomplete"}
    /\ obligation \in BOOLEAN /\ called \in BOOLEAN
    /\ usage.steps \in 0..5 /\ usage.evidence \in 0..ManifestBudget.evidence
    /\ outcome \in EndStates \union {"None", "Completed", "CleanupFailed"}
    /\ lateCalls \in 0..2

(* Whatever the executor answers and whenever the host cancels, the run     *)
(* never asks the lifecycle for a transition it refuses: the two expect()   *)
(* calls of Execution cannot panic between the attempt and its cleanup.     *)
TransitionsAreLegal == lifecycle # "panicked"

(* Once a mutating attempt was called, the report accounts for it: the      *)
(* obligation is recorded, and cleanup was verified or is said to have      *)
(* failed or to be incomplete; it is never left as merely required.         *)
MutationIsAccountedFor ==
    pc = "ended" /\ plan.cleanup /\ plan.reversible /\ usage.calls["Attempt"] > 0 =>
        /\ obligation
        /\ cleanup \in {"Verified", "Failed", "Incomplete"}
        /\ usage.calls["Cleanup"] > 0
        /\ cleanup = "Verified" => usage.calls["Cleanup"] = 2

(* A completed run was never cancelled before its completion point, proved  *)
(* its impact with the evidence the manifest demands, and left nothing to   *)
(* clean up.                                                                *)
CompletionIsEarned ==
    pc # "ended" /\ pc' = "ended" /\ outcome' = "Completed" =>
        /\ generation = 0
        /\ impact = "Verified"
        /\ Cardinality(trigger \union proof) >= plan.minimum
        /\ plan.independent => trigger \intersect proof = {}
        /\ plan.cleanup => cleanup = "Verified"

(* A cancellation stops the run but for its cleanup: at most one more       *)
(* verification is called after it, the one whose two reads of the          *)
(* generation it fell between, and no attempt is.                           *)
CancellationStopsWork == lateCalls <= 1

(* A plan authorized within a budget never runs out of it, however its      *)
(* steps fail: in particular the cleanup it owes can always be paid for.    *)
AuthorizedIsAffordable ==
    /\ pc = "clean up" => Affordable("Cleanup")
    /\ pc = "verify cleanup" => Affordable("CleanupVerification")
    /\ pending.category # "BudgetExhausted"
    /\ UsageWithin(usage)

(* Verified cleanup means cleanup undisturbed: the host did not cancel      *)
(* between the read that opened the cleanup and the answer that closed it.  *)
CleanupIsUndisturbed ==
    cleanup # "Verified" /\ cleanup' = "Verified" => generation = seen

(* Cleaning up does not whitewash: a failure met before the cleanup is what *)
(* the report states when the cleanup succeeds, and a cleanup that did not  *)
(* succeed is never reported as the run's original verdict.                 *)
VerdictSurvivesCleanup ==
    /\ (pending # None /\ pc' # "ended") => pending' = pending
    /\ (pc # "ended" /\ pc' = "ended" /\ obligation) =>
          IF cleanup' = "Verified" THEN pending # None => outcome' = pending.outcome
          ELSE outcome' \in {"CleanupFailed", "Cancelled", "Incomplete"}

(* At every moment the run can still do what it owes, and its end accounts  *)
(* for what it did: no illegal transition, no mutation without a cleanup    *)
(* verdict, no work after a cancellation, no cleanup without a budget       *)
(* (execute, Execution::finish).                                            *)
MutationIsAnsweredFor ==
    /\ orTypeOK /\ TransitionsAreLegal /\ MutationIsAccountedFor
    /\ CancellationStopsWork /\ AuthorizedIsAffordable

(* No verdict is better than the run deserves, whichever of its seven reads *)
(* of the generation a cancellation falls between (execute and its steps).  *)
VerdictsAreEarned ==
    [][CompletionIsEarned /\ CleanupIsUndisturbed /\ VerdictSurvivesCleanup]_vars

=============================================================================
