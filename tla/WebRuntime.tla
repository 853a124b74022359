----------------------------- MODULE WebRuntime -----------------------------
(***************************************************************************)
(* The web decision runtime of one subject                                 *)
(* (src/crates/termivar-scanner/src/web_runtime.rs, analyze): bootstrap,   *)
(* then plan, dispatch, execute, judge until the session ends, a limit is  *)
(* reached or the host cancels.  It composes the decision loop             *)
(* (DecisionPolicy), the request budget (runtime_budget.rs) and the        *)
(* defense ledger (web_runtime/assessment_defense.rs, defense/).           *)
(*                                                                         *)
(* Cancellation and the wall-time limit arrive between any two steps; a    *)
(* step of the model is what runs between two looks at them.  The          *)
(* subject's knowledge is written by this run only (DecisionLoop has the   *)
(* interleavings with other writers), so a call of the loop is one step.   *)
(* The command at hand is the one the session stands for: Replan when it   *)
(* is Ready, the execution of its case when it awaits evidence, a terminal *)
(* otherwise.                                                              *)
(***************************************************************************)
EXTENDS DecisionState

CONSTANTS
    Bootstrap,        \* the identity of the bootstrap action
    Local,            \* actions whose executor is LocalKnowledge
    unsupported,      \* unsupported_actions: the host's own suppressions
    Class,            \* action -> DefenseInteractionClass
    Responses,        \* the DefenseResponses an observation may recommend
    max_total_requests, max_response_bytes, max_active_verifications,
    max_same_action_attempts, max_consecutive_no_progress_turns,
    ChunkBytes        \* bound: the most bytes one request may deliver

\* DefenseResponse, in its order
Proceed == 0
Observe == 1
Backoff == 2
Reconsider == 3
HaltLine == 4

ASSUME WebRuntimeAssumption ==
    /\ Bootstrap \notin Actions
    /\ Local \subseteq Actions /\ unsupported \subseteq Actions
    /\ DOMAIN Class = Actions
    /\ Responses \subseteq Proceed..HaltLine
    /\ NoHost \notin [policy : SUBSET Actions, defense : SUBSET Actions]
    /\ {max_total_requests, max_response_bytes, max_active_verifications,
        max_same_action_attempts, max_consecutive_no_progress_turns,
        ChunkBytes} \subseteq Nat

VARIABLES
    ledger,     \* the defense observations, as far as their aggregate goes
    broker,     \* RequestAccountingSnapshot
    usage,      \* RuntimeUsage: [attempts, noProgress]
    cases,      \* representative_success and representative_unresolved
    receipts,   \* evidence batches committed to the knowledge base
    stop,       \* [cancelled, late]: the token, and the deadline reached
    pc,
    report      \* what analyze returned

wrVars == <<hyp, session, experience, ledger, broker, usage, cases, receipts,
            stop, pc, report>>

-----------------------------------------------------------------------------
(***************************************************************************)
(* standard_web_continuation_rules, and the rule the authorization review  *)
(* adds.  Their conditions are the evidence's: an unconditional rule       *)
(* always holds.                                                           *)
(***************************************************************************)
Continuation(id, statuses, stages) ==
    [id |-> id, priority |-> 700, max_applications |-> U16_MAX,
     statuses |-> statuses, stages |-> stages,
     directive |-> Directive("Replan", "none", TRUE)]

ContinuationRules ==
    {Continuation(1, {"Success"}, Stages),
     Continuation(2, {"Blocked"}, Stages),
     Continuation(3, {"Unknown"}, {"Active"})}

AuthorizationStop ==
    [id |-> 4, priority |-> 1000, max_applications |-> 1,
     statuses |-> {"Blocked"}, stages |-> Stages,
     directive |-> Directive("Halt", "none", FALSE)]

WebRules == ContinuationRules \cup {AuthorizationStop}

\* The rules whose condition some evidence meets.
Holding == {ContinuationRules, WebRules}

\* The pipeline of a web run has these rules and no other, and fewer actions than a rule has
\* applications are registered: each application suppresses another action.
OnlyWebRules == Rules = WebRules
FewActions == Cardinality(Actions) <= U16_MAX

-----------------------------------------------------------------------------
(***************************************************************************)
(* Defense: signal_for_subject aggregates the observations by their        *)
(* maximum, a standing block counting as one only when a second            *)
(* corroborates it; decide says which classes are suppressed.              *)
(***************************************************************************)
Ingested(l, response) ==
    IF response = HaltLine
    THEN [l EXCEPT !.blocks = IF @ < 2 THEN @ + 1 ELSE @]
    ELSE [l EXCEPT !.level = IF response > @ THEN response ELSE @]

Signal(l) ==
    IF l.blocks >= 2 THEN HaltLine
    ELSE IF l.blocks = 1 /\ l.level < Observe THEN Observe
    ELSE l.level

SuppressedClasses(response) ==
    CASE response \in {Backoff, Reconsider} -> {"ActiveVerification", "Mutating"}
      [] response = HaltLine -> {"Passive", "Behavioral", "DifferentialRead",
                                 "ActiveVerification", "Mutating"}
      [] OTHER -> {}

\* defense_suppressed_actions
Defended(l) == {a \in Actions : Class[a] \in SuppressedClasses(Signal(l))}

\* action_suppression_context
Context(l) == [policy |-> unsupported, defense |-> Defended(l)]

-----------------------------------------------------------------------------

\* check_request_limits
RequestLimit(stage) ==
    CASE broker.requests >= max_total_requests -> "TotalRequests"
      [] broker.requests < max_total_requests
         /\ broker.bytes >= max_response_bytes -> "ResponseBytes"
      [] broker.requests < max_total_requests
         /\ broker.bytes < max_response_bytes
         /\ stage = "Active" /\ broker.active >= max_active_verifications
            -> "ActiveVerifications"
      [] OTHER -> "none"

\* reserve_execution: the limit that refuses, if one does
Refusal(a, stage) ==
    IF stop.late THEN "WallTime"
    ELSE IF a \notin Local /\ RequestLimit(stage) # "none" THEN RequestLimit(stage)
    ELSE IF usage.attempts[a] >= max_same_action_attempts THEN "SameActionAttempts"
    ELSE "none"

Stage == IF session.state = "AwaitingActive" THEN "Active" ELSE "Passive"
ActionAtHand == IF pc \in {"start", "bootstrap"} THEN Bootstrap ELSE session.case.action
Executing == pc \in {"bootstrap", "execute"}

-----------------------------------------------------------------------------
(***************************************************************************)
(* How a run ends.  `unverified` says that the report carries evidence no  *)
(* verifier has judged, `bootstrapped` that it carries the bootstrap's.    *)
(***************************************************************************)
NoReport == [kind |-> "none"]

Returns(terminal, limit, unverified) ==
    report' = [kind |-> "report", terminal |-> terminal, limit |-> limit,
               unverified |-> unverified, turns |-> Len(experience),
               bootstrapped |-> pc \notin {"start", "bootstrap"}]

CancellationReport(unverified) ==
    /\ session' = Halt(session, "CancelledByHost")
    /\ Returns("CancelledByHost", "none", unverified)
    /\ pc' = "ended"

LimitReport(limit, unverified) ==
    /\ session' = Halt(session, "RuntimeBudgetLimit")
    /\ Returns("RuntimeBudgetLimit", limit, unverified)
    /\ pc' = "ended"

\* run_failed: the session stays as it is.
RunFailed ==
    /\ report' = [kind |-> "failed"]
    /\ pc' = "ended"
    /\ UNCHANGED session

TerminalOf(s) ==
    CASE s.state = "Completed" -> "Complete"
      [] s.state = "Halted" /\ s.reason = "HumanReview" -> "AwaitHumanReview"
      [] OTHER -> s.reason

\* finalize_multi_objective_terminal
Aggregate(s) ==
    CASE s.reason = "NoEligibleAction" /\ cases.unresolved -> Halt(s, "HumanReview")
      [] s.reason = "NoEligibleAction" /\ ~cases.unresolved /\ cases.success
            -> [Enter(s, "Completed") EXCEPT !.reason = "none"]
      [] OTHER -> s

Finish ==
    /\ session' = Aggregate(session)
    /\ Returns(TerminalOf(session'), "none", FALSE)
    /\ pc' = "ended"

-----------------------------------------------------------------------------
(***************************************************************************)
(* analyze.                                                                *)
(***************************************************************************)
wrInit ==
    /\ hyp = [h \in Hypotheses |-> Absent]
    /\ session = NewSession
    /\ experience = << >>
    /\ ledger = [level |-> Proceed, blocks |-> 0]
    /\ broker = [requests |-> 0, active |-> 0, bytes |-> 0]
    /\ usage = [attempts |-> [a \in Actions \cup {Bootstrap} |-> 0], noProgress |-> 0]
    /\ cases = [success |-> FALSE, unresolved |-> FALSE]
    /\ receipts = 0
    /\ stop = [cancelled |-> FALSE, late |-> FALSE]
    /\ pc = "start"
    /\ report = NoReport

(***************************************************************************)
(* The dispatch of the bootstrap, or of the session's case: cancellation,  *)
(* the suppressions of the moment, then the reservation.                   *)
(***************************************************************************)
Dispatched(a, stage, next) ==
    \/ /\ stop.cancelled
       /\ CancellationReport(FALSE)
       /\ UNCHANGED usage
    \/ /\ ~stop.cancelled /\ Refusal(a, stage) # "none"
       /\ LimitReport(Refusal(a, stage), FALSE)
       /\ UNCHANGED usage
    \/ /\ ~stop.cancelled /\ Refusal(a, stage) = "none"
       /\ usage' = [usage EXCEPT !.attempts[a] = @ + 1]
       /\ pc' = next
       /\ UNCHANGED <<session, report>>

Start ==
    /\ pc = "start"
    /\ Dispatched(Bootstrap, "Passive", "bootstrap")
    /\ UNCHANGED <<hyp, experience, ledger, broker, cases, receipts, stop>>

\* A command that is suppressed by now is given up for another plan.
Run ==
    /\ pc = "loop" /\ IsAwaiting(session)
    /\ IF ~stop.cancelled /\ session.case.action \in Defended(ledger)
       THEN session' = Enter(session, "Ready") /\ UNCHANGED <<usage, pc, report>>
       ELSE Dispatched(session.case.action, Stage, "execute")
    /\ UNCHANGED <<hyp, experience, ledger, broker, cases, receipts, stop>>

(***************************************************************************)
(* The executor, metered: every request takes a lease of the broker.       *)
(***************************************************************************)
SendRequest(bytes) ==
    /\ Executing /\ ActionAtHand \notin Local
    /\ RequestLimit(Stage) = "none"
    /\ broker' = [requests |-> broker.requests + 1,
                  active |-> IF Stage = "Active" THEN broker.active + 1 ELSE broker.active,
                  bytes |-> broker.bytes + bytes]
    /\ UNCHANGED <<hyp, session, experience, ledger, usage, cases, receipts, stop, pc, report>>

\* The lease is refused, and the executor returns the limit as its error.
RequestRefused ==
    /\ Executing /\ ActionAtHand \notin Local
    /\ RequestLimit(Stage) # "none"
    /\ LimitReport(RequestLimit(Stage), FALSE)
    /\ UNCHANGED <<hyp, experience, ledger, broker, usage, cases, receipts, stop>>

\* The executor returns and its evidence is committed.
Executed ==
    /\ Executing
    /\ receipts' = receipts + 1
    /\ pc' = IF pc = "bootstrap" THEN "bootstrapped" ELSE "executed"
    /\ UNCHANGED <<hyp, session, experience, ledger, broker, usage, cases, stop, report>>

\* Bug: only cancellation ends the wait for an executor.
AbandonOnCancelOnly ==
    /\ Executing
    /\ stop.cancelled /\ CancellationReport(FALSE)
    /\ UNCHANGED <<hyp, experience, ledger, broker, usage, cases, receipts, stop>>

\* await_execution: an executor that is not ready does not hold the run.
AbandonExecution ==
    /\ Executing
    /\ \/ stop.cancelled /\ CancellationReport(FALSE)
       \/ ~stop.cancelled /\ stop.late /\ LimitReport("WallTime", FALSE)
    /\ UNCHANGED <<hyp, experience, ledger, broker, usage, cases, receipts, stop>>

\* ingest_assessment_defense; a local action observes no response
Ingest(a) ==
    IF a \in Local THEN UNCHANGED ledger
    ELSE \E response \in Responses : ledger' = Ingested(ledger, response)

OverBytes == broker.bytes > max_response_bytes

Bootstrapped ==
    /\ pc = "bootstrapped"
    /\ Ingest(Bootstrap)
    /\ CASE OverBytes -> LimitReport("ResponseBytes", FALSE)
         [] ~OverBytes /\ stop.cancelled -> CancellationReport(FALSE)
         [] OTHER -> pc' = "loop" /\ UNCHANGED <<session, report>>
    /\ UNCHANGED <<hyp, experience, broker, usage, cases, receipts, stop>>

-----------------------------------------------------------------------------
\* Bug: a cancelled run drops the evidence it has just committed.
LeaveUnreported ==
    /\ pc = "executed"
    /\ Ingest(session.case.action)
    /\ IF session.case.action \notin Local /\ OverBytes
       THEN LimitReport("ResponseBytes", TRUE)
       ELSE stop.cancelled /\ CancellationReport(FALSE)
    /\ UNCHANGED <<hyp, experience, broker, usage, cases, receipts, stop>>

(***************************************************************************)
(* Evidence that is not judged any more: the report carries it.            *)
(***************************************************************************)
LeaveUnverified ==
    /\ pc = "executed"
    /\ Ingest(session.case.action)
    /\ IF session.case.action \notin Local /\ OverBytes
       THEN LimitReport("ResponseBytes", TRUE)
       ELSE stop.cancelled /\ CancellationReport(TRUE)
    /\ UNCHANGED <<hyp, experience, broker, usage, cases, receipts, stop>>

\* outcome_made_progress
MadeProgress(o, d, next) ==
    \/ o.status \in {"Success", "ConfirmedNegative"}
    \/ o.stage = "Passive" /\ next.state = "AwaitingActive"
    \/ d.kind = "Replan" /\ d.flag

\* classify_continuation_case
Classified(o, d) ==
    IF d.kind = "Replan" /\ d.flag
    THEN [success |-> cases.success \/ o.status = "Success",
          unresolved |-> \/ cases.unresolved
                         \/ o.status = "Blocked"
                         \/ o.status = "Unknown" /\ o.stage = "Active"]
    ELSE cases

\* Bug: the suppressions are those of before the execution.
ResumeContextStale == Context(ledger)

\* The suppressions the evidence has brought itself are among them.
ResumeContext == Context(ledger')

Judge(status, holds) ==
    /\ pc = "executed" /\ ~stop.cancelled
    /\ session.case.action \in Local \/ ~OverBytes
    /\ Ingest(session.case.action)
    /\ LET o == [case |-> session.case, stage |-> Stage, status |-> status]
           snap == [hyp |-> hyp, current |-> TRUE]
           host == ResumeContext
           log == Append(experience, o)
           d == IF LimitReached(session) THEN Directive("Halt", "none", FALSE)
                ELSE Selected(session, o, Policy(log, session, host), holds)
       IN  /\ MayConclude(hyp, o.case.action)
           /\ MayApply(hyp, o, TRUE)
           /\ \E next \in Conclusions(session, experience, snap, o, host, holds) :
                  /\ session' = next
                  /\ usage' = [usage EXCEPT !.noProgress =
                                  IF MadeProgress(o, d, next) THEN 0 ELSE @ + 1]
           /\ hyp' = Prospective(hyp, o)
           /\ experience' = log
           /\ cases' = Classified(o, d)
    /\ pc' = "judged"
    /\ UNCHANGED <<broker, receipts, stop, report>>

\* What analyze looks at after an outcome, in its order.
AfterOutcome ==
    /\ pc = "judged"
    /\ CASE IsTerminal(session) -> Finish
         [] ~IsTerminal(session) /\ stop.cancelled -> CancellationReport(FALSE)
         [] /\ ~IsTerminal(session) /\ ~stop.cancelled
            /\ usage.noProgress >= max_consecutive_no_progress_turns
            /\ usage.noProgress > 0
               -> LimitReport("ConsecutiveNoProgressTurns", FALSE)
         [] /\ ~IsTerminal(session) /\ ~stop.cancelled /\ stop.late
            /\ ~(/\ usage.noProgress >= max_consecutive_no_progress_turns
                 /\ usage.noProgress > 0)
               -> LimitReport("WallTime", FALSE)
         [] OTHER -> pc' = "loop" /\ UNCHANGED <<session, report>>
    /\ UNCHANGED <<hyp, experience, ledger, broker, usage, cases, receipts, stop>>

-----------------------------------------------------------------------------
(***************************************************************************)
(* Replan: reasoning and planning on the suppressions of the moment.       *)
(***************************************************************************)
StopBeforePlanning ==
    /\ pc = "loop" /\ session.state = "Ready"
    /\ IF stop.cancelled THEN CancellationReport(FALSE)
       ELSE stop.late /\ LimitReport("WallTime", FALSE)
    /\ UNCHANGED <<hyp, experience, ledger, broker, usage, cases, receipts, stop>>

Replan ==
    /\ pc = "loop" /\ session.state = "Ready"
    /\ ~stop.cancelled /\ ~stop.late
    /\ IF session.cycles >= max_action_cycles
       THEN session' = Halt(session, "ActionCycleLimit") /\ UNCHANGED hyp
       ELSE \E new \in Reasoned(hyp) :
                /\ hyp' = new
                /\ session' = Planned(session, experience, new, Context(ledger))
    /\ pc' = "planned"
    /\ UNCHANGED <<experience, ledger, broker, usage, cases, receipts, stop, report>>

\* What analyze looks at after a plan, in its order.
AfterPlan ==
    /\ pc = "planned"
    /\ CASE stop.cancelled -> CancellationReport(FALSE)
         [] ~stop.cancelled /\ IsTerminal(session) -> Finish
         [] ~stop.cancelled /\ ~IsTerminal(session) /\ stop.late
               -> LimitReport("WallTime", FALSE)
         [] OTHER -> pc' = "loop" /\ UNCHANGED <<session, report>>
    /\ UNCHANGED <<hyp, experience, ledger, broker, usage, cases, receipts, stop>>

(***************************************************************************)
(* Any other error of a component ends the run: an executor's, a refused   *)
(* receipt, the loop's, a continuation that may not be dispatched.         *)
(***************************************************************************)
ExecutorFails ==
    /\ Executing
    /\ RunFailed
    /\ UNCHANGED <<hyp, experience, ledger, broker, usage, cases, receipts, stop>>

ComponentFails ==
    /\ pc \in {"bootstrapped", "executed", "loop"}
    /\ RunFailed
    /\ UNCHANGED <<hyp, experience, ledger, broker, usage, cases, receipts, stop>>

-----------------------------------------------------------------------------
\* The host, and the clock.
Cancel ==
    /\ ~stop.cancelled /\ pc # "ended"
    /\ stop' = [stop EXCEPT !.cancelled = TRUE]
    /\ UNCHANGED <<hyp, session, experience, ledger, broker, usage, cases, receipts, pc, report>>

Deadline ==
    /\ ~stop.late /\ pc # "ended"
    /\ stop' = [stop EXCEPT !.late = TRUE]
    /\ UNCHANGED <<hyp, session, experience, ledger, broker, usage, cases, receipts, pc, report>>

Ended == pc = "ended" /\ UNCHANGED wrVars

\* The steps that need nobody but the runtime.
RuntimeStep ==
    \/ Start \/ Run \/ AbandonExecution \/ Bootstrapped \/ LeaveUnverified
    \/ \E status \in Statuses, holds \in Holding : Judge(status, holds)
    \/ AfterOutcome \/ StopBeforePlanning \/ Replan \/ AfterPlan
    \/ ComponentFails

ExecutorStep ==
    \/ \E bytes \in 0..ChunkBytes : SendRequest(bytes)
    \/ RequestRefused \/ Executed \/ ExecutorFails

wrNext == RuntimeStep \/ ExecutorStep \/ Cancel \/ Deadline \/ Ended

wrSpec == wrInit /\ [][wrNext]_wrVars

(***************************************************************************)
(* The runtime's own task is scheduled; nothing is assumed of executors,   *)
(* the network or the host.                                                *)
(***************************************************************************)
wrFairSpec == wrSpec /\ WF_wrVars(RuntimeStep)

-----------------------------------------------------------------------------
(***************************************************************************)
(* The run's state is of its types: it executes only what its session      *)
(* awaits, and has a report exactly when it has ended.                     *)
(***************************************************************************)
wrTypeOK ==
    /\ hyp \in [Hypotheses -> HypothesisValues]
    /\ session.case \in IF IsAwaiting(session) THEN Cases ELSE {NoCase}
    /\ ledger \in [level : Proceed..Reconsider, blocks : 0..2]
    /\ DOMAIN usage.attempts = Actions \cup {Bootstrap}
    /\ pc \in {"start", "bootstrap", "bootstrapped", "loop", "planned", "execute",
              "executed", "judged", "ended"}
    /\ pc \in {"execute", "executed"} => IsAwaiting(session)
    /\ pc = "ended" <=> report # NoReport

(***************************************************************************)
(* The terminal a run reports is the state it leaves its session in,       *)
(* whichever of its checks ended it (finalize_multi_objective_terminal,    *)
(* cancellation_report, limit_report).                                     *)
(***************************************************************************)
ReportMatchesSession ==
    report.kind = "report" => IsTerminal(session) /\ report.terminal = TerminalOf(session)

Unresolved(o) == o.status = "Blocked" \/ (o.status = "Unknown" /\ o.stage = "Active")

(***************************************************************************)
(* What a run that came to its natural end reports is what its outcomes    *)
(* say: a review if any was left unresolved, otherwise complete if any     *)
(* succeeded, otherwise exhausted.  No success and no open case is lost on *)
(* the way.                                                                *)
(***************************************************************************)
TerminalFollowsOutcomes ==
    /\ report.kind = "report"
    /\ report.terminal \in {"Complete", "AwaitHumanReview", "NoEligibleAction"}
    => report.terminal =
           IF \E o \in Range(experience) : Unresolved(o) THEN "AwaitHumanReview"
           ELSE IF \E o \in Range(experience) : o.status = "Success" THEN "Complete"
           ELSE "NoEligibleAction"

(***************************************************************************)
(* Evidence in the knowledge base is in the report: as a judged turn, as   *)
(* the bootstrap's, or as unverified evidence (the reports of analyze).    *)
(***************************************************************************)
EvidenceIsReported ==
    report.kind = "report" =>
        receipts = report.turns + (IF report.bootstrapped THEN 1 ELSE 0)
                                + (IF report.unverified THEN 1 ELSE 0)

(***************************************************************************)
(* The report is true: it names the state the session is left in, a        *)
(* natural end follows from the outcomes, and no evidence that was         *)
(* committed is missing, whichever of its checks stopped the run (the      *)
(* returns of analyze).                                                    *)
(***************************************************************************)
ReportIsTrue ==
    wrTypeOK /\ ReportMatchesSession /\ TerminalFollowsOutcomes /\ EvidenceIsReported

(***************************************************************************)
(* Whatever command the runtime is left with, by a plan or by an outcome,  *)
(* defense and the host permit at that moment: the check before dispatch   *)
(* never has to give a command up (action_suppression_context is read      *)
(* again for every continuation).                                          *)
(***************************************************************************)
CommandIsPermitted ==
    IsAwaiting(session) /\ pc \in {"planned", "judged", "loop", "execute"} =>
        session.case.action \notin unsupported \cup Defended(ledger)

(***************************************************************************)
(* The budget holds: requests and active verifications, attempts of an     *)
(* action (dispatches the executor never began included), and no more      *)
(* turns without progress than allowed; response bytes exceed theirs by    *)
(* what the crossing request delivered and no more.                        *)
(***************************************************************************)
BudgetHolds ==
    /\ broker.requests <= max_total_requests
    /\ broker.active <= max_active_verifications
    /\ max_response_bytes > 0 => broker.bytes < max_response_bytes + ChunkBytes
    /\ \A a \in DOMAIN usage.attempts : usage.attempts[a] <= max_same_action_attempts
    /\ pc \in {"loop", "execute", "executed"} =>
           usage.noProgress < max_consecutive_no_progress_turns \/ usage.noProgress = 0

(***************************************************************************)
(* The run stays within what it may do: no command that defense or the     *)
(* host forbid is kept, and no limit of the budget is passed, although     *)
(* responses raise the defense level and spend the budget while a command  *)
(* runs (the checks of analyze around each await).                         *)
(***************************************************************************)
RunStaysPermitted == CommandIsPermitted /\ BudgetHolds

(***************************************************************************)
(* The run implements the life of a session: only natural exhaustion is    *)
(* turned into the aggregate terminal, every hard stop is absolute.        *)
(***************************************************************************)
RunImplementsLifecycle == Lifecycle!slSpec

(***************************************************************************)
(* Once the host cancels or the deadline is reached the run returns, even  *)
(* if its executor never does (await_execution).                           *)
(***************************************************************************)
StopEndsRun == (stop.cancelled \/ stop.late) ~> pc = "ended"

(***************************************************************************)
(* Without either a run ends too, unless an executor hangs: replanning     *)
(* does not go on for ever.                                                *)
(***************************************************************************)
WorkIsFinite == []<>(~Executing) => <>(pc = "ended")

(***************************************************************************)
(* From its start to its report the run is one session's life, and it gets *)
(* there: a stop is obeyed while an executor hangs, and replanning ends    *)
(* (analyze, finalize_multi_objective_terminal, await_execution).          *)
(***************************************************************************)
RunIsOneLife == RunImplementsLifecycle /\ StopEndsRun /\ WorkIsFinite

=============================================================================
