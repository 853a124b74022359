----------------------------- MODULE XmlReview -----------------------------
(***************************************************************************)
(* The controlled XML external-entity review: execute_review               *)
(* (src/crates/termivar-scanner/src/web_runtime/                           *)
(* xml_external_entity_runtime.rs) over the adapter and the provider.      *)
(*                                                                         *)
(* One task registers a session, allocates a callback for each of three    *)
(* documents, polls once to see that none was fetched yet, and then posts  *)
(* each document to the target and polls for its callback; a leg's         *)
(* callbacks may arrive while any later step is under way.  A cleanup      *)
(* closes every path, and the facts gathered on the way are classified.    *)
(*                                                                         *)
(* The roles are numbered as their callbacks are: 1 control, 2 candidate,  *)
(* 3 replay.  The target's response is abstracted to whether it was        *)
(* complete, its accounting to whether the dispatch audit is whole         *)
(* (RequestAccounting).                                                    *)
(***************************************************************************)
EXTENDS OastAdapter

CONSTANT polls_per_leg   \* XmlExternalEntityReviewPolicy

Roles == 1 .. 3
Control == 1
Candidate == 2
Replay == 3

\* MIN_XML_EXTERNAL_ENTITY_POLLS_PER_LEG is 1.
ASSUME ReviewAssumption == polls_per_leg \in Nat \ {0}

(***************************************************************************)
(* The limits passed to NativeOastProviderLimits::new: three callbacks,    *)
(* one preflight and three legs of polls, and                              *)
(* MAX_XML_EXTERNAL_ENTITY_PROVIDER_REQUESTS.                              *)
(***************************************************************************)
ReviewLimits ==
    /\ max_callbacks = 3
    /\ max_polls = 1 + 3 * polls_per_leg
    /\ max_provider_requests = 12

VARIABLES
    pc,          \* the step execute_review is at
    role,        \* the document of the current leg
    leg_polls,   \* polls made in this leg
    facts,       \* RuntimeFacts
    outcome,     \* the outcome, "none" until the review ends
    dispatched,  \* roles whose document was sent to the target
    settledAt    \* observation only: what was answered when the last accepted
                 \* page of the preflight (0) or of a leg was served

rtVars == <<pc, role, leg_polls, facts, outcome, dispatched, settledAt>>

rvInit ==
    /\ AdInit
    /\ pc = "register"
    /\ role = Control
    /\ leg_polls = 0
    /\ facts = [events |-> {}, preflight_clean |-> FALSE, phase_contaminated |-> FALSE,
                target_complete |-> FALSE, stop_reason |-> "none", posted |-> 0]
    /\ outcome = "none"
    /\ dispatched = {}
    /\ settledAt = [l \in 0 .. 3 |-> {}]

-----------------------------------------------------------------------------
(***************************************************************************)
(* Calls of the adapter: the task awaits each one and then looks at what   *)
(* it returned.                                                            *)
(***************************************************************************)
OperationAt == [register |-> "register", allocate |-> "allocate",
                preflight |-> "poll", poll |-> "poll", cleanup |-> "cleanup"]

CallAdapter ==
    /\ pc \in DOMAIN OperationAt
    /\ result = "none"
    /\ Call(OperationAt[pc])
    /\ UNCHANGED rtVars

Returned(step) == pc = step /\ call = "none" /\ result # "none"

Consume ==
    /\ result' = "none"
    /\ UNCHANGED <<ad, call, conn, left, cancelled, receipts, settled>>
    /\ UNCHANGED vars

(***************************************************************************)
(* terminal_with_provider and outcome_for_provider_error: the outcome is   *)
(* decided, the cleanup still runs.                                        *)
(***************************************************************************)
OutcomeFor(kind) ==
    CASE kind = "cancelled" -> "Cancelled"
      [] kind = "budget" -> "BudgetExhausted"
      [] OTHER -> "Incomplete"

Terminal(o) ==
    /\ pc' = "cleanup"
    /\ outcome' = o
    /\ UNCHANGED <<role, leg_polls, facts, dispatched, settledAt>>

(***************************************************************************)
(* The adapter may be refused before anything is sent.                     *)
(***************************************************************************)
MintFails ==
    /\ pc = "register" /\ call = "none" /\ result = "none"
    /\ pc' = "done"
    /\ outcome' \in {"BudgetExhausted", "Incomplete"}
    /\ UNCHANGED <<role, leg_polls, facts, dispatched, settledAt>>
    /\ UNCHANGED <<vars, adVars>>

AfterRegister ==
    /\ Returned("register")
    /\ Consume
    /\ \/ /\ result = "ok"
          /\ pc' = "allocate"
          /\ UNCHANGED <<role, leg_polls, facts, outcome, dispatched, settledAt>>
       \/ result # "ok" /\ Terminal(OutcomeFor(result))

(***************************************************************************)
(* Three callbacks make the document plan, which may fail.                 *)
(***************************************************************************)
AfterAllocate ==
    /\ Returned("allocate")
    /\ Consume
    /\ \/ /\ result = "ok"
          /\ pc' = IF ad.callbacks = Roles THEN "preflight" ELSE "allocate"
          /\ UNCHANGED <<role, leg_polls, facts, outcome, dispatched, settledAt>>
       \/ result = "ok" /\ ad.callbacks = Roles /\ Terminal("Invariant")
       \/ result # "ok" /\ Terminal(OutcomeFor(result))

(***************************************************************************)
(* absorb_poll: accepted events are filed under the role of their          *)
(* correlation.                                                            *)
(***************************************************************************)
Absorbed == facts.events \cup ad.seen

AfterPreflight ==
    /\ Returned("preflight")
    /\ Consume
    /\ \/ /\ result = "ok"
          /\ facts' = [facts EXCEPT !.events = Absorbed, !.preflight_clean = (Absorbed = {})]
          /\ pc' = IF Absorbed = {} THEN "post" ELSE "cleanup"
          /\ outcome' = IF Absorbed = {} THEN outcome ELSE "PreflightContaminated"
          /\ settledAt' = [settledAt EXCEPT ![0] = settled]
          /\ UNCHANGED <<role, leg_polls, dispatched>>
       \/ result # "ok" /\ Terminal(OutcomeFor(result))

-----------------------------------------------------------------------------
(***************************************************************************)
(* The loop over the three documents.  `Stop` leaves it: target_complete   *)
(* stays FALSE, a reason is kept.                                          *)
(***************************************************************************)
Stop(reason) ==
    /\ pc' = "cleanup"
    /\ facts' = [facts EXCEPT !.stop_reason = reason]
    /\ UNCHANGED <<role, leg_polls, outcome, dispatched, settledAt>>

(***************************************************************************)
(* The head of an iteration.  An internal invariant that fails here ends   *)
(* the review in an error after a cleanup (cleanup_then_error).            *)
(***************************************************************************)
AllAnswered == UNION {answered[s] : s \in Sessions}

ControlIsClean == role = Control \/ Control \notin facts.events

Post ==
    /\ pc = "post"
    /\ \/ cancelled /\ Stop("cancelled")
       \/ ~cancelled /\ ~ControlIsClean /\ Stop("none")
       \/ ~cancelled /\ ControlIsClean /\ Terminal("Invariant")
       \/ /\ ~cancelled /\ ControlIsClean
          /\ pc' = "posting"
          /\ facts' = [facts EXCEPT !.posted = @ + 1]
          /\ dispatched' = dispatched \cup {role}
          /\ UNCHANGED <<role, leg_polls, outcome, settledAt>>
    /\ UNCHANGED <<vars, adVars>>

(***************************************************************************)
(* collect_target_with_runtime_bounds: the target answers, fails, or is    *)
(* not waited for any longer (the collector has its own request timeout).  *)
(***************************************************************************)
TargetAnswers ==
    /\ pc = "posting"
    /\ \/ /\ ~cancelled
          /\ pc' = "poll"
          /\ leg_polls' = 0
          /\ UNCHANGED <<role, facts, outcome, dispatched, settledAt>>
       \/ ~cancelled /\ \E reason \in {"budget", "incomplete"} : Stop(reason)
       \/ cancelled /\ Stop("cancelled")
    /\ UNCHANGED <<vars, adVars>>

\* Bug: events of later legs are taken as they come.
ContaminatesNever(r, events) == FALSE

(***************************************************************************)
(* mark_phase_contamination.                                               *)
(***************************************************************************)
Contaminates(r, events) == \E later \in events : later > r

(***************************************************************************)
(* A leg ends at its last poll, or at once when the callback it is about   *)
(* was seen; the control leg always makes all its polls.                   *)
(***************************************************************************)
LegDone(n, events) == n = polls_per_leg \/ (role # Control /\ role \in events)

NextLeg(contaminated) ==
    /\ leg_polls' = 0
    /\ IF contaminated THEN pc' = "cleanup" /\ UNCHANGED role
       ELSE IF role = Replay THEN pc' = "cleanup" /\ UNCHANGED role
       ELSE pc' = "post" /\ role' = role + 1

AfterPoll ==
    /\ Returned("poll")
    /\ Consume
    /\ \/ LET contaminated == facts.phase_contaminated \/ Contaminates(role, Absorbed)
              done == LegDone(leg_polls + 1, Absorbed)
          IN  /\ result = "ok"
              /\ facts' = [facts EXCEPT
                    !.events = Absorbed, !.phase_contaminated = contaminated,
                    !.target_complete = done /\ role = Replay /\ ~contaminated]
              /\ settledAt' = [settledAt EXCEPT ![role] = settled]
              /\ IF done THEN NextLeg(contaminated)
                 ELSE leg_polls' = leg_polls + 1 /\ UNCHANGED <<pc, role>>
              /\ UNCHANGED <<outcome, dispatched>>
       \/ /\ result # "ok"
          /\ Stop(IF result = "other" THEN "incomplete" ELSE result)

(***************************************************************************)
(* wait_for_poll: the pause before each poll ends early when the scan is   *)
(* cancelled or its deadline passes.                                       *)
(***************************************************************************)
WaitInterrupted ==
    /\ pc = "poll" /\ call = "none" /\ result = "none"
    /\ \/ cancelled /\ Stop("cancelled")
       \/ ~cancelled /\ left = 0 /\ Stop("budget")
    /\ UNCHANGED <<vars, adVars>>

-----------------------------------------------------------------------------
(***************************************************************************)
(* provider_accounting_is_complete: the receipts are those of a whole run, *)
(* in order, one admitted request each.                                    *)
(***************************************************************************)
MinimumReceipts == 1 + 3 + 1 + 3 + 1

ExpectedAt(i) ==
    IF i = 1 THEN "register"
    ELSE IF i <= 4 THEN "allocate"
    ELSE IF i < Len(receipts) THEN "poll"
    ELSE "cleanup"

ProviderAccountingComplete ==
    /\ Len(receipts) \in MinimumReceipts .. max_provider_requests
    /\ \A i \in 1 .. Len(receipts) :
          receipts[i].request_count = i /\ receipts[i].op = ExpectedAt(i)
    /\ ad.requests = Len(receipts)

(***************************************************************************)
(* classify_outcome.  `accounted` is target_accounting_complete, which     *)
(* needs all three documents and a dispatch audit that omitted nothing.    *)
(***************************************************************************)
LifecycleComplete(accounted) ==
    facts.target_complete /\ accounted /\ ProviderAccountingComplete

Found(r) == r \in facts.events

Classified(accounted, cleanup_verified) ==
    IF (cancelled \/ facts.stop_reason = "cancelled") /\ ~LifecycleComplete(accounted)
    THEN "Cancelled"
    ELSE IF ~facts.preflight_clean THEN "PreflightContaminated"
    ELSE IF Found(Control) THEN "ControlCallbackObserved"
    ELSE IF facts.stop_reason = "budget" THEN "BudgetExhausted"
    ELSE IF ~cleanup_verified THEN "CleanupIncomplete"
    ELSE IF facts.phase_contaminated THEN "CorrelationMismatch"
    ELSE IF facts.stop_reason = "incomplete" \/ ~LifecycleComplete(accounted) THEN "Incomplete"
    ELSE IF Found(Candidate) /\ Found(Replay) THEN "Repeated"
    ELSE IF Found(Candidate) THEN "CandidateOnly"
    ELSE IF Found(Replay) THEN "ReplayOnly"
    ELSE "NoCallback"

(***************************************************************************)
(* The end of every path.  Committing the evidence of a positive outcome   *)
(* is one batch, which the knowledge base may refuse; the audit may fail.  *)
(***************************************************************************)
AfterCleanup ==
    /\ Returned("cleanup")
    /\ Consume
    /\ pc' = "done"
    /\ \E accounted \in {FALSE, facts.target_complete /\ facts.posted = 3} :
          outcome' \in IF outcome # "none" THEN {outcome}
                       ELSE {Classified(accounted, result = "ok"), "Invariant"}
    /\ UNCHANGED <<role, leg_polls, facts, dispatched, settledAt>>

Review ==
    \/ MintFails \/ CallAdapter \/ AfterRegister \/ AfterAllocate \/ AfterPreflight
    \/ Post \/ TargetAnswers \/ WaitInterrupted \/ AfterPoll \/ AfterCleanup

World ==
    /\ pc # "done"
    /\ Background \/ (\E c \in Callbacks : Hit(c)) \/ Cancel \/ (left > 0 /\ Clock)
    /\ UNCHANGED rtVars

rvNext ==
    \/ Review
    \/ Adapter /\ UNCHANGED rtVars
    \/ World

rvVars == <<vars, adVars, rtVars>>

rvSpec == rvInit /\ [][rvNext]_rvVars

(***************************************************************************)
(* Time passes, the task runs when it can, an operation whose deadline has *)
(* passed is abandoned (dispatch_wire selects on it), and a target dispatch*)
(* ends, as RequestAccounting shows.                                       *)
(***************************************************************************)
DeadlinePasses == left = 0 /\ GiveUp /\ UNCHANGED rtVars

rvFairSpec ==
    /\ rvSpec
    /\ WF_rvVars(Clock /\ World)
    /\ WF_rvVars(Review)
    /\ WF_rvVars(DeadlinePasses)

-----------------------------------------------------------------------------
Outcomes ==
    {"none", "Invariant", "Cancelled", "PreflightContaminated", "ControlCallbackObserved",
     "BudgetExhausted", "CleanupIncomplete", "CorrelationMismatch", "Incomplete",
     "Repeated", "CandidateOnly", "ReplayOnly", "NoCallback"}

(***************************************************************************)
(* The review's state is of its types.                                     *)
(***************************************************************************)
rvTypeOK ==
    /\ pc \in DOMAIN OperationAt \cup {"post", "posting", "done"}
    /\ role \in Roles
    /\ leg_polls \in 0 .. (polls_per_leg - 1)
    /\ facts \in [events : SUBSET Roles, preflight_clean : BOOLEAN,
                  phase_contaminated : BOOLEAN, target_complete : BOOLEAN,
                  stop_reason : {"none", "cancelled", "budget", "incomplete"},
                  posted : 0 .. 3]
    /\ outcome \in Outcomes
    /\ dispatched \subseteq Roles
    /\ settledAt \in [0 .. 3 -> SUBSET Roles]

(***************************************************************************)
(* "A positive review requires a clean provider preflight, no control      *)
(* callback, ... and replay, complete provider cleanup": when the review   *)
(* ends in Repeated, the candidate's and the replay's callbacks really     *)
(* were answered; nothing was answered when the preflight page was served, *)
(* not the candidate's by the last page of the control leg, not the        *)
(* replay's by the last page of the candidate leg, not the control's by    *)
(* the last page of all; every document was sent; and the session is gone  *)
(* from the provider.                                                      *)
(***************************************************************************)
PositiveIsFounded ==
    pc = "done" /\ outcome = "Repeated" =>
        /\ {Candidate, Replay} \subseteq AllAnswered
        /\ settledAt[0] = {}
        /\ settledAt[Control] = {}
        /\ settledAt[Candidate] \subseteq {Candidate}
        /\ settledAt[Replay] \subseteq {Candidate, Replay}
        /\ dispatched = Roles
        /\ Present = {}

(***************************************************************************)
(* "Callback not found" is as well founded: the review says it only when   *)
(* nothing was answered before the last page of the replay leg was served  *)
(* (complete pages only; classify_outcome).                                *)
(***************************************************************************)
NegativeIsFounded ==
    pc = "done" /\ outcome = "NoCallback" => settledAt[Replay] = {}

(***************************************************************************)
(* Whatever path the review takes, when it ends no session it registered   *)
(* and knows of is left without a cleanup attempt, and no operation of its *)
(* adapter is outstanding (terminal_with_provider, cleanup_then_error).    *)
(***************************************************************************)
SessionIsAlwaysClosed ==
    pc = "done" => /\ call = "none"
                   /\ ad.session = NoSession
                   /\ ad.lifecycle \in {"Configured", "Closed"}

(***************************************************************************)
(* What the review says at its end is founded: a positive and a negative   *)
(* verdict rest on what was really answered before and after the pages it  *)
(* read, and nothing it registered is left open (execute_review and        *)
(* classify_outcome).                                                      *)
(***************************************************************************)
VerdictIsFounded ==
    AdTypeOK /\ rvTypeOK /\ PositiveIsFounded /\ NegativeIsFounded /\ SessionIsAlwaysClosed

(***************************************************************************)
(* The review ends, even when the provider or the target never answers.    *)
(***************************************************************************)
ReviewEnds == <>(pc = "done")
=============================================================================
