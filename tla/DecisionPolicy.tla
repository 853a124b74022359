--------------------------- MODULE DecisionPolicy ---------------------------
(***************************************************************************)
(* What the decision loop computes for one subject, as operators on values *)
(* of its state: knowledge (knowledge/writes.rs, planner/model.rs,         *)
(* verification.rs), experience (experience.rs), sessions                  *)
(* (decision_loop/state.rs), the adaptive pipeline (adaptive/pipeline.rs)  *)
(* and the decisions of decision_loop/policy.rs.                           *)
(*                                                                         *)
(* A hypothesis is its state and whether its posterior and strength meet   *)
(* what the selectors ask; Open stands for the states a rule may conclude. *)
(* A selector matches one hypothesis.  Of the outcome statuses that the    *)
(* loop treats alike one is kept: ConfirmedNegative stands for             *)
(* FalsePositive too, Unknown for NeedsReview.                             *)
(***************************************************************************)
EXTENDS AttackPlanner, FiniteSets

CONSTANTS
    Hypotheses,
    Motive,          \* action -> the hypothesis of its confidence source
    Target,          \* action -> the hypothesis its outcome may transition
    KnowledgeOnly,   \*   or this
    Ranked,          \* the actions in utility order
    Rules,           \* the adaptation rules
    NoHost,          \* a call whose host passes no suppressions
    max_action_cycles,
    max_transitions, max_action_schedules,   \* AdaptationLimits
    consecutive_failure_limit                \* ExperiencePolicy

Statuses == {"Success", "Blocked", "ConfirmedNegative", "Unknown"}
Stages == {"Passive", "Active"}

\* u16::MAX
U16_MAX == 65535

\* PipelineDirective
DirectiveKinds == {"Complete", "ScheduleAction", "Replan", "Throttle",
                   "AwaitActiveVerification", "AwaitHumanReview", "Halt"}

(***************************************************************************)
(* What the constructors accept.  Rules are kept by identity, and a        *)
(* scheduled action is a registered one (another is refused when it is to  *)
(* be dispatched).                                                         *)
(***************************************************************************)
ASSUME DecisionPolicyAssumption ==
    /\ \A a \in Actions : /\ Motive[a] \in Hypotheses
                          /\ Target[a] \in Hypotheses \cup {KnowledgeOnly}
    /\ KnowledgeOnly \notin Hypotheses
    /\ Ranked \in Seq(Actions) /\ Range(Ranked) = Actions
    /\ max_action_cycles \in Nat
    /\ {max_transitions, max_action_schedules, consecutive_failure_limit} \subseteq Nat \ {0}
    /\ \A r \in Rules : /\ r.statuses \subseteq Statuses /\ r.statuses # {}
                        /\ r.stages \subseteq Stages /\ r.stages # {}
                        /\ r.priority \in 0..U16_MAX
                        /\ r.max_applications \in 1..U16_MAX
                        /\ r.directive.kind \in DirectiveKinds
                        /\ r.directive.flag \in BOOLEAN
                        /\ r.directive.kind = "ScheduleAction" => r.directive.action \in Actions
    /\ \A r, other \in Rules : r.id \in Nat /\ (r.id = other.id => r = other)

\* A policy whose rules make passive outcomes wait for active evidence, and no
\* others, as the fallback does.  Nothing in AdaptationRule::new asks for it.
EscalatesPassiveOnly ==
    \A r \in Rules : r.directive.kind = "AwaitActiveVerification" => r.stages = {"Passive"}

-----------------------------------------------------------------------------
(***************************************************************************)
(* Knowledge.                                                              *)
(***************************************************************************)
Terminal == {"Confirmed", "Rejected"}
Absent == [state |-> "Absent", strong |-> FALSE]
HypothesisValues == {Absent} \cup [state : {"Open"} \cup Terminal, strong : BOOLEAN]

\* preserve_terminal_state
ReasonedState(old) == IF old.state \in Terminal THEN {old.state} ELSE {"Open"}

(***************************************************************************)
(* What a reasoning pass may make of the hypotheses: the rules that match  *)
(* the evidence write theirs anew, whatever they make of its posterior;    *)
(* the others leave theirs.                                                *)
(***************************************************************************)
Reasoned(old) ==
    {new \in [Hypotheses -> HypothesisValues] :
        \A h \in Hypotheses :
            \/ new[h] = old[h]
            \/ new[h].state \in ReasonedState(old[h])}

(***************************************************************************)
(* ConfidenceSource::select and VerificationTarget::resolve.               *)
(***************************************************************************)
Selects(k, h) == k[h].state \in {"Open", "Confirmed"} /\ k[h].strong

Resolves(k, a) ==
    /\ Selects(k, Motive[a])
    /\ Target[a] # KnowledgeOnly => Selects(k, Target[a])

\* The hypothesis a case of the action names, in next_case.
HypothesisOf(a) == IF Target[a] = KnowledgeOnly THEN Motive[a] ELSE Target[a]

\* validate_outstanding_case_authority
MayConclude(k, a) == Target[a] = KnowledgeOnly \/ Resolves(k, a)

\* OutcomeStatus::hypothesis_state
HypothesisState(status) ==
    CASE status = "Success"           -> "Confirmed"
      [] status = "ConfirmedNegative" -> "Rejected"
      [] OTHER                        -> "none"

Transitions(o) == Target[o.case.action] # KnowledgeOnly /\ HypothesisState(o.status) # "none"

\* prospective_snapshot
Prospective(k, o) ==
    IF Transitions(o)
    THEN [k EXCEPT ![HypothesisOf(o.case.action)].state = HypothesisState(o.status)]
    ELSE k

-----------------------------------------------------------------------------
(***************************************************************************)
(* Experience: assess and suppressed_actions.  An active outcome takes the *)
(* place of its case's passive one; an inconclusive passive outcome is not *)
(* yet an attempt; neutral outcomes neither count nor reset.               *)
(***************************************************************************)
CompletedAttempt(o) == o.status # "Unknown" \/ o.stage = "Active"

Superseded(log, o) ==
    /\ o.stage = "Passive"
    /\ \E other \in Range(log) : other.case = o.case /\ other.stage = "Active"

Attempts(log, a) ==
    SelectSeq(log, LAMBDA o : /\ o.case.action = a
                              /\ CompletedAttempt(o)
                              /\ ~Superseded(log, o))

ConsecutiveFailures(log, a) ==
    LET seq == Attempts(log, a)
        sinceReset == {i \in DOMAIN seq : \A j \in i..Len(seq) : seq[j].status # "Success"}
    IN  Cardinality({i \in sinceReset : seq[i].status = "ConfirmedNegative"})

Learned(log) == {a \in Actions : ConsecutiveFailures(log, a) >= consecutive_failure_limit}

\* same_identity, for the records of one subject
Observed(log, c, stage) == \E o \in Range(log) : o.case = c /\ o.stage = stage

-----------------------------------------------------------------------------
(***************************************************************************)
(* Sessions.                                                               *)
(***************************************************************************)
Cases == [cycle : 1..max_action_cycles, origin : {"planned", "adaptive", "retry"},
          action : Actions]

NoCase == [cycle |-> 0, origin |-> "none", action |-> "none"]
HaltReasons == {"ActionCycleLimit", "NoEligibleAction", "HumanReview",
                "AdaptationLimit", "RuntimeBudgetLimit", "CancelledByHost"}
Awaiting(stage) == IF stage = "Passive" THEN "AwaitingPassive" ELSE "AwaitingActive"

NewSession ==
    [state |-> "Ready", reason |-> "none", case |-> NoCase, cycles |-> 0,
     transitions |-> 0, applied |-> [r \in Rules |-> 0],
     schedules |-> [a \in Actions |-> 0], suppressed |-> {}]

Enter(s, state) == [s EXCEPT !.state = state, !.case = NoCase]

Halt(s, reason) == [Enter(s, "Halted") EXCEPT !.reason = reason]
Escalate(s) == [s EXCEPT !.state = "AwaitingActive"]

IsAwaiting(s) == s.state \in {"AwaitingPassive", "AwaitingActive"}
IsTerminal(s) == s.state \in {"Completed", "Halted"}

\* A session as SessionLifecycle sees it.
PhaseOf(s) ==
    IF s.state # "Halted" THEN s.state
    ELSE IF s.reason = "NoEligibleAction" THEN "Exhausted"
    ELSE "Stopped"

\* next_case_with_policy: the identity is the cycle, the origin and the action.
NextCycle(s, origin) == s.cycles + 1

\* Bug: a retry does not count as an action cycle.
IssueRetryFree(s, a, origin) ==
    IF s.cycles >= max_action_cycles
    THEN Halt(s, "ActionCycleLimit")
    ELSE [s EXCEPT !.state = "AwaitingPassive",
                   !.cycles = IF origin = "retry" THEN @ ELSE @ + 1,
                   !.case = [cycle |-> NextCycle(s, origin), origin |-> origin, action |-> a]]

\* issue_action
Issue(s, a, origin) ==
    IF s.cycles >= max_action_cycles
    THEN Halt(s, "ActionCycleLimit")
    ELSE [s EXCEPT !.state = "AwaitingPassive",
                   !.cycles = @ + 1,
                   !.case = [cycle |-> NextCycle(s, origin), origin |-> origin, action |-> a]]

\* combined_suppressions
Policy(log, s, host) == Learned(log) \cup s.suppressed \cup host.policy

\* The suppressions of a call: none of its own when the host passes none.
Suppressions(host) == IF host = NoHost THEN [policy |-> {}, defense |-> {}] ELSE host

\* What the host is told to do next, when it is to execute something.
Command(s) ==
    IF IsAwaiting(s)
    THEN {[case |-> s.case,
           stage |-> IF s.state = "AwaitingPassive" THEN "Passive" ELSE "Active"]}
    ELSE {}

-----------------------------------------------------------------------------
(***************************************************************************)
(* The adaptive pipeline: decide_with_suppressed_actions and record.  A    *)
(* directive is [kind, action, flag]; `holds` are the rules whose          *)
(* condition the snapshot's evidence meets.                                *)
(***************************************************************************)
Directive(kind, action, flag) == [kind |-> kind, action |-> action, flag |-> flag]

ScheduledAction(d) == IF d.kind = "ScheduleAction" THEN {d.action} ELSE {}

RepeatedAction(d, a) ==
    IF d.kind = "Throttle" /\ d.flag THEN {a} ELSE ScheduledAction(d)

RuleExhausted(s, r) == s.applied[r] >= r.max_applications

EligibleRules(s, o, policy, holds) ==
    {r \in holds :
        /\ o.status \in r.statuses /\ o.stage \in r.stages
        /\ ~RuleExhausted(s, r)
        /\ \A a \in ScheduledAction(r.directive) : s.schedules[a] < max_action_schedules
        /\ RepeatedAction(r.directive, o.case.action) \cap (policy \cup s.suppressed) = {}}

\* Highest priority, then the identity; Rules of equal priority are told
\* apart by `id`, their place in identity order.
Winner(rules) ==
    CHOOSE r \in rules : \A other \in rules \ {r} :
        \/ r.priority > other.priority
        \/ r.priority = other.priority /\ r.id < other.id

Fallback(o) ==
    CASE o.status = "Success"           -> Directive("Complete", "none", FALSE)
      [] o.status = "ConfirmedNegative" -> Directive("Replan", "none", TRUE)
      [] o.status = "Unknown" /\ o.stage = "Passive" ->
             Directive("AwaitActiveVerification", "none", FALSE)
      [] OTHER                          -> Directive("AwaitHumanReview", "none", FALSE)

Selected(s, o, policy, holds) ==
    LET rules == EligibleRules(s, o, policy, holds)
    IN  IF rules = {} THEN Fallback(o) ELSE Winner(rules).directive

Record(s, o, policy, holds) ==
    LET rules == EligibleRules(s, o, policy, holds)
        d == Selected(s, o, policy, holds)
    IN  [s EXCEPT
            !.transitions = @ + 1,
            !.applied = [r \in Rules |->
                IF rules # {} /\ r = Winner(rules) THEN @[r] + 1 ELSE @[r]],
            !.schedules = [a \in Actions |->
                IF a \in ScheduledAction(d) THEN @[a] + 1 ELSE @[a]],
            !.suppressed = IF d.kind = "Replan" /\ d.flag
                           THEN @ \cup {o.case.action} ELSE @]

LimitReached(s) == s.transitions >= max_transitions

-----------------------------------------------------------------------------
(***************************************************************************)
(* transition_from_adaptive.  The result is a set: empty when the action   *)
(* may not be dispatched and the call returns an error.                    *)
(***************************************************************************)
\* authorize_scheduled_action_with_context
Authorized(k, a, policy) ==
    /\ a \notin policy
    /\ Resolves(k, a)
    /\ Prerequisites[a] = {}
    /\ Cost[a] <= budget

Continue(s, a, authorized, defense, next) ==
    CASE a \in defense -> {Enter(s, "Ready")}
      [] a \notin defense /\ authorized -> {next}
      [] OTHER -> {}

Dispatch(s, k, a, origin, policy, defense) ==
    IF s.cycles >= max_action_cycles
    THEN {Halt(s, "ActionCycleLimit")}
    ELSE Continue(s, a, Authorized(k, a, policy), defense, Issue(s, a, origin))

Transition(s, k, o, d, policy, defense) ==
    LET a == o.case.action
    IN  CASE d.kind = "Complete" -> {Enter(s, "Completed")}
          [] d.kind = "ScheduleAction" ->
                 Dispatch(s, k, d.action, "adaptive", policy, defense)
          [] d.kind = "Throttle" /\ d.flag -> Dispatch(s, k, a, "retry", policy, defense)
          [] d.kind = "Replan" \/ (d.kind = "Throttle" /\ ~d.flag) -> {Enter(s, "Ready")}
          [] d.kind = "AwaitActiveVerification" ->
                 Continue(s, a, Authorized(k, a, policy), defense, Escalate(s))
          [] d.kind = "AwaitHumanReview" -> {Halt(s, "HumanReview")}
          [] d.kind = "Halt" -> {Halt(s, "AdaptationLimit")}

\* Bug: suppression is computed before the outcome is counted.
ConclusionsWithoutOutcome(s, log, snap, o, host, holds) ==
    LET sup == Suppressions(host)
        policy == Policy(log, s, sup)
        k == Prospective(snap.hyp, o)
    IN  IF LimitReached(s)
        THEN {Halt(s, "AdaptationLimit")}
        ELSE LET d == Selected(s, o, policy, holds)
                 recorded == Record(s, o, policy, holds)
             IN  IF host = NoHost /\ d.kind \notin {"Complete", "AwaitHumanReview", "Halt"}
                 THEN {}
                 ELSE Transition(recorded, k, o, d, policy, sup.defense)

(***************************************************************************)
(* The candidate session of finalize_outcome: suppression as the outcome   *)
(* leaves it, the decision, and the transition on the knowledge as it will *)
(* be.  A host that passed no suppressions cannot be told to go on.        *)
(***************************************************************************)
Conclusions(s, log, snap, o, host, holds) ==
    LET sup == Suppressions(host)
        policy == Policy(Append(log, o), s, sup)
        k == Prospective(snap.hyp, o)
    IN  IF LimitReached(s)
        THEN {Halt(s, "AdaptationLimit")}
        ELSE LET d == Selected(s, o, policy, holds)
                 recorded == Record(s, o, policy, holds)
             IN  IF host = NoHost /\ d.kind \notin {"Complete", "AwaitHumanReview", "Halt"}
                 THEN {}
                 ELSE Transition(recorded, k, o, d, policy, sup.defense)

(***************************************************************************)
(* The candidate session of a plan on the snapshot: its first step, or a   *)
(* halt when it has none.                                                  *)
(***************************************************************************)
Planned(s, log, k, host) ==
    LET policy == Policy(log, s, host)
        eligible == {a \in Actions : a \notin policy /\ Resolves(k, a)}
        steps == DefenseFiltered(Baseline(eligible, Ranked), host.defense)
    IN  IF steps = << >>
        THEN Halt(s, "NoEligibleAction")
        ELSE Issue(s, Head(steps), "planned")

(***************************************************************************)
(* VerificationReport::apply.  A report that changes no hypothesis needs   *)
(* its snapshot current; one that repeats the state the hypothesis has is  *)
(* taken as a replay, before any revision is compared.                     *)
(***************************************************************************)
MayApply(k, o, current) ==
    LET was == k[HypothesisOf(o.case.action)].state
    IN  IF Transitions(o)
        THEN was = HypothesisState(o.status) \/ (was \notin Terminal /\ current)
        ELSE current

=============================================================================
