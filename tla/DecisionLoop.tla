---------------------------- MODULE DecisionLoop ----------------------------
(***************************************************************************)
(* The decision loop of one subject                                        *)
(* (src/crates/termivar-scanner/src/decision_loop/policy.rs and state.rs), *)
(* the runner that executes its commands (decision_runner.rs), the         *)
(* experience store (experience.rs), the adaptive pipeline                 *)
(* (adaptive/pipeline.rs) and what they share with everyone else who works *)
(* on the subject: the knowledge base.                                     *)
(*                                                                         *)
(* A call holds the session and the experience store exclusively, so one   *)
(* call is in progress at a time and `op` is its local state.  The         *)
(* knowledge base has a lock of its own and is changed by others between   *)
(* any two steps of the call: a step of the model is what happens under    *)
(* one acquisition of that lock.  Revisions are only compared with the     *)
(* ones a snapshot carries: a snapshot has `current`, which a write to the *)
(* subject's knowledge makes FALSE.                                        *)
(***************************************************************************)
EXTENDS DecisionState

CONSTANTS
    Hosts,           \* suppressions a host may pass: [policy, defense]
    MAX_REASONING_APPLY_ATTEMPTS

ASSUME DecisionLoopAssumption ==
    /\ NoHost \notin Hosts
    /\ \A h \in Hosts : h.policy \subseteq Actions /\ h.defense \subseteq Actions
    /\ MAX_REASONING_APPLY_ATTEMPTS \in Nat \ {0}

VARIABLES
    commands,    \* every command the host was ever given, [case, stage]
    op           \* the call in progress

dlVars == <<hyp, session, experience, commands, op>>

\* snapshot_for_subject
Now == [hyp |-> hyp, current |-> TRUE]

-----------------------------------------------------------------------------
(***************************************************************************)
(* Calls.  `op` holds the step that comes next (`pc`) and what the call    *)
(* carries to it.                                                          *)
(***************************************************************************)
Idle == [pc |-> "idle"]

dlInit ==
    /\ hyp = [h \in Hypotheses |-> Absent]
    /\ session = NewSession
    /\ experience = << >>
    /\ commands = {}
    /\ op = Idle

\* plan_next of session s, up to its first snapshot.
StartPlan(s, host) ==
    IF s.cycles >= max_action_cycles
    THEN [pc |-> "commit", snap |-> Now, next |-> Halt(s, "ActionCycleLimit")]
    ELSE [pc |-> "reason", host |-> host, attempt |-> 1, snap |-> Now]

PlanNext(host) ==
    /\ op = Idle
    /\ session.state = "Ready"
    /\ op' = StartPlan(session, host)
    /\ UNCHANGED <<hyp, session, experience, commands>>

(***************************************************************************)
(* RuleEngine::apply_with_before_commit: evaluate on a snapshot, write     *)
(* under the lock if it is still current, otherwise start over, a bounded  *)
(* number of times.                                                        *)
(***************************************************************************)
Reason ==
    /\ op.pc = "reason"
    /\ op.snap.current
    /\ \E new \in Reasoned(op.snap.hyp) : hyp' = new
    /\ op' = [pc |-> "plan", host |-> op.host]
    /\ UNCHANGED <<session, experience, commands>>

\* Bug: the number of attempts is not bounded.
ReasonAgainForever ==
    /\ op.pc = "reason"
    /\ ~op.snap.current
    /\ op' = [op EXCEPT !.snap = Now]
    /\ UNCHANGED <<hyp, session, experience, commands>>

\* Out of attempts: StaleSnapshotRetriesExhausted.
ReasonAgain ==
    /\ op.pc = "reason"
    /\ ~op.snap.current
    /\ op' = IF op.attempt < MAX_REASONING_APPLY_ATTEMPTS
             THEN [op EXCEPT !.attempt = @ + 1, !.snap = Now]
             ELSE Idle
    /\ UNCHANGED <<hyp, session, experience, commands>>

PlanOnSnapshot ==
    /\ op.pc = "plan"
    /\ op' = [pc |-> "commit", snap |-> Now,
              next |-> Planned(session, experience, hyp, op.host)]
    /\ UNCHANGED <<hyp, session, experience, commands>>

\* Bug: the plan is committed without looking whether its snapshot is current.
CommitPlanUnchecked ==
    /\ op.pc = "commit"
    /\ session' = op.next
    /\ commands' = commands \cup Command(op.next)
    /\ op' = Idle
    /\ UNCHANGED <<hyp, experience>>

\* commit_if_snapshot_current; otherwise StalePlanningSnapshot.
CommitPlan ==
    /\ op.pc = "commit"
    /\ IF op.snap.current
       THEN /\ session' = op.next
            /\ commands' = commands \cup Command(op.next)
       ELSE UNCHANGED <<session, commands>>
    /\ op' = Idle
    /\ UNCHANGED <<hyp, experience>>

-----------------------------------------------------------------------------

\* validate_session_case
Outstanding(c) == session.state = Awaiting(c.stage) /\ session.case = c.case

\* command_requiring_host_policy_context
NeedsHost(c) == c.stage = "Active" \/ c.case.origin \in {"adaptive", "retry"}

MayDrive(c, host) ==
    /\ op = Idle
    /\ NeedsHost(c) => host # NoHost
    /\ MayConclude(hyp, c.case.action)
    /\ Outstanding(c)

\* replan_defense_suppressed_command, and the plan that follows it
DriveSuppressed(c, host) ==
    /\ MayDrive(c, host)
    /\ c.case.action \in Suppressions(host).defense
    /\ session' = Enter(session, "Ready")
    /\ op' = StartPlan(session', host)
    /\ UNCHANGED <<hyp, experience, commands>>

Drive(c, host) ==
    /\ MayDrive(c, host)
    /\ c.case.action \notin Suppressions(host).defense \cup Suppressions(host).policy
    /\ op' = [pc |-> "execute", command |-> c, host |-> host]
    /\ UNCHANGED <<hyp, session, experience, commands>>

(***************************************************************************)
(* The executor returns and its evidence is stored                         *)
(* (execute_command_with_limits).  The evidence itself is what the         *)
(* verifier makes of it; the receipt keeps the snapshot taken after it.    *)
(***************************************************************************)
Execute ==
    /\ op.pc = "execute"
    /\ op' = [pc |-> "resume", command |-> op.command, host |-> op.host, snap |-> Now]
    /\ UNCHANGED <<hyp, session, experience, commands>>

(***************************************************************************)
(* submit_passive judges on a snapshot of its own, submit_active on the    *)
(* one the receipt has kept, and finalize_outcome prepares what is to be   *)
(* committed.  `status` is the verifier's, `holds` the adaptation rules    *)
(* whose condition the evidence meets.                                     *)
(***************************************************************************)
Submit(host, status, holds) ==
    /\ op.pc = "resume"
    /\ Outstanding(op.command)
    /\ LET c == session.case
           snap == IF op.command.stage = "Active" THEN op.snap ELSE Now
           o == [case |-> c, stage |-> op.command.stage, status |-> status]
       IN  /\ MayConclude(snap.hyp, c.action)
           /\ snap.hyp[HypothesisOf(c.action)] # Absent
           /\ ~Observed(experience, c, o.stage)
           /\ \E next \in Conclusions(session, experience, snap, o, host, holds) :
                  op' = [pc |-> "apply", snap |-> snap, outcome |-> o, next |-> next]
    /\ UNCHANGED <<hyp, session, experience, commands>>

\* Bug: a report that is refused is dropped, and the rest committed all the same.
ApplyDroppingRefusal ==
    /\ op.pc = "apply"
    /\ hyp' = IF MayApply(hyp, op.outcome, op.snap.current)
              THEN Prospective(hyp, op.outcome) ELSE hyp
    /\ experience' = Append(experience, op.outcome)
    /\ session' = op.next
    /\ commands' = commands \cup Command(op.next)
    /\ op' = Idle

\* The end of finalize_outcome: knowledge, then experience and session; on
\* an error none of them.
Apply ==
    /\ op.pc = "apply"
    /\ IF MayApply(hyp, op.outcome, op.snap.current)
       THEN /\ hyp' = Prospective(hyp, op.outcome)
            /\ experience' = Append(experience, op.outcome)
            /\ session' = op.next
            /\ commands' = commands \cup Command(op.next)
       ELSE UNCHANGED <<hyp, experience, session, commands>>
    /\ op' = Idle

(***************************************************************************)
(* A call that returns one of its other errors, before it has committed    *)
(* anything but its reasoning or its evidence: a rule, planner or case     *)
(* error, a failed executor, evidence that is refused, a verifier error, a *)
(* conclusion that may not be dispatched.                                  *)
(***************************************************************************)
Fail ==
    /\ op.pc \in {"reason", "plan", "execute", "resume"}
    /\ op' = Idle
    /\ UNCHANGED <<hyp, session, experience, commands>>

(***************************************************************************)
(* The host ends the session (halt_for_runtime_budget,                     *)
(* halt_for_host_cancellation), between calls or by dropping one that      *)
(* waits for its executor; a plan that has just halted the session         *)
(* included.                                                               *)
(***************************************************************************)
HostHalts(reason) ==
    /\ op.pc \in {"idle", "execute"}
    /\ session.state # "Completed"
    /\ session' = Halt(session, reason)
    /\ op' = Idle
    /\ UNCHANGED <<hyp, experience, commands>>

-----------------------------------------------------------------------------
(***************************************************************************)
(* Everyone else who writes to the subject's knowledge: collectors, other  *)
(* sessions' reasoning and other sessions' verifiers.  The public          *)
(* upsert_hypothesis, which does not preserve a terminal state, writes an  *)
(* open hypothesis as these do; that it is not used to reopen a concluded  *)
(* one is assumed.  Of the product only the phases of the legacy runner    *)
(* call it, on the knowledge base of their own scan context.               *)
(***************************************************************************)
Overtaken ==
    op' = IF "snap" \in DOMAIN op THEN [op EXCEPT !.snap.current = FALSE] ELSE op

OthersObserve ==
    /\ "snap" \in DOMAIN op /\ op.snap.current
    /\ Overtaken
    /\ UNCHANGED <<hyp, session, experience, commands>>

OthersReason ==
    /\ \E new \in Reasoned(hyp) \ {hyp} : hyp' = new
    /\ Overtaken
    /\ UNCHANGED <<session, experience, commands>>

OthersVerify(h, state) ==
    /\ hyp[h].state = "Open"
    /\ hyp' = [hyp EXCEPT ![h].state = state]
    /\ Overtaken
    /\ UNCHANGED <<session, experience, commands>>

CallStep ==
    \/ Reason \/ ReasonAgain \/ PlanOnSnapshot \/ CommitPlan
    \/ Execute \/ Apply
    \/ op.pc = "resume"
       /\ \E status \in Statuses, holds \in SUBSET Rules : Submit(op.host, status, holds)

Others ==
    \/ OthersObserve
    \/ OthersReason
    \/ \E h \in Hypotheses, state \in Terminal : OthersVerify(h, state)

dlNext ==
    \/ \E host \in Hosts : PlanNext(host)
    \/ \E c \in commands, host \in Hosts \cup {NoHost} : DriveSuppressed(c, host)
    \/ \E c \in commands, host \in Hosts \cup {NoHost} : Drive(c, host)
    \/ CallStep
    \/ Fail
    \/ \E reason \in {"RuntimeBudgetLimit", "CancelledByHost"} : HostHalts(reason)
    \/ Others

dlSpec == dlInit /\ [][dlNext]_dlVars

(***************************************************************************)
(* A call goes on while it can, and a call that cannot returns an error.   *)
(***************************************************************************)
dlFairSpec == dlSpec /\ WF_dlVars(CallStep \/ Fail)

-----------------------------------------------------------------------------
(***************************************************************************)
(* The session has a case exactly while it awaits evidence and a reason    *)
(* exactly when it is halted; everything else is of its type.              *)
(***************************************************************************)
dlTypeOK ==
    /\ hyp \in [Hypotheses -> HypothesisValues]
    /\ session.state \in {"Ready", "AwaitingPassive", "AwaitingActive", "Completed", "Halted"}
    /\ session.case \in IF IsAwaiting(session) THEN Cases ELSE {NoCase}
    /\ session.reason \in IF session.state = "Halted" THEN HaltReasons ELSE {"none"}
    /\ session.suppressed \subseteq Actions
    /\ \A o \in Range(experience) :
           o.case \in Cases /\ o.stage \in Stages /\ o.status \in Statuses
    /\ op.pc \in {"idle", "reason", "plan", "commit", "execute", "resume", "apply"}

(***************************************************************************)
(* Experience and session advance together, whatever call fails at which   *)
(* step and whoever else writes: the outcomes counted are the transitions  *)
(* the ledger has recorded, but for the one that found the ledger full and *)
(* halted the session (finalize_outcome).                                  *)
(***************************************************************************)
ExperienceMatchesLedger ==
    \/ Len(experience) = session.transitions
    \/ /\ Len(experience) = session.transitions + 1
       /\ session.state = "Halted"
       /\ session.transitions = max_transitions

(***************************************************************************)
(* A command that is outstanding has no outcome yet: of a case that awaits *)
(* passive evidence nothing is recorded, of one that awaits active         *)
(* evidence its passive outcome and no other.  So no retry of a call ever  *)
(* meets an outcome it has stored itself (IdentityConflict), and no case   *)
(* identity is ever issued twice.  (For policies that escalate passive     *)
(* outcomes only; the pipeline itself does not ask that of a rule.)        *)
(***************************************************************************)
OutstandingIsUnrecorded ==
    /\ session.state = "AwaitingPassive" =>
           \A o \in Range(experience) : o.case # session.case
    /\ session.state = "AwaitingActive" =>
           /\ Observed(experience, session.case, "Passive")
           /\ ~Observed(experience, session.case, "Active")
    /\ \A i, j \in DOMAIN experience :
           /\ i # j
           /\ experience[i].case.cycle = experience[j].case.cycle
           => /\ experience[i].case = experience[j].case
              /\ experience[i].stage # experience[j].stage

(***************************************************************************)
(* No command is outstanding for an action that experience or the session  *)
(* have suppressed, whichever way it was issued: planned, scheduled,       *)
(* retried or escalated to active verification.  This is what makes every  *)
(* suppressing replan shrink the set of candidates                         *)
(* (outcome_made_progress counts on it).                                   *)
(***************************************************************************)
OutstandingIsNotSuppressed ==
    IsAwaiting(session) =>
        session.case.action \notin Learned(experience) \cup session.suppressed

(***************************************************************************)
(* The limits of the loop hold: actions issued, times a rule won, times an *)
(* action was scheduled, transitions.                                      *)
(***************************************************************************)
LimitsHold ==
    /\ session.cycles <= max_action_cycles
    /\ session.transitions <= max_transitions
    /\ \A r \in Rules : session.applied[r] <= r.max_applications
    /\ \A a \in Actions : session.schedules[a] <= max_action_schedules

(***************************************************************************)
(* Evidence is collected, and judged, for the case that is outstanding,    *)
(* although the host drives commands it was given long ago.                *)
(***************************************************************************)
EvidenceIsForOutstanding ==
    op.pc \in {"execute", "resume"} =>
        /\ session.state = Awaiting(op.command.stage)
        /\ session.case = op.command.case

(***************************************************************************)
(* Experience and knowledge agree: the hypothesis of every conclusive      *)
(* outcome counted stands as that outcome says, although other verifiers   *)
(* conclude on it too and reports are refused (VerificationReport::apply   *)
(* before the commit of experience and session).                           *)
(***************************************************************************)
ExperienceMatchesKnowledge ==
    \A o \in Range(experience) : Transitions(o) =>
        hyp[HypothesisOf(o.case.action)].state = HypothesisState(o.status)

(***************************************************************************)
(* Knowledge, experience and session tell one story and stay within the    *)
(* loop's limits, though they are written one after the other, every call  *)
(* may fail between two of the writes and others write too                 *)
(* (finalize_outcome and the calls around it).                             *)
(***************************************************************************)
StoresAgree ==
    dlTypeOK /\ ExperienceMatchesLedger /\ ExperienceMatchesKnowledge /\ LimitsHold

(***************************************************************************)
(* The command that is outstanding is one worth running, and the only one  *)
(* that is run: not judged before, not suppressed, and not mistaken for an *)
(* earlier one the host still holds (plan_next, drive, finalize_outcome).  *)
(***************************************************************************)
OutstandingIsLive ==
    OutstandingIsUnrecorded /\ OutstandingIsNotSuppressed /\ EvidenceIsForOutstanding

(***************************************************************************)
(* "A concurrent evidence, hypothesis, or ontology write makes the report  *)
(* stale and aborts the candidate experience/session commit.               *)
(* Same-terminal replay remains idempotent": an outcome judged on a        *)
(* snapshot that others have overtaken is counted only if it concludes     *)
(* what another verifier has concluded meanwhile.                          *)
(***************************************************************************)
ConcurrentWriteAborts ==
    experience' # experience =>
        \/ op.snap.current
        \/ /\ Transitions(op.outcome)
           /\ hyp[HypothesisOf(op.outcome.case.action)].state
                 = HypothesisState(op.outcome.status)

(***************************************************************************)
(* A verifier's conclusion on a hypothesis is final: neither reasoning     *)
(* passes nor other verifiers change it.                                   *)
(***************************************************************************)
ConclusionsAreFinal ==
    \A h \in Hypotheses : hyp[h].state \in Terminal => hyp'[h].state = hyp[h].state

(***************************************************************************)
(* A planned action is one the knowledge of the moment still calls for:    *)
(* what others wrote since the plan's snapshot is never overlooked.        *)
(***************************************************************************)
PlannedIsCurrent ==
    /\ session'.cycles > session.cycles
    /\ session'.case.origin = "planned"
    => Resolves(hyp, session'.case.action)

(***************************************************************************)
(* Nothing that was decided on an old view of the knowledge is committed   *)
(* over a newer one: no plan, no outcome and no hypothesis                 *)
(* (plan_next, finalize_outcome and RuleEngine::apply).                    *)
(***************************************************************************)
NothingStaleCommits ==
    [][ConcurrentWriteAborts /\ ConclusionsAreFinal /\ PlannedIsCurrent]_dlVars

(***************************************************************************)
(* The loop implements the life of a session, whoever else writes and      *)
(* whatever fails: in particular a halt other than the exhaustion of       *)
(* eligible actions is absolute.                                           *)
(***************************************************************************)
ImplementsLifecycle == Lifecycle!slSpec

(***************************************************************************)
(* Every call returns, however much others write.                          *)
(***************************************************************************)
CallsReturn == op # Idle ~> op = Idle

=============================================================================
