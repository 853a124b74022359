--------------------------- MODULE DecisionProofs ---------------------------
(***************************************************************************)
(* Proofs about the decision loop and the web runtime, for every set of    *)
(* actions, hypotheses and rules that the constructors accept, every host  *)
(* and every limit.                                                        *)
(*                                                                         *)
(* The arguments rest on two inductive invariants.  LInv ties a call in    *)
(* progress to the session, the experience and the snapshot it reads;      *)
(* WInv ties the command and the report of a run to its session, its       *)
(* receipts and what the ledgers have charged.  Both stand on lemmas about *)
(* what the operators of DecisionPolicy and AttackPlanner return: what a   *)
(* plan contains, which directive wins, what an outcome may make of a      *)
(* session.                                                                *)
(*                                                                         *)
(* Three hypotheses are about the composition and not about the loop, so   *)
(* they are stated where they are needed.  EscalatesPassiveOnly: no rule   *)
(* makes an active outcome wait for active evidence.  OnlyWebRules: the    *)
(* pipeline of a web run holds the rules web_runtime.rs registers.         *)
(* FewActions: fewer actions are registered than a continuation rule has   *)
(* applications, so the rules of a run are never used up.                  *)
(***************************************************************************)
EXTENDS DecisionLoop, WebRuntime, FiniteSums

-----------------------------------------------------------------------------
(***************************************************************************)
(* Sessions and what becomes of them.                                      *)
(***************************************************************************)
Origins == {"planned", "adaptive", "retry"}

Sessions ==
    [state : {"Ready", "AwaitingPassive", "AwaitingActive", "Completed", "Halted"},
     reason : HaltReasons \cup {"none"}, case : Cases \cup {NoCase},
     cycles : 0..max_action_cycles, transitions : 0..max_transitions,
     applied : [Rules -> Nat], schedules : [Actions -> Nat], suppressed : SUBSET Actions]

\* A session whose counters are within the limits.
Bounded(s) ==
    /\ s \in Sessions
    /\ \A r \in Rules : s.applied[r] <= r.max_applications
    /\ \A a \in Actions : s.schedules[a] <= max_action_schedules

\* A session as it is between calls: the case it awaits evidence for is its last cycle's.
Sound(s) ==
    /\ Bounded(s)
    /\ s.case \in IF IsAwaiting(s) THEN Cases ELSE {NoCase}
    /\ s.reason \in IF s.state = "Halted" THEN HaltReasons ELSE {"none"}
    /\ IsAwaiting(s) => s.case.cycle = s.cycles

Outcomes == [case : Cases, stage : Stages, status : Statuses]

\* n keeps the counters of s.
SameCounters(n, s) ==
    /\ n.cycles = s.cycles /\ n.transitions = s.transitions
    /\ n.applied = s.applied /\ n.schedules = s.schedules
    /\ n.suppressed = s.suppressed

\* The limits are numbers.
LEMMA LimitsAreNumbers ==
    /\ max_action_cycles \in Nat /\ max_transitions \in Nat \ {0}
    /\ max_action_schedules \in Nat \ {0}
    /\ \A r \in Rules : r.max_applications \in Nat \ {0}
<1>1. U16_MAX \in Nat
    BY SMT DEF U16_MAX
<1>2. \A r \in Rules : r.max_applications \in 1..U16_MAX
    BY DecisionPolicyAssumption
<1> QED
    BY <1>1, <1>2, DecisionPolicyAssumption

\* A new session is sound.
LEMMA NewSessionSound == Sound(NewSession) /\ NewSession.state = "Ready"
BY LimitsAreNumbers DEF Sound, Bounded, Sessions, NewSession, IsAwaiting

\* Entering a state, halting, issuing and escalating leave a sound session.
LEMMA EnterSound ==
    ASSUME NEW s, Bounded(s), s.reason = "none", NEW st \in {"Ready", "Completed"}
    PROVE  /\ Sound(Enter(s, st)) /\ SameCounters(Enter(s, st), s)
           /\ Enter(s, st).state = st /\ Enter(s, st).reason = "none"
           /\ Enter(s, st).case = NoCase
BY DEF Sound, Bounded, Sessions, Enter, IsAwaiting, SameCounters

\* Halting leaves a sound session.
LEMMA HaltSound ==
    ASSUME NEW s, Bounded(s), NEW reason \in HaltReasons
    PROVE  /\ Sound(Halt(s, reason)) /\ SameCounters(Halt(s, reason), s)
           /\ Halt(s, reason).state = "Halted" /\ Halt(s, reason).reason = reason
           /\ Halt(s, reason).case = NoCase
BY DEF Sound, Bounded, Sessions, Halt, Enter, IsAwaiting, SameCounters

\* Issuing a case leaves a sound session that awaits passive evidence.
LEMMA IssueSound ==
    ASSUME NEW s, Bounded(s), s.reason = "none", s.cycles < max_action_cycles,
           NEW a \in Actions, NEW origin \in Origins
    PROVE  /\ Sound(Issue(s, a, origin))
           /\ Issue(s, a, origin).state = "AwaitingPassive"
           /\ Issue(s, a, origin).reason = "none"
           /\ Issue(s, a, origin).cycles = s.cycles + 1
           /\ Issue(s, a, origin).case
                 = [cycle |-> s.cycles + 1, origin |-> origin, action |-> a]
           /\ Issue(s, a, origin).transitions = s.transitions
           /\ Issue(s, a, origin).suppressed = s.suppressed
           /\ Issue(s, a, origin).applied = s.applied
           /\ Issue(s, a, origin).schedules = s.schedules
<1> DEFINE c == [cycle |-> s.cycles + 1, origin |-> origin, action |-> a]
           n == [s EXCEPT !.state = "AwaitingPassive", !.cycles = @ + 1, !.case = c]
<1>1. s.cycles \in 0..max_action_cycles /\ s.cycles + 1 \in 1..max_action_cycles
    BY LimitsAreNumbers DEF Bounded, Sessions
<1>2. ~(s.cycles >= max_action_cycles)
    BY <1>1, LimitsAreNumbers
<1>3. c \in Cases
    BY <1>1 DEF Cases, Origins
<1>4. Issue(s, a, origin) = n
    BY <1>2 DEF Issue, NextCycle
<1>5. /\ n.state = "AwaitingPassive" /\ n.reason = "none" /\ n.cycles = s.cycles + 1
      /\ n.case = c /\ n.transitions = s.transitions /\ n.suppressed = s.suppressed
      /\ n.applied = s.applied /\ n.schedules = s.schedules
    BY DEF Bounded, Sessions
<1>6. c.cycle = s.cycles + 1
    OBVIOUS
<1>7. n \in Sessions
  <2> HIDE DEF c
  <2>1. s.cycles + 1 \in 0..max_action_cycles /\ c \in Cases \cup {NoCase} /\ s \in Sessions
    BY <1>1, <1>3 DEF Bounded
  <2> DEFINE k == s.cycles + 1
  <2>2. n = [s EXCEPT !.state = "AwaitingPassive", !.cycles = k, !.case = c]
    OBVIOUS
  <2>3. k \in 0..max_action_cycles
    BY <2>1
  <2> HIDE DEF k, n
  <2> QED
    BY <2>1, <2>2, <2>3 DEF Sessions
<1> HIDE DEF n, c
<1>8. Sound(n)
    BY <1>3, <1>5, <1>6, <1>7 DEF Sound, Bounded, IsAwaiting
<1> QED
    BY <1>4, <1>5, <1>8 DEF c

\* Escalating leaves a sound session that awaits active evidence.
LEMMA EscalateSound ==
    ASSUME NEW s, Bounded(s), s.reason = "none", s.case \in Cases, s.case.cycle = s.cycles
    PROVE  /\ Sound(Escalate(s)) /\ SameCounters(Escalate(s), s)
           /\ Escalate(s).state = "AwaitingActive" /\ Escalate(s).reason = "none"
           /\ Escalate(s).case = s.case
BY DEF Sound, Bounded, Sessions, Escalate, IsAwaiting, SameCounters

-----------------------------------------------------------------------------
(***************************************************************************)
(* The adaptive pipeline.                                                  *)
(***************************************************************************)
\* Of rules that are not none, one wins: the highest priority first, then the least identity.
LEMMA WinnerWins ==
    ASSUME NEW rules, rules \subseteq Rules, rules # {}
    PROVE  Winner(rules) \in rules
<1> DEFINE Deficits == {U16_MAX - r.priority : r \in rules}
<1>0. U16_MAX \in Nat
    BY SMT DEF U16_MAX
<1>1. \A r \in rules : r.priority \in 0..U16_MAX /\ r.id \in Nat
    BY DecisionPolicyAssumption
<1>2. Deficits \subseteq Nat /\ Deficits # {}
    BY <1>0, <1>1
<1>3. PICK n \in Deficits : \A m \in Deficits : ~(m < n)
    BY <1>2, LeastNumber
<1>4. PICK top \in rules : n = U16_MAX - top.priority
    BY <1>3
<1>5. \A r \in rules : r.priority <= top.priority
    BY <1>0, <1>1, <1>3, <1>4
<1> DEFINE Ids == {r.id : r \in {q \in rules : q.priority = top.priority}}
<1>6. Ids \subseteq Nat /\ Ids # {}
    BY <1>1
<1>7. PICK i \in Ids : \A j \in Ids : ~(j < i)
    BY <1>6, LeastNumber
<1>8. PICK w \in rules : w.priority = top.priority /\ w.id = i
    BY <1>7
<1>9. ASSUME NEW other \in rules \ {w}
      PROVE  \/ w.priority > other.priority
             \/ w.priority = other.priority /\ w.id < other.id
  <2>1. w.id # other.id
    BY <1>9, <1>8, DecisionPolicyAssumption
  <2>2. CASE other.priority = top.priority
    <3>1. other.id \in Ids
      BY <2>2
    <3>2. ~(other.id < i) /\ other.id \in Nat /\ w.id \in Nat /\ w.id = i
      BY <1>1, <1>7, <1>8, <3>1
    <3>3. w.id < other.id
      BY <2>1, <3>2
    <3> QED
      BY <1>8, <2>2, <3>3
  <2>3. CASE other.priority # top.priority
    BY <1>0, <1>1, <1>5, <1>8, <2>3
  <2> QED
    BY <2>2, <2>3
<1> QED
    BY <1>9 DEF Winner

\* The action may be scheduled once more.
MaySchedule(s, a) == s.schedules[a] < max_action_schedules

\* The directive d is selected from the eligible rules, with all that makes them eligible.
IsSelection(d, rules, s, o) ==
    /\ d.kind \in DirectiveKinds /\ d.flag \in BOOLEAN
    /\ d.kind = "ScheduleAction" => d.action \in Actions /\ MaySchedule(s, d.action)
    /\ rules = {} => d = Fallback(o)
    /\ rules # {} => /\ Winner(rules) \in rules /\ Winner(rules) \in Rules
                     /\ ~RuleExhausted(s, Winner(rules))
                     /\ d = Winner(rules).directive
                     /\ o.status \in Winner(rules).statuses
                     /\ o.stage \in Winner(rules).stages
    /\ RepeatedAction(d, o.case.action) \cap s.suppressed = {}

\* The pipeline selects a directive so.
LEMMA SelectedShape ==
    ASSUME NEW s, NEW o \in Outcomes, NEW policy, NEW holds, holds \subseteq Rules
    PROVE  IsSelection(Selected(s, o, policy, holds), EligibleRules(s, o, policy, holds), s, o)
<1> DEFINE d == Selected(s, o, policy, holds)
           rules == EligibleRules(s, o, policy, holds)
<1> SUFFICES IsSelection(d, rules, s, o)
    OBVIOUS
<1>1. CASE rules = {}
  <2>1. d = Fallback(o)
    BY <1>1 DEF Selected
  <2> HIDE DEF d, rules
  <2>2. d.kind \in {"Complete", "Replan", "AwaitActiveVerification", "AwaitHumanReview"}
        /\ d.flag \in BOOLEAN
    BY <2>1 DEF Fallback, Directive
  <2>3. RepeatedAction(d, o.case.action) = {}
    BY <2>2 DEF RepeatedAction, ScheduledAction
  <2> QED
    BY <1>1, <2>1, <2>2, <2>3 DEF DirectiveKinds, IsSelection
<1>2. CASE rules # {}
  <2> DEFINE w == Winner(rules)
  <2>0. rules \subseteq Rules
    BY DEF EligibleRules
  <2>1. w \in rules /\ w \in Rules
    BY <1>2, <2>0, WinnerWins
  <2>2. d = w.directive
    BY <1>2 DEF Selected
  <2> HIDE DEF w, d
  <2>3. /\ ~RuleExhausted(s, w) /\ o.status \in w.statuses /\ o.stage \in w.stages
        /\ \A a \in ScheduledAction(w.directive) : s.schedules[a] < max_action_schedules
        /\ RepeatedAction(w.directive, o.case.action) \cap (policy \cup s.suppressed) = {}
    BY <2>1 DEF EligibleRules
  <2> HIDE DEF rules
  <2>4. /\ d.kind \in DirectiveKinds /\ d.flag \in BOOLEAN
        /\ d.kind = "ScheduleAction" => d.action \in Actions
    BY <2>1, <2>2, DecisionPolicyAssumption
  <2>5. d.kind = "ScheduleAction" => MaySchedule(s, d.action)
    BY <2>2, <2>3 DEF ScheduledAction, MaySchedule
  <2>6. RepeatedAction(d, o.case.action) \cap s.suppressed = {}
    BY <2>2, <2>3
  <2> QED
    BY <1>2, <2>1, <2>2, <2>3, <2>4, <2>5, <2>6 DEF w, IsSelection
<1> QED
    BY <1>1, <1>2

\* The session r is s with the directive d for the outcome o recorded.
Recorded(r, s, o, d) ==
    /\ Bounded(r)
    /\ r.state = s.state /\ r.reason = s.reason /\ r.case = s.case
    /\ r.cycles = s.cycles /\ r.transitions = s.transitions + 1
    /\ r.suppressed = IF d.kind = "Replan" /\ d.flag
                      THEN s.suppressed \cup {o.case.action} ELSE s.suppressed
    /\ \A q \in Rules : r.applied[q] <= s.applied[q] + 1

\* What recording a decision changes of the session.
LEMMA RecordShape ==
    ASSUME NEW s, Bounded(s), NEW o \in Outcomes, NEW policy, NEW holds, holds \subseteq Rules,
           ~LimitReached(s),
           NEW r, r = Record(s, o, policy, holds),
           NEW d, d = Selected(s, o, policy, holds)
    PROVE  Recorded(r, s, o, d)
<1> DEFINE rules == EligibleRules(s, o, policy, holds)
           applied == [q \in Rules |->
               IF rules # {} /\ q = Winner(rules) THEN s.applied[q] + 1 ELSE s.applied[q]]
           schedules == [a \in Actions |->
               IF a \in ScheduledAction(d) THEN s.schedules[a] + 1 ELSE s.schedules[a]]
           suppressed == IF d.kind = "Replan" /\ d.flag
                         THEN s.suppressed \cup {o.case.action} ELSE s.suppressed
           t == s.transitions + 1
<1>0. /\ d.kind = "ScheduleAction" =>
             d.action \in Actions /\ MaySchedule(s, d.action)
      /\ rules # {} => ~RuleExhausted(s, Winner(rules))
  <2>1. IsSelection(d, rules, s, o)
    BY SelectedShape
  <2> HIDE DEF rules, applied, schedules, suppressed, t
  <2> QED
    BY <2>1 DEF IsSelection
<1>1. r = [s EXCEPT !.transitions = t, !.applied = applied, !.schedules = schedules,
                    !.suppressed = suppressed]
    BY Zenon DEF Record
<1>2. /\ s \in Sessions /\ s.transitions \in 0..max_transitions
      /\ s.applied \in [Rules -> Nat] /\ s.schedules \in [Actions -> Nat]
      /\ s.suppressed \in SUBSET Actions
      /\ \A q \in Rules : s.applied[q] <= q.max_applications
      /\ \A a \in Actions : s.schedules[a] <= max_action_schedules
    BY DEF Bounded, Sessions
<1>3. t \in 0..max_transitions
    BY <1>2, LimitsAreNumbers DEF LimitReached
<1>4. suppressed \in SUBSET Actions
    BY <1>2 DEF Outcomes, Cases
<1>5. applied \in [Rules -> Nat] /\ \A q \in Rules : applied[q] <= s.applied[q] + 1
    BY <1>2
<1>6. ASSUME NEW q \in Rules PROVE applied[q] <= q.max_applications
  <2>1. s.applied[q] \in Nat /\ s.applied[q] <= q.max_applications /\ q.max_applications \in Nat
    BY <1>2, LimitsAreNumbers
  <2>2. CASE rules # {} /\ q = Winner(rules)
    <3>1. ~(s.applied[q] >= q.max_applications)
      BY <1>0, <2>2 DEF RuleExhausted
    <3> QED
      BY <2>1, <2>2, <3>1
  <2>3. CASE ~(rules # {} /\ q = Winner(rules))
    BY <2>1, <2>3
  <2> QED
    BY <2>2, <2>3
<1>7. schedules \in [Actions -> Nat]
    BY <1>2
<1>8. ASSUME NEW a \in Actions PROVE schedules[a] <= max_action_schedules
  <2>1. s.schedules[a] \in Nat /\ s.schedules[a] <= max_action_schedules
        /\ max_action_schedules \in Nat
    BY <1>2, LimitsAreNumbers
  <2>2. CASE a \in ScheduledAction(d)
    <3>1. d.kind = "ScheduleAction" /\ a = d.action
      BY <2>2 DEF ScheduledAction
    <3>3. s.schedules[a] < max_action_schedules
      BY <1>0, <3>1 DEF MaySchedule
    <3> QED
      BY <2>1, <2>2, <3>3
  <2>3. CASE a \notin ScheduledAction(d)
    BY <2>1, <2>3
  <2> QED
    BY <2>2, <2>3
<1> HIDE DEF rules, applied, schedules, suppressed, t
<1>9. /\ r.state = s.state /\ r.reason = s.reason /\ r.case = s.case /\ r.cycles = s.cycles
      /\ r.transitions = t /\ r.applied = applied /\ r.schedules = schedules
      /\ r.suppressed = suppressed /\ r \in Sessions
    BY <1>1, <1>2, <1>3, <1>4, <1>5, <1>7 DEF Sessions
<1> QED
    BY <1>5, <1>6, <1>8, <1>9 DEF Bounded, Recorded, suppressed, t

(***************************************************************************)
(* What an outcome may make of a session: the ledger was full, or the      *)
(* outcome is recorded and the session is over, ready, given a new case or *)
(* waiting for the active evidence of the one it has.                      *)
(***************************************************************************)
GoesIdle(n, s) ==
    /\ n.cycles = s.cycles
    /\ \/ n.state \in {"Ready", "Completed"}
       \/ n.state = "Halted" /\ n.reason \in {"ActionCycleLimit", "HumanReview", "AdaptationLimit"}

Dispatches(n, s, log, o) ==
    /\ n.state = "AwaitingPassive" /\ n.cycles = s.cycles + 1
    /\ n.case.origin # "planned"
    /\ n.case.action \notin Learned(Append(log, o)) \cup n.suppressed

Escalates(n, s, log, o) ==
    /\ n.state = "AwaitingActive" /\ n.cycles = s.cycles /\ n.case = s.case
    /\ n.case.action \notin Learned(Append(log, o)) \cup n.suppressed
    /\ EscalatesPassiveOnly => o.stage = "Passive"

IsConclusion(n, s, log, o) ==
    /\ Sound(n)
    /\ \/ /\ s.transitions = max_transitions
          /\ n.state = "Halted" /\ n.reason = "AdaptationLimit" /\ SameCounters(n, s)
       \/ /\ s.transitions < max_transitions /\ n.transitions = s.transitions + 1
          /\ GoesIdle(n, s) \/ Dispatches(n, s, log, o) \/ Escalates(n, s, log, o)

\* A dispatch ends the session, gives the action up or issues it.
LEMMA DispatchShape ==
    ASSUME NEW r, Bounded(r), r.reason = "none", NEW k, NEW a \in Actions,
           NEW origin \in {"adaptive", "retry"}, NEW policy, NEW defense,
           NEW n \in Dispatch(r, k, a, origin, policy, defense)
    PROVE  /\ Sound(n) /\ n.transitions = r.transitions /\ n.suppressed = r.suppressed
           /\ \/ GoesIdle(n, r)
              \/ /\ n.state = "AwaitingPassive" /\ n.cycles = r.cycles + 1
                 /\ n.case.origin = origin /\ n.case.action = a
                 /\ a \notin policy \cup defense
<1>1. CASE r.cycles >= max_action_cycles
  <2>1. n = Halt(r, "ActionCycleLimit")
    BY <1>1 DEF Dispatch
  <2> QED
    BY <2>1, HaltSound DEF HaltReasons, SameCounters, GoesIdle
<1>2. CASE ~(r.cycles >= max_action_cycles)
  <2>1. n \in Continue(r, a, Authorized(k, a, policy), defense, Issue(r, a, origin))
    BY <1>2 DEF Dispatch
  <2>2. CASE a \in defense
    <3>1. n = Enter(r, "Ready")
      BY <2>1, <2>2 DEF Continue
    <3> QED
      BY <3>1, EnterSound DEF SameCounters, GoesIdle
  <2>3. CASE a \notin defense
    <3>1. n = Issue(r, a, origin) /\ a \notin policy
      BY <2>1, <2>3, Zenon DEF Continue, Authorized
    <3>2. r.cycles < max_action_cycles /\ origin \in Origins
      BY <1>2, LimitsAreNumbers DEF Bounded, Sessions, Origins
    <3>3. /\ Sound(n) /\ n.state = "AwaitingPassive" /\ n.cycles = r.cycles + 1
          /\ n.case = [cycle |-> r.cycles + 1, origin |-> origin, action |-> a]
          /\ n.transitions = r.transitions /\ n.suppressed = r.suppressed
      BY <3>1, <3>2, IssueSound
    <3>4. n.case.origin = origin /\ n.case.action = a
      BY <3>3
    <3> QED
      BY <2>3, <3>1, <3>3, <3>4
  <2> QED
    BY <2>2, <2>3
<1> QED
    BY <1>1, <1>2

\* One directive, applied to the recorded session.
LEMMA TransitionShape ==
    ASSUME NEW r, Bounded(r), r.reason = "none", NEW k, NEW o \in Outcomes,
           r.case = o.case, r.case.cycle = r.cycles,
           NEW d, d.kind \in DirectiveKinds, d.flag \in BOOLEAN,
           d.kind = "ScheduleAction" => d.action \in Actions,
           NEW policy, NEW defense, NEW n \in Transition(r, k, o, d, policy, defense)
    PROVE  /\ Sound(n) /\ n.transitions = r.transitions /\ n.suppressed = r.suppressed
           /\ \/ GoesIdle(n, r)
              \/ /\ n.state = "AwaitingPassive" /\ n.cycles = r.cycles + 1
                 /\ n.case.origin # "planned"
                 /\ n.case.action \in RepeatedAction(d, o.case.action)
                 /\ n.case.action \notin policy \cup defense
              \/ /\ n.state = "AwaitingActive" /\ n.cycles = r.cycles /\ n.case = o.case
                 /\ d.kind = "AwaitActiveVerification"
                 /\ n.case.action \notin policy \cup defense
<1> DEFINE a == o.case.action
<1>0. a \in Actions /\ o.case \in Cases
    BY DEF Outcomes, Cases
<1>1. CASE d.kind = "Complete"
  <2>1. n = Enter(r, "Completed")
    BY <1>1 DEF Transition
  <2> QED
    BY <2>1, EnterSound DEF SameCounters, GoesIdle
<1>2. CASE d.kind = "ScheduleAction"
  <2>1. n \in Dispatch(r, k, d.action, "adaptive", policy, defense)
    BY <1>2 DEF Transition
  <2>2. d.action \in RepeatedAction(d, o.case.action)
    BY <1>2 DEF RepeatedAction, ScheduledAction
  <2> QED
    BY <1>2, <2>1, <2>2, DispatchShape
<1>3. CASE d.kind = "Throttle" /\ d.flag
  <2>1. n \in Dispatch(r, k, a, "retry", policy, defense)
    BY <1>3 DEF Transition
  <2>2. a \in RepeatedAction(d, o.case.action)
    BY <1>3 DEF RepeatedAction
  <2> HIDE DEF a
  <2> QED
    BY <1>0, <2>1, <2>2, DispatchShape
<1>4. CASE d.kind = "Replan" \/ (d.kind = "Throttle" /\ ~d.flag)
  <2>1. n = Enter(r, "Ready")
    BY <1>4 DEF Transition
  <2> QED
    BY <2>1, EnterSound DEF SameCounters, GoesIdle
<1>5. CASE d.kind = "AwaitActiveVerification"
  <2>1. n \in Continue(r, a, Authorized(k, a, policy), defense, Escalate(r))
    BY <1>5 DEF Transition
  <2>2. CASE a \in defense
    <3>1. n = Enter(r, "Ready")
      BY <2>1, <2>2 DEF Continue
    <3> QED
      BY <3>1, EnterSound DEF SameCounters, GoesIdle
  <2>3. CASE a \notin defense
    <3>1. n = Escalate(r) /\ a \notin policy
      BY <2>1, <2>3, Zenon DEF Continue, Authorized
    <3> QED
      BY <1>0, <1>5, <2>3, <3>1, EscalateSound DEF SameCounters
  <2> QED
    BY <2>2, <2>3
<1>6. CASE d.kind = "AwaitHumanReview"
  <2>1. n = Halt(r, "HumanReview")
    BY <1>6 DEF Transition
  <2> QED
    BY <2>1, HaltSound DEF HaltReasons, SameCounters, GoesIdle
<1>7. CASE d.kind = "Halt"
  <2>1. n = Halt(r, "AdaptationLimit")
    BY <1>7 DEF Transition
  <2> QED
    BY <2>1, HaltSound DEF HaltReasons, SameCounters, GoesIdle
<1> QED
    BY <1>1, <1>2, <1>3, <1>4, <1>5, <1>6, <1>7 DEF DirectiveKinds

\* A directive that waits for active evidence answers a passive outcome.
LEMMA EscalationIsPassive ==
    ASSUME EscalatesPassiveOnly, NEW s, NEW o \in Outcomes, NEW policy,
           NEW holds, holds \subseteq Rules,
           Selected(s, o, policy, holds).kind = "AwaitActiveVerification"
    PROVE  o.stage = "Passive"
<1> DEFINE rules == EligibleRules(s, o, policy, holds)
           d == Selected(s, o, policy, holds)
<1>0. IsSelection(d, rules, s, o) /\ d.kind = "AwaitActiveVerification"
    BY SelectedShape
<1> HIDE DEF rules, d
<1>1. CASE rules = {}
  <2>1. d = Fallback(o)
    BY <1>0, <1>1 DEF IsSelection
  <2> QED
    BY <1>0, <2>1 DEF Fallback, Directive
<1>2. CASE rules # {}
  <2>1. /\ Winner(rules) \in Rules /\ d = Winner(rules).directive
        /\ o.stage \in Winner(rules).stages
    BY <1>0, <1>2 DEF IsSelection
  <2> QED
    BY <1>0, <2>1 DEF EscalatesPassiveOnly
<1> QED
    BY <1>1, <1>2

\* Every conclusion of an outcome is one of those, and no action goes on that the suppressions
\* of the call forbid.
LEMMA ConclusionShape ==
    ASSUME NEW s, Sound(s), IsAwaiting(s), NEW log, NEW snap, NEW o \in Outcomes,
           o.case = s.case, NEW host, NEW holds, holds \subseteq Rules,
           NEW n \in Conclusions(s, log, snap, o, host, holds)
    PROVE  /\ IsConclusion(n, s, log, o)
           /\ IsAwaiting(n) =>
                  n.case.action \notin Suppressions(host).policy \cup Suppressions(host).defense
<1> DEFINE sup == Suppressions(host)
           policy == Policy(Append(log, o), s, sup)
           k == Prospective(snap.hyp, o)
           d == Selected(s, o, policy, holds)
           r == Record(s, o, policy, holds)
<1>0. /\ Bounded(s) /\ s.reason = "none" /\ s.case.cycle = s.cycles /\ s \in Sessions
      /\ s.transitions \in 0..max_transitions /\ s.state # "Halted"
    BY DEF Sound, Bounded, Sessions, IsAwaiting
<1>1. CASE s.transitions >= max_transitions
  <2>1. n = Halt(s, "AdaptationLimit")
    BY <1>1 DEF Conclusions, LimitReached
  <2>2. s.transitions = max_transitions
    BY <1>0, <1>1, LimitsAreNumbers
  <2>3. /\ Sound(n) /\ SameCounters(n, s) /\ n.state = "Halted"
        /\ n.reason = "AdaptationLimit"
    BY <1>0, <2>1, HaltSound DEF HaltReasons
  <2> QED
    BY <2>2, <2>3 DEF IsConclusion, IsAwaiting
<1>2. CASE ~(s.transitions >= max_transitions)
  <2>1. n \in Transition(r, k, o, d, policy, sup.defense)
    BY <1>2, Zenon DEF Conclusions, LimitReached
  <2>2. s.transitions < max_transitions
    BY <1>0, <1>2, LimitsAreNumbers
  <2>3. Learned(Append(log, o)) \cup s.suppressed \cup sup.policy \subseteq policy
    BY DEF Policy
  <2>4. /\ d.kind \in DirectiveKinds /\ d.flag \in BOOLEAN
        /\ d.kind = "ScheduleAction" => d.action \in Actions
        /\ RepeatedAction(d, o.case.action) \cap s.suppressed = {}
    <3>1. IsSelection(d, EligibleRules(s, o, policy, holds), s, o)
      BY SelectedShape
    <3> QED
      BY <3>1 DEF IsSelection
  <2>5. EscalatesPassiveOnly /\ d.kind = "AwaitActiveVerification" => o.stage = "Passive"
    BY EscalationIsPassive
  <2> HIDE DEF d
  <2>6. /\ Bounded(r) /\ r.state = s.state /\ r.reason = s.reason /\ r.case = s.case
        /\ r.cycles = s.cycles /\ r.transitions = s.transitions + 1
        /\ r.suppressed = IF d.kind = "Replan" /\ d.flag
                          THEN s.suppressed \cup {o.case.action} ELSE s.suppressed
    <3>1. r = Record(s, o, policy, holds) /\ d = Selected(s, o, policy, holds)
      BY DEF d
    <3>2. ~LimitReached(s)
      BY <1>2 DEF LimitReached
    <3> HIDE DEF r, policy
    <3>3. Recorded(r, s, o, d)
      BY <1>0, <3>1, <3>2, RecordShape
    <3> QED
      BY <3>3 DEF Recorded
  <2> HIDE DEF r, k, policy, sup
  <2>7. /\ Sound(n) /\ n.transitions = r.transitions /\ n.suppressed = r.suppressed
        /\ \/ GoesIdle(n, r)
           \/ /\ n.state = "AwaitingPassive" /\ n.cycles = r.cycles + 1
              /\ n.case.origin # "planned"
              /\ n.case.action \in RepeatedAction(d, o.case.action)
              /\ n.case.action \notin policy \cup sup.defense
           \/ /\ n.state = "AwaitingActive" /\ n.cycles = r.cycles /\ n.case = o.case
              /\ d.kind = "AwaitActiveVerification"
              /\ n.case.action \notin policy \cup sup.defense
    BY <1>0, <2>1, <2>4, <2>6, TransitionShape
  <2>8. CASE GoesIdle(n, r)
    <3>1. GoesIdle(n, s) /\ ~IsAwaiting(n)
      BY <2>6, <2>8 DEF GoesIdle, IsAwaiting
    <3> QED
      BY <2>2, <2>6, <2>7, <3>1 DEF IsConclusion
  <2>9. CASE /\ n.state = "AwaitingPassive" /\ n.cycles = r.cycles + 1
             /\ n.case.origin # "planned"
             /\ n.case.action \in RepeatedAction(d, o.case.action)
             /\ n.case.action \notin policy \cup sup.defense
    <3>1. d.kind # "Replan"
      BY <2>9 DEF RepeatedAction, ScheduledAction
    <3>2. n.suppressed = s.suppressed
      BY <2>6, <2>7, <3>1
    <3>3. Dispatches(n, s, log, o)
      BY <2>3, <2>6, <2>9, <3>2 DEF Dispatches
    <3> QED
      BY <2>2, <2>3, <2>6, <2>7, <2>9, <3>3 DEF IsConclusion, sup
  <2>10. CASE /\ n.state = "AwaitingActive" /\ n.cycles = r.cycles /\ n.case = o.case
              /\ d.kind = "AwaitActiveVerification"
              /\ n.case.action \notin policy \cup sup.defense
    <3>2. n.suppressed = s.suppressed
      BY <2>6, <2>7, <2>10
    <3>3. Escalates(n, s, log, o)
      BY <2>3, <2>5, <2>6, <2>10, <3>2 DEF Escalates
    <3> QED
      BY <2>2, <2>3, <2>6, <2>7, <2>10, <3>3 DEF IsConclusion, sup
  <2> QED
    BY <2>7, <2>8, <2>9, <2>10
<1> QED
    BY <1>1, <1>2

-----------------------------------------------------------------------------
(***************************************************************************)
(* The decision loop.                                                      *)
(***************************************************************************)
Knowledge == [Hypotheses -> HypothesisValues]
Snapshots == [hyp : Knowledge, current : BOOLEAN]
CommandSet == [case : Cases, stage : Stages]

\* The calls that may be in progress, with what they carry.
Calls ==
    {Idle}
    \cup [pc : {"reason"}, host : Hosts, attempt : Nat, snap : Snapshots]
    \cup [pc : {"plan"}, host : Hosts]
    \cup [pc : {"commit"}, snap : Snapshots, next : Sessions]
    \cup [pc : {"execute"}, command : CommandSet, host : Hosts \cup {NoHost}]
    \cup [pc : {"resume"}, command : CommandSet, host : Hosts \cup {NoHost}, snap : Snapshots]
    \cup [pc : {"apply"}, snap : Snapshots, outcome : Outcomes, next : Sessions]

\* What a plan on the knowledge k may make of a session.
IsPlan(n, s, log, k) ==
    /\ Sound(n) /\ n.transitions = s.transitions
    /\ n.applied = s.applied /\ n.suppressed = s.suppressed
    /\ \/ /\ n.state = "Halted" /\ n.reason \in {"ActionCycleLimit", "NoEligibleAction"}
          /\ n.cycles = s.cycles
       \/ /\ n.state = "AwaitingPassive" /\ n.cycles = s.cycles + 1
          /\ n.case.action \notin Learned(log) \cup n.suppressed
          /\ Resolves(k, n.case.action)

\* A snapshot that counts as current is.
SnapshotIsTrue == "snap" \in DOMAIN op => (op.snap.current => op.snap.hyp = hyp)

\* The call in progress is one for the session and the experience as they are: nothing but the
\* call itself changes them.
CallFits ==
    /\ op.pc \in {"reason", "plan"} =>
           session.state = "Ready" /\ session.cycles < max_action_cycles
    /\ op.pc = "commit" =>
           session.state = "Ready" /\ IsPlan(op.next, session, experience, op.snap.hyp)
    /\ op.pc \in {"execute", "resume"} =>
           /\ session.state = Awaiting(op.command.stage)
           /\ session.case = op.command.case
    /\ op.pc = "apply" =>
           /\ session.state = Awaiting(op.outcome.stage)
           /\ session.case = op.outcome.case
           /\ ~Observed(experience, op.outcome.case, op.outcome.stage)
           /\ IsConclusion(op.next, session, experience, op.outcome)

\* The inductive invariant of the loop.
LInv ==
    /\ hyp \in Knowledge
    /\ Sound(session)
    /\ experience \in Seq(Outcomes)
    /\ commands \subseteq CommandSet
    /\ op \in Calls
    /\ SnapshotIsTrue
    /\ CallFits
    /\ ExperienceMatchesLedger
    /\ ExperienceMatchesKnowledge
    /\ OutstandingIsNotSuppressed

\* The cycles of the outcomes: none is of a later cycle than the session's, none of the
\* session's own while that awaits passive evidence, and its passive one while it awaits active.
Chronological ==
    /\ \A o \in Range(experience) : o.case.cycle <= session.cycles
    /\ session.state = "AwaitingPassive" =>
           \A o \in Range(experience) : o.case.cycle # session.cycles
    /\ session.state = "AwaitingActive" =>
           /\ Observed(experience, session.case, "Passive")
           /\ \A o \in Range(experience) :
                  o.case.cycle = session.cycles => o.case = session.case /\ o.stage = "Passive"

\* Two outcomes of one cycle are the passive and the active one of its case.
Differ(log) ==
    \A i, j \in DOMAIN log :
        /\ i # j
        /\ log[i].case.cycle = log[j].case.cycle
        => /\ log[i].case = log[j].case
           /\ log[i].stage # log[j].stage

OutcomesDiffer == Differ(experience)

\* What a call in progress carries, by the step it is at.
LEMMA CallCarries ==
    ASSUME op \in Calls
    PROVE  /\ op.pc \in {"idle", "reason", "plan", "commit", "execute", "resume", "apply"}
           /\ op.pc = "idle" => op = Idle
           /\ op.pc = "reason" =>
                  op \in [pc : {"reason"}, host : Hosts, attempt : Nat, snap : Snapshots]
           /\ op.pc = "plan" => op \in [pc : {"plan"}, host : Hosts]
           /\ op.pc = "commit" => op \in [pc : {"commit"}, snap : Snapshots, next : Sessions]
           /\ op.pc = "execute" =>
                  op \in [pc : {"execute"}, command : CommandSet, host : Hosts \cup {NoHost}]
           /\ op.pc = "resume" =>
                  op \in [pc : {"resume"}, command : CommandSet, host : Hosts \cup {NoHost},
                          snap : Snapshots]
           /\ op.pc = "apply" =>
                  op \in [pc : {"apply"}, snap : Snapshots, outcome : Outcomes, next : Sessions]
BY DEF Calls, Idle

\* The log with one more outcome.
LEMMA RangeAppend ==
    ASSUME NEW S, NEW log \in Seq(S), NEW e \in S
    PROVE  /\ Append(log, e) \in Seq(S) /\ Len(Append(log, e)) = Len(log) + 1
           /\ Range(Append(log, e)) = Range(log) \cup {e}
           /\ Range(log) \subseteq S
<1>1. /\ Append(log, e) \in Seq(S) /\ Len(Append(log, e)) = Len(log) + 1
      /\ Len(log) \in Nat /\ DOMAIN log = 1..Len(log)
      /\ DOMAIN Append(log, e) = 1..(Len(log) + 1)
      /\ \A i \in 1..Len(log) : Append(log, e)[i] = log[i] /\ log[i] \in S
      /\ Append(log, e)[Len(log) + 1] = e
    OBVIOUS
<1> DEFINE m == Append(log, e)
           n == Len(log)
<1>2. Range(m) \subseteq Range(log) \cup {e}
  <2> SUFFICES ASSUME NEW i \in DOMAIN m PROVE m[i] \in Range(log) \cup {e}
    BY DEF Range
  <2>1. i \in 1..n \/ i = n + 1
    BY <1>1
  <2> QED
    BY <1>1, <2>1 DEF Range
<1>3. Range(log) \subseteq Range(m)
  <2> SUFFICES ASSUME NEW i \in DOMAIN log PROVE log[i] \in Range(m)
    BY DEF Range
  <2>1. i \in DOMAIN m /\ m[i] = log[i]
    BY <1>1
  <2> QED
    BY <2>1 DEF Range
<1>4. e \in Range(m)
  <2>1. n + 1 \in DOMAIN m /\ m[n + 1] = e
    BY <1>1
  <2> QED
    BY <2>1 DEF Range
<1>5. Range(log) \subseteq S
    BY <1>1 DEF Range
<1> QED
    BY <1>1, <1>2, <1>3, <1>4, <1>5

\* Actions have a hypothesis.
LEMMA HypothesisOfAction ==
    \A a \in Actions : HypothesisOf(a) \in Hypotheses /\ Motive[a] \in Hypotheses
BY DecisionPolicyAssumption DEF HypothesisOf

\* The knowledge keeps every conclusion.
KeepsConclusions(old, new) ==
    \A h \in Hypotheses : old[h].state \in Terminal => new[h].state = old[h].state

\* A reasoning pass changes no conclusion.
LEMMA ReasonedKeeps ==
    ASSUME NEW old \in Knowledge, NEW new \in Reasoned(old)
    PROVE  new \in Knowledge /\ KeepsConclusions(old, new)
BY DEF Reasoned, Knowledge, KeepsConclusions, ReasonedState

\* A report that may be applied changes no conclusion, and leaves its own.
LEMMA ProspectiveKeeps ==
    ASSUME NEW k \in Knowledge, NEW o \in Outcomes, NEW current, MayApply(k, o, current)
    PROVE  /\ Prospective(k, o) \in Knowledge
           /\ KeepsConclusions(k, Prospective(k, o))
           /\ Transitions(o) =>
                  Prospective(k, o)[HypothesisOf(o.case.action)].state = HypothesisState(o.status)
<1> DEFINE h == HypothesisOf(o.case.action)
           st == HypothesisState(o.status)
<1>0. o.case.action \in Actions
    BY DEF Outcomes, Cases
<1>1. h \in Hypotheses
    BY <1>0, HypothesisOfAction
<1>2. CASE Transitions(o)
  <2>1. st \in Terminal
    BY <1>2 DEF Transitions, HypothesisState, Terminal
  <2>2. Prospective(k, o) = [k EXCEPT ![h].state = st]
    BY <1>2 DEF Prospective
  <2>3. k[h].state = st \/ k[h].state \notin Terminal
    BY <1>2 DEF MayApply
  <2> HIDE DEF h, st
  <2>4. k[h] \in [state : {"Absent", "Open"} \cup Terminal, strong : BOOLEAN]
    <3>1. k[h] \in HypothesisValues
      BY <1>1 DEF Knowledge
    <3>2. Absent \in [state : {"Absent", "Open"} \cup Terminal, strong : BOOLEAN]
      BY DEF Absent
    <3>3. CASE k[h] = Absent
      BY <3>2, <3>3
    <3>4. CASE k[h] \in [state : {"Open"} \cup Terminal, strong : BOOLEAN]
      BY <3>4
    <3> QED
      BY <3>1, <3>3, <3>4 DEF HypothesisValues
  <2>5. [k[h] EXCEPT !.state = st] \in HypothesisValues /\ [k[h] EXCEPT !.state = st].state = st
    BY <2>1, <2>4 DEF HypothesisValues
  <2>6. /\ Prospective(k, o) \in Knowledge /\ Prospective(k, o)[h].state = st
        /\ \A g \in Hypotheses : g # h => Prospective(k, o)[g] = k[g]
    BY <1>1, <2>2, <2>5 DEF Knowledge
  <2> QED
    BY <1>1, <2>3, <2>6 DEF KeepsConclusions, h, st
<1>3. CASE ~Transitions(o)
    BY <1>3 DEF Prospective, KeepsConclusions
<1> QED
    BY <1>2, <1>3

\* Experience and knowledge go on agreeing when the knowledge keeps its conclusions.
LEMMA ConclusionsStay ==
    ASSUME NEW log \in Seq(Outcomes), NEW old \in Knowledge, NEW new, KeepsConclusions(old, new),
           NEW o \in Range(log), Transitions(o),
           old[HypothesisOf(o.case.action)].state = HypothesisState(o.status)
    PROVE  new[HypothesisOf(o.case.action)].state = HypothesisState(o.status)
<1>1. o \in Outcomes
    BY DEF Range
<1>2. HypothesisOf(o.case.action) \in Hypotheses
    BY <1>1, HypothesisOfAction DEF Outcomes, Cases
<1>3. HypothesisState(o.status) \in Terminal
    BY DEF Transitions, HypothesisState, Terminal
<1> QED
    BY <1>2, <1>3 DEF KeepsConclusions

\* A step that leaves the stores alone keeps the invariant when the call it goes on with fits.
LEMMA CallKeeps ==
    ASSUME LInv, UNCHANGED <<hyp, session, experience, commands>>,
           op' \in Calls, SnapshotIsTrue', CallFits'
    PROVE  LInv'
BY DEF LInv, ExperienceMatchesLedger, ExperienceMatchesKnowledge, OutstandingIsNotSuppressed

\* No call is one, and it fits.
LEMMA IdleFits ==
    ASSUME op' = Idle
    PROVE  op' \in Calls /\ SnapshotIsTrue' /\ CallFits'
BY DEF Calls, Idle, SnapshotIsTrue, CallFits

\* The invariant holds at the start.
LEMMA dlInitInv == dlInit => LInv
<1> SUFFICES ASSUME dlInit PROVE LInv
    OBVIOUS
<1> USE DEF dlInit
<1>1. hyp \in Knowledge
    BY DEF Knowledge, HypothesisValues
<1>2. Sound(session) /\ session.state = "Ready" /\ session.transitions = 0
    BY NewSessionSound DEF NewSession
<1>3. experience \in Seq(Outcomes) /\ Len(experience) = 0 /\ Range(experience) = {}
    BY DEF Range
<1>4. op \in Calls /\ SnapshotIsTrue /\ CallFits
    BY DEF Calls, Idle, SnapshotIsTrue, CallFits
<1>5. ExperienceMatchesLedger /\ ExperienceMatchesKnowledge /\ OutstandingIsNotSuppressed
    BY <1>2, <1>3 DEF ExperienceMatchesLedger, ExperienceMatchesKnowledge,
        OutstandingIsNotSuppressed, IsAwaiting
<1> QED
    BY <1>1, <1>2, <1>3, <1>4, <1>5 DEF LInv

\* The snapshot of the moment.
LEMMA NowIsSnapshot == hyp \in Knowledge => Now \in Snapshots /\ Now.hyp = hyp /\ Now.current
BY DEF Now, Snapshots

\* A plan begins for a session that is ready.
LEMMA StartPlanFits ==
    ASSUME NEW s, Sound(s), s.state = "Ready", NEW host \in Hosts, hyp \in Knowledge,
           op' = StartPlan(s, host), UNCHANGED <<hyp, experience>>, session' = s
    PROVE  op' \in Calls /\ SnapshotIsTrue' /\ CallFits'
<1>0. Now \in Snapshots /\ Now.hyp = hyp /\ hyp' = hyp
    BY NowIsSnapshot
<1>1. CASE s.cycles >= max_action_cycles
  <2> DEFINE n == Halt(s, "ActionCycleLimit")
  <2>1. op' = [pc |-> "commit", snap |-> Now, next |-> n]
    BY <1>1 DEF StartPlan
  <2>2. Sound(n) /\ SameCounters(n, s) /\ n.state = "Halted" /\ n.reason = "ActionCycleLimit"
    BY HaltSound DEF Sound, HaltReasons
  <2>3. n \in Sessions
    BY <2>2 DEF Sound, Bounded
  <2> HIDE DEF n
  <2>4. /\ op' \in [pc : {"commit"}, snap : Snapshots, next : Sessions]
        /\ op'.pc = "commit" /\ op'.next = n /\ op'.snap = Now
    BY <1>0, <2>1, <2>3
  <2>5. IsPlan(n, s, experience', op'.snap.hyp)
    BY <2>2 DEF IsPlan, SameCounters
  <2>6. op' \in Calls
    BY <2>4 DEF Calls
  <2>7. SnapshotIsTrue'
    BY <1>0, <2>4 DEF SnapshotIsTrue
  <2>8. CallFits'
    BY <2>4, <2>5 DEF CallFits
  <2> QED
    BY <2>6, <2>7, <2>8
<1>2. CASE ~(s.cycles >= max_action_cycles)
  <2>1. op' = [pc |-> "reason", host |-> host, attempt |-> 1, snap |-> Now]
    BY <1>2 DEF StartPlan
  <2>2. /\ op' \in [pc : {"reason"}, host : Hosts, attempt : Nat, snap : Snapshots]
        /\ op'.pc = "reason" /\ op'.snap = Now
    BY <1>0, <2>1
  <2>3. s.cycles < max_action_cycles
    BY <1>2, LimitsAreNumbers DEF Sound, Bounded, Sessions
  <2>4. op' \in Calls
    BY <2>2 DEF Calls
  <2>5. SnapshotIsTrue'
    BY <1>0, <2>2 DEF SnapshotIsTrue
  <2>6. CallFits'
    BY <2>2, <2>3 DEF CallFits
  <2> QED
    BY <2>4, <2>5, <2>6
<1> QED
    BY <1>1, <1>2

\* Entering plan_next keeps the invariant.
LEMMA PlanNextKeeps ==
    ASSUME LInv, NEW host \in Hosts, PlanNext(host)
    PROVE  LInv'
<1>1. op' \in Calls /\ SnapshotIsTrue' /\ CallFits'
    BY StartPlanFits DEF LInv, PlanNext
<1> QED
    BY <1>1, CallKeeps DEF PlanNext

\* A reasoning pass keeps the invariant.
LEMMA ReasonKeeps ==
    ASSUME LInv, Reason
    PROVE  LInv' /\ KeepsConclusions(hyp, hyp')
<1>1. op \in [pc : {"reason"}, host : Hosts, attempt : Nat, snap : Snapshots]
    BY CallCarries DEF LInv, Reason
<1>2. op.snap.hyp = hyp
    BY <1>1 DEF LInv, Reason, SnapshotIsTrue
<1>3. hyp' \in Knowledge /\ KeepsConclusions(hyp, hyp')
    BY <1>2, ReasonedKeeps DEF LInv, Reason
<1>4. op' \in [pc : {"plan"}, host : Hosts] /\ op'.pc = "plan" /\ "snap" \notin DOMAIN op'
    BY <1>1 DEF Reason
<1>5. op' \in Calls /\ SnapshotIsTrue'
    BY <1>4 DEF Calls, SnapshotIsTrue
<1>6. CallFits'
    BY <1>4 DEF CallFits, LInv, Reason
<1>7. ExperienceMatchesKnowledge'
    BY <1>3, ConclusionsStay DEF ExperienceMatchesKnowledge, LInv, Reason
<1> QED
    BY <1>3, <1>5, <1>6, <1>7 DEF LInv, Reason, ExperienceMatchesLedger, OutstandingIsNotSuppressed

\* So does one that starts over after a conflict.
LEMMA ReasonAgainKeeps ==
    ASSUME LInv, ReasonAgain
    PROVE  LInv'
<1>1. op \in [pc : {"reason"}, host : Hosts, attempt : Nat, snap : Snapshots]
    BY CallCarries DEF LInv, ReasonAgain
<1>2. CASE op.attempt < MAX_REASONING_APPLY_ATTEMPTS
  <2>1. Now \in Snapshots /\ Now.hyp = hyp /\ hyp' = hyp
    BY NowIsSnapshot DEF LInv, ReasonAgain
  <2>2. op' = [op EXCEPT !.attempt = op.attempt + 1, !.snap = Now]
    BY <1>2 DEF ReasonAgain
  <2> DEFINE k == op.attempt + 1
  <2>2a. k \in Nat /\ op' = [op EXCEPT !.attempt = k, !.snap = Now]
    BY <1>1, <2>2
  <2> HIDE DEF k
  <2>3. /\ op' \in [pc : {"reason"}, host : Hosts, attempt : Nat, snap : Snapshots]
        /\ op'.pc = "reason" /\ op'.snap = Now
    BY <1>1, <2>1, <2>2a
  <2>4. op' \in Calls /\ SnapshotIsTrue'
    BY <2>1, <2>3 DEF Calls, SnapshotIsTrue
  <2>5. CallFits'
    BY <1>1, <2>3 DEF CallFits, LInv, ReasonAgain
  <2> QED
    BY <2>4, <2>5, CallKeeps DEF ReasonAgain
<1>3. CASE ~(op.attempt < MAX_REASONING_APPLY_ATTEMPTS)
    BY <1>3, IdleFits, CallKeeps DEF ReasonAgain
<1> QED
    BY <1>2, <1>3

-----------------------------------------------------------------------------
(***************************************************************************)
(* The planner.  What a left fold builds is in a set that the base is in   *)
(* and every step keeps; the folds of the library are recursive functions  *)
(* on the subsets of the indices, so that such a function exists has to be *)
(* shown first, for a step that is given as a function.                    *)
(***************************************************************************)
\* The greatest of some indices.
LEMMA MaxIn ==
    ASSUME NEW n \in Nat, NEW u \in SUBSET (1..n), u # {}
    PROVE  Max(u) \in u
<1> DEFINE T == {n - i : i \in u}
<1>1. T \subseteq Nat /\ T # {}
  <2>1. \A i \in u : n - i \in Nat
    OBVIOUS
  <2> QED
    BY <2>1
<1>2. PICK t \in T : \A m \in T : ~(m < t)
    BY <1>1, LeastNumber
<1>3. PICK x \in u : t = n - x
    BY <1>2
<1>4. \A y \in u : x >= y
  <2> SUFFICES ASSUME NEW y \in u PROVE x >= y
    OBVIOUS
  <2>1. ~(n - y < n - x) /\ x \in Nat /\ y \in Nat
    BY <1>2, <1>3
  <2> QED
    BY <2>1
<1> QED
    BY <1>4 DEF Max

\* Induction along a fold.
LEMMA FoldInvariant ==
    ASSUME NEW n \in Nat, NEW T, NEW g, g[{}] \in T,
           \A u \in SUBSET (1..n) : u # {} /\ g[u \ {Max(u)}] \in T => g[u] \in T
    PROVE  \A u \in SUBSET (1..n) : g[u] \in T
<1> DEFINE D == 1..n
           S == {m \in Nat : \A u \in SubsetsUpTo(D, m) : g[u] \in T}
<1>0. IsFiniteSet(D)
    BY FS_Interval
<1>1. 0 \in S
    BY <1>0, SubsetsUpToFacts
<1>2. ASSUME NEW m \in Nat, m \in S PROVE m + 1 \in S
  <2>1. ASSUME NEW u \in SubsetsUpTo(D, m + 1), u # {} PROVE g[u] \in T
    <3>1. u \in SUBSET D
      BY DEF SubsetsUpTo
    <3>2. Max(u) \in u
      BY <2>1, <3>1, MaxIn
    <3>3. u \ {Max(u)} \in SubsetsUpTo(D, m)
      BY <1>0, <3>2, SubsetsUpToFacts
    <3>4. g[u \ {Max(u)}] \in T
      BY <1>2, <3>3
    <3> QED
      BY <2>1, <3>1, <3>4
  <2>2. \A u \in SubsetsUpTo(D, m + 1) : g[u] \in T
    BY <2>1
  <2> QED
    BY <2>2
<1> HIDE DEF S, D
<1>3. Cardinality(D) \in S
    BY <1>0, <1>1, <1>2, SetInduction, FS_CardinalityType
<1>4. SubsetsUpTo(D, Cardinality(D)) = SUBSET D
    BY <1>0, SubsetsUpToFacts
<1> QED
    BY <1>3, <1>4 DEF S, D

\* One step of a fold whose step is the function f.
FoldStep(f, base, g, u) == IF u = {} THEN base ELSE f[<<g[u \ {Max(u)}], Max(u)>>]

\* The fold of a step that is a function exists, and has its values where the step has them.
HasFold(f, base, n, T) ==
    \E g : /\ g = [u \in SUBSET (1..n) |-> FoldStep(f, base, g, u)]
           /\ \A u \in SUBSET (1..n) : g[u] \in T

\* A function with the equations of a fold exists.
LEMMA FoldExists ==
    ASSUME NEW n \in Nat, NEW T, NEW base \in T, NEW f \in [T \X (1..n) -> T]
    PROVE  HasFold(f, base, n, T)
<1> DEFINE D == 1..n
           P(m) == \E g : g = [u \in SubsetsUpTo(D, m) |-> FoldStep(f, base, g, u)]
           S == {m \in Nat : P(m)}
<1>0. IsFiniteSet(D)
    BY FS_Interval
<1>1. 0 \in S
  <2> DEFINE g == [u \in SubsetsUpTo(D, 0) |-> base]
  <2>1. g = [u \in SubsetsUpTo(D, 0) |-> FoldStep(f, base, g, u)]
    BY <1>0, SubsetsUpToFacts DEF FoldStep
  <2> QED
    BY <2>1
<1>2. ASSUME NEW m \in Nat, m \in S PROVE m + 1 \in S
  <2>1. PICK g : g = [u \in SubsetsUpTo(D, m) |-> FoldStep(f, base, g, u)]
    BY <1>2
  <2> DEFINE h == [u \in SubsetsUpTo(D, m + 1) |-> FoldStep(f, base, g, u)]
  <2>2. \A u \in SubsetsUpTo(D, m) : h[u] = g[u]
    BY <1>0, <2>1, SubsetsUpToFacts
  <2>3. ASSUME NEW u \in SubsetsUpTo(D, m + 1)
        PROVE  FoldStep(f, base, g, u) = FoldStep(f, base, h, u)
    <3>1. CASE u = {}
      BY <3>1 DEF FoldStep
    <3>2. CASE u # {}
      <4>1. u \in SUBSET D
        BY DEF SubsetsUpTo
      <4>2. Max(u) \in u
        BY <3>2, <4>1, MaxIn
      <4>3. u \ {Max(u)} \in SubsetsUpTo(D, m)
        BY <1>0, <4>2, SubsetsUpToFacts
      <4> QED
        BY <2>2, <3>2, <4>3 DEF FoldStep
    <3> QED
      BY <3>1, <3>2
  <2>4. h = [u \in SubsetsUpTo(D, m + 1) |-> FoldStep(f, base, h, u)]
    BY <2>3
  <2>5. P(m + 1)
    BY <2>4
  <2> HIDE DEF P
  <2> QED
    BY <2>5
<1> HIDE DEF S, D
<1>3. Cardinality(D) \in S
    BY <1>0, <1>1, <1>2, SetInduction, FS_CardinalityType
<1>4. P(Cardinality(D))
    BY <1>3 DEF S
<1>5. PICK g : g = [u \in SubsetsUpTo(D, Cardinality(D)) |-> FoldStep(f, base, g, u)]
    BY <1>4
<1>6. g = [u \in SUBSET D |-> FoldStep(f, base, g, u)]
    BY <1>0, <1>5, SubsetsUpToFacts
<1>7. \A u \in SUBSET D : g[u] = FoldStep(f, base, g, u)
    BY <1>6
<1>8. g[{}] \in T
    BY <1>7 DEF FoldStep
<1>9. \A u \in SUBSET (1..n) : u # {} /\ g[u \ {Max(u)}] \in T => g[u] \in T
  <2> SUFFICES ASSUME NEW u \in SUBSET (1..n), u # {}, g[u \ {Max(u)}] \in T
               PROVE  g[u] \in T
    OBVIOUS
  <2>1. Max(u) \in 1..n
    BY MaxIn
  <2>2. <<g[u \ {Max(u)}], Max(u)>> \in T \X (1..n)
    BY <2>1
  <2>3. f[<<g[u \ {Max(u)}], Max(u)>>] \in T
    BY <2>2
  <2> QED
    BY <1>7, <2>3 DEF FoldStep, D
<1>10. \A u \in SUBSET (1..n) : g[u] \in T
    BY <1>8, <1>9, FoldInvariant
<1> QED
    BY <1>6, <1>10 DEF D, HasFold

\* Select, as the equation its fold satisfies.
SelectStep(S, kept, x) == IF x \in S THEN Append(kept, x) ELSE kept
IsSelect(seq, S, g) ==
    g = [u \in SUBSET (DOMAIN seq) |->
            IF u = {} THEN << >> ELSE SelectStep(S, g[u \ {Max(u)}], seq[Max(u)])]

\* Select is a recursive function over the prefixes of its sequence.
LEMMA SelectDefined ==
    \A seq, S : Select(seq, S) = (CHOOSE g : IsSelect(seq, S, g))[DOMAIN seq]
BY Zenon DEF Select, FoldLeft, MapThenFoldSet, IsSelect, SelectStep

\* What is selected is of the sequence and in the set.
LEMMA SelectType ==
    ASSUME NEW X, NEW seq \in Seq(X), NEW S
    PROVE  Select(seq, S) \in Seq(X \cap S)
<1> DEFINE n == Len(seq)
           T == Seq(X \cap S)
           f == [p \in T \X (1..n) |-> SelectStep(S, p[1], seq[p[2]])]
<1>0. n \in Nat /\ DOMAIN seq = 1..n /\ << >> \in T
    OBVIOUS
<1>1. ASSUME NEW t \in T, NEW i \in 1..n PROVE SelectStep(S, t, seq[i]) \in T
  <2>1. seq[i] \in X
    BY <1>1
  <2> QED
    BY <2>1 DEF SelectStep
<1> HIDE DEF n, T
<1>2. f \in [T \X (1..n) -> T]
    BY <1>1
<1>3. \A t \in T, i \in 1..n : f[<<t, i>>] = SelectStep(S, t, seq[i])
    OBVIOUS
<1> HIDE DEF f
<1>4. PICK g : /\ g = [u \in SUBSET (1..n) |-> FoldStep(f, << >>, g, u)]
               /\ \A u \in SUBSET (1..n) : g[u] \in T
  <2>1. HasFold(f, << >>, n, T)
    BY <1>0, <1>2, FoldExists
  <2> QED
    BY <2>1 DEF HasFold
<1>5. ASSUME NEW u \in SUBSET (1..n)
      PROVE  FoldStep(f, << >>, g, u)
                = IF u = {} THEN << >> ELSE SelectStep(S, g[u \ {Max(u)}], seq[Max(u)])
  <2>1. u # {} => Max(u) \in 1..n /\ g[u \ {Max(u)}] \in T
    BY <1>0, <1>4, MaxIn
  <2> QED
    BY <1>3, <2>1 DEF FoldStep
<1>6. IsSelect(seq, S, g)
    BY <1>0, <1>4, <1>5 DEF IsSelect
<1> DEFINE h == CHOOSE k : IsSelect(seq, S, k)
<1>7. IsSelect(seq, S, h)
    BY <1>6
<1> HIDE DEF h
<1>8. \A u \in SUBSET (1..n) :
          h[u] = IF u = {} THEN << >> ELSE SelectStep(S, h[u \ {Max(u)}], seq[Max(u)])
    BY <1>0, <1>7 DEF IsSelect
<1>9. h[{}] \in T
    BY <1>0, <1>8
<1>10. ASSUME NEW u \in SUBSET (1..n), u # {}, h[u \ {Max(u)}] \in T PROVE h[u] \in T
  <2>1. Max(u) \in 1..n
    BY <1>0, <1>10, MaxIn
  <2> QED
    BY <1>1, <1>8, <1>10, <2>1
<1>11. \A u \in SUBSET (1..n) : h[u] \in T
    BY <1>0, <1>9, <1>10, FoldInvariant
<1>12. Select(seq, S) = h[1..n]
    BY <1>0, SelectDefined DEF h
<1> QED
    BY <1>11, <1>12 DEF T

\* Merged sequences of actions are sequences of actions.
MergeStep(seen, part) == seen \o Select(part, Actions \ Range(seen))

\* Merged, as the equation its fold satisfies.
IsMerged(seq, g) ==
    g = [u \in SUBSET (DOMAIN seq) |->
            IF u = {} THEN << >> ELSE MergeStep(g[u \ {Max(u)}], seq[Max(u)])]

\* Merged is a recursive function over the prefixes of its sequence.
LEMMA MergedDefined ==
    \A seq : Merged(seq) = (CHOOSE g : IsMerged(seq, g))[DOMAIN seq]
BY Zenon DEF Merged, FoldLeft, MapThenFoldSet, IsMerged, MergeStep

\* Merged returns a sequence of actions.
LEMMA MergedType ==
    ASSUME NEW seq \in Seq(Seq(Actions))
    PROVE  Merged(seq) \in Seq(Actions)
<1> DEFINE n == Len(seq)
           T == Seq(Actions)
           f == [p \in T \X (1..n) |-> MergeStep(p[1], seq[p[2]])]
<1>0. n \in Nat /\ DOMAIN seq = 1..n /\ << >> \in T
    OBVIOUS
<1>1. ASSUME NEW t \in T, NEW i \in 1..n PROVE MergeStep(t, seq[i]) \in T
  <2>1. seq[i] \in Seq(Actions)
    BY <1>1
  <2>2. Select(seq[i], Actions \ Range(t)) \in Seq(Actions \cap (Actions \ Range(t)))
    BY <2>1, SelectType
  <2>3. Actions \cap (Actions \ Range(t)) \subseteq Actions
    OBVIOUS
  <2>4. Select(seq[i], Actions \ Range(t)) \in Seq(Actions)
    BY <2>2, <2>3
  <2> QED
    BY <2>4 DEF MergeStep
<1> HIDE DEF n, T
<1>2. f \in [T \X (1..n) -> T]
    BY <1>1
<1>3. \A t \in T, i \in 1..n : f[<<t, i>>] = MergeStep(t, seq[i])
    OBVIOUS
<1> HIDE DEF f
<1>4. PICK g : /\ g = [u \in SUBSET (1..n) |-> FoldStep(f, << >>, g, u)]
               /\ \A u \in SUBSET (1..n) : g[u] \in T
  <2>1. HasFold(f, << >>, n, T)
    BY <1>0, <1>2, FoldExists
  <2> QED
    BY <2>1 DEF HasFold
<1>5. ASSUME NEW u \in SUBSET (1..n)
      PROVE  FoldStep(f, << >>, g, u)
                = IF u = {} THEN << >> ELSE MergeStep(g[u \ {Max(u)}], seq[Max(u)])
  <2>1. u # {} => Max(u) \in 1..n /\ g[u \ {Max(u)}] \in T
    BY <1>0, <1>4, MaxIn
  <2> QED
    BY <1>3, <2>1 DEF FoldStep
<1>6. IsMerged(seq, g)
    BY <1>0, <1>4, <1>5 DEF IsMerged
<1> DEFINE h == CHOOSE k : IsMerged(seq, k)
<1>7. IsMerged(seq, h)
    BY <1>6
<1> HIDE DEF h
<1>8. \A u \in SUBSET (1..n) :
          h[u] = IF u = {} THEN << >> ELSE MergeStep(h[u \ {Max(u)}], seq[Max(u)])
    BY <1>0, <1>7 DEF IsMerged
<1>9. h[{}] \in T
    BY <1>0, <1>8
<1>10. ASSUME NEW u \in SUBSET (1..n), u # {}, h[u \ {Max(u)}] \in T PROVE h[u] \in T
  <2>1. Max(u) \in 1..n
    BY <1>0, <1>10, MaxIn
  <2> QED
    BY <1>1, <1>8, <1>10, <2>1
<1>11. \A u \in SUBSET (1..n) : h[u] \in T
    BY <1>0, <1>9, <1>10, FoldInvariant
<1>12. Merged(seq) = h[1..n]
    BY <1>0, MergedDefined DEF h
<1> QED
    BY <1>11, <1>12 DEF T

\* The closure of an action, given the closures of its prerequisites.
ClosureStep(C, a) ==
    Append(Merged([i \in DOMAIN Select(IdOrder, Prerequisites[a]) |->
                       C[Select(IdOrder, Prerequisites[a])[i]]]), a)

\* Closure is the function its equation picks.
LEMMA ClosureDefined == Closure = CHOOSE C : C = [a \in Actions |-> ClosureStep(C, a)]
BY Zenon DEF Closure, ClosureStep

\* What comes below an action are its prerequisites.
LEMMA BelowType ==
    ASSUME NEW a \in Actions
    PROVE  Select(IdOrder, Prerequisites[a]) \in Seq(Prerequisites[a])
<1>1. Select(IdOrder, Prerequisites[a]) \in Seq(Actions \cap Prerequisites[a])
    BY PlannerAssumption, SelectType
<1>2. Actions \cap Prerequisites[a] = Prerequisites[a]
    BY PlannerAssumption
<1> QED
    BY <1>1, <1>2

\* The closure of an action depends on those of its prerequisites only.
LEMMA ClosureIsLocal ==
    ASSUME NEW a \in Actions, NEW C, NEW D, \A b \in Prerequisites[a] : C[b] = D[b]
    PROVE  ClosureStep(C, a) = ClosureStep(D, a)
<1> DEFINE below == Select(IdOrder, Prerequisites[a])
<1>1. below \in Seq(Prerequisites[a])
    BY BelowType
<1> HIDE DEF below
<1>2. \A i \in DOMAIN below : below[i] \in Prerequisites[a]
    BY <1>1
<1>3. [i \in DOMAIN below |-> C[below[i]]] = [i \in DOMAIN below |-> D[below[i]]]
    BY <1>2
<1> QED
    BY <1>3, Zenon DEF ClosureStep, below

\* One step of Closure returns a sequence of actions.
LEMMA ClosureStepType ==
    ASSUME NEW a \in Actions, NEW C, \A b \in Prerequisites[a] : C[b] \in Seq(Actions)
    PROVE  ClosureStep(C, a) \in Seq(Actions)
<1> DEFINE below == Select(IdOrder, Prerequisites[a])
           parts == [i \in DOMAIN below |-> C[below[i]]]
<1>1. below \in Seq(Prerequisites[a])
    BY BelowType
<1> HIDE DEF below
<1>2. DOMAIN below = 1..Len(below) /\ Len(below) \in Nat
    BY <1>1
<1>3. \A i \in DOMAIN below : below[i] \in Prerequisites[a]
    BY <1>1
<1>4. parts \in [1..Len(below) -> Seq(Actions)]
    BY <1>2, <1>3
<1>5. parts \in Seq(Seq(Actions))
    BY <1>2, <1>4
<1> HIDE DEF parts
<1>6. Merged(parts) \in Seq(Actions)
    BY <1>5, MergedType
<1>7. Append(Merged(parts), a) \in Seq(Actions)
    BY <1>6
<1> QED
    BY <1>7, Zenon DEF ClosureStep, below, parts

\* There are finitely many actions.
LEMMA ActionsFinite == IsFiniteSet(Actions)
<1>1. IdOrder \in Seq(Actions) /\ Actions = {IdOrder[i] : i \in DOMAIN IdOrder}
    BY PlannerAssumption DEF Actions, Range
<1>2. DOMAIN IdOrder = 1..Len(IdOrder) /\ Len(IdOrder) \in Nat
    BY <1>1
<1>3. IsFiniteSet(1..Len(IdOrder))
    BY <1>2, FS_Interval
<1>4. IdOrder \in Surjection(1..Len(IdOrder), Actions)
    BY <1>1, <1>2 DEF Surjection
<1> QED
    BY <1>3, <1>4, FS_Surjection

\* The closures of a set of actions that holds its members' prerequisites can be given together.
Solves(C, B) ==
    /\ B \subseteq Actions
    /\ \A a \in B : Prerequisites[a] \subseteq B
    /\ \A a \in B : C[a] = ClosureStep(C, a)

\* A missing action whose prerequisites are all there can be added.
LEMMA SolutionGrows ==
    ASSUME NEW C, NEW B, Solves(C, B), NEW a \in Actions \ B, Prerequisites[a] \subseteq B
    PROVE  \E D : Solves(D, B \cup {a})
<1> DEFINE D == [b \in Actions |-> IF b = a THEN ClosureStep(C, a) ELSE C[b]]
<1>1. \A b \in B : D[b] = C[b]
    BY DEF Solves
<1>2. D[a] = ClosureStep(C, a)
    OBVIOUS
<1> HIDE DEF D
<1>3. ASSUME NEW b \in B \cup {a} PROVE Prerequisites[b] \subseteq B /\ ClosureStep(D, b) = ClosureStep(C, b)
  <2>1. Prerequisites[b] \subseteq B /\ b \in Actions
    BY DEF Solves
  <2>2. \A c \in Prerequisites[b] : D[c] = C[c]
    BY <1>1, <2>1
  <2> QED
    BY <2>1, <2>2, ClosureIsLocal
<1>4. Solves(D, B \cup {a})
    BY <1>1, <1>2, <1>3 DEF Solves
<1> QED
    BY <1>4

\* The closures of all actions exist, because no action depends on itself.
LEMMA ClosureExists == \E C : Solves(C, Actions)
<1> DEFINE T == {Cardinality(Actions \ B) : B \in {X \in SUBSET Actions : \E C : Solves(C, X)}}
<1>1. \A B \in SUBSET Actions : IsFiniteSet(Actions \ B) /\ Cardinality(Actions \ B) \in Nat
    BY ActionsFinite, FS_Subset, FS_CardinalityType
<1>2. Solves(<< >>, {})
    BY DEF Solves
<1>3. T \subseteq Nat /\ T # {}
    BY <1>1, <1>2
<1>4. PICK t \in T : \A m \in T : ~(m < t)
    BY <1>3, LeastNumber
<1>5. PICK B \in SUBSET Actions : t = Cardinality(Actions \ B) /\ \E C : Solves(C, B)
    BY <1>4
<1>6. PICK C : Solves(C, B)
    BY <1>5
<1>7. ASSUME B # Actions PROVE FALSE
  <2> DEFINE S == Actions \ B
  <2>1. S \in (SUBSET Actions) \ {{}}
    BY <1>7
  <2>2. PICK a \in S : Prerequisites[a] \cap S = {}
    BY <2>1, PlannerAssumption DEF Acyclic
  <2>3. Prerequisites[a] \subseteq B /\ a \in Actions \ B
    BY <2>2, PlannerAssumption
  <2>4. \E D : Solves(D, B \cup {a})
    BY <1>6, <2>3, SolutionGrows
  <2>5. Cardinality(Actions \ (B \cup {a})) \in T
    BY <2>3, <2>4
  <2>6. Actions \ (B \cup {a}) = (Actions \ B) \ {a}
    OBVIOUS
  <2>7. Cardinality((Actions \ B) \ {a}) = t - 1
    BY <1>1, <1>5, <2>3, FS_RemoveElement
  <2> HIDE DEF T
  <2>8. t - 1 \in T /\ t \in Nat
    BY <1>3, <1>4, <2>5, <2>6, <2>7
  <2> QED
    BY <1>4, <2>8
<1> QED
    BY <1>6, <1>7

\* Closure has its equation: the prerequisites are acyclic, so the recursion is well-founded.
LEMMA ClosureFacts == \A a \in Actions : Closure[a] = ClosureStep(Closure, a)
<1>1. PICK C : Solves(C, Actions)
    BY ClosureExists
<1> DEFINE D == [a \in Actions |-> C[a]]
<1>2. ASSUME NEW a \in Actions PROVE D[a] = ClosureStep(D, a)
  <2>1. \A b \in Prerequisites[a] : D[b] = C[b]
    BY PlannerAssumption
  <2>2. ClosureStep(D, a) = ClosureStep(C, a)
    BY <2>1, ClosureIsLocal
  <2> QED
    BY <1>1, <2>2 DEF Solves
<1>3. D = [a \in Actions |-> ClosureStep(D, a)]
    BY <1>2
<1>4. \E E : E = [a \in Actions |-> ClosureStep(E, a)]
    BY <1>3
<1>5. Closure = [a \in Actions |-> ClosureStep(Closure, a)]
    BY <1>4, ClosureDefined, Zenon
<1> QED
    BY <1>5

\* The closure of an action is a sequence of actions.
LEMMA ClosureType == \A a \in Actions : Closure[a] \in Seq(Actions)
<1> DEFINE S == {a \in Actions : Closure[a] \notin Seq(Actions)}
<1>1. ASSUME S # {} PROVE FALSE
  <2>1. PICK a \in S : Prerequisites[a] \cap S = {}
    BY <1>1, PlannerAssumption DEF Acyclic
  <2>2. \A b \in Prerequisites[a] : Closure[b] \in Seq(Actions)
    BY <2>1, PlannerAssumption
  <2>3. ClosureStep(Closure, a) \in Seq(Actions)
    BY <2>2, ClosureStepType
  <2> QED
    BY <2>3, ClosureFacts
<1> QED
    BY <1>1

\* A candidate adds eligible actions or nothing.
LEMMA ConsiderType ==
    ASSUME NEW eligible, NEW steps \in Seq(eligible), NEW a \in Actions
    PROVE  Consider(eligible, steps, a) \in Seq(eligible)
<1> DEFINE missing == Select(Closure[a], Actions \ Range(steps))
<1>1. missing \in Seq(Actions \cap (Actions \ Range(steps)))
    BY ClosureType, SelectType
<1> HIDE DEF missing
<1>2. CASE ~(Range(missing) \subseteq eligible)
    BY <1>2 DEF Consider, missing
<1>3. CASE Range(missing) \subseteq eligible
  <2>1. DOMAIN missing = 1..Len(missing) /\ Len(missing) \in Nat
    BY <1>1
  <2>2. \A i \in DOMAIN missing : missing[i] \in eligible
    BY <1>3 DEF Range
  <2>3. missing \in Seq(eligible)
    BY <1>1, <2>1, <2>2
  <2>4. steps \o missing \in Seq(eligible)
    BY <2>3
  <2> QED
    BY <2>4 DEF Consider, missing
<1> QED
    BY <1>2, <1>3

\* A step the defense filter keeps is not suppressed.
DefenseStep(defense, kept, a) ==
    IF a \in defense \/ ~(Prerequisites[a] \subseteq Range(kept)) THEN kept ELSE Append(kept, a)

\* The filter, as the equation its fold satisfies.
IsDefenseFiltered(seq, defense, g) ==
    g = [u \in SUBSET (DOMAIN seq) |->
            IF u = {} THEN << >> ELSE DefenseStep(defense, g[u \ {Max(u)}], seq[Max(u)])]

\* DefenseFiltered is a recursive function over the prefixes of the plan.
LEMMA DefenseFilteredDefined ==
    \A seq, defense :
        DefenseFiltered(seq, defense) = (CHOOSE g : IsDefenseFiltered(seq, defense, g))[DOMAIN seq]
BY Zenon DEF DefenseFiltered, FoldLeft, MapThenFoldSet, IsDefenseFiltered, DefenseStep

\* DefenseFiltered leaves out what defense suppresses.
LEMMA DefenseFilteredType ==
    ASSUME NEW X, NEW seq \in Seq(X), NEW defense
    PROVE  DefenseFiltered(seq, defense) \in Seq(X \ defense)
<1> DEFINE n == Len(seq)
           T == Seq(X \ defense)
           f == [p \in T \X (1..n) |-> DefenseStep(defense, p[1], seq[p[2]])]
<1>0. n \in Nat /\ DOMAIN seq = 1..n /\ << >> \in T
    OBVIOUS
<1>1. ASSUME NEW t \in T, NEW i \in 1..n PROVE DefenseStep(defense, t, seq[i]) \in T
  <2>1. seq[i] \in X
    BY <1>1
  <2> QED
    BY <2>1 DEF DefenseStep
<1> HIDE DEF n, T
<1>2. f \in [T \X (1..n) -> T]
    BY <1>1
<1>3. \A t \in T, i \in 1..n : f[<<t, i>>] = DefenseStep(defense, t, seq[i])
    OBVIOUS
<1> HIDE DEF f
<1>4. PICK g : /\ g = [u \in SUBSET (1..n) |-> FoldStep(f, << >>, g, u)]
               /\ \A u \in SUBSET (1..n) : g[u] \in T
  <2>1. HasFold(f, << >>, n, T)
    BY <1>0, <1>2, FoldExists
  <2> QED
    BY <2>1 DEF HasFold
<1>5. ASSUME NEW u \in SUBSET (1..n)
      PROVE  FoldStep(f, << >>, g, u)
                = IF u = {} THEN << >> ELSE DefenseStep(defense, g[u \ {Max(u)}], seq[Max(u)])
  <2>1. u # {} => Max(u) \in 1..n /\ g[u \ {Max(u)}] \in T
    BY <1>0, <1>4, MaxIn
  <2> QED
    BY <1>3, <2>1 DEF FoldStep
<1>6. IsDefenseFiltered(seq, defense, g)
    BY <1>0, <1>4, <1>5 DEF IsDefenseFiltered
<1> DEFINE h == CHOOSE k : IsDefenseFiltered(seq, defense, k)
<1>7. IsDefenseFiltered(seq, defense, h)
    BY <1>6
<1> HIDE DEF h
<1>8. \A u \in SUBSET (1..n) :
          h[u] = IF u = {} THEN << >> ELSE DefenseStep(defense, h[u \ {Max(u)}], seq[Max(u)])
    BY <1>0, <1>7 DEF IsDefenseFiltered
<1>9. h[{}] \in T
    BY <1>0, <1>8
<1>10. ASSUME NEW u \in SUBSET (1..n), u # {}, h[u \ {Max(u)}] \in T PROVE h[u] \in T
  <2>1. Max(u) \in 1..n
    BY <1>0, <1>10, MaxIn
  <2> QED
    BY <1>1, <1>8, <1>10, <2>1
<1>11. \A u \in SUBSET (1..n) : h[u] \in T
    BY <1>0, <1>9, <1>10, FoldInvariant
<1>12. DefenseFiltered(seq, defense) = h[1..n]
    BY <1>0, DefenseFilteredDefined DEF h
<1> QED
    BY <1>11, <1>12 DEF T

\* The baseline, as the equation the fold over the ranked eligible actions satisfies.
IsBaseline(seq, eligible, g) ==
    g = [u \in SUBSET (DOMAIN seq) |->
            IF u = {} THEN << >> ELSE Consider(eligible, g[u \ {Max(u)}], seq[Max(u)])]

\* The baseline is a recursive function over the ranked candidates.
LEMMA BaselineDefined ==
    \A ranked, eligible :
        Baseline(eligible, ranked)
            = (CHOOSE g : IsBaseline(Select(ranked, eligible), eligible, g))
                  [DOMAIN Select(ranked, eligible)]
BY Zenon DEF Baseline, FoldLeft, MapThenFoldSet, IsBaseline

\* The baseline is a sequence of eligible actions.
LEMMA BaselineType ==
    ASSUME NEW eligible, NEW ranked, NEW seq \in Seq(Actions), seq = Select(ranked, eligible)
    PROVE  Baseline(eligible, ranked) \in Seq(eligible)
<1> DEFINE n == Len(seq)
           T == Seq(eligible)
           f == [p \in T \X (1..n) |-> Consider(eligible, p[1], seq[p[2]])]
<1>0. n \in Nat /\ DOMAIN seq = 1..n /\ << >> \in T
    OBVIOUS
<1>1. ASSUME NEW t \in T, NEW i \in 1..n PROVE Consider(eligible, t, seq[i]) \in T
  <2>1. seq[i] \in Actions
    BY <1>1
  <2> QED
    BY <2>1, ConsiderType
<1> HIDE DEF n, T
<1>2. f \in [T \X (1..n) -> T]
    BY <1>1
<1>3. \A t \in T, i \in 1..n : f[<<t, i>>] = Consider(eligible, t, seq[i])
    OBVIOUS
<1> HIDE DEF f
<1>4. PICK g : /\ g = [u \in SUBSET (1..n) |-> FoldStep(f, << >>, g, u)]
               /\ \A u \in SUBSET (1..n) : g[u] \in T
  <2>1. HasFold(f, << >>, n, T)
    BY <1>0, <1>2, FoldExists
  <2> QED
    BY <2>1 DEF HasFold
<1>5. ASSUME NEW u \in SUBSET (1..n)
      PROVE  FoldStep(f, << >>, g, u)
                = IF u = {} THEN << >> ELSE Consider(eligible, g[u \ {Max(u)}], seq[Max(u)])
  <2>1. u # {} => Max(u) \in 1..n /\ g[u \ {Max(u)}] \in T
    BY <1>0, <1>4, MaxIn
  <2> QED
    BY <1>3, <2>1 DEF FoldStep
<1>6. IsBaseline(seq, eligible, g)
    BY <1>0, <1>4, <1>5 DEF IsBaseline
<1> DEFINE h == CHOOSE k : IsBaseline(seq, eligible, k)
<1>7. IsBaseline(seq, eligible, h)
    BY <1>6
<1> HIDE DEF h
<1>8. \A u \in SUBSET (1..n) :
          h[u] = IF u = {} THEN << >> ELSE Consider(eligible, h[u \ {Max(u)}], seq[Max(u)])
    BY <1>0, <1>7 DEF IsBaseline
<1>9. h[{}] \in T
    BY <1>0, <1>8
<1>10. ASSUME NEW u \in SUBSET (1..n), u # {}, h[u \ {Max(u)}] \in T PROVE h[u] \in T
  <2>1. Max(u) \in 1..n
    BY <1>0, <1>10, MaxIn
  <2> QED
    BY <1>1, <1>8, <1>10, <2>1
<1>11. \A u \in SUBSET (1..n) : h[u] \in T
    BY <1>0, <1>9, <1>10, FoldInvariant
<1>12. Baseline(eligible, ranked) = h[1..n]
    BY <1>0, BaselineDefined DEF h
<1> QED
    BY <1>11, <1>12 DEF T

\* A plan issues an action that is eligible on its snapshot, or ends the session.
LEMMA PlannedShape ==
    ASSUME NEW s, Sound(s), s.state = "Ready", s.cycles < max_action_cycles,
           NEW log, NEW k, NEW host
    PROVE  /\ IsPlan(Planned(s, log, k, host), s, log, k)
           /\ IsAwaiting(Planned(s, log, k, host)) =>
                  Planned(s, log, k, host).case.action \notin host.policy \cup host.defense
<1> DEFINE policy == Policy(log, s, host)
           eligible == {a \in Actions : a \notin policy /\ Resolves(k, a)}
           ranked == Select(Ranked, eligible)
           base == Baseline(eligible, Ranked)
           steps == DefenseFiltered(base, host.defense)
           n == Planned(s, log, k, host)
<1>1. ranked \in Seq(Actions)
  <2>1. ranked \in Seq(Actions \cap eligible)
    BY DecisionPolicyAssumption, SelectType
  <2>2. Actions \cap eligible \subseteq Actions
    OBVIOUS
  <2> HIDE DEF ranked, eligible
  <2> QED
    BY <2>1, <2>2
<1>2. base \in Seq(eligible)
  <2> HIDE DEF eligible
  <2> QED
    BY <1>1, BaselineType
<1>3. steps \in Seq(eligible \ host.defense)
  <2> HIDE DEF base, eligible
  <2> QED
    BY <1>2, DefenseFilteredType
<1>4. n = IF steps = << >> THEN Halt(s, "NoEligibleAction") ELSE Issue(s, Head(steps), "planned")
    BY Zenon DEF Planned
<1>5. s.reason = "none" /\ Bounded(s)
    BY DEF Sound
<1> HIDE DEF steps, n
<1>6. CASE steps = << >>
  <2>1. n = Halt(s, "NoEligibleAction")
    BY <1>4, <1>6
  <2>2. "NoEligibleAction" \in HaltReasons
    BY DEF HaltReasons
  <2>3. Sound(n) /\ SameCounters(n, s) /\ n.state = "Halted" /\ n.reason = "NoEligibleAction"
    BY <1>5, <2>1, <2>2, HaltSound
  <2>4. IsPlan(n, s, log, k) /\ ~IsAwaiting(n)
    BY <2>3 DEF IsPlan, SameCounters, IsAwaiting
  <2> QED
    BY <2>4 DEF n
<1>7. CASE steps # << >>
  <2>1. PICK a \in eligible \ host.defense : a = Head(steps)
    BY <1>3, <1>7
  <2>2. a \in Actions /\ a \notin policy /\ Resolves(k, a) /\ a \notin host.defense
    BY <2>1
  <2>3. a \notin Learned(log) \cup s.suppressed \cup host.policy
    BY <2>2 DEF Policy
  <2>4. n = Issue(s, a, "planned")
    BY <1>4, <1>7, <2>1
  <2> HIDE DEF eligible, policy
  <2>5. /\ Sound(n) /\ n.state = "AwaitingPassive" /\ n.cycles = s.cycles + 1
        /\ n.case = [cycle |-> s.cycles + 1, origin |-> "planned", action |-> a]
        /\ n.transitions = s.transitions /\ n.suppressed = s.suppressed /\ n.applied = s.applied
    <3>1. "planned" \in Origins /\ a \in Actions
      BY <2>2 DEF Origins
    <3> QED
      BY <1>5, <2>4, <3>1, IssueSound
  <2>6. n.case.action = a
    BY <2>5
  <2>7. IsPlan(n, s, log, k)
    BY <2>2, <2>3, <2>5, <2>6 DEF IsPlan
  <2> QED
    BY <2>2, <2>3, <2>6, <2>7 DEF n
<1> QED
    BY <1>6, <1>7

\* PlanOnSnapshot keeps the invariant.
LEMMA PlanOnSnapshotKeeps ==
    ASSUME LInv, PlanOnSnapshot
    PROVE  LInv'
<1> DEFINE n == Planned(session, experience, hyp, op.host)
<1>1. op \in [pc : {"plan"}, host : Hosts]
    BY CallCarries DEF LInv, PlanOnSnapshot
<1>2. session.state = "Ready" /\ session.cycles < max_action_cycles
    BY DEF LInv, PlanOnSnapshot, CallFits
<1>3. IsPlan(n, session, experience, hyp)
    BY <1>2, PlannedShape DEF LInv
<1>4. n \in Sessions
    BY <1>3 DEF IsPlan, Sound, Bounded
<1>5. Now \in Snapshots /\ Now.hyp = hyp /\ hyp' = hyp
    BY NowIsSnapshot DEF LInv, PlanOnSnapshot
<1>6. op' = [pc |-> "commit", snap |-> Now, next |-> n]
    BY DEF PlanOnSnapshot
<1> HIDE DEF n
<1>7. /\ op' \in [pc : {"commit"}, snap : Snapshots, next : Sessions]
      /\ op'.pc = "commit" /\ op'.next = n /\ op'.snap = Now
    BY <1>4, <1>5, <1>6
<1>8. op' \in Calls /\ SnapshotIsTrue'
    BY <1>5, <1>7 DEF Calls, SnapshotIsTrue
<1>9. CallFits'
    BY <1>2, <1>3, <1>5, <1>7 DEF CallFits, PlanOnSnapshot
<1> QED
    BY <1>8, <1>9, CallKeeps DEF PlanOnSnapshot

\* What a session asks the host to do.
LEMMA CommandTyped ==
    ASSUME NEW s, Sound(s)
    PROVE  Command(s) \subseteq CommandSet
BY DEF Sound, Command, CommandSet, IsAwaiting, Stages

\* CommitPlan keeps the invariant.
LEMMA CommitPlanKeeps ==
    ASSUME LInv, CommitPlan
    PROVE  LInv'
<1>0. UNCHANGED <<hyp, experience>> /\ op' = Idle /\ op.pc = "commit"
    BY DEF CommitPlan
<1>1. op' \in Calls /\ SnapshotIsTrue' /\ CallFits'
    BY <1>0, IdleFits
<1>2. CASE op.snap.current
  <2>1. session' = op.next /\ commands' = commands \cup Command(op.next)
    BY <1>2 DEF CommitPlan
  <2>2. IsPlan(session', session, experience, op.snap.hyp) /\ session.state = "Ready"
    BY <1>0, <2>1 DEF LInv, CallFits
  <2>3. Sound(session') /\ session'.transitions = session.transitions
    BY <2>2 DEF IsPlan
  <2>4. commands' \subseteq CommandSet
    BY <2>1, <2>3, CommandTyped DEF LInv
  <2>5. ExperienceMatchesLedger'
    BY <1>0, <2>2, <2>3 DEF LInv, ExperienceMatchesLedger
  <2>6. OutstandingIsNotSuppressed'
    BY <1>0, <2>2 DEF OutstandingIsNotSuppressed, IsPlan, IsAwaiting
  <2>7. ExperienceMatchesKnowledge'
    BY <1>0 DEF LInv, ExperienceMatchesKnowledge
  <2> QED
    BY <1>0, <1>1, <2>3, <2>4, <2>5, <2>6, <2>7 DEF LInv
<1>3. CASE ~op.snap.current
  <2>1. UNCHANGED <<session, commands>>
    BY <1>3 DEF CommitPlan
  <2> QED
    BY <1>0, <1>1, <2>1, CallKeeps
<1> QED
    BY <1>2, <1>3

\* DriveSuppressed keeps the invariant.
LEMMA DriveSuppressedKeeps ==
    ASSUME LInv, NEW c \in commands, NEW host \in Hosts \cup {NoHost}, DriveSuppressed(c, host)
    PROVE  LInv' /\ IsAwaiting(session)
<1>1. /\ session' = Enter(session, "Ready") /\ op' = StartPlan(session', host)
      /\ UNCHANGED <<hyp, experience, commands>>
      /\ c.case.action \in Suppressions(host).defense /\ session.state = Awaiting(c.stage)
    BY DEF DriveSuppressed, MayDrive, Outstanding
<1>2. host \in Hosts
    BY <1>1 DEF Suppressions
<1>3. IsAwaiting(session)
    BY <1>1 DEF IsAwaiting, Awaiting
<1>4. session.reason = "none" /\ Bounded(session)
    BY <1>3 DEF LInv, Sound, IsAwaiting
<1>5. Sound(session') /\ SameCounters(session', session) /\ session'.state = "Ready"
    BY <1>1, <1>4, EnterSound
<1>6. op' \in Calls /\ SnapshotIsTrue' /\ CallFits'
  <2>1. hyp \in Knowledge
    BY DEF LInv
  <2> QED
    BY <1>1, <1>2, <1>5, <2>1, StartPlanFits
<1>7. ExperienceMatchesLedger'
    BY <1>1, <1>3, <1>5 DEF LInv, ExperienceMatchesLedger, SameCounters, IsAwaiting
<1>8. OutstandingIsNotSuppressed' /\ ExperienceMatchesKnowledge'
    BY <1>1, <1>5 DEF LInv, OutstandingIsNotSuppressed, IsAwaiting, ExperienceMatchesKnowledge
<1> QED
    BY <1>1, <1>3, <1>5, <1>6, <1>7, <1>8 DEF LInv

\* Drive keeps the invariant.
LEMMA DriveKeeps ==
    ASSUME LInv, NEW c \in commands, NEW host \in Hosts \cup {NoHost}, Drive(c, host)
    PROVE  LInv'
<1>1. /\ op' = [pc |-> "execute", command |-> c, host |-> host]
      /\ UNCHANGED <<hyp, session, experience, commands>>
      /\ session.state = Awaiting(c.stage) /\ session.case = c.case
    BY DEF Drive, MayDrive, Outstanding
<1>2. c \in CommandSet
    BY DEF LInv
<1>3. /\ op' \in [pc : {"execute"}, command : CommandSet, host : Hosts \cup {NoHost}]
      /\ op'.pc = "execute" /\ op'.command = c /\ "snap" \notin DOMAIN op'
    BY <1>1, <1>2
<1>4. op' \in Calls /\ SnapshotIsTrue'
    BY <1>3 DEF Calls, SnapshotIsTrue
<1>5. CallFits'
    BY <1>1, <1>3 DEF CallFits
<1> QED
    BY <1>1, <1>4, <1>5, CallKeeps

\* Execute keeps the invariant.
LEMMA ExecuteKeeps ==
    ASSUME LInv, Execute
    PROVE  LInv'
<1>1. op \in [pc : {"execute"}, command : CommandSet, host : Hosts \cup {NoHost}]
    BY CallCarries DEF LInv, Execute
<1>2. op' = [pc |-> "resume", command |-> op.command, host |-> op.host, snap |-> Now]
    BY DEF Execute
<1>3. Now \in Snapshots /\ Now.hyp = hyp /\ hyp' = hyp
    BY NowIsSnapshot DEF LInv, Execute
<1>4. /\ op' \in [pc : {"resume"}, command : CommandSet, host : Hosts \cup {NoHost},
                  snap : Snapshots]
      /\ op'.pc = "resume" /\ op'.command = op.command /\ op'.snap = Now
    BY <1>1, <1>2, <1>3
<1>5. op' \in Calls /\ SnapshotIsTrue'
    BY <1>3, <1>4 DEF Calls, SnapshotIsTrue
<1>6. CallFits'
    BY <1>4 DEF CallFits, LInv, Execute
<1> QED
    BY <1>5, <1>6, CallKeeps DEF Execute

\* Fail keeps the invariant.
LEMMA FailKeeps ==
    ASSUME LInv, Fail
    PROVE  LInv'
BY IdleFits, CallKeeps DEF Fail

\* HostHalts keeps the invariant.
LEMMA HostHaltsKeeps ==
    ASSUME LInv, NEW reason \in {"RuntimeBudgetLimit", "CancelledByHost"}, HostHalts(reason)
    PROVE  LInv'
<1>1. op' = Idle /\ session' = Halt(session, reason) /\ UNCHANGED <<hyp, experience, commands>>
    BY DEF HostHalts
<1>2. Sound(session') /\ SameCounters(session', session) /\ session'.state = "Halted"
    BY <1>1, HaltSound DEF LInv, Sound, HaltReasons
<1>3. op' \in Calls /\ SnapshotIsTrue' /\ CallFits'
    BY <1>1, IdleFits
<1>4. ExperienceMatchesLedger'
    BY <1>1, <1>2 DEF LInv, ExperienceMatchesLedger, SameCounters
<1>5. OutstandingIsNotSuppressed' /\ ExperienceMatchesKnowledge'
    BY <1>1, <1>2 DEF LInv, OutstandingIsNotSuppressed, IsAwaiting, ExperienceMatchesKnowledge
<1> QED
    BY <1>1, <1>2, <1>3, <1>4, <1>5 DEF LInv

\* Submit keeps the invariant.
LEMMA SubmitKeeps ==
    ASSUME LInv, op.pc = "resume", NEW status \in Statuses, NEW holds \in SUBSET Rules,
           Submit(op.host, status, holds)
    PROVE  LInv'
<1> DEFINE c == session.case
           snap == IF op.command.stage = "Active" THEN op.snap ELSE Now
           o == [case |-> c, stage |-> op.command.stage, status |-> status]
<1>1. /\ op \in [pc : {"resume"}, command : CommandSet, host : Hosts \cup {NoHost},
                 snap : Snapshots]
      /\ session.state = Awaiting(op.command.stage) /\ session.case = op.command.case
    BY CallCarries DEF LInv, CallFits
<1>2. /\ UNCHANGED <<hyp, session, experience, commands>>
      /\ ~Observed(experience, c, o.stage)
      /\ \E next \in Conclusions(session, experience, snap, o, op.host, holds) :
             op' = [pc |-> "apply", snap |-> snap, outcome |-> o, next |-> next]
    BY Zenon DEF Submit
<1>3. PICK next \in Conclusions(session, experience, snap, o, op.host, holds) :
          op' = [pc |-> "apply", snap |-> snap, outcome |-> o, next |-> next]
    BY <1>2
<1>4. c \in Cases /\ op.command.stage \in Stages /\ o \in Outcomes
    BY <1>1 DEF CommandSet, Outcomes
<1>5. o.case = session.case /\ o.stage = op.command.stage
    OBVIOUS
<1>6. snap \in Snapshots /\ (snap.current => snap.hyp = hyp)
  <2>1. Now \in Snapshots /\ Now.hyp = hyp
    BY NowIsSnapshot DEF LInv
  <2>2. op.snap \in Snapshots /\ (op.snap.current => op.snap.hyp = hyp)
    BY <1>1 DEF LInv, SnapshotIsTrue
  <2> QED
    BY <2>1, <2>2
<1> HIDE DEF o, snap
<1>7. IsAwaiting(session)
    BY <1>1 DEF IsAwaiting, Awaiting
<1>8. IsConclusion(next, session, experience, o)
    BY <1>3, <1>4, <1>5, <1>7, ConclusionShape DEF LInv
<1>9. next \in Sessions
    BY <1>8 DEF IsConclusion, Sound, Bounded
<1>10. /\ op' \in [pc : {"apply"}, snap : Snapshots, outcome : Outcomes, next : Sessions]
       /\ op'.pc = "apply" /\ op'.snap = snap /\ op'.outcome = o /\ op'.next = next
    BY <1>3, <1>4, <1>6, <1>9
<1>11. op' \in Calls
    BY <1>10 DEF Calls
<1>12. SnapshotIsTrue'
    BY <1>2, <1>6, <1>10 DEF SnapshotIsTrue
<1>13. CallFits'
    BY <1>1, <1>2, <1>5, <1>8, <1>10 DEF CallFits
<1> QED
    BY <1>2, <1>11, <1>12, <1>13, CallKeeps

\* What is committed with an outcome: the ledger goes on, or was full.
LEMMA LedgerFollows ==
    ASSUME NEW n, NEW s, Sound(s), NEW log \in Seq(Outcomes), NEW o \in Outcomes,
           IsConclusion(n, s, log, o), IsAwaiting(s),
           Len(log) = s.transitions
    PROVE  \/ Len(Append(log, o)) = n.transitions
           \/ /\ Len(Append(log, o)) = n.transitions + 1
              /\ n.state = "Halted" /\ n.transitions = max_transitions
<1>1. Len(Append(log, o)) = Len(log) + 1
    BY RangeAppend
<1> QED
    BY <1>1 DEF IsConclusion, SameCounters

\* Apply keeps the invariant.
LEMMA ApplyKeeps ==
    ASSUME LInv, Apply
    PROVE  LInv' /\ KeepsConclusions(hyp, hyp')
<1>0. op' = Idle /\ op.pc = "apply"
    BY DEF Apply
<1>1. op' \in Calls /\ SnapshotIsTrue' /\ CallFits'
    BY <1>0, IdleFits
<1>2. op \in [pc : {"apply"}, snap : Snapshots, outcome : Outcomes, next : Sessions]
    BY <1>0, CallCarries DEF LInv
<1> DEFINE o == op.outcome
<1>3. o \in Outcomes
    BY <1>2
<1>4. /\ session.state = Awaiting(o.stage) /\ session.case = o.case
      /\ IsConclusion(op.next, session, experience, o)
    BY <1>0 DEF LInv, CallFits
<1>5. CASE MayApply(hyp, o, op.snap.current)
  <2>1. /\ hyp' = Prospective(hyp, o) /\ experience' = Append(experience, o)
        /\ session' = op.next /\ commands' = commands \cup Command(op.next)
    BY <1>5 DEF Apply
  <2> HIDE DEF o
  <2>2. hyp \in Knowledge /\ experience \in Seq(Outcomes) /\ Sound(session)
    BY DEF LInv
  <2>3. /\ hyp' \in Knowledge /\ KeepsConclusions(hyp, hyp')
        /\ Transitions(o) => hyp'[HypothesisOf(o.case.action)].state = HypothesisState(o.status)
    BY <1>3, <1>5, <2>1, <2>2, ProspectiveKeeps
  <2>4. experience' \in Seq(Outcomes) /\ Range(experience') = Range(experience) \cup {o}
    BY <1>3, <2>1, <2>2, RangeAppend
  <2>5. Sound(session')
    BY <1>4, <2>1 DEF IsConclusion
  <2>6. commands' \subseteq CommandSet
    BY <2>1, <2>5, CommandTyped DEF LInv
  <2>7. IsAwaiting(session)
    BY <1>4 DEF IsAwaiting, Awaiting
  <2>8. ExperienceMatchesLedger'
    <3>1. Len(experience) = session.transitions
      BY <2>7 DEF LInv, ExperienceMatchesLedger, IsAwaiting
    <3> QED
      BY <1>3, <1>4, <2>1, <2>2, <2>7, <3>1, LedgerFollows DEF ExperienceMatchesLedger
  <2>9. ExperienceMatchesKnowledge'
    <3> SUFFICES ASSUME NEW p \in Range(experience'), Transitions(p)
                 PROVE  hyp'[HypothesisOf(p.case.action)].state = HypothesisState(p.status)
      BY DEF ExperienceMatchesKnowledge
    <3>1. CASE p = o
      BY <2>3, <3>1
    <3>2. CASE p \in Range(experience)
      <4>1. hyp[HypothesisOf(p.case.action)].state = HypothesisState(p.status)
        BY <3>2 DEF LInv, ExperienceMatchesKnowledge
      <4> QED
        BY <2>2, <2>3, <3>2, <4>1, ConclusionsStay
    <3> QED
      BY <2>4, <3>1, <3>2
  <2>10. OutstandingIsNotSuppressed'
    BY <1>4, <2>1 DEF OutstandingIsNotSuppressed, IsConclusion, IsAwaiting, GoesIdle,
        Dispatches, Escalates
  <2> QED
    BY <1>1, <2>3, <2>4, <2>5, <2>6, <2>8, <2>9, <2>10 DEF LInv
<1>6. CASE ~MayApply(hyp, o, op.snap.current)
  <2>1. UNCHANGED <<hyp, experience, session, commands>>
    BY <1>6 DEF Apply
  <2> QED
    BY <1>1, <2>1, CallKeeps DEF KeepsConclusions
<1> QED
    BY <1>5, <1>6

\* A call that others overtake goes on with an old snapshot.
LEMMA OvertakenFits ==
    ASSUME LInv, Overtaken, UNCHANGED <<session, experience>>
    PROVE  op' \in Calls /\ SnapshotIsTrue' /\ CallFits'
<1>1. CASE "snap" \notin DOMAIN op
  <2>1. op' = op
    BY <1>1 DEF Overtaken
  <2>2. op.pc \notin {"commit"}
    BY <1>1, CallCarries DEF LInv
  <2> QED
    BY <1>1, <2>1, <2>2 DEF LInv, SnapshotIsTrue, CallFits
<1>2. CASE "snap" \in DOMAIN op
  <2>0. op' = [op EXCEPT !.snap.current = FALSE]
    BY <1>2 DEF Overtaken
  <2>1. op.pc \in {"reason", "commit", "resume", "apply"}
    BY <1>2, CallCarries DEF LInv, Idle
  <2>2. op.snap \in Snapshots
    BY <2>1, CallCarries DEF LInv
  <2> DEFINE sn == [op.snap EXCEPT !.current = FALSE]
  <2>3. sn \in Snapshots /\ sn.hyp = op.snap.hyp /\ ~sn.current
    BY <2>2 DEF Snapshots
  <2>4. op' = [op EXCEPT !.snap = sn]
    BY <2>0
  <2> HIDE DEF sn
  <2>5. CASE op.pc = "reason"
    <3>1. /\ op' \in [pc : {"reason"}, host : Hosts, attempt : Nat, snap : Snapshots]
          /\ op'.pc = "reason" /\ op'.snap = sn
      BY <2>3, <2>4, <2>5, CallCarries DEF LInv
    <3>2. op' \in Calls /\ SnapshotIsTrue'
      BY <2>3, <3>1 DEF Calls, SnapshotIsTrue
    <3> QED
      BY <2>5, <3>1, <3>2 DEF CallFits, LInv
  <2>6. CASE op.pc = "commit"
    <3>1. /\ op' \in [pc : {"commit"}, snap : Snapshots, next : Sessions]
          /\ op'.pc = "commit" /\ op'.snap = sn /\ op'.next = op.next
      BY <2>3, <2>4, <2>6, CallCarries DEF LInv
    <3>2. op' \in Calls /\ SnapshotIsTrue'
      BY <2>3, <3>1 DEF Calls, SnapshotIsTrue
    <3> QED
      BY <2>3, <2>6, <3>1, <3>2 DEF CallFits, LInv
  <2>7. CASE op.pc = "resume"
    <3>1. /\ op' \in [pc : {"resume"}, command : CommandSet, host : Hosts \cup {NoHost},
                      snap : Snapshots]
          /\ op'.pc = "resume" /\ op'.snap = sn /\ op'.command = op.command
      BY <2>3, <2>4, <2>7, CallCarries DEF LInv
    <3>2. op' \in Calls /\ SnapshotIsTrue'
      BY <2>3, <3>1 DEF Calls, SnapshotIsTrue
    <3> QED
      BY <2>7, <3>1, <3>2 DEF CallFits, LInv
  <2>8. CASE op.pc = "apply"
    <3>1. /\ op' \in [pc : {"apply"}, snap : Snapshots, outcome : Outcomes, next : Sessions]
          /\ op'.pc = "apply" /\ op'.snap = sn /\ op'.outcome = op.outcome /\ op'.next = op.next
      BY <2>3, <2>4, <2>8, CallCarries DEF LInv
    <3>2. op' \in Calls /\ SnapshotIsTrue'
      BY <2>3, <3>1 DEF Calls, SnapshotIsTrue
    <3> QED
      BY <2>8, <3>1, <3>2 DEF CallFits, LInv
  <2> QED
    BY <2>1, <2>5, <2>6, <2>7, <2>8
<1> QED
    BY <1>1, <1>2

\* What others write to the knowledge base keeps the invariant.
LEMMA OthersKeep ==
    ASSUME LInv, Others
    PROVE  LInv' /\ KeepsConclusions(hyp, hyp') /\ UNCHANGED <<session, experience, commands>>
<1>1. UNCHANGED <<session, experience, commands>> /\ Overtaken
    BY DEF Others, OthersObserve, OthersReason, OthersVerify
<1>2. hyp' \in Knowledge /\ KeepsConclusions(hyp, hyp')
  <2>0. hyp \in Knowledge
    BY DEF LInv
  <2>1. CASE OthersObserve
    BY <2>0, <2>1 DEF OthersObserve, KeepsConclusions
  <2>2. CASE OthersReason
    BY <2>0, <2>2, ReasonedKeeps DEF OthersReason
  <2>3. CASE \E h \in Hypotheses, state \in Terminal : OthersVerify(h, state)
    <3>1. PICK h \in Hypotheses, state \in Terminal : OthersVerify(h, state)
      BY <2>3
    <3>2. hyp[h].state = "Open" /\ hyp' = [hyp EXCEPT ![h].state = state]
      BY <3>1 DEF OthersVerify
    <3>3. hyp[h] \in [state : {"Open"} \cup Terminal, strong : BOOLEAN]
      BY <2>0, <3>2 DEF Knowledge, HypothesisValues, Absent
    <3>4. [hyp[h] EXCEPT !.state = state] \in HypothesisValues
      BY <3>3 DEF HypothesisValues
    <3>5. hyp' \in Knowledge /\ \A g \in Hypotheses : g # h => hyp'[g] = hyp[g]
      BY <2>0, <3>2, <3>4 DEF Knowledge
    <3>6. "Open" \notin Terminal
      BY DEF Terminal
    <3> QED
      BY <3>2, <3>5, <3>6 DEF KeepsConclusions
  <2> QED
    BY <2>1, <2>2, <2>3 DEF Others
<1>3. op' \in Calls /\ SnapshotIsTrue' /\ CallFits'
    BY <1>1, OvertakenFits
<1>4. ExperienceMatchesKnowledge'
    BY <1>1, <1>2, ConclusionsStay DEF LInv, ExperienceMatchesKnowledge
<1> QED
    BY <1>1, <1>2, <1>3, <1>4 DEF LInv, ExperienceMatchesLedger, OutstandingIsNotSuppressed

\* Every step of the loop keeps the invariant, and what a hypothesis concluded.
LEMMA dlNextInv == LInv /\ [dlNext]_dlVars => LInv' /\ KeepsConclusions(hyp, hyp')
<1> SUFFICES ASSUME LInv, [dlNext]_dlVars PROVE LInv' /\ KeepsConclusions(hyp, hyp')
    OBVIOUS
<1>0. hyp' = hyp => KeepsConclusions(hyp, hyp')
    BY DEF KeepsConclusions
<1>1. CASE \E host \in Hosts : PlanNext(host)
    BY <1>0, <1>1, PlanNextKeeps DEF PlanNext
<1>2. CASE \E c \in commands, host \in Hosts \cup {NoHost} : DriveSuppressed(c, host)
    BY <1>0, <1>2, DriveSuppressedKeeps DEF DriveSuppressed
<1>3. CASE \E c \in commands, host \in Hosts \cup {NoHost} : Drive(c, host)
    BY <1>0, <1>3, DriveKeeps DEF Drive
<1>4. CASE CallStep
  <2>1. CASE Reason
    BY <2>1, ReasonKeeps
  <2>2. CASE ReasonAgain
    BY <1>0, <2>2, ReasonAgainKeeps DEF ReasonAgain
  <2>3. CASE PlanOnSnapshot
    BY <1>0, <2>3, PlanOnSnapshotKeeps DEF PlanOnSnapshot
  <2>4. CASE CommitPlan
    BY <1>0, <2>4, CommitPlanKeeps DEF CommitPlan
  <2>5. CASE Execute
    BY <1>0, <2>5, ExecuteKeeps DEF Execute
  <2>6. CASE Apply
    BY <2>6, ApplyKeeps
  <2>7. CASE op.pc = "resume"
             /\ \E status \in Statuses, holds \in SUBSET Rules : Submit(op.host, status, holds)
    BY <1>0, <2>7, SubmitKeeps DEF Submit
  <2> QED
    BY <1>4, <2>1, <2>2, <2>3, <2>4, <2>5, <2>6, <2>7 DEF CallStep
<1>5. CASE Fail
    BY <1>0, <1>5, FailKeeps DEF Fail
<1>6. CASE \E reason \in {"RuntimeBudgetLimit", "CancelledByHost"} : HostHalts(reason)
    BY <1>0, <1>6, HostHaltsKeeps DEF HostHalts
<1>7. CASE Others
    BY <1>7, OthersKeep
<1>8. CASE UNCHANGED dlVars
  <2>1. op' \in Calls /\ SnapshotIsTrue' /\ CallFits'
    BY <1>8 DEF dlVars, LInv, SnapshotIsTrue, CallFits
  <2> QED
    BY <1>0, <1>8, <2>1, CallKeeps DEF dlVars
<1> QED
    BY <1>1, <1>2, <1>3, <1>4, <1>5, <1>6, <1>7, <1>8 DEF dlNext

(***************************************************************************)
(* The loop keeps its inductive invariant, whatever fails and whoever else *)
(* writes.                                                                 *)
(***************************************************************************)
THEOREM LoopInvariance == dlSpec => []LInv
<1>1. dlInit => LInv
    BY dlInitInv
<1>2. LInv /\ [dlNext]_dlVars => LInv'
    BY dlNextInv
<1> QED
    BY <1>1, <1>2, PTL DEF dlSpec

(***************************************************************************)
(* Knowledge, experience and session tell one story and stay within the    *)
(* loop's limits (StoresAgree).                                            *)
(***************************************************************************)
THEOREM StoresConsistent == dlSpec => []StoresAgree
<1>1. LInv => StoresAgree
  <2> SUFFICES ASSUME LInv PROVE StoresAgree
    OBVIOUS
  <2>1. /\ session \in Sessions /\ Sound(session) /\ Bounded(session) /\ op \in Calls
        /\ experience \in Seq(Outcomes)
    BY DEF LInv, Sound, Bounded
  <2>2. \A o \in Range(experience) :
            o.case \in Cases /\ o.stage \in Stages /\ o.status \in Statuses
    <3>1. Range(experience) \subseteq Outcomes
      BY <2>1 DEF Range
    <3> QED
      BY <3>1 DEF Outcomes
  <2>3. op.pc \in {"idle", "reason", "plan", "commit", "execute", "resume", "apply"}
    BY <2>1, CallCarries
  <2>4. /\ session.state \in {"Ready", "AwaitingPassive", "AwaitingActive", "Completed", "Halted"}
        /\ session.suppressed \subseteq Actions
        /\ session.cycles <= max_action_cycles /\ session.transitions <= max_transitions
    BY <2>1, LimitsAreNumbers DEF Sessions
  <2>5. dlTypeOK
    BY <2>1, <2>2, <2>3, <2>4 DEF dlTypeOK, Sound, LInv, Knowledge
  <2>6. LimitsHold
    BY <2>1, <2>4 DEF LimitsHold, Bounded
  <2> QED
    BY <2>5, <2>6 DEF LInv, StoresAgree
<1> QED
    BY <1>1, LoopInvariance, PTL

(***************************************************************************)
(* What a step may do to the session and to the experience: commit a plan  *)
(* that is current, give up a case, commit an outcome, or end the session. *)
(***************************************************************************)
CommitsPlan ==
    /\ session.state = "Ready" /\ experience' = experience
    /\ IsPlan(session', session, experience, hyp)

GivesUp ==
    /\ IsAwaiting(session) /\ experience' = experience
    /\ session'.state = "Ready" /\ SameCounters(session', session)

CommitsOutcome(o) ==
    /\ session.state = Awaiting(o.stage) /\ session.case = o.case
    /\ ~Observed(experience, o.case, o.stage)
    /\ IsConclusion(session', session, experience, o)
    /\ experience' = Append(experience, o)
    /\ MayApply(hyp, o, op.snap.current) /\ op.outcome = o

Ends ==
    /\ session.state # "Completed" /\ experience' = experience
    /\ session'.state = "Halted" /\ session'.reason # "NoEligibleAction"
    /\ SameCounters(session', session)

\* What a step of the loop may make of the session and the experience.
LEMMA SessionStep ==
    ASSUME LInv, [dlNext]_dlVars
    PROVE  \/ UNCHANGED <<session, experience>>
           \/ CommitsPlan \/ GivesUp \/ Ends
           \/ \E o \in Outcomes : CommitsOutcome(o)
<1>1. CASE \E c \in commands, host \in Hosts \cup {NoHost} : DriveSuppressed(c, host)
  <2>1. PICK c \in commands, host \in Hosts \cup {NoHost} : DriveSuppressed(c, host)
    BY <1>1
  <2>2. IsAwaiting(session)
    BY <2>1, DriveSuppressedKeeps
  <2>3. session' = Enter(session, "Ready") /\ experience' = experience
    BY <2>1 DEF DriveSuppressed
  <2>4. session.reason = "none" /\ Bounded(session)
    BY <2>2 DEF LInv, Sound, IsAwaiting
  <2>5. SameCounters(session', session) /\ session'.state = "Ready"
    BY <2>3, <2>4, EnterSound
  <2> QED
    BY <2>2, <2>3, <2>5 DEF GivesUp
<1>2. CASE CommitPlan
  <2>1. CASE op.snap.current
    <3>1. session' = op.next /\ experience' = experience /\ op.pc = "commit"
      BY <1>2, <2>1 DEF CommitPlan
    <3>2. op \in [pc : {"commit"}, snap : Snapshots, next : Sessions]
      BY <3>1, CallCarries DEF LInv
    <3>3. op.snap.hyp = hyp
      BY <2>1, <3>2 DEF LInv, SnapshotIsTrue
    <3> QED
      BY <3>1, <3>3 DEF LInv, CallFits, CommitsPlan
  <2>2. CASE ~op.snap.current
    BY <1>2, <2>2 DEF CommitPlan
  <2> QED
    BY <2>1, <2>2
<1>3. CASE Apply
  <2>1. CASE MayApply(hyp, op.outcome, op.snap.current)
    <3>1. op.pc = "apply" /\ session' = op.next /\ experience' = Append(experience, op.outcome)
      BY <1>3, <2>1 DEF Apply
    <3>2. op \in [pc : {"apply"}, snap : Snapshots, outcome : Outcomes, next : Sessions]
      BY <3>1, CallCarries DEF LInv
    <3>3. op.outcome \in Outcomes
      BY <3>2
    <3>4. CommitsOutcome(op.outcome)
      BY <2>1, <3>1 DEF LInv, CallFits, CommitsOutcome
    <3> QED
      BY <3>3, <3>4
  <2>2. CASE ~MayApply(hyp, op.outcome, op.snap.current)
    BY <1>3, <2>2 DEF Apply
  <2> QED
    BY <2>1, <2>2
<1>4. CASE \E reason \in {"RuntimeBudgetLimit", "CancelledByHost"} : HostHalts(reason)
  <2>1. PICK reason \in {"RuntimeBudgetLimit", "CancelledByHost"} : HostHalts(reason)
    BY <1>4
  <2>2. /\ session' = Halt(session, reason) /\ experience' = experience
        /\ session.state # "Completed" /\ reason \in HaltReasons
    BY <2>1 DEF HostHalts, HaltReasons
  <2>3. Bounded(session)
    BY DEF LInv, Sound
  <2>4. SameCounters(session', session) /\ session'.state = "Halted" /\ session'.reason = reason
    BY <2>2, <2>3, HaltSound
  <2> QED
    BY <2>1, <2>2, <2>4 DEF Ends
<1>5. CASE Others
    BY <1>5, OthersKeep
<1> QED
    BY <1>1, <1>2, <1>3, <1>4, <1>5 DEF dlNext, dlVars, CallStep, PlanNext, Drive, Reason,
        ReasonAgain, PlanOnSnapshot, Execute, Submit, Fail

(***************************************************************************)
(* Nothing that was decided on an old view of the knowledge is committed   *)
(* over a newer one (NothingStaleCommits).                                 *)
(***************************************************************************)
THEOREM CommitsAreCurrent == dlSpec => NothingStaleCommits
<1>1. ASSUME LInv, [dlNext]_dlVars
      PROVE  ConcurrentWriteAborts /\ ConclusionsAreFinal /\ PlannedIsCurrent
  <2>1. ConclusionsAreFinal
    BY <1>1, dlNextInv DEF ConclusionsAreFinal, KeepsConclusions
  <2>2. CASE UNCHANGED <<session, experience>>
    <3>1. session.cycles \in Nat
      BY <1>1, LimitsAreNumbers DEF LInv, Sound, Bounded, Sessions
    <3> QED
      BY <2>1, <2>2, <3>1 DEF ConcurrentWriteAborts, PlannedIsCurrent
  <2>3. CASE CommitsPlan
    <3>1. session.cycles \in Nat
      BY <1>1, LimitsAreNumbers DEF LInv, Sound, Bounded, Sessions
    <3>2. experience' = experience /\ IsPlan(session', session, experience, hyp)
      BY <2>3 DEF CommitsPlan
    <3>3. PlannedIsCurrent
      BY <3>1, <3>2 DEF IsPlan, PlannedIsCurrent
    <3> QED
      BY <2>1, <3>2, <3>3 DEF ConcurrentWriteAborts
  <2>4. CASE GivesUp \/ Ends
    <3>1. session.cycles \in Nat
      BY <1>1, LimitsAreNumbers DEF LInv, Sound, Bounded, Sessions
    <3> QED
      BY <2>1, <2>4, <3>1 DEF GivesUp, Ends, SameCounters, ConcurrentWriteAborts, PlannedIsCurrent
  <2>5. CASE \E o \in Outcomes : CommitsOutcome(o)
    <3>0. session.cycles \in Nat
      BY <1>1, LimitsAreNumbers DEF LInv, Sound, Bounded, Sessions
    <3>1. PICK o \in Outcomes : CommitsOutcome(o)
      BY <2>5
    <3>2. PlannedIsCurrent
      BY <3>0, <3>1 DEF CommitsOutcome, IsConclusion, GoesIdle, Dispatches, Escalates,
          SameCounters, PlannedIsCurrent
    <3>3. MayApply(hyp, o, op.snap.current) /\ op.outcome = o
      BY <3>1 DEF CommitsOutcome
    <3>4. \/ op.snap.current
          \/ Transitions(o) /\ hyp[HypothesisOf(o.case.action)].state = HypothesisState(o.status)
      BY <3>3 DEF MayApply
    <3> QED
      BY <2>1, <3>2, <3>3, <3>4 DEF ConcurrentWriteAborts
  <2> QED
    BY <1>1, <2>2, <2>3, <2>4, <2>5, SessionStep
<1> QED
    BY <1>1, LoopInvariance, PTL DEF dlSpec, NothingStaleCommits

-----------------------------------------------------------------------------
\* What SessionLifecycle sees of a session.
LEMMA PhaseFacts ==
    ASSUME NEW s, Sound(s)
    PROVE  /\ s.state # "Halted" => PhaseOf(s) = s.state
           /\ s.state = "Halted" /\ s.reason = "NoEligibleAction" => PhaseOf(s) = "Exhausted"
           /\ s.state = "Halted" /\ s.reason # "NoEligibleAction" => PhaseOf(s) = "Stopped"
BY DEF PhaseOf

\* A plan, an outcome and an end are steps of a session's life.
LEMMA PlanIsLife ==
    ASSUME Sound(session), session.state = "Ready", experience' = experience,
           NEW k, IsPlan(session', session, experience, k)
    PROVE  Lifecycle!Plan
<1>1. PhaseOf(session) = "Ready" /\ session.cycles \in Nat /\ Len(experience') = Len(experience)
    BY LimitsAreNumbers, PhaseFacts DEF Sound, Bounded, Sessions
<1>2. IsPlan(session', session, experience, k) /\ Sound(session')
    BY DEF IsPlan
<1>3. CASE session'.state = "Halted"
    BY <1>1, <1>2, <1>3, PhaseFacts DEF IsPlan, Lifecycle!Plan
<1>4. CASE session'.state # "Halted"
  <2>1. session'.state = "AwaitingPassive" /\ session'.cycles = session.cycles + 1
    BY <1>2, <1>4 DEF IsPlan
  <2>2. session'.cycles \in 0..max_action_cycles
    BY <1>2 DEF Sound, Bounded, Sessions
  <2>3. session.cycles < max_action_cycles
    BY <1>1, <2>1, <2>2, LimitsAreNumbers
  <2>4. PhaseOf(session)' = "AwaitingPassive"
    BY <1>2, <1>4, <2>1, PhaseFacts
  <2> QED
    BY <1>1, <2>1, <2>3, <2>4 DEF Lifecycle!Plan, Lifecycle!IssueOne
<1> QED
    BY <1>3, <1>4

\* Concluding an outcome is a step of the life of a session.
LEMMA OutcomeIsLife ==
    ASSUME EscalatesPassiveOnly, Sound(session), experience \in Seq(Outcomes),
           NEW o \in Outcomes, session.state = Awaiting(o.stage),
           IsConclusion(session', session, experience, o),
           experience' = Append(experience, o)
    PROVE  Lifecycle!Conclude
<1>1. session.state \in {"AwaitingPassive", "AwaitingActive"}
    BY DEF Awaiting
<1>2. PhaseOf(session) = session.state /\ session.cycles \in Nat
  <2>1. PhaseOf(session) = session.state
    BY <1>1, PhaseFacts
  <2>2. session.cycles \in Nat
    BY LimitsAreNumbers DEF Sound, Bounded, Sessions
  <2> QED
    BY <2>1, <2>2
<1>3. Len(experience') = Len(experience) + 1
    BY RangeAppend
<1>4. Sound(session')
    BY DEF IsConclusion
<1>5. CASE session'.state = "Halted"
  <2>1. session'.reason # "NoEligibleAction" /\ session'.cycles = session.cycles
    BY <1>5 DEF IsConclusion, GoesIdle, Dispatches, Escalates, SameCounters
  <2>2. PhaseOf(session)' = "Stopped"
    BY <1>4, <1>5, <2>1, PhaseFacts
  <2> QED
    BY <1>1, <1>2, <1>3, <2>1, <2>2 DEF Lifecycle!Conclude, Lifecycle!Awaited
<1>6. CASE session'.state \in {"Ready", "Completed"}
  <2>1. session'.cycles = session.cycles
    BY <1>6 DEF IsConclusion, GoesIdle, Dispatches, Escalates, SameCounters
  <2>2. PhaseOf(session)' = session'.state
    BY <1>4, <1>6, PhaseFacts
  <2> QED
    BY <1>1, <1>2, <1>3, <1>6, <2>1, <2>2 DEF Lifecycle!Conclude, Lifecycle!Awaited
<1>7. CASE session'.state = "AwaitingPassive"
  <2>1. session'.cycles = session.cycles + 1
    BY <1>7 DEF IsConclusion, GoesIdle, Dispatches, Escalates, SameCounters
  <2>2. PhaseOf(session)' = "AwaitingPassive"
    BY <1>4, <1>7, PhaseFacts
  <2>3. session'.cycles \in 0..max_action_cycles
    BY <1>4 DEF Sound, Bounded, Sessions
  <2>4. session.cycles < max_action_cycles
    BY <1>2, <2>1, <2>3, LimitsAreNumbers
  <2> QED
    BY <1>1, <1>2, <1>3, <2>1, <2>2, <2>4 DEF Lifecycle!Conclude, Lifecycle!IssueOne,
        Lifecycle!Awaited
<1>8. CASE session'.state = "AwaitingActive"
  <2>1. session'.cycles = session.cycles /\ o.stage = "Passive"
    BY <1>8 DEF IsConclusion, GoesIdle, Dispatches, Escalates, SameCounters
  <2>2. PhaseOf(session)' = "AwaitingActive"
    BY <1>4, <1>8, PhaseFacts
  <2> QED
    BY <1>1, <1>2, <1>3, <2>1, <2>2 DEF Lifecycle!Conclude, Lifecycle!Awaited, Awaiting
<1> QED
  <2>1. session'.state \in {"Ready", "AwaitingPassive", "AwaitingActive", "Completed", "Halted"}
    BY <1>4 DEF Sound, Bounded, Sessions
  <2> QED
    BY <1>5, <1>6, <1>7, <1>8, <2>1

\* Halting a session is a step of its life.
LEMMA EndIsLife ==
    ASSUME Sound(session), Sound(session'), Ends
    PROVE  Lifecycle!Stop
<1>1. PhaseOf(session) # "Completed" /\ PhaseOf(session)' = "Stopped"
  <2>1. session.state \in {"Ready", "AwaitingPassive", "AwaitingActive", "Halted"}
    BY DEF Sound, Bounded, Sessions, Ends
  <2> QED
    BY <2>1, PhaseFacts DEF Ends
<1> QED
    BY <1>1 DEF Ends, SameCounters, Lifecycle!Stop

\* So is giving up the case it awaits evidence for.
LEMMA GivingUpIsLife ==
    ASSUME Sound(session), Sound(session'), GivesUp
    PROVE  Lifecycle!Suppress
<1>1. PhaseOf(session) \in {"AwaitingPassive", "AwaitingActive"} /\ PhaseOf(session)' = "Ready"
    BY PhaseFacts DEF GivesUp, IsAwaiting
<1> QED
    BY <1>1 DEF GivesUp, SameCounters, Lifecycle!Suppress, Lifecycle!Awaited

\* A new session is at the beginning of its life.
LEMMA NewSessionIsLife ==
    ASSUME session = NewSession, experience = << >>
    PROVE  Lifecycle!slInit
BY DEF NewSession, PhaseOf, Lifecycle!slInit

(***************************************************************************)
(* The loop implements the life of a session (ImplementsLifecycle), for    *)
(* every policy that escalates passive outcomes only.                      *)
(***************************************************************************)
THEOREM LoopRefinesLifecycle == EscalatesPassiveOnly => (dlSpec => ImplementsLifecycle)
<1> SUFFICES ASSUME EscalatesPassiveOnly PROVE dlSpec => ImplementsLifecycle
    OBVIOUS
<1>1. dlInit => Lifecycle!slInit
    BY NewSessionIsLife DEF dlInit
<1>2. ASSUME LInv, LInv', [dlNext]_dlVars
      PROVE  [Lifecycle!slNext]_(Lifecycle!slVars)
  <2>1. Sound(session) /\ Sound(session') /\ experience \in Seq(Outcomes)
    BY <1>2 DEF LInv
  <2>2. CASE UNCHANGED <<session, experience>>
    BY <2>2 DEF Lifecycle!slVars
  <2>3. CASE CommitsPlan
    BY <2>1, <2>3, PlanIsLife DEF Lifecycle!slNext, CommitsPlan
  <2>4. CASE GivesUp
    BY <2>1, <2>4, GivingUpIsLife DEF Lifecycle!slNext
  <2>5. CASE Ends
    BY <2>1, <2>5, EndIsLife DEF Lifecycle!slNext
  <2>6. CASE \E o \in Outcomes : CommitsOutcome(o)
    BY <2>1, <2>6, OutcomeIsLife DEF Lifecycle!slNext, CommitsOutcome
  <2> QED
    BY <1>2, <2>2, <2>3, <2>4, <2>5, <2>6, SessionStep
<1> QED
    BY <1>1, <1>2, LoopInvariance, PTL DEF dlSpec, ImplementsLifecycle, Lifecycle!slSpec

-----------------------------------------------------------------------------
\* Two logs of outcomes, when one more is of a cycle that has none, or the active outcome of a
\* case that has its passive one only.
LEMMA AppendDiffers ==
    ASSUME NEW log \in Seq(Outcomes), NEW o \in Outcomes, Differ(log),
           \A p \in Range(log) :
               p.case.cycle = o.case.cycle => p.case = o.case /\ p.stage # o.stage
    PROVE  Differ(Append(log, o))
<1> DEFINE n == Len(log)
           m == Append(log, o)
<1>1. /\ n \in Nat /\ DOMAIN log = 1..n /\ DOMAIN m = 1..(n + 1)
      /\ \A i \in 1..n : m[i] = log[i]
      /\ m[n + 1] = o
    OBVIOUS
<1>2. \A i \in 1..n : log[i] \in Range(log)
    BY <1>1 DEF Range
<1>3. \A i \in DOMAIN m : i \in 1..n \/ i = n + 1
    BY <1>1
<1> HIDE DEF n, m
<1> SUFFICES ASSUME NEW i \in DOMAIN m, NEW j \in DOMAIN m, i # j,
                    m[i].case.cycle = m[j].case.cycle
             PROVE  m[i].case = m[j].case /\ m[i].stage # m[j].stage
    BY DEF Differ, m
<1>4. CASE i \in 1..n /\ j \in 1..n
    BY <1>1, <1>4 DEF Differ
<1>5. CASE i \in 1..n /\ j = n + 1
    BY <1>1, <1>2, <1>5
<1>6. CASE i = n + 1 /\ j \in 1..n
    BY <1>1, <1>2, <1>6
<1> QED
    BY <1>3, <1>4, <1>5, <1>6

\* The order of the outcomes is kept by every step, for policies that escalate passive outcomes
\* only.
LEMMA ChronologyKept ==
    ASSUME EscalatesPassiveOnly, LInv, LInv', [dlNext]_dlVars, Chronological, OutcomesDiffer
    PROVE  Chronological' /\ OutcomesDiffer'
<1>0. /\ Sound(session) /\ Sound(session') /\ experience \in Seq(Outcomes)
      /\ session.cycles \in Nat /\ session'.cycles \in Nat
    BY LimitsAreNumbers DEF LInv, Sound, Bounded, Sessions
<1>0a. Range(experience) \subseteq Outcomes
    BY <1>0 DEF Range
<1>0b. \A o \in Outcomes : o.case.cycle \in Nat
    BY LimitsAreNumbers DEF Outcomes, Cases
<1>1. CASE UNCHANGED <<session, experience>>
    BY <1>1 DEF Chronological, OutcomesDiffer
<1>2. CASE CommitsPlan
  <2>1. /\ experience' = experience
        /\ \/ session'.state = "Halted" /\ session'.cycles = session.cycles
           \/ session'.state = "AwaitingPassive" /\ session'.cycles = session.cycles + 1
    BY <1>2 DEF CommitsPlan, IsPlan
  <2>2. \A o \in Range(experience) : o.case.cycle \in Nat /\ o.case.cycle <= session.cycles
    BY <1>0a, <1>0b DEF Chronological
  <2>3. OutcomesDiffer'
    BY <2>1 DEF OutcomesDiffer
  <2>4. Chronological'
    BY <1>0, <2>1, <2>2 DEF Chronological
  <2> QED
    BY <2>3, <2>4
<1>3. CASE GivesUp \/ Ends
    BY <1>3 DEF GivesUp, Ends, SameCounters, Chronological, OutcomesDiffer
<1>4. CASE \E o \in Outcomes : CommitsOutcome(o)
  <2>1. PICK o \in Outcomes : CommitsOutcome(o)
    BY <1>4
  <2>2. /\ session.state = Awaiting(o.stage) /\ session.case = o.case
        /\ IsConclusion(session', session, experience, o)
        /\ experience' = Append(experience, o)
    BY <2>1 DEF CommitsOutcome
  <2>3. Range(experience') = Range(experience) \cup {o}
    BY <1>0, <2>2, RangeAppend
  <2>4. o.case.cycle = session.cycles
    BY <1>0, <2>2 DEF Sound, IsAwaiting, Awaiting
  <2>5. \A p \in Range(experience) :
            p.case.cycle = o.case.cycle => p.case = o.case /\ p.stage # o.stage
    <3>1. CASE session.state = "AwaitingPassive"
      BY <2>4, <3>1 DEF Chronological
    <3>2. CASE session.state # "AwaitingPassive"
      <4>1. session.state = "AwaitingActive" /\ o.stage = "Active"
        BY <2>2, <3>2 DEF Awaiting, Outcomes, Stages
      <4> QED
        BY <2>2, <2>4, <4>1 DEF Chronological
    <3> QED
      BY <3>1, <3>2
  <2>6. OutcomesDiffer'
    <3>1. Differ(Append(experience, o))
      BY <1>0, <2>5, AppendDiffers DEF OutcomesDiffer
    <3> QED
      BY <2>2, <3>1 DEF OutcomesDiffer
  <2>7. \A p \in Range(experience') : p.case.cycle \in Nat /\ p.case.cycle <= session.cycles
    BY <1>0, <1>0a, <1>0b, <2>3, <2>4 DEF Chronological
  <2>8. CASE session'.state \notin {"AwaitingPassive", "AwaitingActive"}
    <3>1. session'.cycles = session.cycles
      BY <2>2, <2>8 DEF IsConclusion, GoesIdle, Dispatches, Escalates, SameCounters
    <3> QED
      BY <2>6, <2>7, <2>8, <3>1 DEF Chronological
  <2>9. CASE session'.state = "AwaitingPassive"
    <3>1. session'.cycles = session.cycles + 1
      BY <2>2, <2>9 DEF IsConclusion, GoesIdle, Dispatches, Escalates, SameCounters
    <3>2. \A p \in Range(experience') :
              p.case.cycle <= session'.cycles /\ p.case.cycle # session'.cycles
      BY <1>0, <2>7, <3>1
    <3> QED
      BY <2>6, <2>9, <3>2 DEF Chronological
  <2>10. CASE session'.state = "AwaitingActive"
    <3>1. session'.cycles = session.cycles /\ session'.case = o.case /\ o.stage = "Passive"
      BY <2>2, <2>10 DEF IsConclusion, GoesIdle, Dispatches, Escalates, SameCounters
    <3>2. session.state = "AwaitingPassive"
      BY <2>2, <3>1 DEF Awaiting
    <3>3. \A p \in Range(experience') :
              p.case.cycle = session'.cycles => p.case = session'.case /\ p.stage = "Passive"
      BY <2>3, <3>1, <3>2 DEF Chronological
    <3>4. Observed(experience', session'.case, "Passive")
      BY <2>3, <3>1 DEF Observed
    <3>5. \A p \in Range(experience') : p.case.cycle <= session'.cycles
      BY <2>7, <3>1
    <3> QED
      BY <2>6, <2>10, <3>3, <3>4, <3>5 DEF Chronological
  <2> QED
    BY <2>8, <2>9, <2>10
<1> QED
    BY <1>1, <1>2, <1>3, <1>4, SessionStep

(***************************************************************************)
(* The command that is outstanding is one worth running, and the only one  *)
(* that is run (OutstandingIsLive), for every policy that escalates        *)
(* passive outcomes only.                                                  *)
(***************************************************************************)
THEOREM OutstandingLive == EscalatesPassiveOnly => (dlSpec => []OutstandingIsLive)
<1> SUFFICES ASSUME EscalatesPassiveOnly PROVE dlSpec => []OutstandingIsLive
    OBVIOUS
<1>1. dlInit => Chronological /\ OutcomesDiffer
  <2> SUFFICES ASSUME dlInit PROVE Chronological /\ OutcomesDiffer
    OBVIOUS
  <2>1. Range(experience) = {} /\ DOMAIN experience = {} /\ session.state = "Ready"
    BY DEF dlInit, Range, NewSession
  <2> QED
    BY <2>1 DEF Chronological, OutcomesDiffer, Differ
<1>2. LInv /\ LInv' /\ [dlNext]_dlVars /\ Chronological /\ OutcomesDiffer
      => Chronological' /\ OutcomesDiffer'
    BY ChronologyKept
<1>3. LInv /\ Chronological /\ OutcomesDiffer => OutstandingIsLive
  <2> SUFFICES ASSUME LInv, Chronological, OutcomesDiffer PROVE OutstandingIsLive
    OBVIOUS
  <2>1. EvidenceIsForOutstanding
    BY DEF LInv, CallFits, EvidenceIsForOutstanding
  <2>2. session.state = "AwaitingPassive" => \A o \in Range(experience) : o.case # session.case
    BY DEF LInv, Sound, IsAwaiting, Chronological
  <2>3. session.state = "AwaitingActive" =>
            /\ Observed(experience, session.case, "Passive")
            /\ ~Observed(experience, session.case, "Active")
    BY DEF LInv, Sound, IsAwaiting, Chronological, Observed
  <2>4. OutstandingIsUnrecorded
    BY <2>2, <2>3 DEF OutstandingIsUnrecorded, OutcomesDiffer, Differ
  <2> QED
    BY <2>1, <2>4 DEF OutstandingIsLive, LInv
<1> QED
    BY <1>1, <1>2, <1>3, LoopInvariance, PTL DEF dlSpec

-----------------------------------------------------------------------------
(***************************************************************************)
(* The web runtime.  There are fewer actions than a continuation rule has  *)
(* applications, so the rules of a run are never used up: every one of     *)
(* their applications suppresses another action.                           *)
(***************************************************************************)
GoOn == Directive("Replan", "none", TRUE)

\* The rules of a web run suppress the action and go on, or halt.
LEMMA WebRulesFacts ==
    ASSUME OnlyWebRules
    PROVE  /\ ContinuationRules \subseteq Rules
           /\ \A r \in Rules :
                  \/ r \in ContinuationRules /\ r.directive = GoOn
                  \/ r \notin ContinuationRules /\ r.directive = Directive("Halt", "none", FALSE)
           /\ \A r \in ContinuationRules : r.max_applications = U16_MAX /\ r.directive = GoOn
           /\ EscalatesPassiveOnly
<1>1. \A id, st, sg : /\ Continuation(id, st, sg).max_applications = U16_MAX
                      /\ Continuation(id, st, sg).directive = GoOn
    BY DEF Continuation, GoOn
<1>2. \A r \in ContinuationRules : r.max_applications = U16_MAX /\ r.directive = GoOn
    BY <1>1 DEF ContinuationRules
<1>3. AuthorizationStop.directive = Directive("Halt", "none", FALSE)
    BY DEF AuthorizationStop
<1>4. GoOn.kind = "Replan" /\ Directive("Halt", "none", FALSE).kind = "Halt"
    BY DEF GoOn, Directive
<1>5. AuthorizationStop \notin ContinuationRules
    BY <1>2, <1>3, <1>4
<1>6. Rules = ContinuationRules \cup {AuthorizationStop}
    BY DEF OnlyWebRules, WebRules
<1> QED
    BY <1>2, <1>3, <1>4, <1>5, <1>6 DEF EscalatesPassiveOnly

\* An outcome that ends an objective, one way or another.
Settles(o) ==
    o.status \in {"Success", "Blocked"} \/ (o.status = "Unknown" /\ o.stage = "Active")

\* For each of these there is a continuation.
LEMMA ContinuationFor ==
    ASSUME NEW o \in Outcomes, Settles(o)
    PROVE  \E r \in ContinuationRules : o.status \in r.statuses /\ o.stage \in r.stages
<1>1. \A id, st, sg : Continuation(id, st, sg).statuses = st /\ Continuation(id, st, sg).stages = sg
    BY DEF Continuation
<1>2. o.stage \in Stages
    BY DEF Outcomes
<1> QED
    BY <1>1, <1>2 DEF Settles, ContinuationRules

\* The suppressions of a session bound the applications of its continuation rules.
Unspent(s) ==
    /\ IsAwaiting(s) => s.case.action \notin s.suppressed
    /\ \A r \in ContinuationRules : s.applied[r] <= Cardinality(s.suppressed)

\* The number of suppressed actions, while the session awaits evidence for another one.
LEMMA SuppressedCount ==
    ASSUME FewActions, NEW s, Bounded(s), NEW a \in Actions, a \notin s.suppressed
    PROVE  /\ Cardinality(s.suppressed) \in Nat /\ Cardinality(s.suppressed) < U16_MAX
           /\ Cardinality(s.suppressed \cup {a}) = Cardinality(s.suppressed) + 1
<1>1. s.suppressed \in SUBSET Actions
    BY DEF Bounded, Sessions
<1>2. IsFiniteSet(s.suppressed) /\ Cardinality(s.suppressed) <= Cardinality(Actions)
      /\ (Cardinality(Actions) = Cardinality(s.suppressed) => Actions = s.suppressed)
    BY <1>1, ActionsFinite, FS_Subset
<1>3. Cardinality(s.suppressed) \in Nat /\ Cardinality(Actions) \in Nat
    BY <1>2, ActionsFinite, FS_CardinalityType
<1>4. Cardinality(s.suppressed) < Cardinality(Actions)
    BY <1>2, <1>3
<1>5. U16_MAX \in Nat
    BY SMT DEF U16_MAX
<1>6. Cardinality(s.suppressed) < U16_MAX
    BY <1>3, <1>4, <1>5 DEF FewActions
<1>7. Cardinality(s.suppressed \cup {a}) = Cardinality(s.suppressed) + 1
    BY <1>2, FS_AddElement
<1> QED
    BY <1>3, <1>6, <1>7

\* The directive for an outcome of a web run.
IsWebDirective(d, o) ==
    \/ d = GoOn
    \/ d = Directive("Halt", "none", FALSE)
    \/ /\ d.kind = "AwaitActiveVerification" /\ d.flag = FALSE
       /\ ~Settles(o)

\* The directive that answers an outcome of a web run is one of those.
LEMMA WebDirective ==
    ASSUME OnlyWebRules, FewActions, NEW s, Sound(s), Unspent(s), IsAwaiting(s),
           NEW o \in Outcomes, o.case = s.case, NEW policy, NEW holds \in Holding
    PROVE  IsWebDirective(Selected(s, o, policy, holds), o)
<1> DEFINE d == Selected(s, o, policy, holds)
           rules == EligibleRules(s, o, policy, holds)
<1>0. ContinuationRules \subseteq holds /\ holds \subseteq Rules
    BY DEF Holding, OnlyWebRules, WebRules
<1>1. IsSelection(d, rules, s, o)
    BY <1>0, SelectedShape
<1>2. CASE rules # {}
  <2> HIDE DEF d, rules
  <2>1. Winner(rules) \in Rules /\ d = Winner(rules).directive
    BY <1>1, <1>2 DEF IsSelection
  <2> QED
    BY <2>1, WebRulesFacts DEF IsWebDirective, d
<1>3. CASE rules = {}
  <2>1. ~Settles(o)
    <3> SUFFICES ASSUME Settles(o) PROVE FALSE
      OBVIOUS
    <3>1. PICK r \in ContinuationRules : o.status \in r.statuses /\ o.stage \in r.stages
      BY ContinuationFor
    <3>2. r.max_applications = U16_MAX /\ r.directive = GoOn /\ r \in Rules
      BY WebRulesFacts
    <3>3. ScheduledAction(GoOn) = {} /\ RepeatedAction(GoOn, o.case.action) = {}
      BY DEF ScheduledAction, RepeatedAction, GoOn, Directive
    <3>4. s.applied[r] \in Nat /\ s.applied[r] <= Cardinality(s.suppressed)
      BY <3>2 DEF Unspent, Sound, Bounded, Sessions
    <3>5. s.case.action \in Actions /\ s.case.action \notin s.suppressed /\ Bounded(s)
      BY DEF Unspent, Sound, Cases
    <3>6. Cardinality(s.suppressed) \in Nat /\ Cardinality(s.suppressed) < U16_MAX
      BY <3>5, SuppressedCount
    <3>7. U16_MAX \in Nat
      BY SMT DEF U16_MAX
    <3>8. ~(s.applied[r] >= U16_MAX)
      BY <3>4, <3>6, <3>7
    <3>9. ~RuleExhausted(s, r)
      BY <3>2, <3>8 DEF RuleExhausted
    <3>10. r \in rules
      BY <1>0, <3>1, <3>2, <3>3, <3>9 DEF EligibleRules
    <3> QED
      BY <1>3, <3>10
  <2> HIDE DEF d, rules
  <2>2. d = Fallback(o)
    BY <1>1, <1>3 DEF IsSelection
  <2>3. o.status \in {"ConfirmedNegative", "Unknown"} /\ (o.status = "Unknown" => o.stage = "Passive")
    BY <2>1 DEF Settles, Outcomes, Statuses, Stages
  <2>4. CASE o.status = "ConfirmedNegative"
    <3>1. Fallback(o) = GoOn
      BY <2>4, Zenon DEF Fallback, GoOn
    <3> QED
      BY <2>2, <3>1 DEF IsWebDirective, d
  <2>5. CASE o.status = "Unknown"
    <3>1. Fallback(o) = Directive("AwaitActiveVerification", "none", FALSE)
      BY <2>3, <2>5, Zenon DEF Fallback
    <3>2. d.kind = "AwaitActiveVerification" /\ d.flag = FALSE
      BY <2>2, <3>1 DEF Directive
    <3> QED
      BY <2>1, <3>2 DEF IsWebDirective, d
  <2> QED
    BY <2>3, <2>4, <2>5 DEF d
<1> QED
    BY <1>2, <1>3

\* The applications a recorded decision leaves.
LEMMA RecordCounts ==
    ASSUME NEW s \in Sessions, NEW o, NEW policy, NEW holds,
           NEW q \in Rules
    PROVE  Record(s, o, policy, holds).applied[q]
               = IF /\ EligibleRules(s, o, policy, holds) # {}
                    /\ q = Winner(EligibleRules(s, o, policy, holds))
                 THEN s.applied[q] + 1 ELSE s.applied[q]
<1> DEFINE rules == EligibleRules(s, o, policy, holds)
           d == Selected(s, o, policy, holds)
           applied == [r \in Rules |->
               IF rules # {} /\ r = Winner(rules) THEN s.applied[r] + 1 ELSE s.applied[r]]
           schedules == [a \in Actions |->
               IF a \in ScheduledAction(d) THEN s.schedules[a] + 1 ELSE s.schedules[a]]
           suppressed == IF d.kind = "Replan" /\ d.flag
                         THEN s.suppressed \cup {o.case.action} ELSE s.suppressed
           t == s.transitions + 1
<1>1. Record(s, o, policy, holds)
        = [s EXCEPT !.transitions = t, !.applied = applied, !.schedules = schedules,
                    !.suppressed = suppressed]
    BY Zenon DEF Record
<1>2. applied[q] = IF rules # {} /\ q = Winner(rules) THEN s.applied[q] + 1 ELSE s.applied[q]
    OBVIOUS
<1> HIDE DEF rules, d, applied, schedules, suppressed, t
<1>3. Record(s, o, policy, holds).applied = applied
    BY <1>1 DEF Sessions
<1>4. Record(s, o, policy, holds).applied[q]
        = IF rules # {} /\ q = Winner(rules) THEN s.applied[q] + 1 ELSE s.applied[q]
    BY <1>2, <1>3
<1> QED
    BY <1>4 DEF rules

\* Recording the decision keeps the bound on the applications.
RulesUnspent(r) == \A q \in ContinuationRules : r.applied[q] <= Cardinality(r.suppressed)

\* Recording the directive leaves the applications bounded.
LEMMA RecordUnspent ==
    ASSUME OnlyWebRules, FewActions, NEW s, Sound(s), Unspent(s), IsAwaiting(s),
           NEW o \in Outcomes, o.case = s.case, NEW policy, NEW holds \in Holding,
           ~LimitReached(s)
    PROVE  RulesUnspent(Record(s, o, policy, holds))
<1> DEFINE r == Record(s, o, policy, holds)
           d == Selected(s, o, policy, holds)
           rules == EligibleRules(s, o, policy, holds)
           a == s.case.action
<1>0. holds \subseteq Rules
    BY DEF Holding, OnlyWebRules, WebRules
<1>1. Bounded(s) /\ s \in Sessions /\ a \in Actions /\ a \notin s.suppressed
    BY DEF Sound, Bounded, Unspent, Cases
<1>2. Recorded(r, s, o, d)
  <2>1. r = Record(s, o, policy, holds) /\ d = Selected(s, o, policy, holds)
    OBVIOUS
  <2> HIDE DEF r, d
  <2> QED
    BY <1>0, <1>1, <2>1, RecordShape
<1>3. r.suppressed = IF d.kind = "Replan" /\ d.flag THEN s.suppressed \cup {a} ELSE s.suppressed
    BY <1>2 DEF Recorded
<1>4. IsSelection(d, rules, s, o)
    BY <1>0, SelectedShape
<1>5. \A q \in Rules : r.applied[q] = IF rules # {} /\ q = Winner(rules)
                                      THEN s.applied[q] + 1 ELSE s.applied[q]
    BY <1>1, RecordCounts
<1> HIDE DEF r, d, rules, a
<1> DEFINE m == Cardinality(s.suppressed)
<1>6. m \in Nat /\ Cardinality(s.suppressed \cup {a}) = m + 1
    BY <1>1, SuppressedCount
<1> HIDE DEF m
<1>7. Cardinality(r.suppressed) \in {m, m + 1}
    BY <1>3, <1>6 DEF m
<1>8. ASSUME NEW q \in ContinuationRules PROVE r.applied[q] <= Cardinality(r.suppressed)
  <2>1. q \in Rules /\ q.directive = GoOn
    BY WebRulesFacts
  <2>2. s.applied[q] \in Nat /\ s.applied[q] <= m
    BY <1>1, <2>1 DEF Unspent, Bounded, Sessions, m
  <2>3. CASE rules # {} /\ q = Winner(rules)
    <3>1. d = GoOn
      BY <1>4, <2>1, <2>3 DEF IsSelection
    <3>2. d.kind = "Replan" /\ d.flag
      BY <3>1 DEF GoOn, Directive
    <3>3. Cardinality(r.suppressed) = m + 1
      BY <1>3, <1>6, <3>2
    <3>4. r.applied[q] = s.applied[q] + 1
      BY <1>5, <2>1, <2>3
    <3> QED
      BY <1>6, <2>2, <3>3, <3>4
  <2>4. CASE ~(rules # {} /\ q = Winner(rules))
    <3>1. r.applied[q] = s.applied[q]
      BY <1>5, <2>1, <2>4
    <3> QED
      BY <1>6, <1>7, <2>2, <3>1
  <2> QED
    BY <2>3, <2>4
<1> QED
    BY <1>8 DEF RulesUnspent, r

\* What an outcome makes of the session of a web run: it goes on, with the directive d, or the
\* pipeline has stopped it.
IsJudgement(n, o, d) ==
    /\ Unspent(n)
    /\ \/ n.state = "Halted" /\ n.reason = "AdaptationLimit"
       \/ /\ n.state \in {"Ready", "AwaitingActive"} /\ n.reason = "none"
          /\ d = GoOn \/ (d.kind = "AwaitActiveVerification" /\ ~Settles(o))

\* What judging an outcome may make of the session of a run.
LEMMA JudgedShape ==
    ASSUME OnlyWebRules, FewActions, NEW s, Sound(s), Unspent(s), IsAwaiting(s),
           NEW o \in Outcomes, o.case = s.case, NEW log, NEW snap, NEW host,
           NEW holds \in Holding,
           NEW n \in Conclusions(s, log, snap, o, host, holds)
    PROVE  IsJudgement(n, o, IF LimitReached(s) THEN Directive("Halt", "none", FALSE)
                             ELSE Selected(s, o, Policy(Append(log, o), s, Suppressions(host)), holds))
<1> DEFINE sup == Suppressions(host)
           policy == Policy(Append(log, o), s, sup)
           k == Prospective(snap.hyp, o)
           d == Selected(s, o, policy, holds)
           r == Record(s, o, policy, holds)
<1>0. /\ Bounded(s) /\ s.reason = "none" /\ s.case.cycle = s.cycles /\ s.case \in Cases
      /\ holds \subseteq Rules
    BY DEF Sound, IsAwaiting, Holding, OnlyWebRules, WebRules
<1>1. CASE LimitReached(s)
  <2>1. n = Halt(s, "AdaptationLimit")
    BY <1>1, Zenon DEF Conclusions
  <2>2. SameCounters(n, s) /\ n.state = "Halted" /\ n.reason = "AdaptationLimit"
    BY <1>0, <2>1, HaltSound DEF HaltReasons
  <2>3. Unspent(n)
    BY <2>2 DEF Unspent, SameCounters, IsAwaiting
  <2> QED
    BY <2>2, <2>3 DEF IsJudgement
<1>2. CASE ~LimitReached(s)
  <2>1. n \in Transition(r, k, o, d, policy, sup.defense)
    BY <1>2, Zenon DEF Conclusions
  <2>2. IsWebDirective(d, o)
    BY WebDirective
  <2>3. RulesUnspent(r)
    BY <1>2, RecordUnspent
  <2>4. Recorded(r, s, o, d)
    <3>1. r = Record(s, o, policy, holds) /\ d = Selected(s, o, policy, holds)
      OBVIOUS
    <3> HIDE DEF r, d, policy
    <3> QED
      BY <1>0, <1>2, <3>1, RecordShape
  <2>5. Bounded(r) /\ r.reason = "none" /\ r.case = s.case /\ r.cycles = s.cycles
    BY <1>0, <2>4 DEF Recorded
  <2> SUFFICES IsJudgement(n, o, d)
    BY <1>2, Zenon
  <2> HIDE DEF r, d, policy, k, sup
  <2>6. CASE d = GoOn
    <3>1. d.kind = "Replan"
      BY <2>6 DEF GoOn, Directive
    <3>2. n = Enter(r, "Ready")
      BY <2>1, <3>1 DEF Transition
    <3>3. SameCounters(n, r) /\ n.state = "Ready" /\ n.reason = "none"
      BY <2>5, <3>2, EnterSound
    <3>4. Unspent(n)
      BY <2>3, <3>3 DEF Unspent, RulesUnspent, SameCounters, IsAwaiting
    <3> QED
      BY <2>6, <3>3, <3>4 DEF IsJudgement
  <2>7. CASE d = Directive("Halt", "none", FALSE)
    <3>1. d.kind = "Halt"
      BY <2>7 DEF Directive
    <3>2. n = Halt(r, "AdaptationLimit")
      BY <2>1, <3>1 DEF Transition
    <3>3. SameCounters(n, r) /\ n.state = "Halted" /\ n.reason = "AdaptationLimit"
      BY <2>5, <3>2, HaltSound DEF HaltReasons
    <3>4. Unspent(n)
      BY <2>3, <3>3 DEF Unspent, RulesUnspent, SameCounters, IsAwaiting
    <3> QED
      BY <3>3, <3>4 DEF IsJudgement
  <2>8. CASE d.kind = "AwaitActiveVerification" /\ d.flag = FALSE /\ ~Settles(o)
    <3>1. n \in Continue(r, o.case.action, Authorized(k, o.case.action, policy), sup.defense,
                         Escalate(r))
      BY <2>1, <2>8 DEF Transition
    <3>2. CASE n = Enter(r, "Ready")
      <4>1. SameCounters(n, r) /\ n.state = "Ready" /\ n.reason = "none"
        BY <2>5, <3>2, EnterSound
      <4>2. Unspent(n)
        BY <2>3, <4>1 DEF Unspent, RulesUnspent, SameCounters, IsAwaiting
      <4> QED
        BY <2>8, <4>1, <4>2 DEF IsJudgement
    <3>3. CASE n = Escalate(r)
      <4>1. /\ SameCounters(n, r) /\ n.state = "AwaitingActive" /\ n.reason = "none"
            /\ n.case = s.case
        BY <1>0, <2>5, <3>3, EscalateSound
      <4>2. r.suppressed = s.suppressed
        BY <2>4, <2>8 DEF Recorded
      <4>3. Unspent(n)
        BY <2>3, <4>1, <4>2 DEF Unspent, RulesUnspent, SameCounters
      <4> QED
        BY <2>8, <4>1, <4>3 DEF IsJudgement
    <3> QED
      BY <3>1, <3>2, <3>3 DEF Continue
  <2> QED
    BY <2>2, <2>6, <2>7, <2>8 DEF IsWebDirective
<1> QED
    BY <1>1, <1>2

(***************************************************************************)
(* The inductive invariant of a run.                                       *)
(***************************************************************************)
Ledgers == [level : Proceed..Reconsider, blocks : 0..2]
RunPoints == {"start", "bootstrap", "bootstrapped", "loop", "planned", "execute", "executed",
              "judged", "ended"}

RunValues ==
    /\ hyp \in Knowledge
    /\ Sound(session)
    /\ experience \in Seq(Outcomes)
    /\ ledger \in Ledgers
    /\ broker \in [requests : Nat, active : Nat, bytes : Nat]
    /\ usage \in [attempts : [Actions \cup {Bootstrap} -> Nat], noProgress : Nat]
    /\ cases \in [success : BOOLEAN, unresolved : BOOLEAN]
    /\ receipts \in Nat
    /\ stop \in [cancelled : BOOLEAN, late : BOOLEAN]
    /\ pc \in RunPoints

\* The session fits the point the run is at, and its rules are not used up.
SessionFits ==
    /\ pc \in {"start", "bootstrap", "bootstrapped"} =>
           session.state = "Ready" /\ experience = << >>
    /\ pc \in {"execute", "executed"} => IsAwaiting(session)
    /\ pc # "ended" => session.state # "Completed" /\ session.reason # "HumanReview"
    /\ Unspent(session)

\* Every receipt is the bootstrap's, one of a judged turn, or the one to be judged.
ReceiptsCounted ==
    /\ pc \in {"start", "bootstrap"} => receipts = Len(experience)
    /\ pc \in {"bootstrapped", "loop", "planned", "execute", "judged"} =>
           receipts = Len(experience) + 1
    /\ pc = "executed" => receipts = Len(experience) + 2

\* The representative cases are those of the outcomes, unless the pipeline has stopped the run.
CasesAre(log, c) ==
    /\ c.success <=> \E o \in Range(log) : o.status = "Success"
    /\ c.unresolved <=> \E o \in Range(log) : Unresolved(o)

CasesFollow ==
    pc # "ended" /\ session.reason # "AdaptationLimit" => CasesAre(experience, cases)

WithinProgress ==
    pc \notin {"judged", "ended"} =>
        usage.noProgress < max_consecutive_no_progress_turns \/ usage.noProgress = 0

BrokerHolds ==
    /\ broker.requests <= max_total_requests
    /\ broker.active <= max_active_verifications
    /\ max_response_bytes > 0 => broker.bytes < max_response_bytes + ChunkBytes

AttemptsHold == \A a \in Actions \cup {Bootstrap} : usage.attempts[a] <= max_same_action_attempts

ReportHolds ==
    /\ pc = "ended" <=> report # NoReport
    /\ ReportMatchesSession /\ TerminalFollowsOutcomes /\ EvidenceIsReported

WInv ==
    /\ RunValues /\ SessionFits /\ ReceiptsCounted /\ CasesFollow /\ WithinProgress
    /\ BrokerHolds /\ AttemptsHold /\ CommandIsPermitted /\ ReportHolds

\* The limits of a run are numbers.
LEMMA RunLimits ==
    /\ max_total_requests \in Nat /\ max_response_bytes \in Nat /\ max_active_verifications \in Nat
    /\ max_same_action_attempts \in Nat /\ max_consecutive_no_progress_turns \in Nat
    /\ ChunkBytes \in Nat
BY WebRuntimeAssumption

\* The invariant of a run holds at the start.
LEMMA wrInitInv ==
    ASSUME OnlyWebRules, wrInit
    PROVE  WInv
<1> USE DEF wrInit
<1>1. hyp \in Knowledge
    BY DEF Knowledge, HypothesisValues
<1>2. /\ Sound(session) /\ session.state = "Ready" /\ session.reason = "none"
      /\ session.suppressed = {} /\ session.applied = [r \in Rules |-> 0]
    BY NewSessionSound DEF NewSession
<1>3. experience \in Seq(Outcomes) /\ Len(experience) = 0 /\ Range(experience) = {}
    BY DEF Range
<1>4. RunValues
    BY <1>1, <1>2, <1>3 DEF RunValues, Ledgers, RunPoints, Proceed, Reconsider
<1>5. SessionFits
  <2>1. \A r \in ContinuationRules : session.applied[r] <= Cardinality(session.suppressed)
    BY <1>2, WebRulesFacts, FS_EmptySet
  <2> QED
    BY <1>2, <2>1 DEF SessionFits, Unspent, IsAwaiting
<1>6. ReceiptsCounted /\ CasesFollow /\ WithinProgress
    BY <1>3 DEF ReceiptsCounted, CasesFollow, CasesAre, WithinProgress
<1>7. BrokerHolds /\ AttemptsHold
    BY RunLimits DEF BrokerHolds, AttemptsHold
<1>8. CommandIsPermitted
    BY <1>2 DEF CommandIsPermitted, IsAwaiting
<1>9. ReportHolds
  <2>1. report.kind = "none"
    BY DEF NoReport
  <2> QED
    BY <2>1 DEF ReportHolds, ReportMatchesSession, TerminalFollowsOutcomes, EvidenceIsReported
<1> QED
    BY <1>4, <1>5, <1>6, <1>7, <1>8, <1>9 DEF WInv

\* A session that is halted or made ready keeps its rules.
LEMMA RestUnspent ==
    ASSUME NEW s, Unspent(s), NEW n, SameCounters(n, s), ~IsAwaiting(n)
    PROVE  Unspent(n)
BY DEF Unspent, SameCounters

\* Halting the session for the host.
LEMMA HostHalt ==
    ASSUME NEW s, Sound(s), Unspent(s), NEW reason \in {"CancelledByHost", "RuntimeBudgetLimit"}
    PROVE  /\ Sound(Halt(s, reason)) /\ Unspent(Halt(s, reason))
           /\ SameCounters(Halt(s, reason), s)
           /\ Halt(s, reason).state = "Halted" /\ Halt(s, reason).reason = reason
           /\ IsTerminal(Halt(s, reason)) /\ ~IsAwaiting(Halt(s, reason))
           /\ TerminalOf(Halt(s, reason)) = reason
<1> DEFINE n == Halt(s, reason)
<1>1. Bounded(s) /\ reason \in HaltReasons
    BY DEF Sound, HaltReasons
<1>2. Sound(n) /\ SameCounters(n, s) /\ n.state = "Halted" /\ n.reason = reason
    BY <1>1, HaltSound
<1> HIDE DEF n
<1>3. IsTerminal(n) /\ ~IsAwaiting(n)
    BY <1>2 DEF IsTerminal, IsAwaiting
<1>4. TerminalOf(n) = reason
    BY <1>2 DEF TerminalOf
<1> QED
    BY <1>2, <1>3, <1>4, RestUnspent DEF n

\* What is left of the invariant when a run has ended.
LEMMA EndedInv ==
    ASSUME RunValues', pc' = "ended", Unspent(session'), BrokerHolds, AttemptsHold,
           UNCHANGED <<broker, usage>>, report' # NoReport,
           ReportMatchesSession', TerminalFollowsOutcomes', EvidenceIsReported'
    PROVE  WInv'
<1>1. SessionFits' /\ ReceiptsCounted' /\ CasesFollow' /\ WithinProgress' /\ CommandIsPermitted'
    BY DEF SessionFits, ReceiptsCounted, CasesFollow, WithinProgress, CommandIsPermitted
<1>2. BrokerHolds' /\ AttemptsHold'
    BY DEF BrokerHolds, AttemptsHold
<1> QED
    BY <1>1, <1>2 DEF WInv, ReportHolds

\* The evidence that is counted is what the report says.
LEMMA EvidenceCounted ==
    ASSUME RunValues, ReceiptsCounted, pc # "ended", NEW terminal, NEW limit,
           NEW unverified \in BOOLEAN, unverified <=> pc = "executed",
           Returns(terminal, limit, unverified), UNCHANGED <<experience, receipts>>
    PROVE  /\ EvidenceIsReported' /\ report' # NoReport
           /\ report'.kind = "report" /\ report'.terminal = terminal
<1>1. /\ report'.kind = "report" /\ report'.terminal = terminal
      /\ report'.turns = Len(experience) /\ report'.unverified = unverified
      /\ report'.bootstrapped = (pc \notin {"start", "bootstrap"})
    BY DEF Returns
<1>2. report' # NoReport
    BY <1>1 DEF NoReport
<1>3. Len(experience) \in Nat /\ receipts \in Nat /\ pc \in RunPoints
    BY DEF RunValues
<1>4. receipts = Len(experience) + (IF pc \notin {"start", "bootstrap"} THEN 1 ELSE 0)
                                 + (IF unverified THEN 1 ELSE 0)
  <2>1. CASE pc \in {"start", "bootstrap"}
    BY <1>3, <2>1 DEF ReceiptsCounted
  <2>2. CASE pc = "executed"
    BY <1>3, <2>2 DEF ReceiptsCounted
  <2>3. CASE pc \notin {"start", "bootstrap", "executed"}
    <3>1. pc \in {"bootstrapped", "loop", "planned", "execute", "judged"} /\ ~unverified
      BY <1>3, <2>3 DEF RunPoints
    <3>2. receipts = Len(experience) + 1
      BY <3>1 DEF ReceiptsCounted
    <3> QED
      BY <1>3, <2>3, <3>1, <3>2
  <2> QED
    BY <2>1, <2>2, <2>3
<1>5. EvidenceIsReported'
    BY <1>1, <1>4 DEF EvidenceIsReported
<1> QED
    BY <1>1, <1>2, <1>5

\* The host, a limit or the clock ends the run.
LEMMA StopKeeps ==
    ASSUME WInv, pc # "ended", NEW terminal \in {"CancelledByHost", "RuntimeBudgetLimit"},
           NEW limit, NEW unverified \in BOOLEAN, unverified <=> pc = "executed",
           session' = Halt(session, terminal), Returns(terminal, limit, unverified),
           pc' = "ended", ledger' \in Ledgers,
           UNCHANGED <<hyp, experience, broker, usage, cases, receipts, stop>>
    PROVE  WInv'
<1>1. RunValues /\ ReceiptsCounted /\ Sound(session) /\ Unspent(session) /\ BrokerHolds /\ AttemptsHold
    BY DEF WInv, RunValues, SessionFits
<1>2. /\ Sound(session') /\ Unspent(session') /\ IsTerminal(session')
      /\ TerminalOf(session') = terminal
    BY <1>1, HostHalt
<1>3. /\ EvidenceIsReported' /\ report' # NoReport
      /\ report'.kind = "report" /\ report'.terminal = terminal
    BY <1>1, EvidenceCounted
<1>4. RunValues'
    BY <1>1, <1>2 DEF RunValues, RunPoints
<1>5. ReportMatchesSession'
    BY <1>2, <1>3 DEF ReportMatchesSession
<1>6. TerminalFollowsOutcomes'
    BY <1>3 DEF TerminalFollowsOutcomes
<1> QED
    BY <1>1, <1>2, <1>3, <1>4, <1>5, <1>6, EndedInv

\* Cancellation keeps the invariant.
LEMMA CancellationKeeps ==
    ASSUME WInv, pc # "ended", NEW unverified \in BOOLEAN, unverified <=> pc = "executed",
           CancellationReport(unverified), ledger' \in Ledgers,
           UNCHANGED <<hyp, experience, broker, usage, cases, receipts, stop>>
    PROVE  WInv'
BY StopKeeps DEF CancellationReport

\* Limit keeps the invariant.
LEMMA LimitKeeps ==
    ASSUME WInv, pc # "ended", NEW limit, NEW unverified \in BOOLEAN,
           unverified <=> pc = "executed",
           LimitReport(limit, unverified), ledger' \in Ledgers,
           UNCHANGED <<hyp, experience, broker, usage, cases, receipts, stop>>
    PROVE  WInv'
BY StopKeeps DEF LimitReport

\* A component fails.
LEMMA FailureKeeps ==
    ASSUME WInv, pc # "ended", RunFailed,
           UNCHANGED <<hyp, experience, ledger, broker, usage, cases, receipts, stop>>
    PROVE  WInv'
<1>1. RunValues /\ Unspent(session) /\ BrokerHolds /\ AttemptsHold
    BY DEF WInv, SessionFits
<1>2. session' = session /\ report' = [kind |-> "failed"] /\ pc' = "ended"
    BY DEF RunFailed
<1>3. report'.kind = "failed"
    BY <1>2
<1>4. report' # NoReport
    BY <1>3 DEF NoReport
<1>5. RunValues'
    BY <1>1, <1>2 DEF RunValues, RunPoints
<1>6. ReportMatchesSession' /\ TerminalFollowsOutcomes' /\ EvidenceIsReported'
    BY <1>3 DEF ReportMatchesSession, TerminalFollowsOutcomes, EvidenceIsReported
<1> QED
    BY <1>1, <1>2, <1>4, <1>5, <1>6, EndedInv

\* The natural end of a session: the aggregate of its outcomes.
LEMMA AggregateShape ==
    ASSUME RunValues, Unspent(session), IsTerminal(session), session.state # "Completed",
           session.reason # "HumanReview"
    PROVE  /\ Sound(Aggregate(session)) /\ Unspent(Aggregate(session))
           /\ IsTerminal(Aggregate(session))
           /\ SameCounters(Aggregate(session), session)
           /\ \/ /\ session.reason = "NoEligibleAction" /\ cases.unresolved
                 /\ TerminalOf(Aggregate(session)) = "AwaitHumanReview"
                 /\ Aggregate(session).state = "Halted" /\ Aggregate(session).reason = "HumanReview"
              \/ /\ session.reason = "NoEligibleAction" /\ ~cases.unresolved /\ cases.success
                 /\ TerminalOf(Aggregate(session)) = "Complete"
                 /\ Aggregate(session).state = "Completed"
              \/ /\ session.reason = "NoEligibleAction" /\ ~cases.unresolved /\ ~cases.success
                 /\ TerminalOf(Aggregate(session)) = "NoEligibleAction"
                 /\ Aggregate(session) = session
              \/ /\ session.reason \notin {"NoEligibleAction", "HumanReview"}
                 /\ TerminalOf(Aggregate(session)) = session.reason
                 /\ Aggregate(session) = session
<1>1. /\ Sound(session) /\ Bounded(session) /\ session.state = "Halted"
      /\ session.reason \in HaltReasons
      /\ cases.success \in BOOLEAN /\ cases.unresolved \in BOOLEAN
    BY DEF RunValues, Sound, IsTerminal
<1>2. CASE session.reason = "NoEligibleAction" /\ cases.unresolved
  <2> DEFINE n == Halt(session, "HumanReview")
  <2>1. Aggregate(session) = n
    BY <1>2 DEF Aggregate
  <2>2. Sound(n) /\ SameCounters(n, session) /\ n.state = "Halted" /\ n.reason = "HumanReview"
    BY <1>1, HaltSound DEF HaltReasons
  <2> HIDE DEF n
  <2>3. IsTerminal(n) /\ ~IsAwaiting(n)
    BY <2>2 DEF IsTerminal, IsAwaiting
  <2>4. TerminalOf(n) = "AwaitHumanReview"
    BY <2>2 DEF TerminalOf
  <2> QED
    BY <1>2, <2>1, <2>2, <2>3, <2>4, RestUnspent
<1>3. CASE session.reason = "NoEligibleAction" /\ ~cases.unresolved /\ cases.success
  <2> DEFINE n == [Enter(session, "Completed") EXCEPT !.reason = "none"]
  <2>1. Aggregate(session) = n
    BY <1>3 DEF Aggregate
  <2>2. Sound(n) /\ SameCounters(n, session) /\ n.state = "Completed"
    BY <1>1 DEF Sound, Bounded, Sessions, Enter, IsAwaiting, SameCounters
  <2> HIDE DEF n
  <2>3. IsTerminal(n) /\ ~IsAwaiting(n)
    BY <2>2 DEF IsTerminal, IsAwaiting
  <2>4. TerminalOf(n) = "Complete"
    BY <2>2 DEF TerminalOf
  <2> QED
    BY <1>3, <2>1, <2>2, <2>3, <2>4, RestUnspent
<1>4. CASE \/ session.reason = "NoEligibleAction" /\ ~cases.unresolved /\ ~cases.success
           \/ session.reason # "NoEligibleAction"
  <2>1. Aggregate(session) = session
    BY <1>1, <1>4 DEF Aggregate
  <2>2. TerminalOf(session) = session.reason
    BY <1>1 DEF TerminalOf
  <2>3. SameCounters(session, session)
    BY DEF SameCounters
  <2> QED
    BY <1>1, <1>4, <2>1, <2>2, <2>3
<1> QED
    BY <1>1, <1>2, <1>3, <1>4

\* Finish keeps the invariant.
LEMMA FinishKeeps ==
    ASSUME WInv, pc \notin {"ended", "executed"}, IsTerminal(session), Finish,
           UNCHANGED <<hyp, experience, ledger, broker, usage, cases, receipts, stop>>
    PROVE  WInv'
<1>1. /\ RunValues /\ ReceiptsCounted /\ Unspent(session) /\ BrokerHolds /\ AttemptsHold
      /\ session.state # "Completed" /\ session.reason # "HumanReview"
      /\ session.reason # "AdaptationLimit" => CasesAre(experience, cases)
    BY DEF WInv, SessionFits, CasesFollow
<1> DEFINE n == Aggregate(session)
           t == TerminalOf(session')
<1>2. session' = n /\ Returns(t, "none", FALSE) /\ pc' = "ended"
    BY DEF Finish
<1>3. /\ EvidenceIsReported' /\ report' # NoReport
      /\ report'.kind = "report" /\ report'.terminal = t
    BY <1>1, <1>2, EvidenceCounted
<1>4. /\ Sound(n) /\ Unspent(n) /\ IsTerminal(n)
      /\ \/ session.reason = "NoEligibleAction" /\ cases.unresolved /\ t = "AwaitHumanReview"
         \/ /\ session.reason = "NoEligibleAction" /\ ~cases.unresolved /\ cases.success
            /\ t = "Complete"
         \/ /\ session.reason = "NoEligibleAction" /\ ~cases.unresolved /\ ~cases.success
            /\ t = "NoEligibleAction"
         \/ session.reason \notin {"NoEligibleAction", "HumanReview"} /\ t = session.reason
    BY <1>1, <1>2, AggregateShape
<1> HIDE DEF n, t
<1>5. RunValues'
    BY <1>1, <1>2, <1>4 DEF RunValues, RunPoints
<1>6. ReportMatchesSession'
    BY <1>2, <1>3, <1>4 DEF ReportMatchesSession, t
<1>7. session.reason \in HaltReasons
    BY <1>1 DEF RunValues, Sound, IsTerminal
<1>8. TerminalFollowsOutcomes'
  <2>1. CASE session.reason = "NoEligibleAction"
    <3>1. CasesAre(experience, cases)
      BY <1>1, <2>1
    <3> QED
      BY <1>3, <1>4, <2>1, <3>1 DEF TerminalFollowsOutcomes, CasesAre
  <2>2. CASE session.reason # "NoEligibleAction"
    BY <1>3, <1>4, <1>7, <2>2 DEF TerminalFollowsOutcomes, HaltReasons
  <2> QED
    BY <2>1, <2>2
<1> QED
    BY <1>1, <1>2, <1>3, <1>4, <1>5, <1>6, <1>8, EndedInv

\* The run goes on to another point with its session and its counters.
LEMMA MoveKeeps ==
    ASSUME WInv, pc # "ended", pc' \in RunPoints \ {"ended"},
           UNCHANGED <<hyp, session, experience, broker, cases, report>>,
           ledger' \in Ledgers, receipts' \in Nat, stop' \in [cancelled : BOOLEAN, late : BOOLEAN],
           usage' \in [attempts : [Actions \cup {Bootstrap} -> Nat], noProgress : Nat],
           AttemptsHold', ReceiptsCounted', WithinProgress', CommandIsPermitted',
           pc' \in {"start", "bootstrap", "bootstrapped"} =>
               session.state = "Ready" /\ experience = << >>,
           pc' \in {"execute", "executed"} => IsAwaiting(session)
    PROVE  WInv'
<1>1. RunValues'
    BY DEF WInv, RunValues
<1>2. SessionFits' /\ CasesFollow'
    BY DEF WInv, SessionFits, CasesFollow
<1>3. BrokerHolds'
    BY DEF WInv, BrokerHolds
<1>4. ReportHolds'
  <2>1. report' = NoReport /\ report'.kind = "none"
    BY DEF WInv, ReportHolds, NoReport
  <2> QED
    BY <2>1 DEF ReportHolds, ReportMatchesSession, TerminalFollowsOutcomes, EvidenceIsReported
<1> QED
    BY <1>1, <1>2, <1>3, <1>4 DEF WInv

\* Dispatching what fits the point the run is at.
LEMMA DispatchedKeeps ==
    ASSUME WInv, NEW a \in Actions \cup {Bootstrap}, NEW stage, NEW next,
           \/ pc = "start" /\ next = "bootstrap"
           \/ pc = "loop" /\ next = "execute" /\ IsAwaiting(session),
           Dispatched(a, stage, next),
           UNCHANGED <<hyp, experience, ledger, broker, cases, receipts, stop>>
    PROVE  WInv'
<1>0. pc \notin {"ended", "executed"} /\ ledger' \in Ledgers
    BY DEF WInv, RunValues
<1>1. CASE CancellationReport(FALSE) /\ UNCHANGED usage
    BY <1>0, <1>1, CancellationKeeps
<1>2. CASE LimitReport(Refusal(a, stage), FALSE) /\ UNCHANGED usage
    BY <1>0, <1>2, LimitKeeps
<1>3. CASE /\ Refusal(a, stage) = "none" /\ usage' = [usage EXCEPT !.attempts[a] = @ + 1]
           /\ pc' = next /\ UNCHANGED <<session, report>>
  <2>1. ~(usage.attempts[a] >= max_same_action_attempts)
    BY <1>3 DEF Refusal
  <2>2. usage \in [attempts : [Actions \cup {Bootstrap} -> Nat], noProgress : Nat]
    BY DEF WInv, RunValues
  <2>3. usage.attempts[a] \in Nat
    BY <2>2
  <2>4. usage.attempts[a] + 1 <= max_same_action_attempts /\ usage.attempts[a] + 1 \in Nat
    BY <2>1, <2>3, RunLimits
  <2> DEFINE m == usage.attempts[a] + 1
  <2>5. usage' = [usage EXCEPT !.attempts[a] = m]
    BY <1>3
  <2> HIDE DEF m
  <2>6. m \in Nat /\ m <= max_same_action_attempts
    BY <2>4 DEF m
  <2>7. /\ usage' \in [attempts : [Actions \cup {Bootstrap} -> Nat], noProgress : Nat]
        /\ usage'.noProgress = usage.noProgress
        /\ \A b \in Actions \cup {Bootstrap} :
               usage'.attempts[b] = IF b = a THEN m ELSE usage.attempts[b]
    BY <2>2, <2>5, <2>6
  <2>8. AttemptsHold'
    BY <2>6, <2>7 DEF WInv, AttemptsHold
  <2>9. ReceiptsCounted' /\ WithinProgress'
    BY <1>3, <2>7 DEF WInv, ReceiptsCounted, WithinProgress
  <2>10. CommandIsPermitted'
    BY <1>3 DEF WInv, CommandIsPermitted, SessionFits, IsAwaiting
  <2>11. pc' \in RunPoints \ {"ended"} /\ receipts' \in Nat
         /\ stop' \in [cancelled : BOOLEAN, late : BOOLEAN]
    BY <1>3 DEF WInv, RunValues, RunPoints
  <2>12. /\ pc' \in {"start", "bootstrap", "bootstrapped"} =>
                session.state = "Ready" /\ experience = << >>
         /\ pc' \in {"execute", "executed"} => IsAwaiting(session)
    BY <1>3 DEF WInv, SessionFits
  <2> QED
    BY <1>0, <1>3, <2>7, <2>8, <2>9, <2>10, <2>11, <2>12, MoveKeeps
<1> QED
    BY <1>1, <1>2, <1>3 DEF Dispatched

\* Start keeps the invariant.
LEMMA StartKeeps ==
    ASSUME WInv, Start
    PROVE  WInv'
BY DispatchedKeeps DEF Start

\* Run keeps the invariant.
LEMMA RunKeeps ==
    ASSUME WInv, Run
    PROVE  WInv'
<1>0. pc = "loop" /\ IsAwaiting(session) /\ session.case.action \in Actions
    BY DEF Run, WInv, RunValues, Sound, Cases
<1>1. session.case.action \notin Defended(ledger)
    BY <1>0 DEF WInv, CommandIsPermitted
<1>2. Dispatched(session.case.action, Stage, "execute")
    BY <1>1 DEF Run
<1> QED
    BY <1>0, <1>2, DispatchedKeeps DEF Run

\* SendRequest keeps the invariant.
LEMMA SendRequestKeeps ==
    ASSUME WInv, NEW bytes \in 0..ChunkBytes, SendRequest(bytes)
    PROVE  WInv'
<1>1. /\ broker \in [requests : Nat, active : Nat, bytes : Nat]
      /\ broker.requests \in Nat /\ broker.active \in Nat /\ broker.bytes \in Nat
      /\ BrokerHolds /\ bytes \in Nat /\ bytes <= ChunkBytes
    BY RunLimits DEF WInv, RunValues
<1>2. RequestLimit(Stage) = "none"
    BY DEF SendRequest
<1>3. ~(broker.requests >= max_total_requests)
    BY <1>2 DEF RequestLimit
<1>4. broker.requests < max_total_requests
    BY <1>1, <1>3, RunLimits
<1>5. ~(broker.bytes >= max_response_bytes)
    BY <1>2, <1>4 DEF RequestLimit
<1>6. broker.bytes < max_response_bytes
    BY <1>1, <1>5, RunLimits
<1>7. Stage = "Active" => ~(broker.active >= max_active_verifications)
    BY <1>2, <1>4, <1>6 DEF RequestLimit
<1>8. /\ broker'.requests = broker.requests + 1
      /\ broker'.active = IF Stage = "Active" THEN broker.active + 1 ELSE broker.active
      /\ broker'.bytes = broker.bytes + bytes
      /\ broker' \in [requests : Nat, active : Nat, bytes : Nat]
    BY <1>1 DEF SendRequest
<1>9. broker'.requests <= max_total_requests
    BY <1>1, <1>4, <1>8, RunLimits
<1>10. broker'.active <= max_active_verifications
    BY <1>1, <1>7, <1>8, RunLimits DEF BrokerHolds
<1>11. broker'.bytes < max_response_bytes + ChunkBytes
    BY <1>1, <1>6, <1>8, RunLimits
<1>12. BrokerHolds'
    BY <1>9, <1>10, <1>11 DEF BrokerHolds
<1>13. RunValues'
    BY <1>8 DEF WInv, RunValues, SendRequest
<1>14. /\ SessionFits' /\ ReceiptsCounted' /\ CasesFollow' /\ WithinProgress' /\ AttemptsHold'
       /\ CommandIsPermitted' /\ ReportHolds'
    BY DEF WInv, SendRequest, SessionFits, ReceiptsCounted, CasesFollow, WithinProgress,
        AttemptsHold, CommandIsPermitted, ReportHolds, ReportMatchesSession,
        TerminalFollowsOutcomes, EvidenceIsReported
<1> QED
    BY <1>12, <1>13, <1>14 DEF WInv

\* Executed keeps the invariant.
LEMMA ExecutedKeeps ==
    ASSUME WInv, Executed
    PROVE  WInv'
<1>1. /\ pc \in {"bootstrap", "execute"} /\ Len(experience) \in Nat /\ receipts \in Nat
      /\ ledger' \in Ledgers /\ stop' \in [cancelled : BOOLEAN, late : BOOLEAN]
      /\ usage' \in [attempts : [Actions \cup {Bootstrap} -> Nat], noProgress : Nat]
    BY DEF WInv, RunValues, Executed, Executing
<1>2. /\ pc = "bootstrap" => pc' = "bootstrapped"
      /\ pc = "execute" => pc' = "executed"
      /\ receipts' = receipts + 1
    BY DEF Executed
<1>3. ReceiptsCounted'
    BY <1>1, <1>2 DEF WInv, ReceiptsCounted, Executed
<1>4. AttemptsHold' /\ WithinProgress'
    BY <1>1, <1>2 DEF WInv, AttemptsHold, WithinProgress, Executed
<1>5. CommandIsPermitted'
    BY <1>1, <1>2 DEF CommandIsPermitted
<1>6. /\ pc' \in {"start", "bootstrap", "bootstrapped"} =>
             session.state = "Ready" /\ experience = << >>
      /\ pc' \in {"execute", "executed"} => IsAwaiting(session)
    BY <1>1, <1>2 DEF WInv, SessionFits
<1>7. pc' \in RunPoints \ {"ended"} /\ receipts' \in Nat /\ pc # "ended"
    BY <1>1, <1>2 DEF RunPoints
<1> QED
    BY <1>1, <1>3, <1>4, <1>5, <1>6, <1>7, MoveKeeps DEF Executed

\* What an observation adds to the ledger.
LEMMA IngestType ==
    ASSUME ledger \in Ledgers, NEW a, Ingest(a)
    PROVE  ledger' \in Ledgers
<1>1. CASE UNCHANGED ledger
    BY <1>1
<1>2. CASE \E response \in Responses : ledger' = Ingested(ledger, response)
  <2>1. PICK response \in Responses : ledger' = Ingested(ledger, response)
    BY <1>2
  <2>2. response \in 0..4
    BY WebRuntimeAssumption DEF Proceed, HaltLine
  <2>3. ledger.level \in 0..3 /\ ledger.blocks \in 0..2
    BY DEF Ledgers, Proceed, Reconsider
  <2>4. CASE response = 4
    <3> DEFINE b == IF ledger.blocks < 2 THEN ledger.blocks + 1 ELSE ledger.blocks
    <3>1. ledger' = [ledger EXCEPT !.blocks = b]
      BY <2>1, <2>4 DEF Ingested, HaltLine
    <3>2. b \in 0..2
      BY <2>3
    <3> HIDE DEF b
    <3> QED
      BY <3>1, <3>2 DEF Ledgers
  <2>5. CASE response # 4
    <3> DEFINE l == IF response > ledger.level THEN response ELSE ledger.level
    <3>1. ledger' = [ledger EXCEPT !.level = l]
      BY <2>1, <2>5 DEF Ingested, HaltLine
    <3>2. l \in Proceed..Reconsider
      BY <2>2, <2>3, <2>5 DEF Proceed, Reconsider
    <3> HIDE DEF l
    <3> QED
      BY <3>1, <3>2 DEF Ledgers
  <2> QED
    BY <2>4, <2>5
<1> QED
    BY <1>1, <1>2 DEF Ingest

\* Bootstrapped keeps the invariant.
LEMMA BootstrappedKeeps ==
    ASSUME WInv, Bootstrapped
    PROVE  WInv'
<1>0. pc = "bootstrapped" /\ ledger' \in Ledgers /\ session.state = "Ready"
    BY IngestType DEF WInv, RunValues, SessionFits, Bootstrapped
<1>1. CASE LimitReport("ResponseBytes", FALSE)
    BY <1>0, <1>1, LimitKeeps DEF Bootstrapped
<1>2. CASE CancellationReport(FALSE)
    BY <1>0, <1>2, CancellationKeeps DEF Bootstrapped
<1>3. CASE pc' = "loop" /\ UNCHANGED <<session, report>>
  <2>1. ReceiptsCounted' /\ AttemptsHold' /\ WithinProgress'
    BY <1>0, <1>3 DEF WInv, ReceiptsCounted, AttemptsHold, WithinProgress, Bootstrapped
  <2>2. CommandIsPermitted'
    BY <1>0, <1>3 DEF CommandIsPermitted, IsAwaiting
  <2>3. /\ usage' \in [attempts : [Actions \cup {Bootstrap} -> Nat], noProgress : Nat]
        /\ receipts' \in Nat /\ stop' \in [cancelled : BOOLEAN, late : BOOLEAN]
        /\ pc' \in RunPoints \ {"ended"} /\ pc # "ended"
    BY <1>0, <1>3 DEF WInv, RunValues, Bootstrapped, RunPoints
  <2> QED
    BY <1>0, <1>3, <2>1, <2>2, <2>3, MoveKeeps DEF Bootstrapped
<1> QED
    BY <1>1, <1>2, <1>3 DEF Bootstrapped

\* LeaveUnverified keeps the invariant.
LEMMA LeaveUnverifiedKeeps ==
    ASSUME WInv, LeaveUnverified
    PROVE  WInv'
<1>0. pc = "executed" /\ ledger' \in Ledgers
    BY IngestType DEF WInv, RunValues, LeaveUnverified
<1>1. CASE LimitReport("ResponseBytes", TRUE)
    BY <1>0, <1>1, LimitKeeps DEF LeaveUnverified
<1>2. CASE CancellationReport(TRUE)
    BY <1>0, <1>2, CancellationKeeps DEF LeaveUnverified
<1> QED
    BY <1>1, <1>2 DEF LeaveUnverified

\* The context of a call is one, with the suppressions of the ledger.
LEMMA ContextFacts ==
    ASSUME NEW l
    PROVE  /\ Suppressions(Context(l)) = Context(l)
           /\ Context(l).policy = unsupported /\ Context(l).defense = Defended(l)
<1>1. Context(l).policy = unsupported /\ Context(l).defense = Defended(l)
    BY DEF Context
<1>2. Defended(l) \subseteq Actions /\ unsupported \subseteq Actions
    BY WebRuntimeAssumption DEF Defended
<1>3. Context(l) \in [policy : SUBSET Actions, defense : SUBSET Actions]
    BY <1>2 DEF Context
<1>4. Context(l) # NoHost
    BY <1>3, WebRuntimeAssumption
<1> QED
    BY <1>1, <1>4 DEF Suppressions

\* What judging an outcome makes of the session, the knowledge and the cases.
Judgement(o, d) ==
    /\ session.case = o.case /\ session.state = Awaiting(o.stage)
    /\ IsConclusion(session', session, experience, o)
    /\ IsAwaiting(session') => session'.case.action \notin unsupported \cup Defended(ledger')
    /\ IsJudgement(session', o, d)
    /\ hyp' \in Knowledge
    /\ experience' = Append(experience, o)
    /\ cases' = Classified(o, d)
    /\ usage' \in [attempts : [Actions \cup {Bootstrap} -> Nat], noProgress : Nat]
    /\ usage'.attempts = usage.attempts

\* What judging evidence may make of the session, with the outcome it records.
LEMMA JudgeShape ==
    ASSUME OnlyWebRules, FewActions, WInv, NEW status \in Statuses, NEW holds \in Holding,
           Judge(status, holds)
    PROVE  \E o \in Outcomes : \E d : Judgement(o, d)
<1> DEFINE o == [case |-> session.case, stage |-> Stage, status |-> status]
           snap == [hyp |-> hyp, current |-> TRUE]
           host == Context(ledger')
           log == Append(experience, o)
           d == IF LimitReached(session) THEN Directive("Halt", "none", FALSE)
                ELSE Selected(session, o, Policy(log, session, host), holds)
<1>0. /\ Sound(session) /\ IsAwaiting(session) /\ Unspent(session)
      /\ hyp \in Knowledge /\ session.case \in Cases
      /\ usage \in [attempts : [Actions \cup {Bootstrap} -> Nat], noProgress : Nat]
    BY DEF WInv, RunValues, SessionFits, Judge, Sound
<1>1. o \in Outcomes /\ o.case = session.case /\ o.stage = Stage
    BY <1>0 DEF Outcomes, Stage, Stages
<1>2. session.state = Awaiting(o.stage)
    BY <1>0, <1>1 DEF IsAwaiting, Awaiting, Stage
<1>3. /\ MayApply(hyp, o, TRUE)
      /\ \E next \in Conclusions(session, experience, snap, o, host, holds) :
             /\ session' = next
             /\ usage' = [usage EXCEPT !.noProgress = IF MadeProgress(o, d, next) THEN 0 ELSE @ + 1]
      /\ hyp' = Prospective(hyp, o) /\ experience' = log /\ cases' = Classified(o, d)
    BY Zenon DEF Judge, ResumeContext
<1>4. holds \subseteq Rules
    BY DEF Holding, OnlyWebRules, WebRules
<1>5. session' \in Conclusions(session, experience, snap, o, host, holds)
    BY <1>3
<1>6. Suppressions(host) = host /\ host.policy = unsupported /\ host.defense = Defended(ledger')
    BY ContextFacts
<1>7. d = IF LimitReached(session) THEN Directive("Halt", "none", FALSE)
          ELSE Selected(session, o, Policy(Append(experience, o), session, Suppressions(host)), holds)
    BY <1>6
<1> HIDE DEF o, snap, host, d
<1>8. /\ IsConclusion(session', session, experience, o)
      /\ IsAwaiting(session') =>
             session'.case.action \notin Suppressions(host).policy \cup Suppressions(host).defense
    BY <1>0, <1>1, <1>4, <1>5, ConclusionShape
<1>9. IsJudgement(session', o, d)
    BY <1>0, <1>1, <1>5, <1>7, JudgedShape
<1>10. hyp' \in Knowledge
    BY <1>0, <1>1, <1>3, ProspectiveKeeps
<1>11. /\ usage' \in [attempts : [Actions \cup {Bootstrap} -> Nat], noProgress : Nat]
       /\ usage'.attempts = usage.attempts
  <2>1. PICK m \in Nat : usage' = [usage EXCEPT !.noProgress = m]
    <3>1. usage.noProgress + 1 \in Nat
      BY <1>0
    <3>2. PICK next : usage' = [usage EXCEPT !.noProgress =
                                    IF MadeProgress(o, d, next) THEN 0 ELSE usage.noProgress + 1]
      BY <1>3
    <3> DEFINE m == IF MadeProgress(o, d, next) THEN 0 ELSE usage.noProgress + 1
    <3>3. m \in Nat
      BY <3>1
    <3>4. usage' = [usage EXCEPT !.noProgress = m]
      BY <3>2
    <3> HIDE DEF m
    <3> QED
      BY <3>3, <3>4
  <2> QED
    BY <1>0, <2>1
<1>12. Judgement(o, d)
    BY <1>1, <1>2, <1>3, <1>6, <1>8, <1>9, <1>10, <1>11 DEF Judgement
<1> QED
    BY <1>1, <1>12

\* Judge keeps the invariant.
LEMMA JudgeKeeps ==
    ASSUME OnlyWebRules, FewActions, WInv, NEW status \in Statuses, NEW holds \in Holding,
           Judge(status, holds)
    PROVE  WInv'
<1>0. PICK o \in Outcomes : \E d : Judgement(o, d)
    BY JudgeShape
<1>1. PICK d : Judgement(o, d)
    BY <1>0
<1>2. /\ pc = "executed" /\ pc' = "judged" /\ UNCHANGED <<broker, receipts, stop, report>>
      /\ ledger' \in Ledgers
    BY IngestType DEF WInv, RunValues, Judge
<1>3. experience \in Seq(Outcomes) /\ session.reason = "none"
    BY <1>2 DEF WInv, RunValues, SessionFits, Sound, IsAwaiting
<1>4. /\ experience' \in Seq(Outcomes) /\ Len(experience') = Len(experience) + 1
      /\ Range(experience') = Range(experience) \cup {o}
    BY <1>1, <1>3, RangeAppend DEF Judgement
<1>5. Sound(session') /\ Unspent(session')
    BY <1>1 DEF Judgement, IsConclusion, IsJudgement
<1>6. cases \in [success : BOOLEAN, unresolved : BOOLEAN]
    BY DEF WInv, RunValues
<1>7. /\ cases' \in [success : BOOLEAN, unresolved : BOOLEAN]
      /\ session'.reason # "AdaptationLimit" => CasesAre(experience', cases')
  <2>0. CasesAre(experience, cases)
    BY <1>2, <1>3 DEF WInv, CasesFollow
  <2>1. CASE d.kind = "Replan" /\ d.flag
    <3>1. cases' = [success |-> cases.success \/ o.status = "Success",
                    unresolved |-> \/ cases.unresolved
                                   \/ o.status = "Blocked"
                                   \/ o.status = "Unknown" /\ o.stage = "Active"]
      BY <1>1, <2>1 DEF Judgement, Classified
    <3>2. CasesAre(experience', cases')
      BY <1>4, <2>0, <3>1 DEF CasesAre, Unresolved
    <3> QED
      BY <3>1, <3>2
  <2>2. CASE ~(d.kind = "Replan" /\ d.flag)
    <3>1. cases' = cases
      BY <1>1, <2>2 DEF Judgement, Classified
    <3>2. ASSUME session'.reason # "AdaptationLimit" PROVE ~Settles(o)
      <4>1. d # GoOn
        BY <2>2 DEF GoOn, Directive
      <4> QED
        BY <1>1, <3>2, <4>1 DEF Judgement, IsJudgement
    <3>3. ASSUME session'.reason # "AdaptationLimit" PROVE CasesAre(experience', cases')
      BY <1>4, <2>0, <3>1, <3>2, <3>3 DEF CasesAre, Unresolved, Settles
    <3> QED
      BY <1>6, <3>1, <3>3
  <2> QED
    BY <2>1, <2>2
<1>8. RunValues'
    BY <1>1, <1>2, <1>4, <1>5, <1>7 DEF WInv, RunValues, RunPoints, Judgement
<1>9. SessionFits'
  <2>1. session'.state # "Completed" /\ session'.reason # "HumanReview"
    BY <1>1 DEF Judgement, IsJudgement
  <2> QED
    BY <1>2, <1>5, <2>1 DEF SessionFits
<1>10. ReceiptsCounted'
  <2>1. receipts = Len(experience) + 2 /\ Len(experience) \in Nat
    BY <1>2, <1>3 DEF WInv, ReceiptsCounted
  <2> QED
    BY <1>2, <1>4, <2>1 DEF ReceiptsCounted
<1>11. CasesFollow' /\ WithinProgress'
    BY <1>2, <1>7 DEF CasesFollow, WithinProgress
<1>12. BrokerHolds' /\ AttemptsHold'
    BY <1>1, <1>2 DEF WInv, BrokerHolds, AttemptsHold, Judgement
<1>13. CommandIsPermitted'
    BY <1>1 DEF CommandIsPermitted, Judgement
<1>14. ReportHolds'
  <2>1. report' = NoReport /\ report'.kind = "none"
    BY <1>2 DEF WInv, ReportHolds, NoReport
  <2> QED
    BY <1>2, <2>1 DEF ReportHolds, ReportMatchesSession, TerminalFollowsOutcomes, EvidenceIsReported
<1> QED
    BY <1>8, <1>9, <1>10, <1>11, <1>12, <1>13, <1>14 DEF WInv

\* The run goes back to its loop after an outcome or a plan.
LEMMA BackToLoop ==
    ASSUME WInv, pc \in {"judged", "planned"}, pc' = "loop", WithinProgress',
           UNCHANGED <<hyp, session, experience, ledger, broker, usage, cases, receipts, stop, report>>
    PROVE  WInv'
<1>1. /\ ReceiptsCounted' /\ AttemptsHold' /\ CommandIsPermitted'
    BY DEF WInv, ReceiptsCounted, AttemptsHold, CommandIsPermitted
<1>2. /\ usage' \in [attempts : [Actions \cup {Bootstrap} -> Nat], noProgress : Nat]
      /\ receipts' \in Nat /\ stop' \in [cancelled : BOOLEAN, late : BOOLEAN]
      /\ pc' \in RunPoints \ {"ended"} /\ pc # "ended" /\ ledger' \in Ledgers
    BY DEF WInv, RunValues, RunPoints
<1> QED
    BY <1>1, <1>2, MoveKeeps

\* AfterOutcome keeps the invariant.
LEMMA AfterOutcomeKeeps ==
    ASSUME WInv, AfterOutcome
    PROVE  WInv'
<1>0. /\ pc = "judged" /\ ledger' \in Ledgers
      /\ UNCHANGED <<hyp, experience, ledger, broker, usage, cases, receipts, stop>>
    BY DEF WInv, RunValues, AfterOutcome
<1>1. CASE IsTerminal(session)
  <2>1. Finish
    BY <1>1 DEF AfterOutcome
  <2> QED
    BY <1>0, <1>1, <2>1, FinishKeeps
<1>2. CASE ~IsTerminal(session) /\ stop.cancelled
  <2>1. CancellationReport(FALSE)
    BY <1>2 DEF AfterOutcome
  <2> QED
    BY <1>0, <2>1, CancellationKeeps
<1> DEFINE stuck == /\ usage.noProgress >= max_consecutive_no_progress_turns
                    /\ usage.noProgress > 0
<1>3. CASE ~IsTerminal(session) /\ ~stop.cancelled /\ stuck
  <2>1. LimitReport("ConsecutiveNoProgressTurns", FALSE)
    BY <1>3 DEF AfterOutcome
  <2> QED
    BY <1>0, <2>1, LimitKeeps
<1>4. CASE ~IsTerminal(session) /\ ~stop.cancelled /\ ~stuck /\ stop.late
  <2>1. LimitReport("WallTime", FALSE)
    BY <1>4 DEF AfterOutcome
  <2> QED
    BY <1>0, <2>1, LimitKeeps
<1>5. CASE ~IsTerminal(session) /\ ~stop.cancelled /\ ~stuck /\ ~stop.late
  <2>1. pc' = "loop" /\ UNCHANGED <<session, report>>
    BY <1>5 DEF AfterOutcome
  <2>2. usage.noProgress \in Nat
    BY DEF WInv, RunValues
  <2>3. usage.noProgress < max_consecutive_no_progress_turns \/ usage.noProgress = 0
    BY <1>5, <2>2, RunLimits
  <2>4. WithinProgress'
    BY <1>0, <2>3 DEF WithinProgress
  <2> QED
    BY <1>0, <2>1, <2>4, BackToLoop
<1> QED
    BY <1>1, <1>2, <1>3, <1>4, <1>5

\* AfterPlan keeps the invariant.
LEMMA AfterPlanKeeps ==
    ASSUME WInv, AfterPlan
    PROVE  WInv'
<1>0. /\ pc = "planned" /\ ledger' \in Ledgers
      /\ UNCHANGED <<hyp, experience, ledger, broker, usage, cases, receipts, stop>>
    BY DEF WInv, RunValues, AfterPlan
<1>1. CASE stop.cancelled
  <2>1. CancellationReport(FALSE)
    BY <1>1 DEF AfterPlan
  <2> QED
    BY <1>0, <2>1, CancellationKeeps
<1>2. CASE ~stop.cancelled /\ IsTerminal(session)
  <2>1. Finish
    BY <1>2 DEF AfterPlan
  <2> QED
    BY <1>0, <1>2, <2>1, FinishKeeps
<1>3. CASE ~stop.cancelled /\ ~IsTerminal(session) /\ stop.late
  <2>1. LimitReport("WallTime", FALSE)
    BY <1>3 DEF AfterPlan
  <2> QED
    BY <1>0, <2>1, LimitKeeps
<1>4. CASE ~stop.cancelled /\ ~IsTerminal(session) /\ ~stop.late
  <2>1. pc' = "loop" /\ UNCHANGED <<session, report>>
    BY <1>4 DEF AfterPlan
  <2>2. WithinProgress'
    BY <1>0, <2>1 DEF WInv, WithinProgress
  <2> QED
    BY <1>0, <2>1, <2>2, BackToLoop
<1> QED
    BY <1>1, <1>2, <1>3, <1>4

\* StopBeforePlanning keeps the invariant.
LEMMA StopBeforePlanningKeeps ==
    ASSUME WInv, StopBeforePlanning
    PROVE  WInv'
<1>0. pc = "loop" /\ ledger' \in Ledgers
    BY DEF WInv, RunValues, StopBeforePlanning
<1>1. CASE CancellationReport(FALSE)
    BY <1>0, <1>1, CancellationKeeps DEF StopBeforePlanning
<1>2. CASE LimitReport("WallTime", FALSE)
    BY <1>0, <1>2, LimitKeeps DEF StopBeforePlanning
<1> QED
    BY <1>1, <1>2 DEF StopBeforePlanning

\* What a plan makes of the session and the knowledge.
LEMMA ReplanShape ==
    ASSUME WInv, Replan
    PROVE  /\ session.state = "Ready" /\ hyp' \in Knowledge
           /\ IsPlan(session', session, experience, hyp')
           /\ IsAwaiting(session') => session'.case.action \notin unsupported \cup Defended(ledger)
<1>0. Sound(session) /\ session.state = "Ready" /\ hyp \in Knowledge
    BY DEF WInv, RunValues, Replan
<1>1. CASE session.cycles >= max_action_cycles
  <2>1. session' = Halt(session, "ActionCycleLimit") /\ hyp' = hyp
    BY <1>1 DEF Replan
  <2>2. /\ Sound(session') /\ SameCounters(session', session) /\ session'.state = "Halted"
        /\ session'.reason = "ActionCycleLimit"
    BY <1>0, <2>1, HaltSound DEF Sound, HaltReasons
  <2> QED
    BY <1>0, <2>1, <2>2 DEF IsPlan, SameCounters, IsAwaiting
<1>2. CASE ~(session.cycles >= max_action_cycles)
  <2>1. PICK new \in Reasoned(hyp) :
            hyp' = new /\ session' = Planned(session, experience, new, Context(ledger))
    BY <1>2 DEF Replan
  <2>2. hyp' \in Knowledge
    BY <1>0, <2>1, ReasonedKeeps
  <2>3. session.cycles < max_action_cycles
    BY <1>0, <1>2, LimitsAreNumbers DEF Sound, Bounded, Sessions
  <2>4. /\ IsPlan(session', session, experience, hyp')
        /\ IsAwaiting(session') =>
               session'.case.action \notin Context(ledger).policy \cup Context(ledger).defense
    BY <1>0, <2>1, <2>3, PlannedShape
  <2> QED
    BY <1>0, <2>2, <2>4, ContextFacts
<1> QED
    BY <1>1, <1>2

\* Replan keeps the invariant.
LEMMA ReplanKeeps ==
    ASSUME WInv, Replan
    PROVE  WInv'
<1>1. /\ session.state = "Ready" /\ hyp' \in Knowledge
      /\ IsPlan(session', session, experience, hyp')
      /\ IsAwaiting(session') => session'.case.action \notin unsupported \cup Defended(ledger)
    BY ReplanShape
<1>2. /\ pc = "loop" /\ pc' = "planned"
      /\ UNCHANGED <<experience, ledger, broker, usage, cases, receipts, stop, report>>
    BY DEF Replan
<1>3. /\ Sound(session') /\ session'.applied = session.applied
      /\ session'.suppressed = session.suppressed
      /\ session'.state # "Completed"
      /\ session'.reason \notin {"HumanReview", "AdaptationLimit"}
    BY <1>1 DEF IsPlan, Sound
<1>4. Unspent(session')
  <2>1. IsAwaiting(session') => session'.case.action \notin session'.suppressed
    BY <1>1 DEF IsPlan, IsAwaiting
  <2> QED
    BY <1>3, <2>1 DEF WInv, SessionFits, Unspent
<1>5. RunValues'
    BY <1>1, <1>2, <1>3 DEF WInv, RunValues, RunPoints
<1>6. SessionFits'
    BY <1>2, <1>3, <1>4 DEF SessionFits
<1>7. ReceiptsCounted' /\ WithinProgress' /\ BrokerHolds' /\ AttemptsHold'
    BY <1>2 DEF WInv, ReceiptsCounted, WithinProgress, BrokerHolds, AttemptsHold
<1>8. CasesFollow'
  <2>1. session.reason = "none"
    BY <1>1 DEF WInv, RunValues, Sound
  <2> QED
    BY <1>2, <2>1 DEF WInv, CasesFollow
<1>9. CommandIsPermitted'
  <2>1. Defended(ledger') = Defended(ledger)
    BY <1>2
  <2> QED
    BY <1>1, <2>1 DEF CommandIsPermitted
<1>10. ReportHolds'
  <2>1. report' = NoReport /\ report'.kind = "none"
    BY <1>2 DEF WInv, ReportHolds, NoReport
  <2> QED
    BY <1>2, <2>1 DEF ReportHolds, ReportMatchesSession, TerminalFollowsOutcomes, EvidenceIsReported
<1> QED
    BY <1>5, <1>6, <1>7, <1>8, <1>9, <1>10 DEF WInv

\* The host and the clock.
LEMMA StopSignalKeeps ==
    ASSUME WInv, Cancel \/ Deadline
    PROVE  WInv'
<1>1. stop \in [cancelled : BOOLEAN, late : BOOLEAN] /\ pc # "ended"
    BY DEF WInv, RunValues, Cancel, Deadline
<1>2. /\ stop' \in [cancelled : BOOLEAN, late : BOOLEAN]
      /\ UNCHANGED <<hyp, session, experience, ledger, broker, usage, cases, receipts, pc, report>>
    BY <1>1 DEF Cancel, Deadline
<1>3. /\ ReceiptsCounted' /\ AttemptsHold' /\ WithinProgress' /\ CommandIsPermitted'
    BY <1>2 DEF WInv, ReceiptsCounted, AttemptsHold, WithinProgress, CommandIsPermitted
<1>4. /\ usage' \in [attempts : [Actions \cup {Bootstrap} -> Nat], noProgress : Nat]
      /\ receipts' \in Nat /\ pc' \in RunPoints \ {"ended"} /\ ledger' \in Ledgers
      /\ pc' \in {"start", "bootstrap", "bootstrapped"} =>
             session.state = "Ready" /\ experience = << >>
      /\ pc' \in {"execute", "executed"} => IsAwaiting(session)
    BY <1>1, <1>2 DEF WInv, RunValues, SessionFits
<1> QED
    BY <1>1, <1>2, <1>3, <1>4, MoveKeeps

\* The executor is refused, or abandoned.
LEMMA ExecutionEndsKeeps ==
    ASSUME WInv, RequestRefused \/ AbandonExecution
    PROVE  WInv'
<1>1. /\ pc \in {"bootstrap", "execute"} /\ ledger' \in Ledgers
      /\ UNCHANGED <<hyp, experience, broker, usage, cases, receipts, stop>>
    BY DEF WInv, RunValues, RequestRefused, AbandonExecution, Executing
<1>2. CASE \E limit : LimitReport(limit, FALSE)
    BY <1>1, <1>2, LimitKeeps
<1>3. CASE CancellationReport(FALSE)
    BY <1>1, <1>3, CancellationKeeps
<1> QED
    BY <1>2, <1>3 DEF RequestRefused, AbandonExecution

\* Every step of a run keeps its invariant.
LEMMA wrNextInv ==
    ASSUME OnlyWebRules, FewActions, WInv, [wrNext]_wrVars
    PROVE  WInv'
<1>1. CASE RuntimeStep
  <2>1. CASE Start
    BY <2>1, StartKeeps
  <2>2. CASE Run
    BY <2>2, RunKeeps
  <2>3. CASE AbandonExecution
    BY <2>3, ExecutionEndsKeeps
  <2>4. CASE Bootstrapped
    BY <2>4, BootstrappedKeeps
  <2>5. CASE LeaveUnverified
    BY <2>5, LeaveUnverifiedKeeps
  <2>6. CASE \E status \in Statuses, holds \in Holding : Judge(status, holds)
    BY <2>6, JudgeKeeps
  <2>7. CASE AfterOutcome
    BY <2>7, AfterOutcomeKeeps
  <2>8. CASE StopBeforePlanning
    BY <2>8, StopBeforePlanningKeeps
  <2>9. CASE Replan
    BY <2>9, ReplanKeeps
  <2>10. CASE AfterPlan
    BY <2>10, AfterPlanKeeps
  <2>11. CASE ComponentFails
    BY <2>11, FailureKeeps DEF ComponentFails
  <2> QED
    BY <1>1, <2>1, <2>2, <2>3, <2>4, <2>5, <2>6, <2>7, <2>8, <2>9, <2>10, <2>11 DEF RuntimeStep
<1>2. CASE ExecutorStep
  <2>1. CASE \E bytes \in 0..ChunkBytes : SendRequest(bytes)
    BY <2>1, SendRequestKeeps
  <2>2. CASE RequestRefused
    BY <2>2, ExecutionEndsKeeps
  <2>3. CASE Executed
    BY <2>3, ExecutedKeeps
  <2>4. CASE ExecutorFails
    BY <2>4, FailureKeeps DEF ExecutorFails, Executing
  <2> QED
    BY <1>2, <2>1, <2>2, <2>3, <2>4 DEF ExecutorStep
<1>3. CASE Cancel \/ Deadline
    BY <1>3, StopSignalKeeps
<1>4. CASE UNCHANGED wrVars
    BY <1>4 DEF wrVars, WInv, RunValues, SessionFits, ReceiptsCounted, CasesFollow, WithinProgress,
        BrokerHolds, AttemptsHold, CommandIsPermitted, ReportHolds, ReportMatchesSession,
        TerminalFollowsOutcomes, EvidenceIsReported
<1> QED
    BY <1>1, <1>2, <1>3, <1>4 DEF wrNext, Ended

(***************************************************************************)
(* A run keeps its inductive invariant, wherever it is cancelled, timed    *)
(* out or failed, for the rules of the web runtime and fewer actions than  *)
(* a u16 counts.                                                           *)
(***************************************************************************)
THEOREM RunInvariance == OnlyWebRules /\ FewActions => (wrSpec => []WInv)
<1> SUFFICES ASSUME OnlyWebRules, FewActions PROVE wrSpec => []WInv
    OBVIOUS
<1>1. wrInit => WInv
    BY wrInitInv
<1>2. WInv /\ [wrNext]_wrVars => WInv'
    BY wrNextInv
<1> QED
    BY <1>1, <1>2, PTL DEF wrSpec

(***************************************************************************)
(* What a run reports is true: its terminal is the state of its session, a *)
(* natural end follows from the outcomes, and no committed evidence is     *)
(* missing (ReportIsTrue; the returns of analyze).                         *)
(***************************************************************************)
THEOREM ReportsAreTrue == OnlyWebRules /\ FewActions => (wrSpec => []ReportIsTrue)
<1> SUFFICES ASSUME OnlyWebRules, FewActions PROVE wrSpec => []ReportIsTrue
    OBVIOUS
<1>1. WInv => ReportIsTrue
  <2> SUFFICES ASSUME WInv PROVE ReportIsTrue
    OBVIOUS
  <2>1. wrTypeOK
    BY DEF WInv, RunValues, SessionFits, ReportHolds, Knowledge, Sound, Ledgers, RunPoints, wrTypeOK
  <2> QED
    BY <2>1 DEF WInv, ReportHolds, ReportIsTrue
<1> QED
    BY <1>1, RunInvariance, PTL

(***************************************************************************)
(* A run keeps no command that defense or the host forbid, and passes no   *)
(* limit of its budget (RunStaysPermitted; the checks of analyze around    *)
(* each await).                                                            *)
(***************************************************************************)
THEOREM RunsStayPermitted == OnlyWebRules /\ FewActions => (wrSpec => []RunStaysPermitted)
<1> SUFFICES ASSUME OnlyWebRules, FewActions PROVE wrSpec => []RunStaysPermitted
    OBVIOUS
<1>1. WInv => RunStaysPermitted
  <2> SUFFICES ASSUME WInv PROVE RunStaysPermitted
    OBVIOUS
  <2>1. DOMAIN usage.attempts = Actions \cup {Bootstrap}
    BY DEF WInv, RunValues
  <2>2. BudgetHolds
    BY <2>1 DEF WInv, BrokerHolds, AttemptsHold, WithinProgress, BudgetHolds
  <2> QED
    BY <2>2 DEF WInv, RunStaysPermitted
<1> QED
    BY <1>1, RunInvariance, PTL

\* The aggregate turns an exhausted session into something else, and nothing else.
Finalizes ==
    /\ experience' = experience /\ SameCounters(session', session)
    /\ session.state = "Halted" /\ session.reason = "NoEligibleAction"
    /\ \/ session'.state = "Completed"
       \/ session'.state = "Halted" /\ session'.reason = "HumanReview"

\* What a step of the run may do to its session and its experience.
LEMMA RunSessionStep ==
    ASSUME OnlyWebRules, FewActions, WInv, [wrNext]_wrVars
    PROVE  \/ UNCHANGED <<session, experience>>
           \/ /\ session.state = "Ready" /\ experience' = experience
              /\ IsPlan(session', session, experience, hyp')
           \/ \E o \in Outcomes : /\ session.state = Awaiting(o.stage)
                                  /\ IsConclusion(session', session, experience, o)
                                  /\ experience' = Append(experience, o)
           \/ Ends \/ Finalizes
<1>0. Sound(session) /\ Unspent(session) /\ (pc # "ended" => session.state # "Completed")
    BY DEF WInv, RunValues, SessionFits
<1>1. ASSUME NEW reason \in {"CancelledByHost", "RuntimeBudgetLimit"},
             session' = Halt(session, reason), experience' = experience, pc # "ended"
      PROVE  Ends
  <2>1. /\ SameCounters(session', session) /\ session'.state = "Halted"
        /\ session'.reason = reason
    BY <1>0, <1>1, HostHalt
  <2> QED
    BY <1>0, <1>1, <2>1 DEF Ends
<1>2. ASSUME NEW u, CancellationReport(u) \/ (\E limit : LimitReport(limit, u)),
             experience' = experience, pc # "ended"
      PROVE  Ends
    BY <1>1, <1>2 DEF CancellationReport, LimitReport
<1>3. ASSUME Finish, IsTerminal(session), experience' = experience, pc # "ended"
      PROVE  Finalizes \/ UNCHANGED <<session, experience>>
  <2>1. /\ RunValues /\ session.state = "Halted" /\ session.reason # "HumanReview"
    BY <1>0, <1>3 DEF WInv, SessionFits, IsTerminal
  <2>2. session' = Aggregate(session)
    BY <1>3 DEF Finish
  <2>3. /\ SameCounters(session', session)
        /\ \/ /\ session.reason = "NoEligibleAction"
              /\ \/ session'.state = "Completed"
                 \/ session'.state = "Halted" /\ session'.reason = "HumanReview"
           \/ session' = session
    BY <1>0, <1>3, <2>1, <2>2, AggregateShape
  <2> QED
    BY <1>3, <2>1, <2>3 DEF Finalizes
<1>4. CASE Start
    BY <1>2, <1>4 DEF Start, Dispatched
<1>5. CASE Run
  <2>1. session.case.action \notin Defended(ledger)
    BY <1>5 DEF Run, WInv, CommandIsPermitted
  <2> QED
    BY <1>2, <1>5, <2>1 DEF Run, Dispatched
<1>6. CASE RequestRefused \/ AbandonExecution
    BY <1>2, <1>6 DEF RequestRefused, AbandonExecution, Executing
<1>7. CASE Bootstrapped
    BY <1>2, <1>7 DEF Bootstrapped
<1>8. CASE LeaveUnverified
    BY <1>2, <1>8 DEF LeaveUnverified
<1>9. CASE \E status \in Statuses, holds \in Holding : Judge(status, holds)
  <2>1. PICK o \in Outcomes : \E d : Judgement(o, d)
    BY <1>9, JudgeShape
  <2> QED
    BY <2>1 DEF Judgement
<1>10. CASE AfterOutcome
  <2>1. /\ pc = "judged" /\ experience' = experience
        /\ \/ IsTerminal(session) /\ Finish
           \/ CancellationReport(FALSE)
           \/ \E limit : LimitReport(limit, FALSE)
           \/ UNCHANGED session
    BY <1>10 DEF AfterOutcome
  <2> QED
    BY <1>2, <1>3, <2>1
<1>11. CASE StopBeforePlanning
    BY <1>2, <1>11 DEF StopBeforePlanning
<1>12. CASE Replan
    BY <1>12, ReplanShape DEF Replan
<1>13. CASE AfterPlan
  <2>1. /\ pc = "planned" /\ experience' = experience
        /\ \/ IsTerminal(session) /\ Finish
           \/ CancellationReport(FALSE)
           \/ \E limit : LimitReport(limit, FALSE)
           \/ UNCHANGED session
    BY <1>13 DEF AfterPlan
  <2> QED
    BY <1>2, <1>3, <2>1
<1>14. CASE ComponentFails \/ ExecutorFails
    BY <1>14 DEF ComponentFails, ExecutorFails, RunFailed
<1>15. CASE Executed \/ (\E bytes \in 0..ChunkBytes : SendRequest(bytes)) \/ Cancel \/ Deadline
            \/ UNCHANGED wrVars
    BY <1>15 DEF Executed, SendRequest, Cancel, Deadline, wrVars
<1> QED
    BY <1>4, <1>5, <1>6, <1>7, <1>8, <1>9, <1>10, <1>11, <1>12, <1>13, <1>14, <1>15
       DEF wrNext, RuntimeStep, ExecutorStep, Ended

\* Finalizing a run is a step of the life of its session.
LEMMA FinalizingIsLife ==
    ASSUME Sound(session), Sound(session'), Finalizes
    PROVE  Lifecycle!Finalize
<1>1. PhaseOf(session) = "Exhausted" /\ PhaseOf(session)' \in {"Completed", "Stopped"}
    BY PhaseFacts DEF Finalizes
<1> QED
    BY <1>1 DEF Finalizes, SameCounters, Lifecycle!Finalize

(***************************************************************************)
(* A run implements the life of a session (RunImplementsLifecycle): only   *)
(* natural exhaustion becomes something else, every hard stop is absolute. *)
(***************************************************************************)
THEOREM RunRefinesLifecycle ==
    OnlyWebRules /\ FewActions => (wrSpec => RunImplementsLifecycle)
<1> SUFFICES ASSUME OnlyWebRules, FewActions PROVE wrSpec => RunImplementsLifecycle
    OBVIOUS
<1>1. wrInit => Lifecycle!slInit
    BY NewSessionIsLife DEF wrInit
<1>2. ASSUME WInv, WInv', [wrNext]_wrVars
      PROVE  [Lifecycle!slNext]_(Lifecycle!slVars)
  <2>1. /\ Sound(session) /\ Sound(session') /\ experience \in Seq(Outcomes)
        /\ EscalatesPassiveOnly
    BY <1>2, WebRulesFacts DEF WInv, RunValues
  <2>2. CASE UNCHANGED <<session, experience>>
    BY <2>2 DEF Lifecycle!slVars
  <2>3. CASE /\ session.state = "Ready" /\ experience' = experience
             /\ IsPlan(session', session, experience, hyp')
    BY <2>1, <2>3, PlanIsLife DEF Lifecycle!slNext
  <2>4. CASE \E o \in Outcomes : /\ session.state = Awaiting(o.stage)
                                 /\ IsConclusion(session', session, experience, o)
                                 /\ experience' = Append(experience, o)
    BY <2>1, <2>4, OutcomeIsLife DEF Lifecycle!slNext
  <2>5. CASE Ends
    BY <2>1, <2>5, EndIsLife DEF Lifecycle!slNext
  <2>6. CASE Finalizes
    BY <2>1, <2>6, FinalizingIsLife DEF Lifecycle!slNext
  <2> QED
    BY <1>2, <2>2, <2>3, <2>4, <2>5, <2>6, RunSessionStep
<1> QED
    BY <1>1, <1>2, RunInvariance, PTL DEF wrSpec, RunImplementsLifecycle, Lifecycle!slSpec
=============================================================================
