------------------------- MODULE LegacyRunnerProofs -------------------------
(***************************************************************************)
(* Proofs about the phase runner, for every number of phases, steps and    *)
(* outcomes and whatever the phases do.                                    *)
(*                                                                         *)
(* What RunReport::new checks of the assembled report was decided phase by *)
(* phase; the inductive invariant LRInv follows the steps, the flags, the  *)
(* outcomes with the ledger, and the events through the loop, and says at  *)
(* every phase what the report would be accepted with.                     *)
(***************************************************************************)
EXTENDS LegacyRunner, FiniteSetTheorems, TLAPS

\* What a phase is reported with when the loop goes on after it.
GoesOn == {"Succeeded", "Failed", "TimedOut"}

StepStatuses == GoesOn \cup {"Cancelled", "BudgetExhausted", "Skipped"}

EventKinds == {"PhaseStarted", "PhaseCompleted", "PhaseFailed"}

\* A phase is in hand, and has no step yet.
InPhase == pc \in {"timed_out", "poll", "polling", "dropped"}

\* The run is past its loop.
Over == pc \in {"classify", "reported", "rejected"}

\* The outcomes: their number in their phase's batch, and the phase.
Pairs == Nat \X Nat

\* How many phases have ended.
Ended == IF InPhase THEN index - 1 ELSE index

\* The part of the ledger that the phases which have ended have left.
Settled == IF InPhase THEN checkpoint ELSE Len(ledger)

Values ==
    /\ pc \in {"call", "next", "timed_out", "poll", "polling", "classify",
               "refused", "reported", "rejected", "dropped"}
    /\ count \in 0..MaxPhases /\ index \in 0..count
    /\ cancelled \in BOOLEAN /\ token \in BOOLEAN /\ committed \in BOOLEAN
    /\ ledger \in Seq(Pairs) /\ outcomes \in Seq(Pairs)
    /\ Len(ledger) <= MaxOutcomes
    /\ checkpoint \in 0..Len(ledger)
    /\ steps \in Seq(StepStatuses)
    /\ events \in Seq(EventKinds \X Nat)
    /\ saw \subseteq {"timeout", "join", "budget"}
    /\ report = NoReport \/ report.status \in {"Complete", "Partial", "Failed", "Cancelled"}
    /\ pc \notin {"call", "refused"} => count <= MaxSteps
    /\ pc \in {"call", "refused"} => index = 0

\* The steps: one for each phase that has ended, and at the end one for each that was skipped.
StepsInStep ==
    /\ \A i \in 1..Ended : (i < Ended \/ ~Over) => steps[i] \in GoesOn
    /\ ~Over => Len(steps) = Ended /\ ~cancelled
    /\ InPhase => index > 0
    /\ Over => /\ Len(steps) = count
               /\ \A i \in 1..count : (i > index) <=> (steps[i] = "Skipped")
               /\ index < count => cancelled \/ (index > 0 /\ steps[index] = "BudgetExhausted")
               /\ index > 0 /\ steps[index] = "Cancelled" => cancelled
               /\ cancelled => \/ index < count
                               \/ count = 0
                               \/ index > 0 /\ steps[index] = "Cancelled"

\* The flags say which steps there are.
FlagsInStep ==
    /\ "join" \in saw => Has("Failed")
    /\ "timeout" \in saw <=> Has("TimedOut")
    /\ "budget" \in saw <=> Has("BudgetExhausted")

\* The outcomes and the ledger: those of the phases that succeeded, in order; what the phase in
\* hand has committed is the end of the ledger.
OutcomesInStep ==
    /\ InOrder(outcomes) /\ InOrder(ledger)
    /\ \A i \in DOMAIN outcomes : /\ outcomes[i][2] \in 1..Ended
                                  /\ steps[outcomes[i][2]] = "Succeeded"
    /\ \A i \in 1..Settled : \E j \in DOMAIN outcomes : ledger[i] = outcomes[j]
    /\ \A j \in DOMAIN outcomes : outcomes[j][1] # 0 => \E i \in 1..Settled : ledger[i] = outcomes[j]
    /\ \A i \in DOMAIN ledger : ledger[i][1] # 0
    /\ InPhase => /\ committed \/ Len(ledger) = checkpoint
                  /\ Len(ledger) - checkpoint <= BatchLimit[index]
                  /\ \A i \in (checkpoint + 1)..Len(ledger) : ledger[i] = <<i - checkpoint, index>>

\* Among the first n phases is the one that commits two reports.
Double(n) == IF \E p \in 1..n : BatchLimit[p] = 2 THEN 1 ELSE 0

OutcomesFit == Len(outcomes) <= Ended + Double(Ended)

\* The event of a step.
EventOf(status) == IF status = "Succeeded" THEN "PhaseCompleted" ELSE "PhaseFailed"

EventsInStep ==
    /\ Len(events) = 2 * Ended + (IF InPhase THEN 1 ELSE 0)
    /\ \A i \in 1..Ended : /\ events[2 * i - 1] = <<"PhaseStarted", i>>
                           /\ events[2 * i] = <<EventOf(steps[i]), i>>
    /\ InPhase => events[2 * index - 1] = <<"PhaseStarted", index>>

\* The inductive invariant.
LRInv ==
    /\ Values /\ StepsInStep /\ FlagsInStep /\ OutcomesInStep /\ OutcomesFit /\ EventsInStep
    /\ pc # "rejected"

-----------------------------------------------------------------------------
\* The limits are numbers.
LEMMA RunnerLimits ==
    /\ MaxPhases \in Nat /\ MaxSteps \in Nat /\ MaxOutcomes \in Nat
    /\ \A p \in 1..MaxSteps : BatchLimit[p] \in 0..2
BY LegacyRunnerAssumption

\* The types the proofs use most.
LEMMA ValueFacts ==
    ASSUME LRInv
    PROVE  /\ index \in Nat /\ count \in Nat /\ index <= count /\ count <= MaxPhases
           /\ checkpoint \in Nat /\ checkpoint <= Len(ledger) /\ checkpoint \in 0..Len(ledger)
           /\ ledger \in Seq(Pairs) /\ outcomes \in Seq(Pairs)
           /\ steps \in Seq(StepStatuses) /\ events \in Seq(EventKinds \X Nat)
<1>1. /\ count \in 0..MaxPhases /\ index \in 0..count /\ checkpoint \in 0..Len(ledger)
      /\ ledger \in Seq(Pairs) /\ outcomes \in Seq(Pairs)
      /\ steps \in Seq(StepStatuses) /\ events \in Seq(EventKinds \X Nat)
    BY DEF LRInv, Values
<1>2. Len(ledger) \in Nat
    BY <1>1
<1> QED
    BY <1>1, <1>2, RunnerLimits

\* The steps of n phases that are skipped.
LEMMA SkippedFacts ==
    ASSUME NEW n \in Nat
    PROVE  /\ Skipped(n) \in Seq(StepStatuses) /\ Len(Skipped(n)) = n
           /\ \A i \in 1..n : Skipped(n)[i] = "Skipped"
BY DEF Skipped, StepStatuses

\* A sequence with another at its end.
LEMMA ConcatFacts ==
    ASSUME NEW S, NEW s \in Seq(S), NEW t \in Seq(S)
    PROVE  /\ s \o t \in Seq(S) /\ Len(s \o t) = Len(s) + Len(t)
           /\ \A i \in 1..Len(s) : (s \o t)[i] = s[i]
           /\ \A i \in 1..Len(t) : (s \o t)[Len(s) + i] = t[i]
OBVIOUS

\* A sequence with one more member.
LEMMA AppendFacts ==
    ASSUME NEW S, NEW s \in Seq(S), NEW x \in S
    PROVE  /\ Append(s, x) \in Seq(S) /\ Len(Append(s, x)) = Len(s) + 1
           /\ \A i \in 1..Len(s) : Append(s, x)[i] = s[i]
           /\ Append(s, x)[Len(s) + 1] = x
OBVIOUS

\* The beginning of a sequence.
LEMMA PrefixFacts ==
    ASSUME NEW S, NEW s \in Seq(S), NEW n \in 0..Len(s)
    PROVE  /\ SubSeq(s, 1, n) \in Seq(S) /\ Len(SubSeq(s, 1, n)) = n
           /\ \A i \in 1..n : SubSeq(s, 1, n)[i] = s[i]
OBVIOUS

\* The rest of it.
LEMMA SuffixFacts ==
    ASSUME NEW S, NEW s \in Seq(S), NEW n \in 0..Len(s)
    PROVE  /\ SubSeq(s, n + 1, Len(s)) \in Seq(S) /\ Len(SubSeq(s, n + 1, Len(s))) = Len(s) - n
           /\ \A i \in 1..(Len(s) - n) : SubSeq(s, n + 1, Len(s))[i] = s[n + i]
OBVIOUS

\* The invariant holds at the start.
LEMMA lrInitInv == lrInit => LRInv
<1> SUFFICES ASSUME lrInit PROVE LRInv
    OBVIOUS
<1> USE DEF lrInit
<1>1. Values
  <2>1. /\ ledger = << >> /\ outcomes = << >> /\ steps = << >> /\ events = << >>
        /\ index = 0 /\ checkpoint = 0 /\ count \in 0..MaxPhases
    OBVIOUS
  <2>2. /\ ledger \in Seq(Pairs) /\ outcomes \in Seq(Pairs) /\ steps \in Seq(StepStatuses)
        /\ events \in Seq(EventKinds \X Nat) /\ Len(ledger) = 0
    BY <2>1
  <2>3. /\ index \in 0..count /\ checkpoint \in 0..Len(ledger) /\ Len(ledger) <= MaxOutcomes
    BY <2>1, <2>2, RunnerLimits
  <2> QED
    BY <2>1, <2>2, <2>3 DEF Values
<1>2. Ended = 0 /\ Settled = 0 /\ ~InPhase /\ ~Over
    BY DEF Ended, Settled, InPhase, Over
<1>3. StepsInStep /\ FlagsInStep /\ EventsInStep
    BY <1>2 DEF StepsInStep, FlagsInStep, EventsInStep, Has
<1>4. OutcomesInStep /\ OutcomesFit
  <2>1. Double(0) \in {0, 1}
    BY DEF Double
  <2> QED
    BY <1>2, <2>1 DEF OutcomesInStep, OutcomesFit, InOrder
<1> QED
    BY <1>1, <1>2, <1>3, <1>4 DEF LRInv

-----------------------------------------------------------------------------
(***************************************************************************)
(* The end of a phase.                                                     *)
(***************************************************************************)

IsAccepted(added, execution) ==
    LET batch == Len(ledger) - checkpoint
    IN  /\ added \in Seq(Pairs)
        /\ execution # "Succeeded" => added = << >>
        /\ execution = "Succeeded" /\ batch > 0 =>
               Len(added) = batch /\ \A i \in 1..batch : added[i] = <<i, index>>
        /\ execution = "Succeeded" /\ batch = 0 =>
               Len(added) <= 1 /\ \A i \in 1..Len(added) : added[i] = <<0, index>>

\* What the phase's end adds to the outcomes is the batch it committed or one unknown, and
\* nothing unless it succeeded.
LEMMA AcceptedFacts ==
    ASSUME LRInv, InPhase, NEW execution, NEW findings \in BOOLEAN
    PROVE  IsAccepted(Accepted(execution, findings), execution)
<1> DEFINE verified == SubSeq(ledger, checkpoint + 1, Len(ledger))
           batch == Len(ledger) - checkpoint
           added == Accepted(execution, findings)
<1>1. /\ ledger \in Seq(Pairs) /\ checkpoint \in 0..Len(ledger) /\ index \in Nat
      /\ \A i \in (checkpoint + 1)..Len(ledger) : ledger[i] = <<i - checkpoint, index>>
  <2>1. ledger \in Seq(Pairs) /\ checkpoint \in 0..Len(ledger) /\ index \in Nat
    BY ValueFacts
  <2>2. \A i \in (checkpoint + 1)..Len(ledger) : ledger[i] = <<i - checkpoint, index>>
    BY DEF LRInv, OutcomesInStep
  <2> QED
    BY <2>1, <2>2
<1>2. /\ verified \in Seq(Pairs) /\ Len(verified) = batch /\ batch \in Nat
      /\ \A i \in 1..batch : verified[i] = ledger[checkpoint + i]
    BY <1>1, SuffixFacts
<1> HIDE DEF verified
<1>3. \A i \in 1..batch : verified[i] = <<i, index>>
  <2> SUFFICES ASSUME NEW i \in 1..batch PROVE verified[i] = <<i, index>>
    OBVIOUS
  <2>0. Len(ledger) \in Nat
    BY <1>1
  <2>1. checkpoint \in 0..Len(ledger)
    BY <1>1
  <2>2. checkpoint + i \in (checkpoint + 1)..Len(ledger) /\ (checkpoint + i) - checkpoint = i
    BY <2>0, <2>1
  <2>3. ledger[checkpoint + i] = <<(checkpoint + i) - checkpoint, index>>
    BY <1>1, <2>2
  <2>4. verified[i] = ledger[checkpoint + i]
    BY <1>2
  <2> QED
    BY <2>2, <2>3, <2>4
<1>4. (verified = << >>) <=> (batch = 0)
    BY <1>2
<1>5. ASSUME execution # "Succeeded" PROVE IsAccepted(added, execution)
  <2>1. added = << >>
    BY <1>5 DEF Accepted
  <2> QED
    BY <1>5, <2>1 DEF IsAccepted
<1>6. ASSUME execution = "Succeeded", batch > 0 PROVE IsAccepted(added, execution)
  <2>1. verified # << >>
    BY <1>2, <1>4, <1>6
  <2>2. added = verified
    BY <1>6, <2>1 DEF Accepted, verified
  <2> HIDE DEF added
  <2> QED
    BY <1>2, <1>3, <1>6, <2>2 DEF IsAccepted
<1>7. ASSUME execution = "Succeeded", batch = 0 PROVE IsAccepted(added, execution)
  <2>1. added = IF findings THEN <<Unknown(index)>> ELSE << >>
    BY <1>4, <1>7 DEF Accepted, verified
  <2>2. Unknown(index) = <<0, index>> /\ <<0, index>> \in Pairs
    BY <1>1 DEF Unknown, Pairs
  <2>3. CASE findings
    <3>1. added = <<Unknown(index)>>
      BY <2>1, <2>3
    <3>2. /\ added \in Seq(Pairs) /\ Len(added) = 1 /\ added[1] = <<0, index>>
      BY <2>2, <3>1
    <3> HIDE DEF added
    <3> QED
      BY <1>7, <3>2 DEF IsAccepted
  <2>4. CASE ~findings
    <3>1. added = << >>
      BY <2>1, <2>4
    <3> HIDE DEF added
    <3> QED
      BY <1>7, <3>1 DEF IsAccepted
  <2> QED
    BY <2>3, <2>4
<1>8. IsAccepted(added, execution)
  <2> HIDE DEF added
  <2> QED
    BY <1>2, <1>5, <1>6, <1>7
<1> QED
    BY <1>8

\* The steps after the end of a phase.
LEMMA SettleSteps ==
    ASSUME LRInv, InPhase, NEW execution \in Executions, NEW findings,
           Settle(execution, findings)
    PROVE  /\ steps' \in Seq(StepStatuses)
           /\ Len(steps') = IF StopsRun(execution) THEN count ELSE index
           /\ \A i \in 1..(index - 1) : steps'[i] = steps[i]
           /\ steps'[index] = StatusOf(execution)
           /\ StopsRun(execution) => \A i \in (index + 1)..count : steps'[i] = "Skipped"
<1> DEFINE st == StatusOf(execution)
           more == IF StopsRun(execution) THEN Skipped(count - index) ELSE << >>
<1>1. /\ steps \in Seq(StepStatuses) /\ Len(steps) = index - 1
      /\ index \in Nat /\ index > 0 /\ count \in Nat /\ index <= count
  <2>1. /\ steps \in Seq(StepStatuses) /\ index \in Nat /\ count \in Nat /\ index <= count
    BY ValueFacts
  <2>2. index > 0 /\ Len(steps) = index - 1
    BY DEF LRInv, StepsInStep, Ended, InPhase, Over
  <2> QED
    BY <2>1, <2>2
<1>2. st \in StepStatuses
    BY DEF StatusOf, Executions, StepStatuses, GoesOn
<1>3. count - index \in Nat
    BY <1>1
<1>4. /\ more \in Seq(StepStatuses)
      /\ Len(more) = IF StopsRun(execution) THEN count - index ELSE 0
      /\ StopsRun(execution) => \A i \in 1..(count - index) : more[i] = "Skipped"
  <2>1. CASE StopsRun(execution)
    <3>1. more = Skipped(count - index)
      BY <2>1
    <3>2. /\ Skipped(count - index) \in Seq(StepStatuses)
          /\ Len(Skipped(count - index)) = count - index
          /\ \A i \in 1..(count - index) : Skipped(count - index)[i] = "Skipped"
      BY <1>3, SkippedFacts
    <3> QED
      BY <2>1, <3>1, <3>2
  <2>2. CASE ~StopsRun(execution)
    BY <2>2
  <2> QED
    BY <2>1, <2>2
<1>5. steps' = Append(steps, st) \o more
    BY DEF Settle
<1> HIDE DEF st, more
<1> DEFINE ended == Append(steps, st)
<1>6. /\ ended \in Seq(StepStatuses) /\ Len(ended) = index
      /\ \A i \in 1..(index - 1) : ended[i] = steps[i]
      /\ ended[index] = st
    BY <1>1, <1>2
<1>7. /\ steps' \in Seq(StepStatuses) /\ Len(steps') = index + Len(more)
      /\ \A i \in 1..index : steps'[i] = ended[i]
      /\ \A i \in 1..Len(more) : steps'[index + i] = more[i]
  <2>1. steps' = ended \o more
    BY <1>5
  <2> HIDE DEF ended
  <2>2. /\ ended \o more \in Seq(StepStatuses) /\ Len(ended \o more) = Len(ended) + Len(more)
        /\ \A i \in 1..Len(ended) : (ended \o more)[i] = ended[i]
        /\ \A i \in 1..Len(more) : (ended \o more)[Len(ended) + i] = more[i]
    <3>1. ended \in Seq(StepStatuses) /\ more \in Seq(StepStatuses)
      BY <1>4, <1>6
    <3> QED
      BY <3>1
  <2> QED
    BY <1>6, <2>1, <2>2
<1> HIDE DEF ended
<1>8. ASSUME StopsRun(execution), NEW i \in (index + 1)..count PROVE steps'[i] = "Skipped"
  <2>1. i - index \in 1..Len(more) /\ index + (i - index) = i
    BY <1>1, <1>4, <1>8
  <2> QED
    BY <1>4, <1>7, <1>8, <2>1
<1>9. steps'[index] = StatusOf(execution)
    BY <1>1, <1>6, <1>7 DEF st
<1>10. \A i \in 1..(index - 1) : steps'[i] = steps[i]
    BY <1>1, <1>6, <1>7
<1> QED
    BY <1>1, <1>4, <1>7, <1>8, <1>9, <1>10

\* The outcomes and the ledger after the end of a phase.
LEMMA SettleOutcomes ==
    ASSUME LRInv, InPhase, NEW execution \in Executions, NEW findings \in BOOLEAN,
           Settle(execution, findings)
    PROVE  /\ ledger' \in Seq(Pairs) /\ outcomes' \in Seq(Pairs)
           /\ Len(ledger') <= Len(ledger) /\ checkpoint <= Len(ledger')
           /\ OutcomesInStep' /\ OutcomesFit'
<1> DEFINE added == Accepted(execution, findings)
           batch == Len(ledger) - checkpoint
           k == Len(outcomes)
           m == Len(ledger)
           a == Len(added)
           n == Len(outcomes')
<1>0. ledger \in Seq(Pairs) /\ outcomes \in Seq(Pairs)
    BY ValueFacts
<1>1. /\ index \in Nat /\ index > 0 /\ index <= count /\ count <= MaxSteps /\ count \in Nat
      /\ checkpoint \in Nat /\ m \in Nat /\ checkpoint <= m /\ k \in Nat
      /\ batch \in Nat /\ batch = m - checkpoint
  <2>1. index > 0 /\ count <= MaxSteps
    BY DEF LRInv, StepsInStep, Values, InPhase
  <2>2. /\ index \in Nat /\ index <= count /\ count \in Nat
        /\ checkpoint \in Nat /\ checkpoint <= Len(ledger)
    BY ValueFacts
  <2>3. Len(ledger) \in Nat /\ Len(outcomes) \in Nat
    BY <1>0
  <2> QED
    BY <2>1, <2>2, <2>3
<1>d. DOMAIN ledger = 1..m /\ DOMAIN outcomes = 1..k /\ m = Len(ledger) /\ k = Len(outcomes)
    BY <1>0
<1>2. IsAccepted(added, execution)
    BY AcceptedFacts
<1>3. /\ Ended = index - 1 /\ Settled = checkpoint
      /\ Ended' = index /\ Settled' = Len(ledger') /\ ~InPhase'
  <2>1. pc' \in {"next", "classify"} /\ index' = index
    BY DEF Settle
  <2> QED
    BY <2>1 DEF Ended, Settled, InPhase
<1>4. /\ InOrder(outcomes) /\ InOrder(ledger)
      /\ \A i \in 1..k : outcomes[i][2] \in 1..(index - 1) /\ steps[outcomes[i][2]] = "Succeeded"
      /\ \A i \in 1..checkpoint : \E j \in 1..k : ledger[i] = outcomes[j]
      /\ \A j \in 1..k : outcomes[j][1] # 0 => \E i \in 1..checkpoint : ledger[i] = outcomes[j]
      /\ \A i \in 1..m : ledger[i][1] # 0
      /\ batch <= BatchLimit[index]
      /\ \A i \in (checkpoint + 1)..m : ledger[i] = <<i - checkpoint, index>>
  <2>1. OutcomesInStep
    BY DEF LRInv
  <2>2. InOrder(outcomes) /\ InOrder(ledger)
    BY <2>1 DEF OutcomesInStep
  <2>3. \A i \in 1..k : outcomes[i][2] \in 1..(index - 1) /\ steps[outcomes[i][2]] = "Succeeded"
    BY <1>d, <1>3, <2>1 DEF OutcomesInStep
  <2>4. /\ \A i \in 1..checkpoint : \E j \in 1..k : ledger[i] = outcomes[j]
        /\ \A j \in 1..k : outcomes[j][1] # 0 => \E i \in 1..checkpoint : ledger[i] = outcomes[j]
    BY <1>d, <1>3, <2>1 DEF OutcomesInStep
  <2>5. \A i \in 1..m : ledger[i][1] # 0
    BY <1>d, <2>1 DEF OutcomesInStep
  <2>6. /\ batch <= BatchLimit[index]
        /\ \A i \in (checkpoint + 1)..m : ledger[i] = <<i - checkpoint, index>>
    BY <2>1 DEF OutcomesInStep
  <2> QED
    BY <2>2, <2>3, <2>4, <2>5, <2>6
<1>5. \A i \in 1..k : steps'[outcomes[i][2]] = "Succeeded"
    BY <1>1, <1>4, SettleSteps
<1>6. k <= (index - 1) + Double(index - 1)
    BY <1>3 DEF LRInv, OutcomesFit
<1>7. outcomes' = outcomes \o added /\ ledger' = RolledBack(execution)
    BY DEF Settle
<1> HIDE DEF added, batch, k, m
<1>8. /\ n = k + a /\ n \in Nat /\ a \in Nat
      /\ \A i \in 1..k : outcomes'[i] = outcomes[i]
      /\ \A i \in 1..a : outcomes'[k + i] = added[i]
      /\ DOMAIN outcomes' = 1..n
      /\ outcomes' \in Seq(Pairs)
  <2>1. added \in Seq(Pairs)
    BY <1>2 DEF IsAccepted
  <2> QED
    BY <1>0, <1>7, <2>1 DEF k
<1>f. OutcomesFit' <=> (n <= index + Double(index))
    BY <1>3 DEF OutcomesFit
<1> HIDE DEF a, n
<1>9. Double(index - 1) \in {0, 1} /\ Double(index) \in {0, 1} /\ Double(index - 1) <= Double(index)
  <2>1. 1..(index - 1) \subseteq 1..index
    BY <1>1
  <2> QED
    BY <2>1 DEF Double
<1>10. CASE execution # "Succeeded"
  <2>1. added = << >> /\ ledger' = SubSeq(ledger, 1, checkpoint)
    BY <1>2, <1>7, <1>10 DEF IsAccepted, RolledBack
  <2>2. /\ ledger' \in Seq(Pairs) /\ Len(ledger') = checkpoint
        /\ \A i \in 1..checkpoint : ledger'[i] = ledger[i]
        /\ DOMAIN ledger' = 1..checkpoint
    BY <1>0, <1>1, <1>d, <2>1
  <2>3. a = 0
    BY <2>1 DEF a
  <2>4. /\ n = k /\ DOMAIN outcomes' = 1..k
        /\ \A i \in 1..k : outcomes'[i] = outcomes[i]
    BY <1>1, <1>8, <2>3
  <2>5. InOrder(outcomes)'
    BY <1>d, <1>4, <2>4 DEF InOrder
  <2>6. InOrder(ledger)'
    <3>1. \A i \in 1..checkpoint : i \in 1..m
      BY <1>1
    <3> QED
      BY <1>d, <1>4, <2>2, <3>1 DEF InOrder
  <2>7. \A i \in DOMAIN outcomes' : outcomes'[i][2] \in 1..index /\ steps'[outcomes'[i][2]] = "Succeeded"
    BY <1>1, <1>4, <1>5, <2>4
  <2>8. /\ \A i \in 1..checkpoint : \E j \in DOMAIN outcomes' : ledger'[i] = outcomes'[j]
        /\ \A j \in DOMAIN outcomes' : outcomes'[j][1] # 0 =>
               \E i \in 1..checkpoint : ledger'[i] = outcomes'[j]
        /\ \A i \in DOMAIN ledger' : ledger'[i][1] # 0
    <3>1. \A i \in 1..checkpoint : \E j \in DOMAIN outcomes' : ledger'[i] = outcomes'[j]
      BY <1>4, <2>2, <2>4
    <3>2. \A j \in DOMAIN outcomes' : outcomes'[j][1] # 0 =>
              \E i \in 1..checkpoint : ledger'[i] = outcomes'[j]
      BY <1>4, <2>2, <2>4
    <3>3. \A i \in 1..checkpoint : i \in 1..m
      BY <1>1
    <3>4. \A i \in DOMAIN ledger' : ledger'[i][1] # 0
      BY <1>4, <2>2, <3>3
    <3> QED
      BY <3>1, <3>2, <3>4
  <2>9. OutcomesInStep'
    BY <1>3, <2>2, <2>5, <2>6, <2>7, <2>8 DEF OutcomesInStep
  <2>10. OutcomesFit'
    BY <1>1, <1>6, <1>f, <1>9, <2>4
  <2> QED
    BY <1>0, <1>1, <1>d, <1>8, <2>2, <2>9, <2>10
<1>11. CASE execution = "Succeeded"
  <2>1. ledger' = ledger
    BY <1>7, <1>11 DEF RolledBack
  <2>2. steps'[index] = "Succeeded"
    BY <1>11, SettleSteps DEF StatusOf
  <2>3. /\ batch > 0 => a = batch /\ \A i \in 1..batch : added[i] = <<i, index>>
        /\ batch = 0 => a <= 1 /\ \A i \in 1..a : added[i] = <<0, index>>
    BY <1>2, <1>11 DEF IsAccepted, batch, a, m
  <2>4. \A i \in 1..a : added[i][2] = index /\ (batch > 0 => added[i][1] = i)
    BY <1>1, <1>8, <2>3
  <2>5. \A i \in (k + 1)..n : outcomes'[i] = added[i - k] /\ i - k \in 1..a
    BY <1>1, <1>8
  <2>6. InOrder(outcomes)'
    <3> SUFFICES ASSUME NEW i \in DOMAIN outcomes', NEW j \in DOMAIN outcomes', i < j
                 PROVE  Precedes(outcomes'[i], outcomes'[j])
      BY DEF InOrder
    <3>1. i \in Nat /\ j \in Nat /\ i >= 1 /\ j <= n
      BY <1>8, <1>1
    <3>2. CASE j <= k
      <4>1. i \in 1..k /\ j \in 1..k
        BY <1>1, <3>1, <3>2
      <4> QED
        BY <1>d, <1>4, <1>8, <4>1 DEF InOrder
    <3>3. CASE i <= k /\ j > k
      <4>1. i \in 1..k /\ j \in (k + 1)..n
        BY <1>1, <1>8, <3>1, <3>3
      <4>2. outcomes'[i][2] < index /\ outcomes'[j][2] = index
        <5>1. outcomes'[i] = outcomes[i] /\ outcomes[i][2] \in 1..(index - 1)
          BY <1>4, <1>8, <4>1
        <5>2. outcomes'[j] = added[j - k] /\ added[j - k][2] = index
          BY <2>4, <2>5, <4>1
        <5> QED
          BY <1>1, <5>1, <5>2
      <4> QED
        BY <4>2 DEF Precedes
    <3>4. CASE i > k
      <4>1. i \in (k + 1)..n /\ j \in (k + 1)..n /\ a > 1
        BY <1>1, <1>8, <3>1, <3>4
      <4>2. batch > 0
        <5>1. batch # 0
          BY <1>8, <2>3, <4>1
        <5> QED
          BY <1>1, <5>1
      <4>3. /\ outcomes'[i][2] = index /\ outcomes'[j][2] = index
            /\ outcomes'[i][1] = i - k /\ outcomes'[j][1] = j - k
        BY <2>4, <2>5, <4>1, <4>2
      <4> QED
        BY <1>1, <3>1, <4>3 DEF Precedes
    <3> QED
      BY <1>1, <3>1, <3>2, <3>3, <3>4
  <2>7. InOrder(ledger)'
    BY <1>4, <2>1 DEF InOrder
  <2>8. \A i \in DOMAIN outcomes' : outcomes'[i][2] \in 1..index /\ steps'[outcomes'[i][2]] = "Succeeded"
    <3> SUFFICES ASSUME NEW i \in DOMAIN outcomes'
                 PROVE  outcomes'[i][2] \in 1..index /\ steps'[outcomes'[i][2]] = "Succeeded"
      OBVIOUS
    <3>1. CASE i \in 1..k
      BY <1>1, <1>4, <1>5, <1>8, <3>1
    <3>2. CASE i \in (k + 1)..n
      BY <1>1, <2>2, <2>4, <2>5, <3>2
    <3> QED
      BY <1>1, <1>8, <3>1, <3>2
  <2>9. ASSUME NEW i \in 1..m PROVE \E j \in DOMAIN outcomes' : ledger[i] = outcomes'[j]
    <3>1. CASE i <= checkpoint
      <4>1. PICK j \in 1..k : ledger[i] = outcomes[j]
        BY <1>1, <1>4, <3>1
      <4> QED
        BY <1>1, <1>8, <4>1
    <3>2. CASE i > checkpoint
      <4>1. /\ batch > 0 /\ i - checkpoint \in 1..batch /\ ledger[i] = <<i - checkpoint, index>>
        BY <1>1, <1>4, <3>2
      <4>2. /\ i - checkpoint \in 1..a /\ added[i - checkpoint] = <<i - checkpoint, index>>
        BY <2>3, <4>1
      <4>3. k + (i - checkpoint) \in DOMAIN outcomes' /\ outcomes'[k + (i - checkpoint)] = ledger[i]
        BY <1>1, <1>8, <4>1, <4>2
      <4> QED
        BY <4>3
    <3> QED
      BY <1>1, <3>1, <3>2
  <2>10. ASSUME NEW j \in DOMAIN outcomes', outcomes'[j][1] # 0
         PROVE  \E i \in 1..m : ledger[i] = outcomes'[j]
    <3>1. CASE j \in 1..k
      <4>1. PICK i \in 1..checkpoint : ledger[i] = outcomes[j]
        BY <1>4, <1>8, <2>10, <3>1
      <4> QED
        BY <1>1, <1>8, <3>1, <4>1
    <3>2. CASE j \in (k + 1)..n
      <4>1. outcomes'[j] = added[j - k] /\ j - k \in 1..a
        BY <2>5, <3>2
      <4>2. batch > 0
        <5>1. CASE batch = 0
          <6>1. added[j - k] = <<0, index>>
            BY <2>3, <4>1, <5>1
          <6> QED
            BY <2>10, <4>1, <6>1
        <5> QED
          BY <1>1, <5>1
      <4>3. j - k \in 1..batch /\ outcomes'[j] = <<j - k, index>>
        BY <2>3, <4>1, <4>2
      <4>4. checkpoint + (j - k) \in (checkpoint + 1)..m
        BY <1>1, <4>3
      <4>5. ledger[checkpoint + (j - k)] = <<j - k, index>>
        <5>1. (checkpoint + (j - k)) - checkpoint = j - k
          BY <1>1, <4>3
        <5> QED
          BY <1>4, <4>4, <5>1
      <4> QED
        BY <1>1, <4>3, <4>4, <4>5
    <3> QED
      BY <1>1, <1>8, <3>1, <3>2
  <2>11. OutcomesInStep'
    BY <1>1, <1>3, <1>4, <1>d, <2>1, <2>6, <2>7, <2>8, <2>9, <2>10 DEF OutcomesInStep
  <2>12. OutcomesFit'
    <3>1. BatchLimit[index] \in 0..2 /\ index \in 1..MaxSteps
      BY <1>1, RunnerLimits
    <3>2. CASE BatchLimit[index] = 2
      <4>1. Double(index) = 1
        BY <1>1, <3>2 DEF Double
      <4>2. Double(index - 1) = 0
        <5>1. \A p \in 1..(index - 1) : p \in 1..MaxSteps /\ p # index
          BY <1>1, RunnerLimits
        <5> QED
          BY <3>1, <3>2, <5>1, LegacyRunnerAssumption DEF Double
      <4> QED
        BY <1>1, <1>4, <1>6, <1>f, <1>8, <2>3, <3>1, <3>2, <4>1, <4>2
    <3>3. CASE BatchLimit[index] < 2
      <4>1. a <= 1
        BY <1>1, <1>4, <2>3, <3>1, <3>3
      <4> QED
        BY <1>1, <1>6, <1>f, <1>8, <1>9, <4>1
    <3> QED
      BY <3>1, <3>2, <3>3
  <2> QED
    BY <1>0, <1>1, <1>d, <1>8, <2>1, <2>11, <2>12
<1> QED
    BY <1>10, <1>11

\* The events after the end of a phase.
LEMMA SettleEvents ==
    ASSUME LRInv, InPhase, NEW execution \in Executions, NEW findings,
           Settle(execution, findings)
    PROVE  events' \in Seq(EventKinds \X Nat) /\ EventsInStep'
<1> DEFINE e == <<FinishedAs(execution), index>>
           k == Len(events)
<1>1. index \in Nat /\ index > 0 /\ events \in Seq(EventKinds \X Nat)
    BY ValueFacts DEF LRInv, StepsInStep
<1>2. /\ Ended = index - 1 /\ Ended' = index /\ ~InPhase'
  <2>1. pc' \in {"next", "classify"} /\ index' = index
    BY DEF Settle
  <2> QED
    BY <2>1 DEF Ended, InPhase
<1>3. /\ k = 2 * (index - 1) + 1 /\ events[2 * index - 1] = <<"PhaseStarted", index>>
      /\ \A i \in 1..(index - 1) : /\ events[2 * i - 1] = <<"PhaseStarted", i>>
                                   /\ events[2 * i] = <<EventOf(steps[i]), i>>
    BY <1>2 DEF LRInv, EventsInStep
<1>4. events' = Append(events, e)
    BY DEF Settle
<1>5. e \in EventKinds \X Nat
    BY <1>1 DEF FinishedAs, EventKinds
<1>6. /\ events' \in Seq(EventKinds \X Nat) /\ Len(events') = k + 1 /\ events'[k + 1] = e
      /\ \A i \in 1..k : events'[i] = events[i]
    BY <1>1, <1>4, <1>5, AppendFacts
<1>7. EventOf(StatusOf(execution)) = FinishedAs(execution)
    BY DEF EventOf, StatusOf, FinishedAs, Executions
<1> HIDE DEF e, k
<1>8. Len(events') = 2 * index
    BY <1>1, <1>3, <1>6
<1>9. ASSUME NEW i \in 1..index
      PROVE  /\ events'[2 * i - 1] = <<"PhaseStarted", i>>
             /\ events'[2 * i] = <<EventOf(steps'[i]), i>>
  <2>1. CASE i = index
    <3>1. 2 * i - 1 \in 1..k /\ 2 * i = k + 1
      BY <1>1, <1>3, <2>1
    <3>2. steps'[i] = StatusOf(execution)
      BY <2>1, SettleSteps
    <3> QED
      BY <1>3, <1>6, <1>7, <2>1, <3>1, <3>2 DEF e
  <2>2. CASE i < index
    <3>1. i \in 1..(index - 1) /\ 2 * i - 1 \in 1..k /\ 2 * i \in 1..k
      BY <1>1, <1>3, <2>2
    <3>2. steps'[i] = steps[i]
      BY <3>1, SettleSteps
    <3> QED
      BY <1>3, <1>6, <3>1, <3>2
  <2> QED
    BY <1>1, <2>1, <2>2
<1> QED
    BY <1>2, <1>6, <1>8, <1>9 DEF EventsInStep

\* Which steps there are after the end of a phase.
LEMMA SettleFlags ==
    ASSUME LRInv, InPhase, NEW execution \in Executions, NEW findings,
           Settle(execution, findings)
    PROVE  FlagsInStep'
<1>1. /\ index \in Nat /\ index > 0 /\ count \in Nat /\ index <= count
      /\ steps \in Seq(StepStatuses) /\ Len(steps) = index - 1
  <2>1. index \in Nat /\ count \in Nat /\ index <= count /\ steps \in Seq(StepStatuses)
    BY ValueFacts
  <2>2. index > 0 /\ Len(steps) = index - 1
    BY DEF LRInv, StepsInStep, Ended, InPhase, Over
  <2> QED
    BY <2>1, <2>2
<1>2. DOMAIN steps = 1..(index - 1)
    BY <1>1
<1>3. /\ DOMAIN steps' = 1..Len(steps') /\ Len(steps') \in Nat
      /\ Len(steps') = IF StopsRun(execution) THEN count ELSE index
      /\ \A i \in 1..(index - 1) : steps'[i] = steps[i]
      /\ steps'[index] = StatusOf(execution)
      /\ StopsRun(execution) => \A i \in (index + 1)..count : steps'[i] = "Skipped"
  <2>1. steps' \in Seq(StepStatuses)
    BY SettleSteps
  <2> QED
    BY <2>1, SettleSteps
<1>4. ASSUME NEW status, status # "Skipped"
      PROVE  Has(status)' <=> (Has(status) \/ status = StatusOf(execution))
  <2>1. index \in DOMAIN steps' /\ \A i \in 1..(index - 1) : i \in DOMAIN steps'
    BY <1>1, <1>3
  <2>2. Has(status) \/ status = StatusOf(execution) => Has(status)'
    BY <1>2, <1>3, <2>1 DEF Has
  <2>3. ASSUME Has(status)' PROVE Has(status) \/ status = StatusOf(execution)
    <3>1. PICK i \in DOMAIN steps' : steps'[i] = status
      BY <2>3 DEF Has
    <3>2. i \in 1..(index - 1) \/ i = index \/ (StopsRun(execution) /\ i \in (index + 1)..count)
      BY <1>1, <1>3
    <3>3. CASE i \in 1..(index - 1)
      BY <1>2, <1>3, <3>1, <3>3 DEF Has
    <3>4. CASE i = index
      BY <1>3, <3>1, <3>4
    <3>5. CASE StopsRun(execution) /\ i \in (index + 1)..count
      BY <1>3, <1>4, <3>1, <3>5
    <3> QED
      BY <3>2, <3>3, <3>4, <3>5
  <2> QED
    BY <2>2, <2>3
<1>5. saw' = saw \cup Seen(execution)
    BY DEF Settle
<1>6. /\ "join" \in saw => Has("Failed")
      /\ "timeout" \in saw <=> Has("TimedOut")
      /\ "budget" \in saw <=> Has("BudgetExhausted")
    BY DEF LRInv, FlagsInStep
<1>7. /\ "join" \in Seen(execution) => StatusOf(execution) = "Failed"
      /\ "timeout" \in Seen(execution) <=> StatusOf(execution) = "TimedOut"
      /\ "budget" \in Seen(execution) <=> StatusOf(execution) = "BudgetExhausted"
    BY DEF Executions, Seen, StatusOf
<1>8. /\ Has("Failed")' <=> (Has("Failed") \/ StatusOf(execution) = "Failed")
      /\ Has("TimedOut")' <=> (Has("TimedOut") \/ StatusOf(execution) = "TimedOut")
      /\ Has("BudgetExhausted")' <=> (Has("BudgetExhausted") \/ StatusOf(execution) = "BudgetExhausted")
    BY <1>4
<1> QED
    BY <1>5, <1>6, <1>7, <1>8 DEF FlagsInStep

\* The end of a phase keeps the invariant.
LEMMA SettleKeeps ==
    ASSUME LRInv, pc \in {"timed_out", "poll", "polling"}, NEW execution \in Executions,
           NEW findings \in BOOLEAN, Settle(execution, findings)
    PROVE  LRInv'
<1>1. InPhase
    BY DEF InPhase
<1>2. /\ UNCHANGED <<count, index, checkpoint, report>>
      /\ pc' = IF StopsRun(execution) THEN "classify" ELSE "next"
      /\ cancelled' = (cancelled \/ execution = "Cancelled")
      /\ saw' = saw \cup Seen(execution)
    BY DEF Settle
<1>3. /\ steps' \in Seq(StepStatuses)
      /\ Len(steps') = IF StopsRun(execution) THEN count ELSE index
      /\ \A i \in 1..(index - 1) : steps'[i] = steps[i]
      /\ steps'[index] = StatusOf(execution)
      /\ StopsRun(execution) => \A i \in (index + 1)..count : steps'[i] = "Skipped"
    BY <1>1, SettleSteps
<1>4. /\ ledger' \in Seq(Pairs) /\ outcomes' \in Seq(Pairs)
      /\ Len(ledger') <= Len(ledger) /\ checkpoint <= Len(ledger')
      /\ OutcomesInStep' /\ OutcomesFit'
    BY <1>1, SettleOutcomes
<1>31. \A i \in 1..(index - 1) : steps'[i] = steps[i]
    BY <1>3
<1>32. StopsRun(execution) => \A i \in (index + 1)..count : steps'[i] = "Skipped"
    BY <1>3
<1>33. steps'[index] = StatusOf(execution)
    BY <1>3
<1>5. events' \in Seq(EventKinds \X Nat) /\ EventsInStep'
    BY <1>1, SettleEvents
<1>6. FlagsInStep'
    BY <1>1, SettleFlags
<1>7. /\ index \in Nat /\ index > 0 /\ count \in Nat /\ index <= count /\ checkpoint \in Nat
      /\ Ended = index - 1 /\ ~Over /\ ~cancelled /\ count <= MaxSteps
      /\ \A i \in 1..(index - 1) : steps[i] \in GoesOn
  <2>1. index \in Nat /\ count \in Nat /\ index <= count /\ checkpoint \in Nat
    BY ValueFacts
  <2>2. Ended = index - 1 /\ ~Over
    BY <1>1 DEF Ended, InPhase, Over
  <2>3. index > 0 /\ ~cancelled /\ count <= MaxSteps /\ \A i \in 1..(index - 1) : steps[i] \in GoesOn
    BY <1>1, <2>2 DEF LRInv, StepsInStep, Values
  <2> QED
    BY <2>1, <2>2, <2>3
<1>8. Values'
  <2>1. pc' \in {"classify", "next"}
    BY <1>2
  <2>2. checkpoint' \in 0..Len(ledger') /\ Len(ledger') <= MaxOutcomes
    <3>1. Len(ledger) <= MaxOutcomes /\ ledger \in Seq(Pairs) /\ ledger' \in Seq(Pairs)
      BY <1>4 DEF LRInv, Values
    <3>2. Len(ledger) \in Nat /\ Len(ledger') \in Nat
      BY <3>1
    <3>3. Len(ledger') <= Len(ledger) /\ checkpoint <= Len(ledger') /\ checkpoint' = checkpoint
      BY <1>2, <1>4
    <3>4. Len(ledger) <= MaxOutcomes
      BY <3>1
    <3> HIDE <3>1
    <3> QED
      BY <1>7, <3>2, <3>3, <3>4, RunnerLimits
  <2>3. saw' \subseteq {"timeout", "join", "budget"}
    <3>1. Seen(execution) \subseteq {"timeout", "join", "budget"}
      BY DEF Seen
    <3> QED
      BY <1>2, <3>1 DEF LRInv, Values
  <2>4. cancelled' \in BOOLEAN /\ token' \in BOOLEAN /\ committed' \in BOOLEAN
    BY <1>2 DEF LRInv, Values, Settle
  <2>5. count' \in 0..MaxPhases /\ index' \in 0..count' /\ count' <= MaxSteps
    BY <1>2, <1>7 DEF LRInv, Values
  <2>6. report' = NoReport \/ report'.status \in {"Complete", "Partial", "Failed", "Cancelled"}
    BY <1>2 DEF LRInv, Values
  <2> QED
    BY <1>3, <1>4, <1>5, <2>1, <2>2, <2>3, <2>4, <2>5, <2>6 DEF Values
<1>9. StepsInStep'
  <2>1. CASE StopsRun(execution)
    <3>1. Ended' = index /\ Over' /\ ~InPhase'
      BY <1>2, <2>1 DEF Ended, InPhase, Over
    <3>2. execution \in {"Cancelled", "BudgetExhausted"} /\ steps'[index] = execution
          /\ (cancelled' <=> execution = "Cancelled")
      BY <1>2, <1>3, <1>7, <2>1 DEF StopsRun, StatusOf
    <3>3. \A i \in 1..count : (i > index) <=> (steps'[i] = "Skipped")
      <4> SUFFICES ASSUME NEW i \in 1..count PROVE (i > index) <=> (steps'[i] = "Skipped")
        OBVIOUS
      <4>1. CASE i < index
        <5>0. i \in 1..(index - 1)
          BY <1>7, <4>1
        <5>1. steps'[i] \in GoesOn
          BY <1>31, <1>7, <5>0
        <5> QED
          BY <1>7, <4>1, <5>1 DEF GoesOn
      <4>2. CASE i = index
        BY <1>7, <3>2, <4>2
      <4>3. CASE i > index
        <5>1. i \in (index + 1)..count
          BY <1>7, <4>3
        <5> QED
          BY <1>32, <2>1, <4>3, <5>1
      <4> QED
        BY <1>7, <4>1, <4>2, <4>3
    <3>4. \A i \in 1..index : i < index => steps'[i] \in GoesOn
      <4> SUFFICES ASSUME NEW i \in 1..index, i < index PROVE steps'[i] \in GoesOn
        OBVIOUS
      <4>1. i \in 1..(index - 1)
        BY <1>7
      <4> QED
        BY <1>31, <1>7, <4>1
    <3>5. Len(steps') = count
      BY <1>3, <2>1
    <3> QED
      BY <1>2, <1>7, <3>1, <3>2, <3>3, <3>4, <3>5 DEF StepsInStep
  <2>2. CASE ~StopsRun(execution)
    <3>1. Ended' = index /\ ~Over' /\ ~InPhase' /\ Len(steps') = index
      BY <1>2, <1>3, <2>2 DEF Ended, InPhase, Over
    <3>2. steps'[index] \in GoesOn /\ ~cancelled'
      BY <1>2, <1>3, <1>7, <2>2 DEF StopsRun, StatusOf, Executions, GoesOn
    <3>3. \A i \in 1..index : steps'[i] \in GoesOn
      <4> SUFFICES ASSUME NEW i \in 1..index PROVE steps'[i] \in GoesOn
        OBVIOUS
      <4>1. i \in 1..(index - 1) \/ i = index
        BY <1>7
      <4> QED
        BY <1>31, <1>7, <3>2, <4>1
    <3> QED
      BY <3>1, <3>2, <3>3 DEF StepsInStep
  <2> QED
    BY <2>1, <2>2
<1> QED
    BY <1>2, <1>4, <1>5, <1>6, <1>8, <1>9 DEF LRInv


\* A step that changes nothing the invariant is about but where the phase in hand stands.
LEMMA FrameKeeps ==
    ASSUME LRInv, token' \in BOOLEAN, pc' = pc \/ (InPhase /\ InPhase'),
           UNCHANGED <<count, index, committed, ledger, checkpoint, steps, outcomes, saw,
                       cancelled, events, report>>
    PROVE  LRInv'
<1>1. /\ InPhase' <=> InPhase
      /\ Over' <=> Over
      /\ pc' # "rejected"
      /\ pc' \in {"call", "next", "timed_out", "poll", "polling", "classify",
                  "refused", "reported", "rejected", "dropped"}
      /\ pc' \in {"call", "refused"} <=> pc \in {"call", "refused"}
    BY DEF InPhase, Over, LRInv, Values
<1>2. Ended' = Ended /\ Settled' = Settled
    BY <1>1 DEF Ended, Settled
<1>3. Values'
    BY <1>1 DEF LRInv, Values
<1>4. StepsInStep'
    BY <1>1, <1>2 DEF LRInv, StepsInStep
<1>5. FlagsInStep'
    BY DEF LRInv, FlagsInStep, Has
<1>6. OutcomesInStep'
    BY <1>1, <1>2 DEF LRInv, OutcomesInStep, InOrder
<1>7. OutcomesFit'
    BY <1>2 DEF LRInv, OutcomesFit
<1>8. EventsInStep'
    BY <1>1, <1>2 DEF LRInv, EventsInStep
<1> QED
    BY <1>1, <1>3, <1>4, <1>5, <1>6, <1>7, <1>8 DEF LRInv

\* What the host, the clock and the caller do keeps the invariant.
LEMMA OutsideKeeps ==
    ASSUME LRInv, HostCancels \/ AuthorityExpires \/ TimerFires \/ CallerDrops
    PROVE  LRInv'
<1>1. token \in BOOLEAN
    BY DEF LRInv, Values
<1>2. /\ token' \in BOOLEAN
      /\ UNCHANGED <<count, index, committed, ledger, checkpoint, steps, outcomes, saw,
                     cancelled, events, report>>
    BY <1>1 DEF HostCancels, AuthorityExpires, TimerFires, CallerDrops
<1>3. pc' = pc \/ (InPhase /\ InPhase')
    BY DEF HostCancels, AuthorityExpires, TimerFires, CallerDrops, InPhase
<1> QED
    BY <1>2, <1>3, FrameKeeps

\* The poll of a phase, and what it ends with, keep the invariant.
LEMMA PollsKeep ==
    ASSUME LRInv, \/ TimesOutAtOnce \/ Poll \/ PhasePends
                  \/ \E e \in Executions, f \in BOOLEAN : PhaseReturns(e, f)
    PROVE  LRInv'
<1>1. token \in BOOLEAN
    BY DEF LRInv, Values
<1>2. /\ "TimedOut" \in Executions /\ "Cancelled" \in Executions /\ FALSE \in BOOLEAN
    BY DEF Executions
<1>3. CASE TimesOutAtOnce
    BY <1>2, <1>3, SettleKeeps DEF TimesOutAtOnce
<1>4. CASE Poll
  <2>1. CASE pc = "poll" /\ Settle("Cancelled", FALSE)
    BY <1>2, <2>1, SettleKeeps
  <2>2. CASE ~(pc = "poll" /\ Settle("Cancelled", FALSE))
    <3>1. /\ pc = "poll" /\ pc' = "polling" /\ UNCHANGED token
          /\ UNCHANGED <<count, index, committed, ledger, checkpoint, steps, outcomes, saw,
                         cancelled, events, report>>
      BY <1>4, <2>2 DEF Poll
    <3>2. InPhase /\ InPhase'
      BY <3>1 DEF InPhase
    <3> QED
      BY <1>1, <3>1, <3>2, FrameKeeps
  <2> QED
    BY <2>1, <2>2
<1>5. CASE PhasePends
  <2>1. CASE pc = "polling" /\ Settle("TimedOut", FALSE)
    BY <1>2, <2>1, SettleKeeps
  <2>2. CASE ~(pc = "polling" /\ Settle("TimedOut", FALSE))
    <3>1. /\ pc = "polling" /\ pc' = "poll" /\ UNCHANGED token
          /\ UNCHANGED <<count, index, committed, ledger, checkpoint, steps, outcomes, saw,
                         cancelled, events, report>>
      BY <1>5, <2>2 DEF PhasePends
    <3>2. InPhase /\ InPhase'
      BY <3>1 DEF InPhase
    <3> QED
      BY <1>1, <3>1, <3>2, FrameKeeps
  <2> QED
    BY <2>1, <2>2
<1>6. ASSUME NEW e \in Executions, NEW f \in BOOLEAN, PhaseReturns(e, f) PROVE LRInv'
    BY <1>6, SettleKeeps DEF PhaseReturns
<1> QED
    BY <1>3, <1>4, <1>5, <1>6

\* No phase has ended and nothing has been found before the loop.
LEMMA NothingYet ==
    ASSUME LRInv, pc = "call"
    PROVE  /\ index = 0 /\ steps = << >> /\ outcomes = << >> /\ Len(events) = 0
           /\ saw = {} /\ ~cancelled /\ Settled = Len(ledger) /\ Len(ledger) = 0
<1>1. /\ index = 0 /\ steps \in Seq(StepStatuses) /\ outcomes \in Seq(Pairs) /\ ledger \in Seq(Pairs)
      /\ saw \subseteq {"timeout", "join", "budget"}
    BY DEF LRInv, Values
<1>2. ~InPhase /\ ~Over /\ Ended = 0 /\ Settled = Len(ledger)
    BY <1>1 DEF InPhase, Over, Ended, Settled
<1>3. Len(steps) = 0 /\ ~cancelled
    BY <1>2 DEF LRInv, StepsInStep
<1>4. steps = << >>
    BY <1>1, <1>3
<1>5. Len(events) = 0
    BY <1>2 DEF LRInv, EventsInStep
<1>6. \A i \in DOMAIN outcomes : outcomes[i][2] \in 1..0
    BY <1>2 DEF LRInv, OutcomesInStep
<1>7. outcomes = << >>
  <2>1. SUFFICES ASSUME outcomes # << >> PROVE FALSE
    OBVIOUS
  <2>2. 1 \in DOMAIN outcomes
    BY <1>1, <2>1
  <2> QED
    BY <1>6, <2>2
<1>8. Len(ledger) = 0
  <2>1. SUFFICES ASSUME Len(ledger) # 0 PROVE FALSE
    OBVIOUS
  <2>2. Len(ledger) \in Nat
    BY <1>1
  <2>3. 1 \in 1..Settled
    BY <1>2, <2>1, <2>2
  <2>4. \E j \in DOMAIN outcomes : ledger[1] = outcomes[j]
    BY <2>3 DEF LRInv, OutcomesInStep
  <2> QED
    BY <1>7, <2>4
<1>9. saw = {}
  <2>1. \A s : ~Has(s)
    BY <1>4 DEF Has
  <2> QED
    BY <1>1, <2>1 DEF LRInv, FlagsInStep
<1> QED
    BY <1>1, <1>2, <1>3, <1>4, <1>5, <1>7, <1>8, <1>9

\* The head of run_pipeline keeps the invariant.
LEMMA BeginKeeps ==
    ASSUME LRInv, Begin
    PROVE  LRInv'
<1>1. /\ pc = "call"
      /\ UNCHANGED <<count, token, index, committed, ledger, checkpoint, outcomes, saw, events, report>>
    BY DEF Begin
<1>2. /\ index = 0 /\ steps = << >> /\ outcomes = << >> /\ Len(events) = 0
      /\ saw = {} /\ ~cancelled /\ Settled = Len(ledger) /\ Len(ledger) = 0
    BY <1>1, NothingYet
<1>3. count \in Nat
    BY ValueFacts
<1>4. /\ pc' \in {"refused", "classify", "next"}
      /\ pc' # "refused" => count <= MaxSteps
      /\ pc' # "classify" => ~cancelled' /\ steps' = << >>
      /\ pc' = "classify" => cancelled' /\ steps' = Skipped(count)
      /\ cancelled' \in BOOLEAN
  <2>1. token \in BOOLEAN /\ cancelled \in BOOLEAN /\ MaxSteps \in Nat
    BY RunnerLimits DEF LRInv, Values
  <2>2. CASE ~usable \/ count > MaxSteps
    BY <1>2, <2>1, <2>2 DEF Begin
  <2>3. CASE ~(~usable \/ count > MaxSteps)
    <3>1. count <= MaxSteps
      BY <1>3, <2>1, <2>3
    <3>2. cancelled' = token /\ pc' = (IF token THEN "classify" ELSE "next")
          /\ steps' = IF token THEN Skipped(count) ELSE steps
      BY <2>3 DEF Begin
    <3> QED
      BY <1>2, <2>1, <3>1, <3>2
  <2> QED
    BY <2>2, <2>3
<1>5. /\ ~InPhase' /\ ~InPhase /\ (Over' <=> pc' = "classify") /\ Ended' = 0 /\ Ended = 0
      /\ Settled' = Settled
    BY <1>1, <1>2, <1>4 DEF InPhase, Over, Ended, Settled
<1>6. /\ steps' \in Seq(StepStatuses)
      /\ Len(steps') = IF Over' THEN count ELSE 0
      /\ Over' => \A i \in 1..count : steps'[i] = "Skipped"
  <2>1. /\ Skipped(count) \in Seq(StepStatuses) /\ Len(Skipped(count)) = count
        /\ \A i \in 1..count : Skipped(count)[i] = "Skipped"
    BY <1>3, SkippedFacts
  <2>2. CASE pc' = "classify"
    BY <1>4, <1>5, <2>1, <2>2
  <2>3. CASE pc' # "classify"
    <3>1. steps' = << >>
      BY <1>4, <2>3
    <3>2. << >> \in Seq(StepStatuses) /\ Len(<< >>) = 0
      OBVIOUS
    <3> QED
      BY <1>5, <2>3, <3>1, <3>2
  <2> QED
    BY <2>2, <2>3
<1>7. Values'
    BY <1>1, <1>2, <1>4, <1>6 DEF LRInv, Values
<1>8. StepsInStep'
  <2>1. CASE Over'
    <3>1. Len(steps') = count /\ \A i \in 1..count : steps'[i] = "Skipped" /\ i > 0
      BY <1>3, <1>6, <2>1
    <3>2. cancelled' /\ index' = 0 /\ count' = count
      BY <1>1, <1>2, <1>4, <1>5, <2>1
    <3>3. \A i \in 1..0 : FALSE
      OBVIOUS
    <3>4. index' < count' \/ count' = 0
      BY <1>3, <3>2
    <3> QED
      BY <1>5, <2>1, <3>1, <3>2, <3>3, <3>4 DEF StepsInStep
  <2>2. CASE ~Over'
    BY <1>4, <1>5, <1>6, <2>2 DEF StepsInStep
  <2> QED
    BY <2>1, <2>2
<1>9. FlagsInStep'
  <2>1. \A s : Has(s)' => s = "Skipped"
    <3>1. DOMAIN steps' = 1..Len(steps')
      BY <1>6
    <3>2. CASE Over'
      BY <1>6, <3>1, <3>2 DEF Has
    <3>3. CASE ~Over'
      BY <1>6, <3>1, <3>3 DEF Has
    <3> QED
      BY <3>2, <3>3
  <2>2. saw' = {}
    BY <1>1, <1>2
  <2> QED
    BY <2>1, <2>2 DEF FlagsInStep
<1>10. OutcomesInStep'
  <2>1. outcomes' = << >> /\ ledger' = ledger /\ Settled' = 0
    BY <1>1, <1>2, <1>5
  <2> QED
    BY <1>5, <2>1 DEF LRInv, OutcomesInStep, InOrder
<1>11. OutcomesFit'
    BY <1>1, <1>5 DEF LRInv, OutcomesFit, Double
<1>12. EventsInStep'
    BY <1>1, <1>5 DEF LRInv, EventsInStep
<1> QED
    BY <1>4, <1>7, <1>8, <1>9, <1>10, <1>11, <1>12 DEF LRInv

\* Between two phases.
LEMMA BetweenPhases ==
    ASSUME LRInv, pc = "next"
    PROVE  /\ ~InPhase /\ ~Over /\ Ended = index /\ Settled = Len(ledger)
           /\ Len(steps) = index /\ \A i \in 1..index : steps[i] \in GoesOn
           /\ ~cancelled /\ count <= MaxSteps
<1>1. ~InPhase /\ ~Over /\ Ended = index /\ Settled = Len(ledger)
    BY DEF InPhase, Over, Ended, Settled
<1>2. Len(steps) = index /\ ~cancelled /\ \A i \in 1..index : steps[i] \in GoesOn
    BY <1>1 DEF LRInv, StepsInStep
<1>3. count <= MaxSteps
    BY DEF LRInv, Values
<1> QED
    BY <1>1, <1>2, <1>3

\* The loop is over when no phase is left, or the token says so: the phases left are skipped.
LEMMA LoopEnds ==
    ASSUME LRInv, pc = "next", pc' = "classify",
           UNCHANGED <<count, token, index, committed, ledger, checkpoint, outcomes, saw, events, report>>,
           \/ index = count /\ UNCHANGED <<steps, cancelled>>
           \/ index < count /\ steps' = steps \o Skipped(count - index) /\ cancelled' = TRUE
    PROVE  LRInv'
<1>1. /\ ~InPhase /\ ~Over /\ Ended = index /\ Settled = Len(ledger)
      /\ Len(steps) = index /\ \A i \in 1..index : steps[i] \in GoesOn
      /\ ~cancelled /\ count <= MaxSteps
    BY BetweenPhases
<1>2. ~InPhase' /\ Over' /\ Ended' = index /\ Settled' = Settled
    BY <1>1 DEF InPhase, Over, Ended, Settled
<1>3. index \in Nat /\ count \in Nat /\ index <= count
    BY ValueFacts
<1>4. steps \in Seq(StepStatuses)
    BY ValueFacts
<1>5. /\ steps' \in Seq(StepStatuses) /\ Len(steps') = count
      /\ \A i \in 1..index : steps'[i] = steps[i]
      /\ \A i \in (index + 1)..count : steps'[i] = "Skipped"
  <2>1. CASE index = count
    <3>1. steps' = steps
      BY <1>3, <2>1
    <3>2. \A i \in (index + 1)..count : FALSE
      BY <1>3, <2>1
    <3> QED
      BY <1>1, <1>4, <2>1, <3>1, <3>2
  <2>2. CASE index < count
    <3> DEFINE k == count - index
    <3>1. k \in Nat
      BY <1>3, <2>2
    <3>2. steps' = steps \o Skipped(k)
      BY <1>3, <2>2
    <3>3. /\ Skipped(k) \in Seq(StepStatuses) /\ Len(Skipped(k)) = k
          /\ \A i \in 1..k : Skipped(k)[i] = "Skipped"
      BY <3>1, SkippedFacts
    <3>4. /\ steps' \in Seq(StepStatuses) /\ Len(steps') = Len(steps) + k
          /\ \A i \in 1..Len(steps) : steps'[i] = steps[i]
          /\ \A i \in 1..k : steps'[Len(steps) + i] = "Skipped"
      BY <1>4, <3>2, <3>3, ConcatFacts
    <3>5. ASSUME NEW i \in (index + 1)..count PROVE steps'[i] = "Skipped"
      <4>1. i - index \in 1..k /\ index + (i - index) = i
        BY <1>3
      <4>2. steps'[index + (i - index)] = "Skipped"
        BY <1>1, <3>4, <4>1
      <4> QED
        BY <4>1, <4>2
    <3>6. Len(steps') = count
      <4>1. Len(steps') = index + k
        BY <1>1, <3>4
      <4> QED
        BY <1>3, <4>1
    <3> QED
      BY <1>1, <3>4, <3>5, <3>6
  <2> QED
    BY <1>3, <2>1, <2>2
<1>51. Len(steps') = count
    BY <1>5
<1>52. \A i \in 1..index : steps'[i] \in GoesOn
    BY <1>1, <1>5
<1>53. \A i \in (index + 1)..count : steps'[i] = "Skipped"
    BY <1>5
<1>6. cancelled' \in BOOLEAN /\ (cancelled' <=> index < count)
  <2>1. CASE index = count
    <3>1. cancelled' = cancelled /\ cancelled \in BOOLEAN
      BY <1>3, <2>1 DEF LRInv, Values
    <3>2. ~(index < count)
      BY <1>3, <2>1
    <3> QED
      BY <1>1, <3>1, <3>2
  <2>2. CASE index < count
    <3>1. cancelled' = TRUE
      BY <1>3, <2>2
    <3> QED
      BY <2>2, <3>1
  <2> QED
    BY <1>3, <2>1, <2>2
<1>7. Values'
    BY <1>1, <1>5, <1>6 DEF LRInv, Values
<1>8. StepsInStep'
  <2>1. \A i \in 1..count : (i > index) <=> (steps'[i] = "Skipped")
    <3> SUFFICES ASSUME NEW i \in 1..count PROVE (i > index) <=> (steps'[i] = "Skipped")
      OBVIOUS
    <3>1. CASE i > index
      <4>1. i \in (index + 1)..count
        BY <1>3, <3>1
      <4> QED
        BY <1>53, <3>1, <4>1
    <3>2. CASE ~(i > index)
      <4>1. i \in 1..index
        BY <1>3, <3>2
      <4> QED
        BY <1>52, <3>2, <4>1 DEF GoesOn
    <3> QED
      BY <3>1, <3>2
  <2>2. index > 0 => steps'[index] \in GoesOn
    BY <1>3, <1>52
  <2> QED
    BY <1>2, <1>3, <1>51, <1>52, <1>6, <2>1, <2>2 DEF StepsInStep, GoesOn
<1>9. FlagsInStep'
  <2>1. ASSUME NEW s, s # "Skipped" PROVE Has(s)' <=> Has(s)
    <3>1. DOMAIN steps = 1..index /\ DOMAIN steps' = 1..count
      BY <1>1, <1>4, <1>5
    <3>2. \A i \in 1..index : i \in 1..count /\ steps'[i] = steps[i]
      BY <1>3, <1>5
    <3>3. Has(s) => Has(s)'
      BY <3>1, <3>2 DEF Has
    <3>4. ASSUME Has(s)' PROVE Has(s)
      <4>1. PICK i \in 1..count : steps'[i] = s
        BY <3>1, <3>4 DEF Has
      <4>2. ~(i \in (index + 1)..count)
        BY <1>53, <2>1, <4>1
      <4>3. i \in 1..index
        BY <1>3, <4>2
      <4> QED
        BY <3>1, <3>2, <4>1, <4>3 DEF Has
    <3> QED
      BY <3>3, <3>4
  <2>2. /\ Has("Failed")' <=> Has("Failed")
        /\ Has("TimedOut")' <=> Has("TimedOut")
        /\ Has("BudgetExhausted")' <=> Has("BudgetExhausted")
    BY <2>1
  <2> QED
    BY <2>2 DEF LRInv, FlagsInStep
<1>10. OutcomesInStep'
  <2>1. \A i \in DOMAIN outcomes : outcomes[i][2] \in 1..index /\ steps[outcomes[i][2]] = "Succeeded"
    BY <1>1 DEF LRInv, OutcomesInStep
  <2>2. \A i \in DOMAIN outcomes : outcomes[i][2] \in 1..index /\ steps'[outcomes[i][2]] = "Succeeded"
    BY <1>5, <2>1
  <2> QED
    BY <1>1, <1>2, <2>2 DEF LRInv, OutcomesInStep, InOrder
<1>11. OutcomesFit'
    BY <1>1, <1>2 DEF LRInv, OutcomesFit, Double
<1>12. EventsInStep'
  <2>1. \A i \in 1..index : steps'[i] = steps[i]
    BY <1>5
  <2> QED
    BY <1>1, <1>2, <2>1 DEF LRInv, EventsInStep
<1> QED
    BY <1>7, <1>8, <1>9, <1>10, <1>11, <1>12 DEF LRInv

\* A phase is taken in hand.
LEMMA PhaseBegins ==
    ASSUME LRInv, pc = "next", index < count, index' = index + 1,
           pc' \in {"timed_out", "poll"}, committed' = FALSE, checkpoint' = Len(ledger),
           events' = Append(events, <<"PhaseStarted", index + 1>>),
           UNCHANGED <<count, token, ledger, steps, outcomes, saw, cancelled, report>>
    PROVE  LRInv'
<1>1. /\ ~InPhase /\ ~Over /\ Ended = index /\ Settled = Len(ledger)
      /\ Len(steps) = index /\ \A i \in 1..index : steps[i] \in GoesOn
      /\ ~cancelled /\ count <= MaxSteps
    BY BetweenPhases
<1>2. index \in Nat /\ count \in Nat /\ index <= count /\ count <= MaxPhases
    BY ValueFacts
<1>3. InPhase' /\ ~Over' /\ Ended' = index /\ Settled' = Settled
    BY <1>1, <1>2 DEF InPhase, Over, Ended, Settled
<1>4. ledger \in Seq(Pairs) /\ events \in Seq(EventKinds \X Nat)
    BY ValueFacts
<1>5. Len(ledger) \in Nat
    BY <1>4
<1>6. /\ events' \in Seq(EventKinds \X Nat) /\ Len(events') = Len(events) + 1
      /\ \A i \in 1..Len(events) : events'[i] = events[i]
      /\ events'[Len(events) + 1] = <<"PhaseStarted", index + 1>>
  <2>1. <<"PhaseStarted", index + 1>> \in EventKinds \X Nat
    BY <1>2 DEF EventKinds
  <2> QED
    BY <1>4, <2>1, AppendFacts
<1>7. Values'
  <2>1. index' \in 0..count'
    BY <1>2
  <2>2. checkpoint' \in 0..Len(ledger')
    BY <1>5
  <2> QED
    BY <1>1, <1>6, <2>1, <2>2 DEF LRInv, Values
<1>8. StepsInStep'
  <2>1. index' > 0
    BY <1>2
  <2> QED
    BY <1>1, <1>3, <2>1 DEF StepsInStep
<1>9. FlagsInStep'
    BY DEF LRInv, FlagsInStep, Has
<1>10. OutcomesInStep'
  <2>1. index' \in 1..MaxSteps
    BY <1>1, <1>2, RunnerLimits
  <2>2. BatchLimit[index'] \in 0..2
    BY <2>1, RunnerLimits
  <2>3. Len(ledger') - checkpoint' <= BatchLimit[index'] /\ Len(ledger') = checkpoint'
    BY <1>5, <2>2
  <2>4. \A i \in (checkpoint' + 1)..Len(ledger') : FALSE
    BY <1>5
  <2> QED
    BY <1>1, <1>3, <2>3, <2>4 DEF LRInv, OutcomesInStep, InOrder
<1>11. OutcomesFit'
    BY <1>1, <1>3 DEF LRInv, OutcomesFit
<1>12. EventsInStep'
  <2>1. /\ Len(events) = 2 * index
        /\ \A i \in 1..index : /\ events[2 * i - 1] = <<"PhaseStarted", i>>
                               /\ events[2 * i] = <<EventOf(steps[i]), i>>
    BY <1>1, <1>2 DEF LRInv, EventsInStep
  <2>2. Len(events') = 2 * index + 1 /\ 2 * index' - 1 = 2 * index + 1
    BY <1>2, <1>6, <2>1
  <2>3. events'[2 * index' - 1] = <<"PhaseStarted", index'>>
    BY <1>2, <1>6, <2>1, <2>2
  <2>4. ASSUME NEW i \in 1..index
        PROVE  /\ events'[2 * i - 1] = <<"PhaseStarted", i>>
               /\ events'[2 * i] = <<EventOf(steps[i]), i>>
    <3>1. 2 * i - 1 \in 1..(2 * index) /\ 2 * i \in 1..(2 * index)
      BY <1>2
    <3>2. 2 * i - 1 \in 1..Len(events) /\ 2 * i \in 1..Len(events)
      BY <2>1, <3>1
    <3> QED
      BY <1>6, <2>1, <3>2
  <2> QED
    BY <1>3, <2>2, <2>3, <2>4 DEF EventsInStep
<1> QED
    BY <1>7, <1>8, <1>9, <1>10, <1>11, <1>12 DEF LRInv

\* The head of the loop keeps the invariant.
LEMMA NextPhaseKeeps ==
    ASSUME LRInv, NextPhase
    PROVE  LRInv'
<1>1. CASE NextPhase /\ index' = index
  <2>1. index \in Nat
    BY ValueFacts
  <2>2. /\ pc = "next" /\ pc' = "classify"
        /\ UNCHANGED <<count, token, index, committed, ledger, checkpoint, outcomes, saw, events, report>>
        /\ \/ index = count /\ UNCHANGED <<steps, cancelled>>
           \/ index < count /\ steps' = steps \o Skipped(count - index) /\ cancelled' = TRUE
    BY <1>1, <2>1 DEF NextPhase
  <2> QED
    BY <2>2, LoopEnds
<1>2. CASE NextPhase /\ index' # index
  <2>1. /\ pc = "next" /\ index < count /\ index' = index + 1
        /\ pc' \in {"timed_out", "poll"} /\ committed' = FALSE /\ checkpoint' = Len(ledger)
        /\ events' = Append(events, <<"PhaseStarted", index + 1>>)
        /\ UNCHANGED <<count, token, ledger, steps, outcomes, saw, cancelled, report>>
    BY <1>2 DEF NextPhase
  <2> QED
    BY <2>1, PhaseBegins
<1> QED
    BY <1>1, <1>2

\* A batch of reports is committed to the ledger.
LEMMA CommitKeeps ==
    ASSUME LRInv, NEW n \in 1..2, CommitReports(n)
    PROVE  LRInv'
<1> DEFINE k == Len(ledger)
           batch == [i \in 1..n |-> <<i, index>>]
<1>1. /\ pc = "polling" /\ ~committed /\ n \in 1..BatchLimit[index] /\ k + n <= MaxOutcomes
      /\ ledger' = ledger \o batch /\ committed' = TRUE
      /\ UNCHANGED <<count, token, pc, index, checkpoint, steps, outcomes, saw, cancelled, events, report>>
    BY DEF CommitReports
<1>2. InPhase /\ InPhase' /\ ~Over /\ ~Over' /\ Ended = index - 1 /\ Ended' = Ended
      /\ Settled = checkpoint /\ Settled' = checkpoint
    BY <1>1 DEF InPhase, Over, Ended, Settled
<1>3. index \in Nat /\ index > 0 /\ index \in 1..MaxSteps
  <2>1. index \in Nat /\ count \in Nat /\ index <= count
    BY ValueFacts
  <2>2. index > 0
    BY <1>2 DEF LRInv, StepsInStep
  <2>3. count <= MaxSteps
    BY <1>1 DEF LRInv, Values
  <2> QED
    BY <2>1, <2>2, <2>3, RunnerLimits
<1>4. ledger \in Seq(Pairs)
    BY ValueFacts
<1>5. k \in Nat /\ checkpoint = k
  <2>1. k \in Nat
    BY <1>4
  <2>2. Len(ledger) = checkpoint
    BY <1>1, <1>2 DEF LRInv, OutcomesInStep
  <2> QED
    BY <2>1, <2>2
<1>6. batch \in Seq(Pairs) /\ Len(batch) = n /\ \A i \in 1..n : batch[i] = <<i, index>>
  <2>1. \A i \in 1..n : <<i, index>> \in Pairs
    BY <1>3 DEF Pairs
  <2> QED
    BY <2>1
<1>7. /\ ledger' \in Seq(Pairs) /\ Len(ledger') = k + n
      /\ \A i \in 1..k : ledger'[i] = ledger[i]
      /\ \A i \in 1..n : ledger'[k + i] = <<i, index>>
    BY <1>1, <1>4, <1>6, ConcatFacts
<1> HIDE DEF k, batch
<1>8. ASSUME NEW i \in (k + 1)..(k + n) PROVE ledger'[i] = <<i - k, index>>
  <2>1. i - k \in 1..n /\ k + (i - k) = i
    BY <1>5
  <2>2. ledger'[k + (i - k)] = <<i - k, index>>
    BY <1>7, <2>1
  <2> QED
    BY <2>1, <2>2
<1>9. DOMAIN ledger' = 1..(k + n) /\ DOMAIN ledger = 1..k
    BY <1>4, <1>7 DEF k
<1>10. ASSUME NEW i \in 1..k PROVE ledger[i][2] \in 1..(index - 1) /\ ledger'[i] = ledger[i]
  <2>1. i \in 1..Settled
    BY <1>2, <1>5
  <2>2. PICK j \in DOMAIN outcomes : ledger[i] = outcomes[j]
    BY <2>1 DEF LRInv, OutcomesInStep
  <2>3. outcomes[j][2] \in 1..(index - 1)
    BY <1>2 DEF LRInv, OutcomesInStep
  <2> QED
    BY <1>7, <2>2, <2>3
<1>11. Values'
  <2>1. checkpoint' \in 0..Len(ledger') /\ Len(ledger') <= MaxOutcomes
    <3>1. Len(ledger') = k + n
      BY <1>7
    <3>2. k + n <= MaxOutcomes /\ checkpoint' = k
      BY <1>1, <1>5
    <3>3. checkpoint' \in 0..(k + n)
      BY <1>5, <3>2
    <3> QED
      BY <3>1, <3>2, <3>3
  <2> QED
    BY <1>1, <1>7, <2>1 DEF LRInv, Values
<1>12. StepsInStep'
    BY <1>1, <1>2 DEF LRInv, StepsInStep
<1>13. FlagsInStep'
    BY <1>1 DEF LRInv, FlagsInStep, Has
<1>14. OutcomesInStep'
  <2>1. InOrder(ledger')
    <3> SUFFICES ASSUME NEW i \in 1..(k + n), NEW j \in 1..(k + n), i < j
                 PROVE  Precedes(ledger'[i], ledger'[j])
      BY <1>9 DEF InOrder
    <3>1. CASE j \in 1..k
      <4>1. i \in 1..k
        BY <1>5, <3>1
      <4>2. Precedes(ledger[i], ledger[j])
        BY <1>9, <3>1, <4>1 DEF LRInv, OutcomesInStep, InOrder
      <4> QED
        BY <1>10, <3>1, <4>1, <4>2
    <3>2. CASE j \in (k + 1)..(k + n) /\ i \in 1..k
      <4>1. ledger'[j] = <<j - k, index>> /\ ledger'[i] = ledger[i] /\ ledger[i][2] \in 1..(index - 1)
        BY <1>8, <1>10, <3>2
      <4>2. ledger[i][2] < index
        BY <1>3, <4>1
      <4> QED
        BY <4>1, <4>2 DEF Precedes
    <3>3. CASE j \in (k + 1)..(k + n) /\ i \in (k + 1)..(k + n)
      <4>1. ledger'[j] = <<j - k, index>> /\ ledger'[i] = <<i - k, index>>
        BY <1>8, <3>3
      <4>2. i - k < j - k
        BY <1>5
      <4> QED
        BY <4>1, <4>2 DEF Precedes
    <3>4. (j \in 1..k) \/ (j \in (k + 1)..(k + n) /\ i \in 1..k)
                       \/ (j \in (k + 1)..(k + n) /\ i \in (k + 1)..(k + n))
      BY <1>5
    <3> QED
      BY <3>1, <3>2, <3>3, <3>4
  <2>2. /\ InOrder(outcomes)'
        /\ \A i \in DOMAIN outcomes' : /\ outcomes'[i][2] \in 1..Ended'
                                       /\ steps'[outcomes'[i][2]] = "Succeeded"
    BY <1>1, <1>2 DEF LRInv, OutcomesInStep, InOrder
  <2>3. /\ \A i \in 1..k : ledger'[i] = ledger[i]
        /\ Settled = k /\ Settled' = k
    BY <1>2, <1>5, <1>7
  <2>4. /\ \A i \in 1..k : \E j \in DOMAIN outcomes : ledger[i] = outcomes[j]
        /\ \A j \in DOMAIN outcomes : outcomes[j][1] # 0 => \E i \in 1..k : ledger[i] = outcomes[j]
    BY <2>3 DEF LRInv, OutcomesInStep
  <2>5. /\ \A i \in 1..Settled' : \E j \in DOMAIN outcomes' : ledger'[i] = outcomes'[j]
        /\ \A j \in DOMAIN outcomes' : outcomes'[j][1] # 0 => \E i \in 1..Settled' : ledger'[i] = outcomes'[j]
    <3>1. outcomes' = outcomes
      BY <1>1
    <3>2. \A i \in 1..k : \E j \in DOMAIN outcomes : ledger'[i] = outcomes[j]
      BY <2>3, <2>4
    <3>3. \A j \in DOMAIN outcomes : outcomes[j][1] # 0 => \E i \in 1..k : ledger'[i] = outcomes[j]
      <4> SUFFICES ASSUME NEW j \in DOMAIN outcomes, outcomes[j][1] # 0
                   PROVE  \E i \in 1..k : ledger'[i] = outcomes[j]
        OBVIOUS
      <4>1. PICK i \in 1..k : ledger[i] = outcomes[j]
        BY <2>4
      <4> QED
        BY <2>3, <4>1
    <3> QED
      BY <2>3, <3>1, <3>2, <3>3
  <2>6. \A i \in DOMAIN ledger' : ledger'[i][1] # 0
    <3> SUFFICES ASSUME NEW i \in 1..(k + n) PROVE ledger'[i][1] # 0
      BY <1>9
    <3>1. CASE i \in 1..k
      <4>1. ledger[i][1] # 0
        BY <1>9, <3>1 DEF LRInv, OutcomesInStep
      <4> QED
        BY <1>10, <3>1, <4>1
    <3>2. CASE i \in (k + 1)..(k + n)
      <4>1. i - k # 0
        BY <1>5, <3>2
      <4>2. ledger'[i] = <<i - k, index>>
        BY <1>8, <3>2
      <4> QED
        BY <4>1, <4>2
    <3>3. (i \in 1..k) \/ (i \in (k + 1)..(k + n))
      BY <1>5
    <3> QED
      BY <3>1, <3>2, <3>3
  <2>7. /\ committed' \/ Len(ledger') = checkpoint'
        /\ Len(ledger') - checkpoint' <= BatchLimit[index']
    <3>1. BatchLimit[index] \in 0..2
      BY <1>3, RunnerLimits
    <3>2. (k + n) - k <= BatchLimit[index]
      BY <1>1, <1>5, <3>1
    <3>3. Len(ledger') = k + n /\ checkpoint' = k /\ index' = index /\ committed' = TRUE
      BY <1>1, <1>5, <1>7
    <3> QED
      BY <3>2, <3>3
  <2>8. \A i \in (checkpoint' + 1)..Len(ledger') : ledger'[i] = <<i - checkpoint', index'>>
    <3>1. checkpoint' = k /\ index' = index /\ Len(ledger') = k + n
      BY <1>1, <1>5, <1>7
    <3> QED
      BY <1>8, <3>1
  <2>9. InOrder(ledger)'
    BY <2>1 DEF InOrder
  <2> QED
    BY <2>2, <2>5, <2>6, <2>7, <2>8, <2>9 DEF OutcomesInStep
<1>15. OutcomesFit'
    BY <1>1, <1>2 DEF LRInv, OutcomesFit
<1>16. EventsInStep'
    BY <1>1, <1>2 DEF LRInv, EventsInStep
<1> QED
    BY <1>1, <1>11, <1>12, <1>13, <1>14, <1>15, <1>16 DEF LRInv

\* What is in order has no member twice.
LEMMA OrderedOnce ==
    ASSUME NEW seq \in Seq(Pairs), InOrder(seq)
    PROVE  IsInjective(seq)
<1> SUFFICES ASSUME NEW i \in DOMAIN seq, NEW j \in DOMAIN seq, seq[i] = seq[j] PROVE i = j
    BY DEF IsInjective
<1>1. i \in Nat /\ j \in Nat
    OBVIOUS
<1>2. seq[i] \in Nat \X Nat
    BY DEF Pairs
<1>3. seq[i][1] \in Nat /\ seq[i][2] \in Nat
    BY <1>2
<1>4. ~Precedes(seq[i], seq[j]) /\ ~Precedes(seq[j], seq[i])
    BY <1>3 DEF Precedes
<1>5. ~(i < j) /\ ~(j < i)
    BY <1>4 DEF InOrder
<1> QED
    BY <1>1, <1>5

\* At the end the phases that ended early are the last that ran.
LEMMA AtTheEnd ==
    ASSUME LRInv, Over
    PROVE  /\ index \in Nat /\ count \in Nat /\ index <= count
           /\ Len(steps) = count /\ DOMAIN steps = 1..count
           /\ \A i \in 1..count : steps[i] \in StepStatuses
           /\ \A i \in 1..count : i < index => steps[i] \in GoesOn
           /\ \A i \in 1..count : (i > index) <=> (steps[i] = "Skipped")
           /\ index < count => cancelled \/ (index > 0 /\ steps[index] = "BudgetExhausted")
           /\ index > 0 /\ steps[index] = "Cancelled" => cancelled
           /\ cancelled => \/ index < count
                           \/ count = 0
                           \/ index > 0 /\ steps[index] = "Cancelled"
           /\ Ended = index /\ ~InPhase /\ Settled = Len(ledger) /\ count <= MaxSteps
<1>1. index \in Nat /\ count \in Nat /\ index <= count
    BY ValueFacts
<1>2. steps \in Seq(StepStatuses)
    BY ValueFacts
<1>3. Ended = index /\ ~InPhase /\ Settled = Len(ledger)
    BY DEF Over, InPhase, Ended, Settled
<1>4. /\ Len(steps) = count
      /\ \A i \in 1..count : (i > index) <=> (steps[i] = "Skipped")
      /\ index < count => cancelled \/ (index > 0 /\ steps[index] = "BudgetExhausted")
      /\ index > 0 /\ steps[index] = "Cancelled" => cancelled
      /\ cancelled => \/ index < count
                      \/ count = 0
                      \/ index > 0 /\ steps[index] = "Cancelled"
    BY DEF LRInv, StepsInStep
<1>5. DOMAIN steps = 1..count
    BY <1>2, <1>4
<1>6. \A i \in 1..count : steps[i] \in StepStatuses
  <2>1. \A i \in DOMAIN steps : steps[i] \in StepStatuses
    BY <1>2
  <2> QED
    BY <1>5, <2>1
<1>7. \A i \in 1..index : i < index => steps[i] \in GoesOn
    BY <1>3 DEF LRInv, StepsInStep
<1>8. \A i \in 1..count : i < index => steps[i] \in GoesOn
  <2> SUFFICES ASSUME NEW i \in 1..count, i < index PROVE steps[i] \in GoesOn
    OBVIOUS
  <2>1. i \in 1..index
    BY <1>1
  <2> QED
    BY <1>7, <2>1
<1>9. count <= MaxSteps
    BY DEF LRInv, Values, Over
<1> QED
    BY <1>1, <1>3, <1>4, <1>5, <1>6, <1>8, <1>9

\* Without the runner's flag no step is cancelled, and one is skipped after a spent budget only.
LEMMA NotCancelled ==
    ASSUME LRInv, Over, ~cancelled
    PROVE  /\ \A i \in 1..count : steps[i] # "Cancelled"
           /\ \A i \in 1..count : steps[i] = "Skipped" => Has("BudgetExhausted")
<1>1. ASSUME NEW i \in 1..count, steps[i] = "Cancelled" PROVE FALSE
  <2>1. CASE i < index
    BY <1>1, <2>1, AtTheEnd DEF GoesOn
  <2>2. CASE i = index
    BY <1>1, <2>2, AtTheEnd
  <2>3. CASE i > index
    BY <1>1, <2>3, AtTheEnd
  <2>4. index \in Nat
    BY AtTheEnd
  <2> QED
    BY <2>1, <2>2, <2>3, <2>4
<1>2. ASSUME NEW i \in 1..count, steps[i] = "Skipped" PROVE Has("BudgetExhausted")
  <2>1. i > index
    BY <1>2, AtTheEnd
  <2>2. index \in Nat /\ count \in Nat
    BY AtTheEnd
  <2>3. index < count
    BY <2>1, <2>2
  <2>4. index > 0 /\ steps[index] = "BudgetExhausted"
    BY <2>3, AtTheEnd
  <2>5. index \in DOMAIN steps
    <3>1. index \in 1..count
      BY <2>2, <2>3, <2>4
    <3> QED
      BY <3>1, AtTheEnd
  <2> QED
    BY <2>4, <2>5 DEF Has
<1> QED
    BY <1>1, <1>2

\* The report of the run is one that RunReport::new accepts.
LEMMA ReportAccepted ==
    ASSUME LRInv, pc = "classify", RoomForOutcomes
    PROVE  /\ Consistent(Classify)
           /\ Classify.status \in {"Complete", "Partial", "Failed", "Cancelled"}
<1>1. Over
    BY DEF Over
<1>2. DOMAIN steps = 1..count /\ Len(steps) = count /\ count \in Nat /\ index \in Nat /\ index <= count
      /\ count <= MaxSteps /\ Ended = index
    BY <1>1, AtTheEnd
<1>3. Len(steps) <= MaxSteps
    BY <1>2
<1>4. outcomes \in Seq(Pairs)
    BY ValueFacts
<1>5. Len(outcomes) <= MaxOutcomes
  <2>1. Len(outcomes) \in Nat
    BY <1>4
  <2>2. Len(outcomes) <= index + Double(index)
    BY <1>2 DEF LRInv, OutcomesFit
  <2>3. Double(index) \in {0, 1}
    BY DEF Double
  <2>4. count \in 0..MaxPhases
    BY DEF LRInv, Values
  <2>5. count < MaxOutcomes
    BY <1>2, <2>4 DEF RoomForOutcomes
  <2> HIDE DEF Double
  <2> QED
    BY <1>2, <2>1, <2>2, <2>3, <2>5, RunnerLimits
<1>6. IsInjective(outcomes)
    BY <1>4, OrderedOnce DEF LRInv, OutcomesInStep
<1>7. \A i \in 1..count : steps[i] \in StepStatuses
    BY <1>1, AtTheEnd
<1>8. CASE cancelled
  <2>1. Classify = [status |-> "Cancelled", code |-> "Cancelled"]
    BY <1>8 DEF Classify
  <2>2. steps = << >> \/ Has("Cancelled") \/ Has("Skipped")
    <3>1. CASE index < count
      <4>1. count \in 1..count /\ count > index
        BY <1>2, <3>1
      <4>2. steps[count] = "Skipped"
        BY <1>1, <4>1, AtTheEnd
      <4> QED
        BY <1>2, <4>1, <4>2 DEF Has
    <3>2. CASE count = 0
      <4>1. steps \in Seq(StepStatuses)
        BY ValueFacts
      <4>2. Len(steps) = 0
        BY <1>2, <3>2
      <4> QED
        BY <4>1, <4>2
    <3>3. CASE index > 0 /\ steps[index] = "Cancelled"
      <4>1. index \in 1..count
        BY <1>2, <3>3
      <4> QED
        BY <1>2, <3>3, <4>1 DEF Has
    <3> QED
      BY <1>1, <1>8, <3>1, <3>2, <3>3, AtTheEnd
  <2> QED
    BY <1>3, <1>5, <1>6, <2>1, <2>2 DEF Consistent
<1>9. CASE ~cancelled /\ count = 0
  <2>1. Classify = [status |-> "Complete", code |-> "NoEligibleAction"]
    BY <1>9 DEF Classify
  <2>2. \A i \in DOMAIN steps : steps[i] = "Succeeded"
    BY <1>2, <1>9
  <2> QED
    BY <1>3, <1>5, <1>6, <2>1, <2>2 DEF Consistent
<1>10. CASE ~cancelled /\ count > 0 /\ FailedSteps = {}
  <2>1. Classify = [status |-> "Complete", code |-> "Completed"]
    BY <1>2, <1>10 DEF Classify
  <2>2. ASSUME NEW i \in DOMAIN steps PROVE steps[i] = "Succeeded"
    <3>1. steps[i] \in {"Succeeded", "Cancelled", "Skipped"}
      BY <1>10 DEF FailedSteps
    <3>2. steps[i] # "Cancelled"
      BY <1>1, <1>2, <1>10, NotCancelled
    <3>3. steps[i] # "Skipped"
      <4>1. ~Has("BudgetExhausted")
        BY <1>10 DEF FailedSteps, Has
      <4> QED
        BY <1>1, <1>2, <1>10, <4>1, NotCancelled
    <3> QED
      BY <3>1, <3>2, <3>3
  <2>3. steps # << >>
    <3>1. 1 \in DOMAIN steps
      BY <1>2, <1>10
    <3> QED
      BY <3>1
  <2> QED
    BY <1>3, <1>5, <1>6, <2>1, <2>2, <2>3 DEF Consistent
<1>11. CASE ~cancelled /\ count > 0 /\ FailedSteps # {}
  <2>1. Classify = [status |-> IF Succeeded # {} THEN "Partial" ELSE "Failed", code |-> StopCode]
    BY <1>2, <1>11 DEF Classify
  <2>2. StopCode \in {"BudgetExhausted", "StepFailed", "StepTimedOut", "TaskJoinFailed"}
    BY DEF StopCode
  <2>3. StopCode \in {"StepFailed", "TaskJoinFailed"} => Has("Failed")
    <3>1. CASE "join" \in saw
      BY <3>1 DEF LRInv, FlagsInStep
    <3>2. CASE "join" \notin saw /\ ("budget" \in saw \/ "timeout" \in saw)
      BY <3>2 DEF StopCode
    <3>3. CASE "join" \notin saw /\ "budget" \notin saw /\ "timeout" \notin saw
      <4>1. PICK i \in DOMAIN steps : steps[i] \notin {"Succeeded", "Cancelled", "Skipped"}
        BY <1>11 DEF FailedSteps
      <4>2. ~Has("TimedOut") /\ ~Has("BudgetExhausted")
        BY <3>3 DEF LRInv, FlagsInStep
      <4>3. steps[i] \in {"Failed", "TimedOut", "BudgetExhausted"}
        BY <1>2, <1>7, <4>1 DEF StepStatuses, GoesOn
      <4>4. steps[i] = "Failed"
        BY <4>2, <4>3 DEF Has
      <4> QED
        BY <4>4 DEF Has
    <3> QED
      BY <3>1, <3>2, <3>3
  <2>4. StopCode = "StepTimedOut" => Has("TimedOut")
    <3>1. StopCode = "StepTimedOut" => "timeout" \in saw
      BY DEF StopCode
    <3> QED
      BY <3>1 DEF LRInv, FlagsInStep
  <2>5. ~Has("Cancelled")
    BY <1>1, <1>2, <1>11, NotCancelled DEF Has
  <2>6. CASE Succeeded # {}
    <3>1. Has("Succeeded")
      BY <2>6 DEF Succeeded, Has
    <3> QED
      BY <1>3, <1>5, <1>6, <2>1, <2>2, <2>3, <2>4, <2>5, <2>6, <3>1 DEF Consistent
  <2>7. CASE Succeeded = {}
    <3>1. ~Has("Succeeded")
      BY <2>7 DEF Succeeded, Has
    <3>2. outcomes = << >>
      <4>1. SUFFICES ASSUME outcomes # << >> PROVE FALSE
        OBVIOUS
      <4>2. 1 \in DOMAIN outcomes
        BY <1>4, <4>1
      <4>3. outcomes[1][2] \in 1..index /\ steps[outcomes[1][2]] = "Succeeded"
        BY <1>2, <4>2 DEF LRInv, OutcomesInStep
      <4>4. outcomes[1][2] \in DOMAIN steps
        BY <1>2, <4>3
      <4> QED
        BY <3>1, <4>3, <4>4 DEF Has
    <3> QED
      BY <1>3, <1>5, <1>6, <2>1, <2>2, <2>3, <2>4, <2>7, <3>1, <3>2 DEF Consistent
  <2> QED
    BY <2>6, <2>7
<1> QED
    BY <1>2, <1>8, <1>9, <1>10, <1>11

\* The end of run_pipeline keeps the invariant: the report is not rejected.
LEMMA BuildReportKeeps ==
    ASSUME LRInv, BuildReport, RoomForOutcomes
    PROVE  LRInv'
<1>1. /\ pc = "classify" /\ report' = Classify
      /\ UNCHANGED <<count, token, index, committed, ledger, checkpoint, steps, outcomes, saw,
                     cancelled, events>>
    BY DEF BuildReport
<1>2. pc' = "reported"
    BY <1>1, ReportAccepted DEF BuildReport
<1>3. report'.status \in {"Complete", "Partial", "Failed", "Cancelled"}
    BY <1>1, ReportAccepted
<1>4. ~InPhase /\ ~InPhase' /\ Over /\ Over' /\ Ended' = Ended /\ Settled' = Settled
    BY <1>1, <1>2 DEF InPhase, Over, Ended, Settled
<1>5. Values'
    BY <1>1, <1>2, <1>3 DEF LRInv, Values
<1>6. StepsInStep'
    BY <1>1, <1>4 DEF LRInv, StepsInStep
<1>7. FlagsInStep'
    BY <1>1 DEF LRInv, FlagsInStep, Has
<1>8. OutcomesInStep'
    BY <1>1, <1>4 DEF LRInv, OutcomesInStep, InOrder
<1>9. OutcomesFit'
    BY <1>1, <1>4 DEF LRInv, OutcomesFit
<1>10. EventsInStep'
    BY <1>1, <1>4 DEF LRInv, EventsInStep
<1> QED
    BY <1>2, <1>5, <1>6, <1>7, <1>8, <1>9, <1>10 DEF LRInv

\* The invariant is inductive.
LEMMA lrNextInv == RoomForOutcomes /\ LRInv /\ [lrNext]_vars => LRInv'
<1> SUFFICES ASSUME RoomForOutcomes, LRInv, [lrNext]_vars PROVE LRInv'
    OBVIOUS
<1>1. CASE HostCancels \/ AuthorityExpires \/ TimerFires \/ CallerDrops
    BY <1>1, OutsideKeeps
<1>2. CASE \E n \in 1..2 : CommitReports(n)
    BY <1>2, CommitKeeps
<1>3. CASE Begin
    BY <1>3, BeginKeeps
<1>4. CASE NextPhase
    BY <1>4, NextPhaseKeeps
<1>5. CASE \/ TimesOutAtOnce \/ Poll \/ PhasePends
           \/ \E e \in Executions, f \in BOOLEAN : PhaseReturns(e, f)
    BY <1>5, PollsKeep
<1>6. CASE BuildReport
    BY <1>6, BuildReportKeeps
<1>7. CASE UNCHANGED vars
  <2>1. /\ token' \in BOOLEAN /\ pc' = pc
        /\ UNCHANGED <<count, index, committed, ledger, checkpoint, steps, outcomes, saw,
                       cancelled, events, report>>
    BY <1>7 DEF vars, LRInv, Values
  <2> QED
    BY <2>1, FrameKeeps
<1> QED
    BY <1>1, <1>2, <1>3, <1>4, <1>5, <1>6, <1>7 DEF lrNext, RunnerStep

-----------------------------------------------------------------------------
\* The outcomes of a run that has a report are those of the phases that succeeded.
LEMMA InvOutcomes == LRInv => OutcomesAreOfSucceeded
<1> SUFFICES ASSUME LRInv, pc \in {"next", "classify", "reported"}
             PROVE  /\ \A i \in DOMAIN outcomes : steps[outcomes[i][2]] = "Succeeded"
                    /\ InOrder(outcomes) /\ InOrder(ledger)
                    /\ Range(ledger) = {o \in Range(outcomes) : o[1] # 0}
    BY DEF OutcomesAreOfSucceeded
<1>1. Settled = Len(ledger)
    BY DEF Settled, InPhase
<1>2. DOMAIN ledger = 1..Len(ledger)
  <2>1. ledger \in Seq(Pairs)
    BY ValueFacts
  <2> QED
    BY <2>1
<1>3. /\ \A i \in DOMAIN ledger : \E j \in DOMAIN outcomes : ledger[i] = outcomes[j]
      /\ \A j \in DOMAIN outcomes : outcomes[j][1] # 0 => \E i \in DOMAIN ledger : ledger[i] = outcomes[j]
      /\ \A i \in DOMAIN ledger : ledger[i][1] # 0
    BY <1>1, <1>2 DEF LRInv, OutcomesInStep
<1>4. Range(ledger) = {o \in Range(outcomes) : o[1] # 0}
    BY <1>3 DEF Range
<1> QED
    BY <1>4 DEF LRInv, OutcomesInStep

\* Every phase of a run that has a report has one step, and only a tail of them is skipped.
LEMMA InvSteps == LRInv => EveryPhaseHasAStep
<1> SUFFICES ASSUME LRInv, Over PROVE
                  /\ Len(steps) = count
                  /\ \A i \in 1..count - 1 :
                        steps[i] \in {"Cancelled", "BudgetExhausted", "Skipped"} => steps[i + 1] = "Skipped"
                  /\ Has("Skipped") => cancelled \/ Has("BudgetExhausted")
    BY DEF EveryPhaseHasAStep, Over
<1>1. index \in Nat /\ count \in Nat /\ Len(steps) = count /\ DOMAIN steps = 1..count
    BY AtTheEnd
<1>2. ASSUME NEW i \in 1..count - 1, steps[i] \in {"Cancelled", "BudgetExhausted", "Skipped"}
      PROVE  steps[i + 1] = "Skipped"
  <2>1. i \in 1..count /\ i + 1 \in 1..count
    BY <1>1
  <2>2. ~(i < index)
    BY <1>2, <2>1, AtTheEnd DEF GoesOn
  <2>3. i + 1 > index
    BY <1>1, <2>2
  <2> QED
    BY <2>1, <2>3, AtTheEnd
<1>3. ASSUME Has("Skipped"), ~cancelled PROVE Has("BudgetExhausted")
  <2>1. PICK i \in 1..count : steps[i] = "Skipped"
    BY <1>1, <1>3 DEF Has
  <2> QED
    BY <1>3, <2>1, NotCancelled
<1> QED
    BY <1>1, <1>2, <1>3

\* The events of a run that has a report are those of its steps.
LEMMA InvEvents == LRInv => EventsMatchSteps
<1> DEFINE ran == {i \in DOMAIN steps : steps[i] # "Skipped"}
<1> SUFFICES ASSUME LRInv, pc = "reported"
             PROVE  /\ Len(events) = 2 * Cardinality(ran)
                    /\ \A i \in ran :
                          /\ events[2 * i - 1] = <<"PhaseStarted", i>>
                          /\ events[2 * i] =
                                <<IF steps[i] = "Succeeded" THEN "PhaseCompleted" ELSE "PhaseFailed", i>>
    BY DEF EventsMatchSteps
<1>1. Over
    BY DEF Over
<1>2. /\ index \in Nat /\ count \in Nat /\ index <= count /\ DOMAIN steps = 1..count
      /\ \A i \in 1..count : (i > index) <=> (steps[i] = "Skipped")
      /\ Ended = index /\ ~InPhase
    BY <1>1, AtTheEnd
<1>3. ran = 1..index
  <2>1. \A i : i \in 1..index <=> i \in 1..count /\ ~(i > index)
    BY <1>2
  <2> QED
    BY <1>2, <2>1
<1>4. Cardinality(ran) = index
  <2>1. 1 \in Int /\ index \in Int
    BY <1>2
  <2>2. Cardinality(1..index) = IF 1 > index THEN 0 ELSE index - 1 + 1
    BY <2>1, FS_Interval
  <2>3. (IF 1 > index THEN 0 ELSE index - 1 + 1) = index
    BY <1>2
  <2> QED
    BY <1>3, <2>2, <2>3
<1>5. Len(events) = 2 * index
  <2>1. Len(events) = 2 * index + 0
    BY <1>2 DEF LRInv, EventsInStep
  <2> QED
    BY <1>2, <2>1
<1>6. \A i \in 1..index : /\ events[2 * i - 1] = <<"PhaseStarted", i>>
                          /\ events[2 * i] = <<EventOf(steps[i]), i>>
    BY <1>2 DEF LRInv, EventsInStep
<1> QED
    BY <1>3, <1>4, <1>5, <1>6 DEF EventOf

\* The invariant says what the run is accounted for with.
LEMMA InvAccounted == LRInv => RunIsAccountedFor
<1> SUFFICES ASSUME LRInv PROVE RunIsAccountedFor
    OBVIOUS
<1>1. lrTypeOK
  <2>1. \A i \in DOMAIN steps : steps[i] \in {"Succeeded", "Failed", "TimedOut", "Cancelled",
                                              "BudgetExhausted", "Skipped"}
    <3>1. steps \in Seq(StepStatuses)
      BY ValueFacts
    <3>2. \A i \in DOMAIN steps : steps[i] \in StepStatuses
      BY <3>1
    <3> QED
      BY <3>2 DEF StepStatuses, GoesOn
  <2> QED
    BY <2>1 DEF lrTypeOK, LRInv, Values
<1>2. ReportIsAccepted
    BY DEF LRInv, ReportIsAccepted
<1> QED
    BY <1>1, <1>2, InvOutcomes, InvSteps, InvEvents DEF RunIsAccountedFor

(* However many phases are registered and however they end, a run that has *)
(* had effects ends with a report that RunReport::new accepts, with a step *)
(* and events for every phase and the outcomes of those that succeeded, if *)
(* the report has room for the outcomes of the phases (run_pipeline).      *)
THEOREM RunAccountedFor == RoomForOutcomes => (lrSpec => []RunIsAccountedFor)
<1> SUFFICES ASSUME RoomForOutcomes PROVE lrSpec => []RunIsAccountedFor
    OBVIOUS
<1>1. LRInv /\ [lrNext]_vars => LRInv'
    BY lrNextInv
<1> QED
    BY <1>1, lrInitInv, InvAccounted, PTL DEF lrSpec

-----------------------------------------------------------------------------
\* What the argument about cancellation needs of the state.
StepsTyped == count \in Nat /\ index \in 0..count /\ steps \in Seq(StepStatuses)

\* The steps a cancelled run may still add.
Unpolled == {"Cancelled", "Skipped", "TimedOut"}

\* The steps after the old ones are what the run has added.
StepsAdded == \A i \in DOMAIN steps' : i > Len(steps) => steps'[i] \in Unpolled

\* Skipping the rest of the phases adds skipped steps.
LEMMA SkipsAdd ==
    ASSUME StepsTyped, NEW n \in Nat, steps' = steps \o Skipped(n)
    PROVE  steps' \in Seq(StepStatuses) /\ StepsAdded
<1> DEFINE k == Len(steps)
<1>1. /\ Skipped(n) \in Seq(StepStatuses) /\ Len(Skipped(n)) = n
      /\ \A i \in 1..n : Skipped(n)[i] = "Skipped"
    BY SkippedFacts
<1>2. steps \in Seq(StepStatuses)
    BY DEF StepsTyped
<1>3. /\ steps' \in Seq(StepStatuses) /\ Len(steps') = k + n
      /\ \A i \in 1..n : steps'[k + i] = "Skipped"
  <2> DEFINE t == Skipped(n)
  <2>1. t \in Seq(StepStatuses) /\ Len(t) = n /\ \A i \in 1..n : t[i] = "Skipped"
    BY <1>1
  <2>2. steps' = steps \o t
    OBVIOUS
  <2> HIDE DEF t
  <2>3. /\ steps \o t \in Seq(StepStatuses) /\ Len(steps \o t) = Len(steps) + Len(t)
        /\ \A i \in 1..Len(t) : (steps \o t)[Len(steps) + i] = t[i]
    <3>1. steps \in Seq(StepStatuses) /\ t \in Seq(StepStatuses)
      BY <1>2, <2>1
    <3> QED
      BY <3>1, ConcatFacts
  <2> QED
    BY <2>1, <2>2, <2>3
<1>4. DOMAIN steps' = 1..(k + n) /\ k \in Nat
    BY <1>2, <1>3
<1> HIDE DEF k
<1>5. ASSUME NEW i \in 1..(k + n), i > k PROVE steps'[i] = "Skipped"
  <2>1. i - k \in 1..n /\ k + (i - k) = i
    BY <1>4, <1>5
  <2>2. steps'[k + (i - k)] = "Skipped"
    BY <1>3, <2>1
  <2> QED
    BY <2>1, <2>2
<1> QED
    BY <1>3, <1>4, <1>5 DEF StepsAdded, Unpolled, k

\* So does the end of a phase, after the step of that phase.
LEMMA SettleAdds ==
    ASSUME StepsTyped, NEW execution \in Executions, NEW findings, Settle(execution, findings)
    PROVE  /\ steps' \in Seq(StepStatuses)
           /\ execution \in Unpolled => StepsAdded
<1> DEFINE k == Len(steps)
           s == Append(steps, StatusOf(execution))
           n == IF StopsRun(execution) THEN count - index ELSE 0
<1>1. n \in Nat
    BY DEF StepsTyped
<1>2. /\ Skipped(n) \in Seq(StepStatuses) /\ Len(Skipped(n)) = n
      /\ \A i \in 1..n : Skipped(n)[i] = "Skipped"
    BY <1>1, SkippedFacts
<1>3. steps' = s \o Skipped(n)
  <2>1. Skipped(0) = << >>
    BY DEF Skipped
  <2> QED
    BY <2>1 DEF Settle
<1>4. steps \in Seq(StepStatuses)
    BY DEF StepsTyped
<1>5. StatusOf(execution) \in StepStatuses
    BY DEF StatusOf, Executions, StepStatuses, GoesOn
<1>6. s \in Seq(StepStatuses) /\ Len(s) = k + 1 /\ s[k + 1] = StatusOf(execution)
    BY <1>4, <1>5, AppendFacts
<1>7. k \in Nat
    BY <1>4
<1> HIDE DEF k, s, n
<1>8. /\ steps' \in Seq(StepStatuses) /\ Len(steps') = (k + 1) + n
      /\ \A i \in 1..Len(s) : steps'[i] = s[i]
      /\ \A i \in 1..n : steps'[(k + 1) + i] = "Skipped"
  <2> DEFINE t == Skipped(n)
  <2>1. t \in Seq(StepStatuses) /\ Len(t) = n /\ \A i \in 1..n : t[i] = "Skipped"
    BY <1>2
  <2>2. steps' = s \o t
    BY <1>3
  <2> HIDE DEF t
  <2>3. /\ s \o t \in Seq(StepStatuses) /\ Len(s \o t) = Len(s) + Len(t)
        /\ \A i \in 1..Len(s) : (s \o t)[i] = s[i]
        /\ \A i \in 1..Len(t) : (s \o t)[Len(s) + i] = t[i]
    <3>1. s \in Seq(StepStatuses) /\ t \in Seq(StepStatuses)
      BY <1>6, <2>1
    <3> QED
      BY <3>1, ConcatFacts
  <2> QED
    BY <1>6, <2>1, <2>2, <2>3
<1>9. steps'[k + 1] = StatusOf(execution)
  <2>1. k + 1 \in 1..(k + 1)
    BY <1>7
  <2> QED
    BY <1>6, <1>8, <2>1
<1>10. DOMAIN steps' = 1..((k + 1) + n)
    BY <1>1, <1>7, <1>8
<1>11. ASSUME execution \in Unpolled, NEW i \in 1..((k + 1) + n), i > k PROVE steps'[i] \in Unpolled
  <2>1. CASE i = k + 1
    BY <1>9, <1>11, <2>1 DEF StatusOf, Unpolled
  <2>2. CASE i > k + 1
    <3>1. i - (k + 1) \in 1..n /\ (k + 1) + (i - (k + 1)) = i
      BY <1>1, <1>7, <2>2
    <3>2. steps'[(k + 1) + (i - (k + 1))] = "Skipped"
      BY <1>8, <3>1
    <3> QED
      BY <3>1, <3>2 DEF Unpolled
  <2>3. i = k + 1 \/ i > k + 1
    BY <1>1, <1>7, <1>11
  <2> QED
    BY <2>1, <2>2, <2>3
<1> QED
    BY <1>8, <1>10, <1>11 DEF StepsAdded, k

\* A step of the runner and what it adds once the host has cancelled.
LEMMA PromptStep ==
    ASSUME StepsTyped, lrNext
    PROVE  /\ StepsTyped'
           /\ token => /\ pc' = "polling" => pc = "polling"
                       /\ pc # "polling" => StepsAdded
<1> DEFINE Goal == /\ StepsTyped'
                   /\ token => /\ pc' = "polling" => pc = "polling"
                               /\ pc # "polling" => StepsAdded
<1>1. index \in Nat /\ count \in Nat /\ index <= count /\ steps \in Seq(StepStatuses)
    BY DEF StepsTyped
<1>2. ASSUME UNCHANGED steps PROVE StepsAdded
  <2>1. \A i \in DOMAIN steps : ~(i > Len(steps))
    BY <1>1
  <2> QED
    BY <1>2, <2>1 DEF StepsAdded
<1>3. CASE \/ HostCancels \/ AuthorityExpires \/ TimerFires \/ CallerDrops
           \/ (\E n \in 1..2 : CommitReports(n)) \/ BuildReport
  <2>1. UNCHANGED <<count, index, steps>> /\ (pc' = "polling" => pc = "polling")
    BY <1>3 DEF HostCancels, AuthorityExpires, TimerFires, CallerDrops, CommitReports, BuildReport
  <2> QED
    BY <1>2, <2>1 DEF StepsTyped
<1>4. CASE Begin
  <2>1. UNCHANGED <<count, index>> /\ pc' # "polling"
    BY <1>4 DEF Begin
  <2>2. steps' = steps \/ steps' = Skipped(count)
    BY <1>4 DEF Begin
  <2>3. CASE steps' = steps
    BY <1>2, <2>1, <2>3 DEF StepsTyped
  <2>4. CASE steps' = Skipped(count)
    <3>1. /\ Skipped(count) \in Seq(StepStatuses) /\ Len(Skipped(count)) = count
          /\ \A i \in 1..count : Skipped(count)[i] = "Skipped"
      BY <1>1, SkippedFacts
    <3>2. DOMAIN steps' = 1..count /\ \A i \in 1..count : steps'[i] = "Skipped"
      BY <2>4, <3>1
    <3>3. StepsAdded
      BY <3>2 DEF StepsAdded, Unpolled
    <3> QED
      BY <2>1, <2>4, <3>1, <3>3 DEF StepsTyped
  <2> QED
    BY <2>2, <2>3, <2>4
<1>5. CASE NextPhase
  <2>1. count' = count /\ pc' # "polling"
    BY <1>5 DEF NextPhase
  <2>2. CASE index < count /\ steps' = steps \o Skipped(count - index) /\ index' = index
    <3>1. count - index \in Nat
      BY <1>1
    <3>2. steps' \in Seq(StepStatuses) /\ StepsAdded
      BY <2>2, <3>1, SkipsAdd
    <3> QED
      BY <2>1, <2>2, <3>2 DEF StepsTyped
  <2>3. CASE steps' = steps /\ (index' = index \/ (index < count /\ index' = index + 1))
    <3>1. index' \in 0..count'
      BY <1>1, <2>1, <2>3
    <3> QED
      BY <1>1, <1>2, <2>1, <2>3, <3>1 DEF StepsTyped
  <2> QED
    BY <1>5, <2>2, <2>3 DEF NextPhase
<1>6. ASSUME NEW e \in Executions, NEW f, Settle(e, f), pc = "polling" \/ e \in Unpolled PROVE Goal
  <2>1. UNCHANGED <<count, index>> /\ pc' # "polling"
    BY <1>6 DEF Settle
  <2>2. steps' \in Seq(StepStatuses) /\ (e \in Unpolled => StepsAdded)
    BY <1>6, SettleAdds
  <2> QED
    BY <1>6, <2>1, <2>2 DEF StepsTyped
<1>7. "TimedOut" \in Executions /\ "Cancelled" \in Executions
      /\ "TimedOut" \in Unpolled /\ "Cancelled" \in Unpolled
    BY DEF Executions, Unpolled
<1>8. CASE TimesOutAtOnce
    BY <1>6, <1>7, <1>8 DEF TimesOutAtOnce
<1>9. CASE Poll
  <2>1. CASE Settle("Cancelled", FALSE)
    BY <1>6, <1>7, <2>1
  <2>2. CASE ~token /\ UNCHANGED <<count, index, steps>>
    BY <2>2 DEF StepsTyped
  <2> QED
    BY <1>9, <2>1, <2>2 DEF Poll
<1>10. CASE \E e \in Executions, f \in BOOLEAN : PhaseReturns(e, f)
    BY <1>6, <1>10 DEF PhaseReturns
<1>11. CASE PhasePends
  <2>1. CASE Settle("TimedOut", FALSE)
    BY <1>6, <1>7, <2>1
  <2>2. CASE pc = "polling" /\ UNCHANGED <<count, index, steps>>
    BY <2>2 DEF StepsTyped
  <2> QED
    BY <1>11, <2>1, <2>2 DEF PhasePends
<1> QED
    BY <1>3, <1>4, <1>5, <1>8, <1>9, <1>10, <1>11 DEF lrNext, RunnerStep

(* Once the host has cancelled no phase is polled again, and none that was *)
(* not being polled already is reported to have succeeded or failed: the   *)
(* select looks at the token first (run_pipeline).                         *)
THEOREM CancellationPrompt == lrSpec => CancellationIsPrompt
<1>1. lrInit => StepsTyped
  <2> SUFFICES ASSUME lrInit PROVE StepsTyped
    OBVIOUS
  <2>1. count \in Nat /\ index = 0 /\ steps = << >>
    BY RunnerLimits DEF lrInit
  <2> QED
    BY <2>1 DEF StepsTyped
<1>2. StepsTyped /\ [lrNext]_vars => StepsTyped'
  <2> SUFFICES ASSUME StepsTyped, [lrNext]_vars PROVE StepsTyped'
    OBVIOUS
  <2>1. CASE lrNext
    BY <2>1, PromptStep
  <2>2. CASE UNCHANGED vars
    BY <2>2 DEF vars, StepsTyped
  <2> QED
    BY <2>1, <2>2
<1>3. StepsTyped /\ [lrNext]_vars =>
        [token =>
           /\ pc' = "polling" => pc = "polling"
           /\ pc # "polling" =>
                 \A i \in DOMAIN steps' :
                     i > Len(steps) => steps'[i] \in {"Cancelled", "Skipped", "TimedOut"}]_vars
    BY PromptStep DEF StepsAdded, Unpolled
<1> QED
    BY <1>1, <1>2, <1>3, PTL DEF lrSpec, CancellationIsPrompt
=============================================================================
