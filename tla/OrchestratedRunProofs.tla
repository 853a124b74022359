------------------------ MODULE OrchestratedRunProofs ------------------------
(***************************************************************************)
(* Proofs about a run of the lab orchestrator, for every contract, every   *)
(* manifest and grant, every set of evidence references and every number   *)
(* of cancellations.                                                       *)
(***************************************************************************)
EXTENDS OrchestratedRun, FiniteSetTheorems, TLAPS

\* The places of a run in the order it passes them: before the authorization, before
\* the attempt, at each verification, at the cleanup.
Waiting == {"prepared", "denied"}
Unbegun == {"prepared", "denied", "authorized", "attempt"}
AtTrigger == {"check trigger", "read trigger", "TriggerVerification"}
AtImpact == {"check impact", "read impact", "ImpactVerification"}
AtCleanup == {"Cleanup", "verify cleanup", "CleanupVerification"}
Places == Unbegun \cup {"Attempt"} \cup AtTrigger \cup AtImpact \cup {"clean up"} \cup AtCleanup
              \cup {"finish", "ended"}

\* The states a lifecycle may be left in when a run fails before its cleanup.
Untouched == {"AttemptStarted", "AttemptDelivered", "TriggerObserved", "ImpactVerified"}

(***************************************************************************)
(* The failures a run carries: all but one of invoke's, the budget's.      *)
(***************************************************************************)
Failures ==
    [category : {"Cancelled", "Incomplete", "InvalidReceipt", "ExecutorPanicked",
                 "AttemptFailed", "TriggerNotObserved", "ImpactNotVerified",
                 "CleanupFailed", "CleanupVerificationFailed"},
     terminal : EndStates \cup {"CleanupFailed"},
     outcome : EndStates \cup {"CleanupFailed"}]

\* Those of a step before the cleanup: the lifecycle ends in them from anywhere.
RunFailures == {f \in Failures : f.terminal \in EndStates}

\* The types of the variables, as the provers take them: data, counters, flags.
DataTypes ==
    /\ pc \in Places
    /\ plan \in Plans
    /\ budget \in Amounts
    /\ usage \in Amounts
    /\ lifecycle \in States /\ furthest \in States
    /\ pending = None \/ pending \in Failures
    /\ trigger \subseteq References /\ proof \subseteq References
    /\ impact \in {"NotVerified", "Verified"}
    /\ cleanup \in {"NotRequired", "Required", "Verified", "Failed", "Incomplete"}
    /\ outcome \in EndStates \cup {"None", "Completed", "CleanupFailed"}

CounterTypes ==
    /\ generation \in 0..MaxCancels /\ seen \in 0..MaxCancels
    /\ lateCalls \in 0..1

FlagTypes == obligation \in BOOLEAN /\ called \in BOOLEAN

RunTypes == DataTypes /\ CounterTypes /\ FlagTypes

(***************************************************************************)
(* What the lifecycle stands at wherever the run does, so that the next    *)
(* transition it asks for is one the lifecycle has.                        *)
(***************************************************************************)
LifecycleInStep ==
    /\ pc \in Waiting \cup {"authorized"} => lifecycle = "Planned"
    /\ pc \in {"attempt", "Attempt"} => lifecycle = "AttemptStarted"
    /\ pc \in AtTrigger => lifecycle = "AttemptDelivered"
    /\ pc \in AtImpact => lifecycle = "TriggerObserved"
    /\ pc = "clean up" => lifecycle \in Untouched
    /\ pc \in AtCleanup => lifecycle = "CleanupStarted"
    /\ pc = "finish" /\ obligation => lifecycle = "CleanupVerified"
    /\ pc = "finish" /\ ~obligation =>
          /\ lifecycle \in Untouched
          /\ pending = None => lifecycle = "ImpactVerified"

(***************************************************************************)
(* The failure met is the run's own until the run ends, and there is none  *)
(* while verifications are still made.                                     *)
(***************************************************************************)
FailureInStep ==
    /\ pc \in Unbegun \cup {"Attempt"} \cup AtTrigger \cup AtImpact => pending = None
    /\ pc # "ended" /\ pending # None => pending \in RunFailures

(***************************************************************************)
(* Who owes a cleanup, and how far it has come.                            *)
(***************************************************************************)
ObligationInStep ==
    /\ pc \in Unbegun => ~obligation
    /\ pc \notin Unbegun \cup {"ended"} => (obligation <=> plan.cleanup)
    /\ pc \in AtCleanup \cup {"clean up"} => obligation
    /\ pc \notin {"finish", "ended"} => cleanup # "Verified"
    /\ pc = "finish" /\ obligation => cleanup = "Verified"
    /\ pc = "ended" /\ usage.calls["Attempt"] > 0 =>
          /\ obligation <=> plan.cleanup
          /\ obligation => /\ cleanup \in {"Verified", "Failed", "Incomplete"}
                           /\ usage.calls["Cleanup"] > 0
                           /\ cleanup = "Verified" => usage.calls["Cleanup"] = 2

(***************************************************************************)
(* The calls made so far.                                                  *)
(***************************************************************************)
CallsInStep ==
    /\ usage.steps = usage.calls["Attempt"] + usage.calls["Verification"] + usage.calls["Cleanup"]
    /\ usage.calls["Attempt"] <= 1 /\ usage.calls["Verification"] <= 2 /\ usage.calls["Cleanup"] <= 2
    /\ pc \in Unbegun => usage.calls["Attempt"] = 0
    /\ pc \in Unbegun \cup {"Attempt", "check trigger", "read trigger"} =>
          usage.calls["Verification"] = 0
    /\ pc \in {"TriggerVerification", "check impact", "read impact"} =>
          usage.calls["Verification"] = 1
    /\ pc \notin AtCleanup \cup {"finish", "ended"} => usage.calls["Cleanup"] = 0
    /\ pc \in {"Cleanup", "verify cleanup"} => usage.calls["Cleanup"] = 1
    /\ pc = "CleanupVerification" \/ (pc = "finish" /\ obligation) => usage.calls["Cleanup"] = 2
    /\ ~plan.cleanup => usage.calls["Cleanup"] = 0
    /\ pc \in Phases => called

(***************************************************************************)
(* The evidence named so far is within what the steps answered may cost.   *)
(***************************************************************************)
Owed(phases) ==
    plan.applicability +
    (IF "Attempt" \in phases THEN plan.cost["Attempt"] ELSE 0) +
    (IF "TriggerVerification" \in phases THEN plan.cost["TriggerVerification"] ELSE 0) +
    (IF "ImpactVerification" \in phases THEN plan.cost["ImpactVerification"] ELSE 0) +
    (IF "Cleanup" \in phases THEN plan.cost["Cleanup"] ELSE 0) +
    (IF "CleanupVerification" \in phases THEN plan.cost["CleanupVerification"] ELSE 0)

EvidenceInStep ==
    /\ pc \in Waiting => usage.evidence = 0
    /\ pc \in {"authorized", "attempt", "Attempt"} => usage.evidence <= Owed({})
    /\ pc \in AtTrigger => usage.evidence <= Owed({"Attempt"})
    /\ pc \in AtImpact => usage.evidence <= Owed({"Attempt", "TriggerVerification"})
    /\ pc \in {"clean up", "Cleanup"} \/ (pc = "finish" /\ ~obligation) =>
          usage.evidence <= Owed({"Attempt", "TriggerVerification", "ImpactVerification"})
    /\ pc \in {"verify cleanup", "CleanupVerification"} =>
          usage.evidence <= Owed({"Attempt", "TriggerVerification", "ImpactVerification", "Cleanup"})
    /\ usage.evidence <= Owed(PhasesOf(plan))

(***************************************************************************)
(* What was authorized covers the whole plan.                              *)
(***************************************************************************)
PlanIsCovered ==
    pc \notin Waiting =>
        /\ budget.steps >= IF plan.cleanup THEN 5 ELSE 3
        /\ budget.calls["Attempt"] >= 1 /\ budget.calls["Verification"] >= 2
        /\ plan.cleanup => budget.calls["Cleanup"] >= 2
        /\ budget.evidence >= Owed(PhasesOf(plan))
        /\ budget.evidence <= ManifestBudget.evidence

(***************************************************************************)
(* A cancellation is noticed at the latest by the next verification's      *)
(* first read.                                                             *)
(***************************************************************************)
CancellationInStep ==
    /\ lateCalls > 0 => generation > 0
    /\ pc \in Unbegun \cup {"Attempt", "check trigger", "read trigger", "read impact"} =>
          lateCalls = 0

(***************************************************************************)
(* Impact is verified by its own step, with the evidence the contract asks.*)
(***************************************************************************)
ProofInStep ==
    /\ pc \in Unbegun \cup {"Attempt"} \cup AtTrigger \cup AtImpact => impact # "Verified"
    /\ impact = "Verified" => ImpactIsProven(proof)

(***************************************************************************)
(* The inductive invariant.  MutationIsAnsweredFor speaks of a run that    *)
(* has ended; how it got there is in the other conjuncts, one for each     *)
(* thing the code carries from step to step.  That the budget, once        *)
(* authorized, lasts to the last cleanup step needs EvidenceInStep,        *)
(* CallsInStep and PlanIsCovered together.                                 *)
(***************************************************************************)
OInv == /\ RunTypes
        /\ LifecycleInStep
        /\ FailureInStep
        /\ ObligationInStep
        /\ CallsInStep
        /\ EvidenceInStep
        /\ PlanIsCovered
        /\ CancellationInStep
        /\ ProofInStep

-----------------------------------------------------------------------------
\* What a contract has when it reaches the orchestrator.
LEMMA PlanFacts ==
    ASSUME NEW p \in Plans
    PROVE  /\ p.cleanup \in BOOLEAN /\ p.reversible = p.cleanup /\ p.independent \in BOOLEAN
           /\ p.minimum \in Nat /\ p.applicability \in Nat
           /\ \A ph \in Phases : p.cost[ph] \in Nat
BY PlansAssumption DEF Contracts

\* Small sets, counted.
LEMMA PairCount ==
    ASSUME NEW a, NEW b, a # b
    PROVE  IsFiniteSet({a, b}) /\ Cardinality({a, b}) = 2
<1>1. IsFiniteSet({a}) /\ Cardinality({a}) = 1
    BY FS_Singleton
<1>2. {a, b} = {a} \cup {b} /\ b \notin {a}
    OBVIOUS
<1> QED
    BY <1>1, <1>2, FS_AddElement

LEMMA TripleCount ==
    ASSUME NEW a, NEW b, NEW c, a # b, a # c, b # c
    PROVE  IsFiniteSet({a, b, c}) /\ Cardinality({a, b, c}) = 3
<1>1. {a, b, c} = {a, b} \cup {c} /\ c \notin {a, b}
    OBVIOUS
<1>2. IsFiniteSet({a, b}) /\ Cardinality({a, b}) = 2
    BY PairCount
<1> QED
    BY <1>1, <1>2, FS_AddElement

LEMMA QuintupleCount ==
    ASSUME NEW a, NEW b, NEW c, NEW d, NEW e,
           a # b, a # c, a # d, a # e, b # c, b # d, b # e, c # d, c # e, d # e
    PROVE  IsFiniteSet({a, b, c, d, e}) /\ Cardinality({a, b, c, d, e}) = 5
<1>1. IsFiniteSet({a, b, c}) /\ Cardinality({a, b, c}) = 3
    BY TripleCount
<1>2. {a, b, c, d} = {a, b, c} \cup {d} /\ d \notin {a, b, c}
    OBVIOUS
<1>3. IsFiniteSet({a, b, c, d}) /\ Cardinality({a, b, c, d}) = 4
    BY <1>1, <1>2, FS_AddElement
<1>4. {a, b, c, d, e} = {a, b, c, d} \cup {e} /\ e \notin {a, b, c, d}
    OBVIOUS
<1> QED
    BY <1>3, <1>4, FS_AddElement

(***************************************************************************)
(* The steps of a plan, and the calls they are.                            *)
(***************************************************************************)
LEMMA PhaseCounts ==
    ASSUME NEW p \in Plans
    PROVE  /\ Cardinality(PhasesOf(p)) = IF p.cleanup THEN 5 ELSE 3
           /\ CallsOf(p, "Attempt") = 1
           /\ CallsOf(p, "Verification") = 2
           /\ p.cleanup => CallsOf(p, "Cleanup") = 2
<1> DEFINE A == "Attempt" T == "TriggerVerification" I == "ImpactVerification"
           C == "Cleanup" V == "CleanupVerification"
<1>1. PhasesOf(p) = IF p.cleanup THEN {A, T, I, C, V} ELSE {A, T, I}
    BY DEF PhasesOf, Phases, CleanupPhases
<1>2. Cardinality(PhasesOf(p)) = IF p.cleanup THEN 5 ELSE 3
  <2>1. Cardinality({A, T, I, C, V}) = 5
    BY QuintupleCount
  <2>2. Cardinality({A, T, I}) = 3
    BY TripleCount
  <2> QED
    BY <1>1, <2>1, <2>2
<1>3. {ph \in PhasesOf(p) : CallOf(ph) = "Attempt"} = {A}
    BY <1>1 DEF CallOf, CleanupPhases
<1>4. {ph \in PhasesOf(p) : CallOf(ph) = "Verification"} = {T, I}
    BY <1>1 DEF CallOf, CleanupPhases
<1>5. p.cleanup => {ph \in PhasesOf(p) : CallOf(ph) = "Cleanup"} = {C, V}
    BY <1>1 DEF CallOf, CleanupPhases
<1>6. Cardinality({A}) = 1
    BY FS_Singleton
<1>7. Cardinality({T, I}) = 2
    BY PairCount
<1>8. Cardinality({C, V}) = 2
    BY PairCount
<1> QED
    BY <1>2, <1>3, <1>4, <1>5, <1>6, <1>7, <1>8 DEF CallsOf

LEMMA CallFacts ==
    /\ CallOf("Attempt") = "Attempt"
    /\ CallOf("TriggerVerification") = "Verification"
    /\ CallOf("ImpactVerification") = "Verification"
    /\ CallOf("Cleanup") = "Cleanup"
    /\ CallOf("CleanupVerification") = "Cleanup"
    /\ \A ph \in Phases : CallOf(ph) \in Calls
BY DEF CallOf, CleanupPhases, Phases, Calls

(***************************************************************************)
(* What is counted and charged.                                            *)
(***************************************************************************)
LEMMA ChargeFacts ==
    ASSUME NEW u \in Amounts, NEW cost \in Nat
    PROVE  /\ Charge(u, cost) \in Amounts
           /\ Charge(u, cost).steps = u.steps
           /\ Charge(u, cost).calls = u.calls
           /\ Charge(u, cost).evidence = u.evidence + cost
BY DEF Charge, Amounts

LEMMA RecordFacts ==
    ASSUME NEW u \in Amounts, NEW ph \in Phases
    PROVE  /\ RecordCall(u, ph) \in Amounts
           /\ RecordCall(u, ph).steps = u.steps + 1
           /\ RecordCall(u, ph).evidence = u.evidence
           /\ \A k \in Calls : RecordCall(u, ph).calls[k] =
                                  IF k = CallOf(ph) THEN u.calls[k] + 1 ELSE u.calls[k]
<1> DEFINE counted == [u.calls EXCEPT ![CallOf(ph)] = @ + 1]
<1>1. counted \in [Calls -> Nat]
    BY CallFacts DEF Amounts
<1>2. \A k \in Calls : counted[k] = IF k = CallOf(ph) THEN u.calls[k] + 1 ELSE u.calls[k]
    BY DEF Amounts
<1>3. RecordCall(u, ph) = [u EXCEPT !.steps = u.steps + 1, !.calls = counted]
    BY DEF RecordCall, Amounts
<1> HIDE DEF counted
<1>4. RecordCall(u, ph) = [steps |-> u.steps + 1, calls |-> counted, evidence |-> u.evidence]
    BY <1>3 DEF Amounts
<1> QED
    BY <1>1, <1>2, <1>4 DEF Amounts

(***************************************************************************)
(* What a plan owes, phase by phase.                                       *)
(***************************************************************************)
LEMMA OwedFacts ==
    ASSUME RunTypes
    PROVE  LET c == plan.cost
           IN  /\ Owed({}) = plan.applicability
               /\ Owed({"Attempt"}) = plan.applicability + c["Attempt"]
               /\ Owed({"Attempt", "TriggerVerification"}) =
                      plan.applicability + c["Attempt"] + c["TriggerVerification"]
               /\ Owed({"Attempt", "TriggerVerification", "ImpactVerification"}) =
                      plan.applicability + c["Attempt"] + c["TriggerVerification"]
                          + c["ImpactVerification"]
               /\ Owed({"Attempt", "TriggerVerification", "ImpactVerification", "Cleanup"}) =
                      plan.applicability + c["Attempt"] + c["TriggerVerification"]
                          + c["ImpactVerification"] + c["Cleanup"]
               /\ Owed(PhasesOf(plan)) = Aggregate(plan) + plan.applicability
               /\ \A ph \in Phases : c[ph] \in Nat
               /\ plan.applicability \in Nat
               /\ Aggregate(plan) = c["Attempt"] + c["TriggerVerification"] + c["ImpactVerification"]
                     + (IF plan.cleanup THEN c["Cleanup"] + c["CleanupVerification"] ELSE 0)
<1> DEFINE c == plan.cost
<1>1. \A ph \in Phases : c[ph] \in Nat
    BY PlanFacts DEF RunTypes, DataTypes
<1>2. plan.applicability \in Nat
    BY PlanFacts DEF RunTypes, DataTypes
<1>3. PhasesOf(plan) = IF plan.cleanup THEN Phases ELSE {"Attempt", "TriggerVerification", "ImpactVerification"}
    BY DEF PhasesOf, Phases, CleanupPhases
<1> QED
    BY <1>1, <1>2, <1>3 DEF Owed, Aggregate, Phases

LEMMA OwedChain ==
    ASSUME RunTypes
    PROVE  LET o1 == Owed({"Attempt"})
               o2 == Owed({"Attempt", "TriggerVerification"})
               o3 == Owed({"Attempt", "TriggerVerification", "ImpactVerification"})
               o4 == Owed({"Attempt", "TriggerVerification", "ImpactVerification", "Cleanup"})
           IN  /\ Owed({}) \in Nat /\ o1 \in Nat /\ o2 \in Nat /\ o3 \in Nat /\ o4 \in Nat
               /\ Owed(PhasesOf(plan)) \in Nat
               /\ \A ph \in Phases : plan.cost[ph] \in Nat
               /\ Owed({}) + plan.cost["Attempt"] = o1
               /\ o1 + plan.cost["TriggerVerification"] = o2
               /\ o2 + plan.cost["ImpactVerification"] = o3
               /\ o3 + plan.cost["Cleanup"] = o4
               /\ o3 <= Owed(PhasesOf(plan))
               /\ plan.cleanup => /\ o4 <= Owed(PhasesOf(plan))
                                  /\ o4 + plan.cost["CleanupVerification"] <= Owed(PhasesOf(plan))
BY OwedFacts DEF Phases

(***************************************************************************)
(* The evidence after an attempt or a verification was answered.           *)
(***************************************************************************)
LEMMA OwedSteps ==
    ASSUME RunTypes, NEW ph \in {"Attempt", "TriggerVerification", "ImpactVerification"},
           NEW e \in Nat, NEW E \in Nat, E <= e + plan.cost[ph],
           ph = "Attempt" => e <= Owed({}),
           ph = "TriggerVerification" => e <= Owed({"Attempt"}),
           ph = "ImpactVerification" => e <= Owed({"Attempt", "TriggerVerification"})
    PROVE  /\ ph = "Attempt" => E <= Owed({"Attempt"})
           /\ ph = "TriggerVerification" => E <= Owed({"Attempt", "TriggerVerification"})
           /\ E <= Owed({"Attempt", "TriggerVerification", "ImpactVerification"})
           /\ E <= Owed(PhasesOf(plan))
<1> DEFINE o0 == Owed({})
           o1 == Owed({"Attempt"})
           o2 == Owed({"Attempt", "TriggerVerification"})
           o3 == Owed({"Attempt", "TriggerVerification", "ImpactVerification"})
           all == Owed(PhasesOf(plan))
           a == plan.cost["Attempt"]
           t == plan.cost["TriggerVerification"]
           i == plan.cost["ImpactVerification"]
<1>1. /\ o0 \in Nat /\ o1 \in Nat /\ o2 \in Nat /\ o3 \in Nat /\ all \in Nat
      /\ o0 + a = o1 /\ o1 + t = o2 /\ o2 + i = o3 /\ o3 <= all
    BY OwedChain
<1>2. a \in Nat /\ t \in Nat /\ i \in Nat
    BY OwedChain DEF Phases
<1>3. CASE ph = "Attempt"
  <2>1. E <= e + a /\ e <= o0
    BY <1>3
  <2> HIDE DEF o0, o1, o2, o3, all, a, t, i
  <2>2. E <= o1 /\ E <= o3 /\ E <= all
    BY <1>1, <1>2, <2>1
  <2> QED
    BY <1>3, <2>2 DEF o1, o3, all
<1>4. CASE ph = "TriggerVerification"
  <2>1. E <= e + t /\ e <= o1
    BY <1>4
  <2> HIDE DEF o0, o1, o2, o3, all, a, t, i
  <2>2. E <= o2 /\ E <= o3 /\ E <= all
    BY <1>1, <1>2, <2>1
  <2> QED
    BY <1>4, <2>2 DEF o2, o3, all
<1>5. CASE ph = "ImpactVerification"
  <2>1. E <= e + i /\ e <= o2
    BY <1>5
  <2> HIDE DEF o0, o1, o2, o3, all, a, t, i
  <2>2. E <= o3 /\ E <= all
    BY <1>1, <1>2, <2>1
  <2> QED
    BY <1>5, <2>2 DEF o3, all
<1> QED
    BY <1>3, <1>4, <1>5

(***************************************************************************)
(* Usage within the plan is within the budget it was authorized with.      *)
(***************************************************************************)
LEMMA PlannedIsAffordable ==
    ASSUME RunTypes, PlanIsCovered, pc \notin Waiting,
           NEW u \in Amounts,
           u.steps = u.calls["Attempt"] + u.calls["Verification"] + u.calls["Cleanup"],
           u.calls["Attempt"] <= 1, u.calls["Verification"] <= 2, u.calls["Cleanup"] <= 2,
           ~plan.cleanup => u.calls["Cleanup"] = 0,
           u.evidence <= Owed(PhasesOf(plan))
    PROVE  UsageWithin(u)
<1>1. Owed(PhasesOf(plan)) \in Nat
    BY OwedFacts DEF Phases
<1>2. \A k \in Calls : u.calls[k] \in Nat /\ budget.calls[k] \in Nat
    BY DEF RunTypes, DataTypes, Amounts
<1>3. u.steps \in Nat /\ u.evidence \in Nat /\ budget.steps \in Nat /\ budget.evidence \in Nat
    BY DEF RunTypes, DataTypes, Amounts
<1>4. \A k \in Calls : u.calls[k] <= budget.calls[k]
    BY <1>2 DEF PlanIsCovered, Calls
<1>5. u.steps <= budget.steps
    BY <1>2, <1>3 DEF PlanIsCovered, Calls
<1>6. u.evidence <= budget.evidence
    BY <1>1, <1>3 DEF PlanIsCovered
<1> QED
    BY <1>4, <1>5, <1>6 DEF UsageWithin, BudgetWithin

(***************************************************************************)
(* Where each step is called from.                                         *)
(***************************************************************************)
Entrance(ph) ==
    CASE ph = "Attempt" -> "attempt"
      [] ph = "TriggerVerification" -> "read trigger"
      [] ph = "ImpactVerification" -> "read impact"
      [] ph = "Cleanup" -> "clean up"
      [] ph = "CleanupVerification" -> "verify cleanup"

(***************************************************************************)
(* A step about to be called can be paid for.                              *)
(***************************************************************************)
LEMMA CallsAreAffordable ==
    ASSUME OInv, NEW ph \in Phases, pc = Entrance(ph)
    PROVE  Affordable(ph)
<1> DEFINE u == RecordCall(usage, ph)
           w == Charge(u, plan.cost[ph])
<1>1. usage \in Amounts /\ RunTypes /\ PlanIsCovered
    BY DEF OInv, RunTypes, DataTypes
<1>2. plan.cost[ph] \in Nat
    BY <1>1, OwedFacts
<1>3. /\ u \in Amounts /\ u.steps = usage.steps + 1 /\ u.evidence = usage.evidence
      /\ \A k \in Calls : u.calls[k] = IF k = CallOf(ph) THEN usage.calls[k] + 1 ELSE usage.calls[k]
    BY <1>1, RecordFacts
<1> HIDE DEF u
<1>4. w \in Amounts /\ w.steps = u.steps /\ w.calls = u.calls
          /\ w.evidence = usage.evidence + plan.cost[ph]
  <2>1. /\ Charge(u, plan.cost[ph]) \in Amounts
        /\ Charge(u, plan.cost[ph]).steps = u.steps
        /\ Charge(u, plan.cost[ph]).calls = u.calls
        /\ Charge(u, plan.cost[ph]).evidence = u.evidence + plan.cost[ph]
    BY Zenon, <1>2, <1>3, ChargeFacts
  <2> QED
    BY <1>3, <2>1
<1> HIDE DEF w
<1>5. \A k \in Calls : usage.calls[k] \in Nat
    BY <1>1 DEF Amounts
<1>6. pc \notin Waiting /\ (ph \in CleanupPhases => plan.cleanup)
    BY DEF OInv, ObligationInStep, Entrance, Phases, Waiting, CleanupPhases, AtCleanup, Unbegun
<1>7. /\ w.calls["Attempt"] = IF ph = "Attempt" THEN usage.calls["Attempt"] + 1 ELSE usage.calls["Attempt"]
      /\ w.calls["Verification"] = IF ph \in {"TriggerVerification", "ImpactVerification"}
                                   THEN usage.calls["Verification"] + 1 ELSE usage.calls["Verification"]
      /\ w.calls["Cleanup"] = IF ph \in CleanupPhases
                              THEN usage.calls["Cleanup"] + 1 ELSE usage.calls["Cleanup"]
    BY <1>3, <1>4, CallFacts DEF Phases, Calls, CleanupPhases
<1>8. CallsInStep /\ EvidenceInStep
    BY DEF OInv
<1>14. /\ usage.calls["Attempt"] <= 1 /\ usage.calls["Verification"] <= 2
       /\ usage.calls["Cleanup"] <= 2
       /\ ~plan.cleanup => usage.calls["Cleanup"] = 0
    BY <1>8 DEF CallsInStep
<1>9. /\ w.calls["Attempt"] <= 1 /\ w.calls["Verification"] <= 2 /\ w.calls["Cleanup"] <= 2
      /\ ~plan.cleanup => w.calls["Cleanup"] = 0
  <2>1. CASE ph = "Attempt"
    BY <1>5, <1>6, <1>7, <1>8, <2>1 DEF CallsInStep, Entrance, CleanupPhases, Unbegun
  <2>2. CASE ph \in {"TriggerVerification", "ImpactVerification"}
    <3>1. pc \in {"read trigger", "read impact"}
      BY <2>2 DEF Entrance
    <3>2. usage.calls["Verification"] \in {0, 1}
      BY <1>5, <1>8, <3>1 DEF CallsInStep, Calls
    <3> QED
      BY <1>5, <1>7, <1>14, <2>2, <3>2 DEF Calls, CleanupPhases
  <2>3. CASE ph \in CleanupPhases
    <3>1. pc \in {"clean up", "verify cleanup"}
      BY <2>3 DEF Entrance, CleanupPhases
    <3>2. usage.calls["Cleanup"] \in {0, 1}
      BY <1>5, <1>8, <3>1 DEF CallsInStep, AtCleanup, Calls
    <3> QED
      BY <1>5, <1>6, <1>7, <1>14, <2>3, <3>2 DEF Calls, CleanupPhases
  <2> QED
    BY <2>1, <2>2, <2>3 DEF Phases, CleanupPhases
<1>10. w.steps = w.calls["Attempt"] + w.calls["Verification"] + w.calls["Cleanup"]
  <2>1. usage.steps = usage.calls["Attempt"] + usage.calls["Verification"] + usage.calls["Cleanup"]
    BY <1>8 DEF CallsInStep
  <2>2. w.steps = usage.steps + 1
    BY <1>3, <1>4
  <2> QED
    BY <1>5, <1>7, <2>1, <2>2 DEF Phases, Calls, CleanupPhases
<1>12. w.evidence <= Owed(PhasesOf(plan))
  <2>1. usage.evidence \in Nat
    BY <1>1 DEF Amounts
  <2>2. CASE ph = "Attempt"
    <3>1. usage.evidence <= Owed({})
      BY <1>8, <2>2 DEF EvidenceInStep, Entrance
    <3> QED
      BY <1>1, <1>4, <2>1, <2>2, <3>1, OwedFacts DEF Phases
  <2>3. CASE ph = "TriggerVerification"
    <3>1. usage.evidence <= Owed({"Attempt"})
      BY <1>8, <2>3 DEF EvidenceInStep, Entrance, AtTrigger
    <3> QED
      BY <1>1, <1>4, <2>1, <2>3, <3>1, OwedFacts DEF Phases
  <2>4. CASE ph = "ImpactVerification"
    <3>1. usage.evidence <= Owed({"Attempt", "TriggerVerification"})
      BY <1>8, <2>4 DEF EvidenceInStep, Entrance, AtImpact
    <3> QED
      BY <1>1, <1>4, <2>1, <2>4, <3>1, OwedFacts DEF Phases
  <2>5. CASE ph = "Cleanup"
    <3>1. usage.evidence <= Owed({"Attempt", "TriggerVerification", "ImpactVerification"})
      BY <1>8, <2>5 DEF EvidenceInStep, Entrance
    <3> QED
      BY <1>1, <1>4, <1>6, <2>1, <2>5, <3>1, OwedFacts DEF Phases, CleanupPhases
  <2>6. CASE ph = "CleanupVerification"
    <3>1. usage.evidence <= Owed({"Attempt", "TriggerVerification", "ImpactVerification", "Cleanup"})
      BY <1>8, <2>6 DEF EvidenceInStep, Entrance
    <3> QED
      BY <1>1, <1>4, <1>6, <2>1, <2>6, <3>1, OwedFacts DEF Phases, CleanupPhases
  <2> QED
    BY <2>2, <2>3, <2>4, <2>5, <2>6 DEF Phases
<1>11. UsageWithin(w)
    BY <1>1, <1>4, <1>6, <1>9, <1>10, <1>12, PlannedIsAffordable
<1> QED
    BY <1>11 DEF Affordable, w, u

(***************************************************************************)
(* The call that was made can be charged in full.                          *)
(***************************************************************************)
LEMMA RoomForAnswer ==
    ASSUME OInv, NEW ph \in Phases, pc = ph
    PROVE  usage.evidence + plan.cost[ph] <= Owed(PhasesOf(plan))
<1>0. RunTypes /\ usage.evidence \in Nat /\ (ph \in CleanupPhases => plan.cleanup)
    BY DEF OInv, RunTypes, DataTypes, Amounts, ObligationInStep, CleanupPhases, AtCleanup,
           Unbegun
<1>1. CASE ph = "Attempt"
  <2>1. usage.evidence <= Owed({})
    BY <1>1 DEF OInv, EvidenceInStep
  <2> QED
    BY <1>0, <1>1, <2>1, OwedFacts DEF Phases
<1>2. CASE ph = "TriggerVerification"
  <2>1. usage.evidence <= Owed({"Attempt"})
    BY <1>2 DEF OInv, EvidenceInStep, AtTrigger
  <2> QED
    BY <1>0, <1>2, <2>1, OwedFacts DEF Phases
<1>3. CASE ph = "ImpactVerification"
  <2>1. usage.evidence <= Owed({"Attempt", "TriggerVerification"})
    BY <1>3 DEF OInv, EvidenceInStep, AtImpact
  <2> QED
    BY <1>0, <1>3, <2>1, OwedFacts DEF Phases
<1>4. CASE ph = "Cleanup"
  <2>1. usage.evidence <= Owed({"Attempt", "TriggerVerification", "ImpactVerification"})
    BY <1>4 DEF OInv, EvidenceInStep
  <2> QED
    BY <1>0, <1>4, <2>1, OwedFacts DEF Phases, CleanupPhases
<1>5. CASE ph = "CleanupVerification"
  <2>1. usage.evidence <= Owed({"Attempt", "TriggerVerification", "ImpactVerification", "Cleanup"})
    BY <1>5 DEF OInv, EvidenceInStep
  <2> QED
    BY <1>0, <1>5, <2>1, OwedFacts DEF Phases, CleanupPhases
<1> QED
    BY <1>1, <1>2, <1>3, <1>4, <1>5 DEF Phases

(***************************************************************************)
(* An executor that was called answers with a receipt or a mishap.         *)
(***************************************************************************)
LEMMA AnswerShape ==
    ASSUME OInv, NEW ph \in Phases, pc = ph, NEW answer \in Answers(ph)
    PROVE  /\ answer.kind \in {"receipt"} \cup Mishaps
           /\ answer.evidence \subseteq References
           /\ Cardinality(answer.evidence) \in Nat
           /\ answer.kind = "receipt" => Cardinality(answer.evidence) <= plan.cost[ph]
<1>1. called
    BY DEF OInv, CallsInStep
<1>2. CASE answer \in ValidReceipts(ph)
  <2>1. answer.kind = "receipt" /\ answer.evidence \in SUBSET References
            /\ Cardinality(answer.evidence) <= plan.cost[ph]
    BY <1>2 DEF ValidReceipts, Receipts
  <2>2. IsFiniteSet(answer.evidence)
    BY <2>1, FS_Subset, EnvironmentAssumption
  <2> QED
    BY <2>1, <2>2, FS_CardinalityType
<1>3. CASE \E m \in Mishaps : answer = NoReceipt(m)
  <2>1. answer.kind \in Mishaps /\ answer.evidence = {}
    BY <1>3 DEF NoReceipt
  <2>2. Cardinality(answer.evidence) = 0
    BY <2>1, FS_EmptySet
  <2>3. answer.kind # "receipt"
    BY <2>1 DEF Mishaps
  <2> QED
    BY <2>1, <2>2, <2>3
<1> QED
    BY <1>1, <1>2, <1>3 DEF Answers

(***************************************************************************)
(* What an answer is charged: never more than its step may cost.           *)
(***************************************************************************)
LEMMA ChargedFacts ==
    ASSUME OInv, NEW ph \in Phases, pc = ph, NEW answer \in Answers(ph)
    PROVE  /\ Charged(ph, answer) \in Amounts
           /\ Charged(ph, answer).steps = usage.steps
           /\ Charged(ph, answer).calls = usage.calls
           /\ Charged(ph, answer).evidence <= usage.evidence + plan.cost[ph]
           /\ UsageWithin(Charged(ph, answer))
<1>1. RunTypes /\ usage \in Amounts /\ usage.evidence \in Nat /\ plan.cost[ph] \in Nat
    BY OwedFacts DEF OInv, RunTypes, DataTypes, Amounts
<1>2. PICK cost \in Nat : cost <= plan.cost[ph] /\ Charged(ph, answer) = Charge(usage, cost)
  <2>1. CASE answer.kind = "receipt"
    <3>1. Cardinality(answer.evidence) \in Nat /\ Cardinality(answer.evidence) <= plan.cost[ph]
      BY <2>1, AnswerShape
    <3>2. Charged(ph, answer) = Charge(usage, Cardinality(answer.evidence))
      BY <2>1 DEF Charged, Mishaps
    <3> QED
      BY <3>1, <3>2
  <2>2. CASE answer.kind \in Mishaps
    <3>1. Charged(ph, answer) = Charge(usage, plan.cost[ph])
      BY <2>2 DEF Charged, Mishaps
    <3> QED
      BY <1>1, <3>1
  <2> QED
    BY <2>1, <2>2, AnswerShape
<1> DEFINE u == Charge(usage, cost)
<1>3. u \in Amounts /\ u.steps = usage.steps /\ u.calls = usage.calls
          /\ u.evidence = usage.evidence + cost
    BY Zenon, <1>1, <1>2, ChargeFacts
<1> HIDE DEF u
<1>4. u.evidence <= usage.evidence + plan.cost[ph]
    BY <1>1, <1>2, <1>3
<1>5. u.evidence <= Owed(PhasesOf(plan))
  <2>1. usage.evidence + plan.cost[ph] <= Owed(PhasesOf(plan))
    BY RoomForAnswer
  <2>2. Owed(PhasesOf(plan)) \in Nat
    BY <1>1, OwedFacts DEF Phases
  <2> QED
    BY <1>1, <1>2, <1>3, <2>1, <2>2
<1>6. /\ u.steps = u.calls["Attempt"] + u.calls["Verification"] + u.calls["Cleanup"]
      /\ u.calls["Attempt"] <= 1 /\ u.calls["Verification"] <= 2 /\ u.calls["Cleanup"] <= 2
      /\ ~plan.cleanup => u.calls["Cleanup"] = 0
    BY <1>3 DEF OInv, CallsInStep
<1>7. PlanIsCovered /\ pc \notin Waiting
    BY DEF OInv, Phases, Waiting
<1>8. UsageWithin(u)
    BY <1>1, <1>3, <1>5, <1>6, <1>7, PlannedIsAffordable
<1> QED
    BY <1>2, <1>3, <1>4, <1>8 DEF u

(***************************************************************************)
(* What invoke makes of it: never a budget failure.                        *)
(***************************************************************************)
LEMMA InvokeFacts ==
    ASSUME OInv, NEW ph \in Phases, pc = ph, NEW answer \in Answers(ph)
    PROVE  \/ InvokeFailure(ph, answer) = None
           \/ /\ InvokeFailure(ph, answer) \in Failures
              /\ ph \notin CleanupPhases => InvokeFailure(ph, answer) \in RunFailures
<1>1. UsageWithin(Charged(ph, answer)) /\ answer.kind \in {"receipt"} \cup Mishaps
    BY ChargedFacts, AnswerShape
<1>2. InvokeFailure(ph, answer) \in
          {None, Failure("InvalidReceipt", "Incomplete"), Failure("ExecutorPanicked", "Failed"),
           FailedFor(ph), IncompleteFailure}
    BY <1>1 DEF InvokeFailure, Mishaps
<1>3. /\ Failure("InvalidReceipt", "Incomplete") \in RunFailures
      /\ Failure("ExecutorPanicked", "Failed") \in RunFailures
      /\ IncompleteFailure \in RunFailures
    BY DEF Failure, IncompleteFailure, RunFailures, Failures, EndStates
<1>4. FailedFor(ph) \in Failures /\ (ph \notin CleanupPhases => FailedFor(ph) \in RunFailures)
    BY DEF FailedFor, Failure, RunFailures, Failures, EndStates, Phases, CleanupPhases
<1> QED
    BY <1>2, <1>3, <1>4 DEF RunFailures

\* The failures the steps report are of these kinds.
LEMMA FailureFacts ==
    /\ None \notin Failures
    /\ CancelledFailure \in RunFailures
    /\ IncompleteFailure \in RunFailures
    /\ \A ph \in Phases \ CleanupPhases : FailedFor(ph) \in RunFailures
    /\ \A ph \in CleanupPhases : /\ FailedFor(ph) \in Failures
                                  /\ FailedFor(ph).terminal = "CleanupFailed"
                                  /\ FailedFor(ph).outcome = "CleanupFailed"
    /\ \A f \in Failures : /\ CleanupTerminal(f) \in Failures
                            /\ CleanupTerminal(f).terminal = "CleanupFailed"
                            /\ CleanupTerminal(f).outcome = "CleanupFailed"
                            /\ CleanupStatusOf(f) \in {"Failed", "Incomplete"}
    /\ CancelledIncomplete \in RunFailures
    /\ CancelledIncomplete.outcome = "Cancelled"
<1>1. None \notin Failures
    BY DEF None, Failures
<1>2. CancelledFailure \in RunFailures /\ IncompleteFailure \in RunFailures
    BY DEF CancelledFailure, IncompleteFailure, Failure, RunFailures, Failures, EndStates
<1>3. \A ph \in Phases \ CleanupPhases : FailedFor(ph) \in RunFailures
    BY DEF FailedFor, Failure, RunFailures, Failures, EndStates, Phases, CleanupPhases
<1>4. \A ph \in CleanupPhases : /\ FailedFor(ph) \in Failures
                                /\ FailedFor(ph).terminal = "CleanupFailed"
                                /\ FailedFor(ph).outcome = "CleanupFailed"
    BY DEF FailedFor, Failure, Failures, CleanupPhases
<1>5. \A f \in Failures : /\ CleanupTerminal(f) \in Failures
                          /\ CleanupTerminal(f).terminal = "CleanupFailed"
                          /\ CleanupTerminal(f).outcome = "CleanupFailed"
                          /\ CleanupStatusOf(f) \in {"Failed", "Incomplete"}
    BY DEF CleanupTerminal, CleanupStatusOf, Failures
<1>6. CancelledIncomplete \in RunFailures /\ CancelledIncomplete.outcome = "Cancelled"
    BY DEF CancelledIncomplete, RunFailures, Failures, EndStates
<1> QED
    BY <1>1, <1>2, <1>3, <1>4, <1>5, <1>6

(***************************************************************************)
(* What an attempt or a verification makes of it.                          *)
(***************************************************************************)
LEMMA StepFacts ==
    ASSUME OInv, NEW ph \in Phases \ CleanupPhases, pc = ph, NEW answer \in Answers(ph)
    PROVE  StepFailure(ph, answer) = None \/ StepFailure(ph, answer) \in RunFailures
<1>1. ReceiptFailure(ph, answer) \in RunFailures
    BY FailureFacts DEF ReceiptFailure
<1> QED
    BY <1>1, InvokeFacts DEF StepFailure

(***************************************************************************)
(* How a failed cleanup is reported.                                       *)
(***************************************************************************)
LEMMA CleanupReportFacts ==
    ASSUME OInv, NEW ph \in CleanupPhases, pc = ph, NEW answer \in Answers(ph),
           CleanupReport(ph, answer)
    PROVE  \E f \in Failures : /\ f.terminal = "CleanupFailed" /\ f.outcome = "CleanupFailed"
                               /\ Report(f) /\ cleanup' \in {"Failed", "Incomplete"}
<1> DEFINE i == InvokeFailure(ph, answer)
<1>0. ph \in Phases
    BY DEF Phases, CleanupPhases
<1>1. i = None \/ i \in Failures
    BY <1>0, InvokeFacts
<1>2. CASE i = None
    BY <1>2, FailureFacts DEF CleanupReport
<1>3. CASE i # None
  <2>1. i \in Failures
    BY <1>1, <1>3
  <2>2. Report(CleanupTerminal(i)) /\ cleanup' = CleanupStatusOf(i)
    BY <1>3 DEF CleanupReport
  <2> QED
    BY <2>1, <2>2, FailureFacts
<1> QED
    BY <1>2, <1>3

(***************************************************************************)
(* The transitions a run asks for.                                         *)
(***************************************************************************)
LEMMA LegalMoves ==
    /\ After("Planned", "AttemptStarted") = "AttemptStarted"
    /\ After("AttemptStarted", "AttemptDelivered") = "AttemptDelivered"
    /\ After("AttemptDelivered", "TriggerObserved") = "TriggerObserved"
    /\ After("TriggerObserved", "ImpactVerified") = "ImpactVerified"
    /\ \A from \in Untouched : After(from, "CleanupRequired") = "CleanupRequired"
    /\ After("CleanupRequired", "CleanupStarted") = "CleanupStarted"
    /\ After("CleanupStarted", "CleanupVerified") = "CleanupVerified"
    /\ After("CleanupStarted", "CleanupFailed") = "CleanupFailed"
    /\ After("CleanupVerified", "Completed") = "Completed"
    /\ After("ImpactVerified", "Completed") = "Completed"
    /\ \A from \in Untouched \cup {"Planned", "CleanupStarted", "CleanupVerified"} :
          \A to \in EndStates : After(from, to) = to
BY DEF After, Legal, Terminal, EndStates, Untouched

(***************************************************************************)
(* A run's end in a failure.                                               *)
(***************************************************************************)
LEMMA ReportMoves ==
    ASSUME OInv, NEW f \in RunFailures, Report(f),
           lifecycle \in Untouched \cup {"Planned", "CleanupStarted", "CleanupVerified"}
    PROVE  /\ pc' = "ended" /\ pending' = f /\ outcome' = f.outcome
           /\ lifecycle' \in States /\ furthest' \in States
           /\ outcome' \in EndStates \cup {"None", "Completed", "CleanupFailed"}
           /\ pending' \in Failures
<1>1. f \in Failures /\ f.terminal \in EndStates /\ f.outcome \in EndStates \cup {"CleanupFailed"}
    BY DEF RunFailures, Failures
<1>2. lifecycle' = f.terminal
    BY <1>1, LegalMoves DEF Report, Transition
<1>3. furthest' \in States
    BY <1>1 DEF Report, Transition, OInv, RunTypes, DataTypes
<1> QED
    BY <1>1, <1>2, <1>3 DEF Report, EndStates, States, Terminal

(***************************************************************************)
(* A call: it is affordable, so it is counted and made.                    *)
(***************************************************************************)
LEMMA InvokeMoves ==
    ASSUME OInv, NEW ph \in Phases, pc = Entrance(ph), Invoke(ph)
    PROVE  /\ pc' = ph /\ called' = TRUE
           /\ usage' \in Amounts
           /\ usage'.steps = usage.steps + 1 /\ usage'.evidence = usage.evidence
           /\ usage'.calls["Attempt"] =
                 IF ph = "Attempt" THEN usage.calls["Attempt"] + 1 ELSE usage.calls["Attempt"]
           /\ usage'.calls["Verification"] =
                 IF ph \in Verifications THEN usage.calls["Verification"] + 1
                 ELSE usage.calls["Verification"]
           /\ usage'.calls["Cleanup"] =
                 IF ph \in CleanupPhases THEN usage.calls["Cleanup"] + 1 ELSE usage.calls["Cleanup"]
           /\ lateCalls' = IF ph \in Verifications /\ generation # 0 THEN lateCalls + 1 ELSE lateCalls
<1>1. Affordable(ph)
    BY CallsAreAffordable
<1>2. usage' = RecordCall(usage, ph) /\ called' = TRUE /\ pc' = ph
    BY <1>1 DEF Invoke
<1>3. usage \in Amounts /\ lateCalls \in Nat
    BY DEF OInv, RunTypes, DataTypes, CounterTypes
<1>4. /\ usage' \in Amounts
      /\ usage'.steps = usage.steps + 1 /\ usage'.evidence = usage.evidence
      /\ \A k \in Calls : usage'.calls[k] = IF k = CallOf(ph) THEN usage.calls[k] + 1 ELSE usage.calls[k]
    BY <1>2, <1>3, RecordFacts
<1>5. /\ (CallOf(ph) = "Attempt") <=> (ph = "Attempt")
      /\ (CallOf(ph) = "Verification") <=> (ph \in Verifications)
      /\ (CallOf(ph) = "Cleanup") <=> (ph \in CleanupPhases)
    BY CallFacts DEF Phases, Verifications, CleanupPhases
<1>6. lateCalls' = IF ph \in Verifications /\ generation # 0 THEN lateCalls + 1 ELSE lateCalls
    BY <1>3, <1>5 DEF Invoke
<1>7. {"Attempt", "Verification", "Cleanup"} = Calls
    BY DEF Calls
<1> QED
    BY <1>2, <1>4, <1>5, <1>6, <1>7

(***************************************************************************)
(* The counts after a call.                                                *)
(***************************************************************************)
LEMMA InvokeCounts ==
    ASSUME OInv, NEW ph \in Phases, pc = Entrance(ph), Invoke(ph), plan' = plan
    PROVE  CallsInStep'
<1> DEFINE a == usage.calls["Attempt"] v == usage.calls["Verification"] c == usage.calls["Cleanup"]
           A == usage'.calls["Attempt"] V == usage'.calls["Verification"] C == usage'.calls["Cleanup"]
<1>1. a \in Nat /\ v \in Nat /\ c \in Nat /\ usage.steps = a + v + c /\ a <= 1 /\ v <= 2 /\ c <= 2
    BY DEF OInv, RunTypes, DataTypes, Amounts, CallsInStep, Calls
<1>2. /\ pc' = ph /\ called' = TRUE /\ usage'.steps = usage.steps + 1
      /\ A = IF ph = "Attempt" THEN a + 1 ELSE a
      /\ V = IF ph \in Verifications THEN v + 1 ELSE v
      /\ C = IF ph \in CleanupPhases THEN c + 1 ELSE c
    BY InvokeMoves
<1>3. /\ ph = "Attempt" => a = 0
      /\ ph \in {"Attempt", "TriggerVerification"} => v = 0
      /\ ph = "ImpactVerification" => v = 1
      /\ ph # "CleanupVerification" => c = 0
      /\ ph = "CleanupVerification" => c = 1
    BY DEF OInv, CallsInStep, Phases, Entrance, Unbegun, AtCleanup
<1>4. ph \in CleanupPhases => plan.cleanup
    BY DEF OInv, ObligationInStep, CleanupPhases, AtCleanup, Entrance, Unbegun
<1> HIDE DEF a, v, c, A, V, C
<1>5. usage'.steps = A + V + C /\ A <= 1 /\ V <= 2 /\ C <= 2
    BY <1>1, <1>2, <1>3 DEF Phases, Verifications, CleanupPhases
<1>6. /\ ph = "Attempt" => V = 0
      /\ ph = "TriggerVerification" => V = 1
      /\ ph \notin CleanupPhases => C = 0
      /\ ph = "Cleanup" => C = 1
      /\ ph = "CleanupVerification" => C = 2
      /\ ~plan.cleanup => C = 0
    BY <1>1, <1>2, <1>3, <1>4 DEF Phases, Verifications, CleanupPhases
<1> QED
    BY <1>2, <1>5, <1>6 DEF A, V, C, CallsInStep, Phases, CleanupPhases, Unbegun, AtCleanup

LEMMA StepsApart ==
    /\ "attempt" \in Unbegun
    /\ "attempt" \notin AtCleanup \cup {"clean up"} /\ "ended" \notin AtCleanup \cup {"clean up"}
    /\ "ended" \notin Unbegun
    /\ "attempt" # "finish" /\ "ended" # "finish" /\ "attempt" # "ended"
BY DEF Unbegun, AtCleanup

-----------------------------------------------------------------------------
\* One lemma for each step of a run.
LEMMA InitO == orInit => OInv
<1> SUFFICES ASSUME orInit PROVE OInv
    OBVIOUS
<1>1. NoUsage \in Amounts /\ \A k \in Calls : NoUsage.calls[k] = 0
    BY DEF NoUsage, Amounts
<1>2. NoUsage.steps = 0 /\ NoUsage.evidence = 0
    BY DEF NoUsage
<1>3. RunTypes
  <2>1. DataTypes
    BY <1>1, BudgetsAssumption, EnvironmentAssumption
       DEF orInit, DataTypes, Places, Unbegun, States, EndStates
  <2>2. FlagTypes
    BY Zenon DEF orInit, FlagTypes
  <2>3. CounterTypes
    BY EnvironmentAssumption DEF orInit, CounterTypes
  <2> QED
    BY <2>1, <2>2, <2>3 DEF RunTypes
<1>4. Owed(PhasesOf(plan)) \in Nat
    BY <1>3, OwedFacts DEF Phases
<1>5. LifecycleInStep /\ FailureInStep /\ ObligationInStep
    BY DEF orInit, LifecycleInStep, FailureInStep, ObligationInStep, Waiting, AtTrigger, AtImpact,
           AtCleanup, Unbegun
<1>6. CallsInStep
    BY <1>1, <1>2 DEF orInit, CallsInStep, Calls, Unbegun, Phases
<1>7. EvidenceInStep
    BY <1>2, <1>4 DEF orInit, EvidenceInStep, Waiting, AtTrigger, AtImpact
<1>8. PlanIsCovered /\ CancellationInStep /\ ProofInStep
    BY DEF orInit, PlanIsCovered, CancellationInStep, ProofInStep, Waiting, Unbegun
<1> QED
    BY <1>3, <1>5, <1>6, <1>7, <1>8 DEF OInv

-----------------------------------------------------------------------------
LEMMA CancelKeeps ==
    ASSUME OInv, Cancel
    PROVE  OInv'
<1>0. /\ DataTypes /\ CounterTypes /\ FlagTypes
      /\ LifecycleInStep /\ FailureInStep /\ ObligationInStep /\ CallsInStep
      /\ EvidenceInStep /\ PlanIsCovered /\ CancellationInStep /\ ProofInStep
    BY  DEF OInv, RunTypes
<1>o. \A S : Owed(S)' = Owed(S)
    BY  DEF Cancel, Owed
<1>1. DataTypes'
    BY Zenon, <1>0 DEF DataTypes, Cancel
<1>2. CounterTypes'
    BY <1>0, EnvironmentAssumption DEF CounterTypes, Cancel
<1>3. FlagTypes'
    BY Zenon, <1>0 DEF FlagTypes, Cancel
<1>4. LifecycleInStep'
    BY <1>0 DEF LifecycleInStep, Cancel
<1>5. FailureInStep'
    BY <1>0 DEF FailureInStep, Cancel
<1>6. ObligationInStep'
    BY <1>0 DEF ObligationInStep, Cancel
<1>7. CallsInStep'
    BY <1>0 DEF CallsInStep, Cancel
<1>8. EvidenceInStep'
    BY <1>0, <1>o DEF EvidenceInStep, Cancel
<1>9. PlanIsCovered'
    BY <1>0, <1>o DEF PlanIsCovered, Cancel
<1>10. CancellationInStep'
  <2>1. generation' > 0 /\ lateCalls' = lateCalls /\ pc' = pc
    BY <1>0 DEF CounterTypes, Cancel
  <2> QED
    BY <1>0, <2>1 DEF CancellationInStep
<1>11. ProofInStep'
    BY <1>0 DEF ProofInStep, ImpactIsProven, Cancel, Unbegun, AtTrigger, AtImpact
<1> QED
    BY <1>1, <1>2, <1>3, <1>4, <1>5, <1>6, <1>7, <1>8, <1>9, <1>10, <1>11 DEF OInv, RunTypes

LEMMA StartKeeps ==
    ASSUME OInv, Start
    PROVE  OInv'
<1>0. /\ DataTypes /\ CounterTypes /\ FlagTypes
      /\ LifecycleInStep /\ FailureInStep /\ ObligationInStep /\ CallsInStep
      /\ EvidenceInStep /\ PlanIsCovered /\ CancellationInStep /\ ProofInStep
    BY  DEF OInv, RunTypes
<1>a. Report(CancelledFailure) => pc' = "ended" /\ pending' \in Failures /\ lifecycle' \in States
              /\ furthest' \in States /\ outcome' \in EndStates \cup {"None", "Completed", "CleanupFailed"}
  <2>1. lifecycle \in Untouched \cup {"Planned", "CleanupStarted", "CleanupVerified"}
    BY  DEF Start, OInv, LifecycleInStep, Waiting
  <2> QED
    BY <2>1, FailureFacts, ReportMoves
<1>b. lifecycle = "Planned"
    BY  DEF Start, OInv, LifecycleInStep
<1>c. ~Report(CancelledFailure) => pc' = "attempt" /\ lifecycle' = "AttemptStarted" /\ furthest' = "AttemptStarted"
              /\ UNCHANGED <<outcome, pending>>
    BY <1>b, LegalMoves DEF Start, Transition, EndStates
<1>o. \A S : Owed(S)' = Owed(S)
    BY  DEF Start, Owed
<1>1. DataTypes'
    BY <1>0, <1>a, <1>b, <1>c DEF DataTypes, Start, Places, Unbegun, States
<1>2. CounterTypes'
    BY <1>0, <1>a, <1>b, <1>c, EnvironmentAssumption DEF CounterTypes, Start
<1>3. FlagTypes'
    BY Zenon, <1>0, <1>a, <1>b, <1>c DEF FlagTypes, Start
<1>4. LifecycleInStep'
    BY <1>0, <1>a, <1>b, <1>c DEF LifecycleInStep, AtTrigger, AtImpact, AtCleanup, Waiting
<1>5. FailureInStep'
    BY <1>0, <1>a, <1>b, <1>c DEF FailureInStep, Start, Unbegun, AtTrigger, AtImpact
<1>6. ObligationInStep'
  <2>1. /\ ~obligation' /\ cleanup' # "Verified" /\ usage'.calls["Attempt"] = 0
        /\ pc' \in {"ended", "attempt"}
    BY <1>0, <1>a, <1>c DEF ObligationInStep, CallsInStep, Start, Unbegun
  <2>2. ~(usage'.calls["Attempt"] > 0)
    BY <2>1
  <2> QED
    BY Zenon, <2>1, <2>2, StepsApart DEF ObligationInStep
<1>7. CallsInStep'
    BY <1>0, <1>a, <1>b, <1>c DEF CallsInStep, ObligationInStep, Start, Unbegun, Phases
<1>8. EvidenceInStep'
    BY <1>0, <1>o, <1>a, <1>b, <1>c DEF EvidenceInStep, Start, AtTrigger, AtImpact, Waiting
<1>9. PlanIsCovered'
    BY <1>0, <1>o, <1>a, <1>b, <1>c DEF PlanIsCovered, Start, Waiting
<1>10. CancellationInStep'
    BY <1>0, <1>a, <1>b, <1>c DEF CancellationInStep, Start, Unbegun
<1>11. ProofInStep'
    BY <1>0, <1>a, <1>b, <1>c DEF ProofInStep, Start, Unbegun
<1> QED
    BY <1>1, <1>2, <1>3, <1>4, <1>5, <1>6, <1>7, <1>8, <1>9, <1>10, <1>11 DEF OInv, RunTypes

LEMMA VerifyUnlessCancelledKeeps ==
    ASSUME OInv, NEW ph \in Verifications, VerifyUnlessCancelled(ph)
    PROVE  OInv'
<1>0. /\ DataTypes /\ CounterTypes /\ FlagTypes
      /\ LifecycleInStep /\ FailureInStep /\ ObligationInStep /\ CallsInStep
      /\ EvidenceInStep /\ PlanIsCovered /\ CancellationInStep /\ ProofInStep
    BY  DEF OInv, RunTypes
<1>a. CancelledFailure \in RunFailures /\ CancelledFailure # None /\ CancelledFailure \in Failures
    BY FailureFacts DEF RunFailures
<1>o. \A S : Owed(S)' = Owed(S)
    BY  DEF VerifyUnlessCancelled, Verifications, ToCleanup, Owed
<1>1. DataTypes'
  <2>1. pc' \in Places /\ (pending' = None \/ pending' \in Failures)
    BY <1>0, <1>a DEF DataTypes, VerifyUnlessCancelled, ToCleanup, Places, AtTrigger, AtImpact
  <2> QED
    BY Zenon, <1>0, <2>1 DEF DataTypes, VerifyUnlessCancelled
<1>2. CounterTypes'
    BY <1>0, <1>a, EnvironmentAssumption DEF CounterTypes, VerifyUnlessCancelled
<1>3. FlagTypes'
    BY Zenon, <1>0, <1>a DEF FlagTypes, VerifyUnlessCancelled
<1>4. LifecycleInStep'
    BY <1>0, <1>a
    DEF LifecycleInStep, VerifyUnlessCancelled, ToCleanup, AtTrigger, AtImpact, AtCleanup,
        Waiting, Untouched
<1>5. FailureInStep'
    BY <1>0, <1>a
    DEF FailureInStep, VerifyUnlessCancelled, ToCleanup, Unbegun, AtTrigger, AtImpact
<1>6. ObligationInStep'
    BY <1>0, <1>a DEF ObligationInStep, VerifyUnlessCancelled, ToCleanup, Unbegun, AtCleanup
<1>7. CallsInStep'
    BY <1>0, <1>a DEF CallsInStep, VerifyUnlessCancelled, ToCleanup, Unbegun, AtCleanup, Phases
<1>8. EvidenceInStep'
  <2>1. CASE generation = 0
    BY <1>0, <1>o, <2>1 DEF EvidenceInStep, VerifyUnlessCancelled, AtTrigger, AtImpact, Waiting
  <2>2. CASE generation # 0
    <3>1. /\ pc' \in {"clean up", "finish"} /\ usage' = usage /\ (pc' = "finish" => ~obligation')
          /\ plan' = plan
      BY <2>2 DEF VerifyUnlessCancelled, ToCleanup
    <3>2. usage.evidence <= Owed({"Attempt", "TriggerVerification"})
      <4>1. usage.evidence \in Nat /\ RunTypes
        BY <1>0 DEF DataTypes, Amounts, RunTypes
      <4>2. usage.evidence <= Owed({"Attempt"}) \/ usage.evidence <= Owed({"Attempt", "TriggerVerification"})
        BY <1>0 DEF EvidenceInStep, VerifyUnlessCancelled, AtTrigger, AtImpact
      <4> QED
        BY <4>1, <4>2, OwedFacts DEF Phases
    <3>3. usage.evidence <= Owed({"Attempt", "TriggerVerification", "ImpactVerification"})
      <4>1. usage.evidence \in Nat /\ RunTypes
        BY <1>0 DEF DataTypes, Amounts, RunTypes
      <4> QED
        BY <3>2, <4>1, OwedFacts DEF Phases
    <3> QED
      BY <1>0, <1>o, <3>1, <3>3 DEF EvidenceInStep, AtTrigger, AtImpact, Waiting
  <2> QED
    BY <2>1, <2>2
<1>9. PlanIsCovered'
    BY <1>0, <1>o, <1>a DEF PlanIsCovered, VerifyUnlessCancelled, Waiting
<1>10. CancellationInStep'
  <2>0. generation \in Nat /\ lateCalls \in Nat
    BY <1>0 DEF CounterTypes
  <2>3. lateCalls > 0 => generation > 0
    BY <1>0 DEF CancellationInStep
  <2>4. generation' = generation /\ lateCalls' = lateCalls
    BY  DEF VerifyUnlessCancelled
  <2>1. CASE generation = 0
    <3>1. lateCalls' = 0 /\ ~(lateCalls' > 0)
      BY <2>0, <2>1, <2>3, <2>4
    <3> QED
      BY <3>1 DEF CancellationInStep
  <2>2. CASE generation # 0
    <3>1. generation' > 0
      BY <2>0, <2>2, <2>4
    <3>2. pc' \in {"clean up", "finish"}
      BY <2>2 DEF VerifyUnlessCancelled, ToCleanup
    <3> QED
      BY <3>1, <3>2 DEF CancellationInStep, Unbegun
  <2> QED
    BY <2>1, <2>2
<1>11. ProofInStep'
    BY <1>0, <1>a DEF ProofInStep, VerifyUnlessCancelled, AtTrigger, AtImpact
<1> QED
    BY <1>1, <1>2, <1>3, <1>4, <1>5, <1>6, <1>7, <1>8, <1>9, <1>10, <1>11 DEF OInv, RunTypes

LEMMA BeginVerificationKeeps ==
    ASSUME OInv, NEW ph \in Verifications, BeginVerification(ph)
    PROVE  OInv'
<1>0. /\ DataTypes /\ CounterTypes /\ FlagTypes
      /\ LifecycleInStep /\ FailureInStep /\ ObligationInStep /\ CallsInStep
      /\ EvidenceInStep /\ PlanIsCovered /\ CancellationInStep /\ ProofInStep
    BY  DEF OInv, RunTypes
<1>a. ph \in Phases /\ ph \notin CleanupPhases /\ ph # "Attempt" /\ pc = Entrance(ph)
    BY  DEF BeginVerification, Verifications, Phases, CleanupPhases, Entrance
<1>b. Invoke(ph)
    BY  DEF BeginVerification
<1>c. /\ pc' = ph /\ called' = TRUE /\ usage' \in Amounts
      /\ usage'.steps = usage.steps + 1 /\ usage'.evidence = usage.evidence
      /\ usage'.calls["Attempt"] = usage.calls["Attempt"]
      /\ usage'.calls["Verification"] = usage.calls["Verification"] + 1
      /\ usage'.calls["Cleanup"] = usage.calls["Cleanup"]
      /\ lateCalls' = IF generation # 0 THEN lateCalls + 1 ELSE lateCalls
    BY <1>a, <1>b, InvokeMoves
<1>o. \A S : Owed(S)' = Owed(S)
    BY  DEF BeginVerification, Verifications, Owed
<1>1. DataTypes'
  <2>1. pc' \in Places /\ usage' \in Amounts
    BY <1>a, <1>c DEF Verifications, Places, AtTrigger, AtImpact
  <2> QED
    BY Zenon, <1>0, <2>1 DEF DataTypes, BeginVerification
<1>2. CounterTypes'
  <2>1. lateCalls = 0
    BY <1>0 DEF CancellationInStep, BeginVerification, Verifications, Unbegun
  <2>2. lateCalls' \in 0..1
    BY <1>c, <2>1
  <2>3. generation' = generation /\ seen' = generation
    BY  DEF BeginVerification
  <2> QED
    BY <1>0, <2>2, <2>3 DEF CounterTypes
<1>3. FlagTypes'
    BY Zenon, <1>0, <1>a, <1>c DEF FlagTypes, BeginVerification, Verifications
<1>4. LifecycleInStep'
    BY <1>0, <1>a, <1>c
    DEF LifecycleInStep, BeginVerification, Verifications, AtTrigger, AtImpact, AtCleanup,
        Waiting
<1>5. FailureInStep'
    BY <1>0, <1>a, <1>c DEF FailureInStep, BeginVerification, AtTrigger, AtImpact
<1>6. ObligationInStep'
    BY <1>0, <1>a, <1>c
    DEF ObligationInStep, BeginVerification, Verifications, Unbegun, AtCleanup
<1>7. CallsInStep'
    BY <1>a, <1>b, InvokeCounts DEF BeginVerification, Verifications
<1>8. EvidenceInStep'
    BY <1>0, <1>o, <1>a, <1>c
    DEF EvidenceInStep, BeginVerification, Verifications, AtTrigger, AtImpact, Waiting
<1>9. PlanIsCovered'
    BY <1>0, <1>o, <1>a, <1>c DEF PlanIsCovered, BeginVerification, Waiting
<1>10. CancellationInStep'
  <2>1. lateCalls = 0
    BY <1>0 DEF CancellationInStep, BeginVerification, Verifications, Unbegun
  <2>4. generation' = generation
    BY  DEF BeginVerification
  <2>2. lateCalls' > 0 => generation' > 0
    BY <1>0, <1>c, <2>1, <2>4 DEF CounterTypes
  <2>3. pc' \in Verifications
    BY <1>c
  <2> QED
    BY <2>2, <2>3 DEF CancellationInStep, Verifications, Unbegun
<1>11. ProofInStep'
    BY <1>0, <1>a, <1>c DEF ProofInStep, BeginVerification, AtTrigger, AtImpact
<1> QED
    BY <1>1, <1>2, <1>3, <1>4, <1>5, <1>6, <1>7, <1>8, <1>9, <1>10, <1>11 DEF OInv, RunTypes

LEMMA BeginAttemptKeeps ==
    ASSUME OInv, BeginAttempt
    PROVE  OInv'
<1>0. /\ DataTypes /\ CounterTypes /\ FlagTypes
      /\ LifecycleInStep /\ FailureInStep /\ ObligationInStep /\ CallsInStep
      /\ EvidenceInStep /\ PlanIsCovered /\ CancellationInStep /\ ProofInStep
    BY  DEF OInv, RunTypes
<1>a. Report(CancelledFailure) => pc' = "ended" /\ pending' \in Failures /\ lifecycle' \in States
              /\ furthest' \in States /\ outcome' \in EndStates \cup {"None", "Completed", "CleanupFailed"}
  <2>1. lifecycle \in Untouched \cup {"Planned", "CleanupStarted", "CleanupVerified"}
    BY  DEF BeginAttempt, OInv, LifecycleInStep, Untouched
  <2> QED
    BY <2>1, FailureFacts, ReportMoves
<1>b. Invoke("Attempt") =>
      /\ pc' = "Attempt" /\ called' = TRUE /\ usage' \in Amounts
      /\ usage'.steps = usage.steps + 1 /\ usage'.evidence = usage.evidence
      /\ usage'.calls["Attempt"] = usage.calls["Attempt"] + 1
      /\ usage'.calls["Verification"] = usage.calls["Verification"]
      /\ usage'.calls["Cleanup"] = usage.calls["Cleanup"]
      /\ lateCalls' = lateCalls
  <2>1. "Attempt" \in Phases /\ "Attempt" \notin Verifications /\ "Attempt" \notin CleanupPhases
            /\ pc = Entrance("Attempt")
    BY  DEF BeginAttempt, Entrance, Phases, Verifications, CleanupPhases
  <2> QED
    BY <2>1, InvokeMoves
<1>d. plan.cleanup \in BOOLEAN /\ Obliged = plan.cleanup
  <2>1. plan \in Plans
    BY <1>0 DEF DataTypes
  <2>2. plan.cleanup \in BOOLEAN /\ plan.reversible = plan.cleanup
    BY <2>1, PlanFacts
  <2> QED
    BY Zenon, <2>2 DEF Obliged
<1>o. \A S : Owed(S)' = Owed(S)
    BY  DEF BeginAttempt, Owed
<1>1. DataTypes'
  <2>1. CASE Report(CancelledFailure)
    <3>1. pc' \in Places
      BY <1>a, <2>1 DEF Places
    <3>2. usage' = usage
      BY <2>1, <1>a, <1>b DEF BeginAttempt, Invoke
    <3> QED
      BY Zenon, <1>0, <1>a, <2>1, <3>1, <3>2 DEF DataTypes, BeginAttempt
  <2>2. CASE Invoke("Attempt") /\ UNCHANGED <<lifecycle, furthest, pending, outcome>>
    <3>1. pc' \in Places /\ usage' \in Amounts
      BY <1>b, <2>2 DEF Places
    <3> QED
      BY Zenon, <1>0, <2>2, <3>1 DEF DataTypes, BeginAttempt
  <2> QED
    BY <2>1, <2>2 DEF BeginAttempt
<1>2. CounterTypes'
    BY <1>0, <1>a, <1>b, <1>d, EnvironmentAssumption DEF CounterTypes, BeginAttempt
<1>3. FlagTypes'
  <2>1. called' \in BOOLEAN
    BY Zenon, <1>0, <1>b DEF FlagTypes, BeginAttempt
  <2>2. obligation' \in BOOLEAN
    BY Zenon, <1>0, <1>d DEF FlagTypes, BeginAttempt
  <2> QED
    BY Zenon, <2>1, <2>2 DEF FlagTypes
<1>4. LifecycleInStep'
    BY <1>0, <1>a, <1>b, <1>d
    DEF LifecycleInStep, BeginAttempt, AtTrigger, AtImpact, AtCleanup, Waiting
<1>5. FailureInStep'
    BY <1>0, <1>a, <1>b, <1>d DEF FailureInStep, BeginAttempt, Unbegun, AtTrigger, AtImpact
<1>6. ObligationInStep'
  <2>1. ~obligation /\ cleanup' # "Verified" /\ plan' = plan
    BY <1>0 DEF ObligationInStep, BeginAttempt, Unbegun
  <2>2. CASE Invoke("Attempt") /\ obligation' = Obliged
    <3>1. pc' = "Attempt" /\ (obligation' <=> plan'.cleanup)
      BY <1>b, <1>d, <2>1, <2>2
    <3> QED
      BY <2>1, <3>1 DEF ObligationInStep, Unbegun, AtCleanup
  <2>3. CASE Report(CancelledFailure) /\ obligation' = obligation /\ usage' = usage
    <3>1. pc' = "ended" /\ ~(usage'.calls["Attempt"] > 0)
      BY <1>0, <1>a, <2>3 DEF CallsInStep, BeginAttempt, Unbegun
    <3> QED
      BY <2>1, <2>3, <3>1 DEF ObligationInStep, Unbegun, AtCleanup
  <2> QED
    BY <2>2, <2>3 DEF BeginAttempt
<1>7. CallsInStep'
  <2>1. CASE Invoke("Attempt")
    BY <2>1, InvokeCounts DEF BeginAttempt, Phases, Entrance
  <2>2. CASE Report(CancelledFailure) /\ obligation' = obligation /\ usage' = usage
    <3>1. pc' = "ended" /\ plan' = plan
      BY <1>a, <2>2 DEF BeginAttempt
    <3>2. usage.calls["Cleanup"] = 0
      BY <1>0 DEF CallsInStep, BeginAttempt, AtCleanup
    <3> QED
      BY <1>0, <2>2, <3>1, <3>2 DEF CallsInStep, Unbegun, AtCleanup, Phases
  <2> QED
    BY <2>1, <2>2 DEF BeginAttempt
<1>8. EvidenceInStep'
    BY <1>0, <1>o, <1>a, <1>b, <1>d
    DEF EvidenceInStep, BeginAttempt, AtTrigger, AtImpact, Waiting
<1>9. PlanIsCovered'
    BY <1>0, <1>o, <1>a, <1>b, <1>d DEF PlanIsCovered, BeginAttempt, Waiting
<1>10. CancellationInStep'
    BY <1>0, <1>a, <1>b, <1>d DEF CancellationInStep, BeginAttempt, Unbegun
<1>11. ProofInStep'
    BY <1>0, <1>a, <1>b, <1>d DEF ProofInStep, BeginAttempt, Unbegun
<1> QED
    BY <1>1, <1>2, <1>3, <1>4, <1>5, <1>6, <1>7, <1>8, <1>9, <1>10, <1>11 DEF OInv, RunTypes

LEMMA BeginCleanupKeeps ==
    ASSUME OInv, BeginCleanup
    PROVE  OInv'
<1>0. /\ DataTypes /\ CounterTypes /\ FlagTypes
      /\ LifecycleInStep /\ FailureInStep /\ ObligationInStep /\ CallsInStep
      /\ EvidenceInStep /\ PlanIsCovered /\ CancellationInStep /\ ProofInStep
    BY  DEF OInv, RunTypes
<1>a. "Cleanup" \in Phases /\ "Cleanup" \in CleanupPhases /\ "Cleanup" \notin Verifications
          /\ pc = Entrance("Cleanup")
    BY  DEF BeginCleanup, Entrance, Phases, Verifications, CleanupPhases
<1>b. Invoke("Cleanup")
    BY  DEF BeginCleanup
<1>c. /\ pc' = "Cleanup" /\ called' = TRUE /\ usage' \in Amounts
      /\ usage'.steps = usage.steps + 1 /\ usage'.evidence = usage.evidence
      /\ usage'.calls["Attempt"] = usage.calls["Attempt"]
      /\ usage'.calls["Verification"] = usage.calls["Verification"]
      /\ usage'.calls["Cleanup"] = usage.calls["Cleanup"] + 1
      /\ lateCalls' = lateCalls
    BY <1>a, <1>b, InvokeMoves
<1>d. lifecycle' = "CleanupStarted"
    BY LegalMoves DEF BeginCleanup, OInv, LifecycleInStep
<1>e. CancelledFailure \in RunFailures /\ CancelledFailure \in Failures
    BY FailureFacts DEF RunFailures
<1>o. \A S : Owed(S)' = Owed(S)
    BY  DEF BeginCleanup, Owed
<1>1. DataTypes'
    BY <1>0, <1>c, <1>d, <1>e DEF DataTypes, BeginCleanup, Places, AtCleanup, States
<1>2. CounterTypes'
    BY <1>0, <1>c, <1>d, <1>e, EnvironmentAssumption DEF CounterTypes, BeginCleanup
<1>3. FlagTypes'
    BY Zenon, <1>0, <1>c, <1>d, <1>e DEF FlagTypes, BeginCleanup
<1>4. LifecycleInStep'
    BY <1>0, <1>c, <1>d, <1>e DEF LifecycleInStep, AtTrigger, AtImpact, Waiting
<1>5. FailureInStep'
    BY <1>0, <1>c, <1>d, <1>e DEF FailureInStep, BeginCleanup, Unbegun, AtTrigger, AtImpact
<1>6. ObligationInStep'
    BY <1>0, <1>c, <1>d, <1>e DEF ObligationInStep, BeginCleanup, Unbegun
<1>7. CallsInStep'
    BY <1>a, <1>b, InvokeCounts DEF BeginCleanup
<1>8. EvidenceInStep'
    BY <1>0, <1>o, <1>c, <1>d, <1>e
    DEF EvidenceInStep, BeginCleanup, AtTrigger, AtImpact, Waiting
<1>9. PlanIsCovered'
    BY <1>0, <1>o, <1>c, <1>d, <1>e DEF PlanIsCovered, BeginCleanup, Waiting
<1>10. CancellationInStep'
    BY <1>0, <1>c, <1>d, <1>e DEF CancellationInStep, BeginCleanup, Unbegun
<1>11. ProofInStep'
    BY <1>0, <1>c, <1>d, <1>e
    DEF ProofInStep, ImpactIsProven, BeginCleanup, Unbegun, AtTrigger, AtImpact
<1> QED
    BY <1>1, <1>2, <1>3, <1>4, <1>5, <1>6, <1>7, <1>8, <1>9, <1>10, <1>11 DEF OInv, RunTypes

LEMMA BeginCleanupVerificationKeeps ==
    ASSUME OInv, BeginCleanupVerification
    PROVE  OInv'
<1>0. /\ DataTypes /\ CounterTypes /\ FlagTypes
      /\ LifecycleInStep /\ FailureInStep /\ ObligationInStep /\ CallsInStep
      /\ EvidenceInStep /\ PlanIsCovered /\ CancellationInStep /\ ProofInStep
    BY  DEF OInv, RunTypes
<1>a. "CleanupVerification" \in Phases /\ "CleanupVerification" \in CleanupPhases
          /\ "CleanupVerification" \notin Verifications /\ pc = Entrance("CleanupVerification")
    BY  DEF BeginCleanupVerification, Entrance, Phases, Verifications, CleanupPhases
<1>b. Invoke("CleanupVerification")
    BY  DEF BeginCleanupVerification
<1>c. /\ pc' = "CleanupVerification" /\ called' = TRUE /\ usage' \in Amounts
      /\ usage'.steps = usage.steps + 1 /\ usage'.evidence = usage.evidence
      /\ usage'.calls["Attempt"] = usage.calls["Attempt"]
      /\ usage'.calls["Verification"] = usage.calls["Verification"]
      /\ usage'.calls["Cleanup"] = usage.calls["Cleanup"] + 1
      /\ lateCalls' = lateCalls
    BY <1>a, <1>b, InvokeMoves
<1>o. \A S : Owed(S)' = Owed(S)
    BY  DEF BeginCleanupVerification, Owed
<1>1. DataTypes'
  <2>1. pc' \in Places /\ usage' \in Amounts
    BY <1>c DEF Places, AtCleanup
  <2> QED
    BY Zenon, <1>0, <2>1 DEF DataTypes, BeginCleanupVerification
<1>2. CounterTypes'
    BY <1>0, <1>c, EnvironmentAssumption DEF CounterTypes, BeginCleanupVerification
<1>3. FlagTypes'
    BY Zenon, <1>0, <1>c DEF FlagTypes, BeginCleanupVerification
<1>4. LifecycleInStep'
    BY <1>0, <1>c
    DEF LifecycleInStep, BeginCleanupVerification, AtTrigger, AtImpact, AtCleanup, Waiting
<1>5. FailureInStep'
    BY <1>0, <1>c DEF FailureInStep, BeginCleanupVerification, Unbegun, AtTrigger, AtImpact
<1>6. ObligationInStep'
    BY <1>0, <1>c DEF ObligationInStep, BeginCleanupVerification, Unbegun, AtCleanup
<1>7. CallsInStep'
    BY <1>a, <1>b, InvokeCounts DEF BeginCleanupVerification
<1>8. EvidenceInStep'
    BY <1>0, <1>o, <1>c
    DEF EvidenceInStep, BeginCleanupVerification, AtTrigger, AtImpact, Waiting
<1>9. PlanIsCovered'
    BY <1>0, <1>o, <1>c DEF PlanIsCovered, BeginCleanupVerification, Waiting
<1>10. CancellationInStep'
    BY <1>0, <1>c DEF CancellationInStep, BeginCleanupVerification, Unbegun
<1>11. ProofInStep'
    BY <1>0, <1>c
    DEF ProofInStep, ImpactIsProven, BeginCleanupVerification, Unbegun, AtTrigger, AtImpact
<1> QED
    BY <1>1, <1>2, <1>3, <1>4, <1>5, <1>6, <1>7, <1>8, <1>9, <1>10, <1>11 DEF OInv, RunTypes

(***************************************************************************)
(* An attempt or a verification answered: the run goes on to the next step *)
(* or, with a failure, to its cleanup.                                     *)
(***************************************************************************)
LEMMA AnsweredKeeps ==
    ASSUME OInv, NEW ph \in Phases \ CleanupPhases, pc = ph,
           usage' \in Amounts, usage'.steps = usage.steps, usage'.calls = usage.calls,
           usage'.evidence <= usage.evidence + plan.cost[ph],
           UNCHANGED <<called, plan, budget, generation, seen, cleanup, obligation, outcome, lateCalls>>,
           \/ /\ pending' = None /\ ph = "Attempt"
              /\ pc' = "check trigger" /\ lifecycle' = "AttemptDelivered"
           \/ /\ pending' = None /\ ph = "TriggerVerification"
              /\ pc' = "check impact" /\ lifecycle' = "TriggerObserved"
           \/ /\ pending' = None /\ ph = "ImpactVerification"
              /\ pc' = ToCleanup /\ lifecycle' = "ImpactVerified"
           \/ /\ pending' \in RunFailures
              /\ pc' = ToCleanup /\ lifecycle' \in Untouched,
           furthest' \in States,
           trigger' \subseteq References, proof' \subseteq References,
           impact' \in {"NotVerified", "Verified"}, ProofInStep'
    PROVE  OInv'
<1>0. DataTypes /\ CounterTypes /\ FlagTypes /\ RunTypes
    BY DEF OInv, RunTypes
<1>1. /\ pc' \in {"check trigger", "check impact", "clean up", "finish"}
      /\ pc' = "finish" => ~obligation
      /\ pc' = "clean up" => obligation
      /\ pc' = "check trigger" => ph = "Attempt" /\ pending' = None /\ lifecycle' = "AttemptDelivered"
      /\ pc' = "check impact" => ph = "TriggerVerification" /\ pending' = None
                                     /\ lifecycle' = "TriggerObserved"
      /\ pc' \in {"clean up", "finish"} => lifecycle' \in Untouched
      /\ pc' = "finish" /\ pending' = None => lifecycle' = "ImpactVerified"
  <2>1. None \notin RunFailures
    BY FailureFacts DEF RunFailures
  <2> QED
    BY <2>1 DEF ToCleanup, Untouched
<1>2. pending' = None \/ (pending' \in RunFailures /\ pending' \in Failures)
    BY DEF RunFailures
<1>3. DataTypes'
  <2>1. lifecycle' \in States
    BY DEF Untouched, States
  <2>2. pc' \in Places
    BY <1>1 DEF Places, AtTrigger, AtImpact
  <2>3. pending' = None \/ pending' \in Failures
    BY <1>2
  <2> QED
    BY Zenon, <1>0, <2>1, <2>2, <2>3 DEF DataTypes
<1>4. CounterTypes' /\ FlagTypes'
    BY Zenon, <1>0 DEF CounterTypes, FlagTypes
<1>5. LifecycleInStep'
    BY <1>1 DEF LifecycleInStep, Waiting, AtTrigger, AtImpact, AtCleanup
<1>6. FailureInStep'
    BY <1>1, <1>2 DEF FailureInStep, Unbegun, AtTrigger, AtImpact
<1>7. ObligationInStep'
  <2>1. (obligation <=> plan.cleanup) /\ cleanup # "Verified"
    BY DEF OInv, ObligationInStep, Phases, CleanupPhases, Unbegun
  <2> QED
    BY <1>1, <2>1 DEF ObligationInStep, Unbegun, AtCleanup
<1>8. CallsInStep'
  <2>1. /\ usage.steps = usage.calls["Attempt"] + usage.calls["Verification"] + usage.calls["Cleanup"]
        /\ usage.calls["Attempt"] <= 1 /\ usage.calls["Verification"] <= 2 /\ usage.calls["Cleanup"] <= 2
    BY DEF OInv, CallsInStep
  <2>2. /\ usage.calls["Cleanup"] = 0
        /\ ph = "Attempt" => usage.calls["Verification"] = 0
        /\ ph = "TriggerVerification" => usage.calls["Verification"] = 1
    BY DEF OInv, CallsInStep, Phases, CleanupPhases, AtCleanup, Unbegun
  <2> QED
    BY <1>1, <2>1, <2>2 DEF CallsInStep, Unbegun, AtCleanup, Phases
<1>9. EvidenceInStep'
  <2>1. \A S : Owed(S)' = Owed(S)
    BY DEF Owed
  <2>2. usage.evidence \in Nat /\ usage'.evidence \in Nat
    BY <1>0 DEF DataTypes, Amounts
  <2>3. /\ ph = "Attempt" => usage.evidence <= Owed({})
        /\ ph = "TriggerVerification" => usage.evidence <= Owed({"Attempt"})
        /\ ph = "ImpactVerification" => usage.evidence <= Owed({"Attempt", "TriggerVerification"})
        /\ ph \in {"Attempt", "TriggerVerification", "ImpactVerification"}
    BY DEF OInv, EvidenceInStep, AtTrigger, AtImpact, Phases, CleanupPhases
  <2>4. /\ ph = "Attempt" => usage'.evidence <= Owed({"Attempt"})
        /\ ph = "TriggerVerification" => usage'.evidence <= Owed({"Attempt", "TriggerVerification"})
        /\ usage'.evidence <= Owed({"Attempt", "TriggerVerification", "ImpactVerification"})
        /\ usage'.evidence <= Owed(PhasesOf(plan))
    BY <1>0, <2>2, <2>3, OwedSteps
  <2> QED
    BY <1>1, <2>1, <2>4 DEF EvidenceInStep, Waiting, AtTrigger, AtImpact
<1>10. PlanIsCovered'
  <2>1. \A S : Owed(S)' = Owed(S)
    BY DEF Owed
  <2>2. pc \notin Waiting
    BY DEF Waiting, Phases
  <2> QED
    BY <2>1, <2>2 DEF OInv, PlanIsCovered
<1>11. CancellationInStep'
  <2>1. lateCalls > 0 => generation > 0
    BY DEF OInv, CancellationInStep
  <2>2. pc' = "check trigger" => lateCalls = 0
    BY <1>1 DEF OInv, CancellationInStep
  <2> QED
    BY <1>1, <2>1, <2>2 DEF CancellationInStep, Unbegun
<1> QED
    BY <1>3, <1>4, <1>5, <1>6, <1>7, <1>8, <1>9, <1>10, <1>11 DEF OInv, RunTypes

LEMMA AttemptAnsweredKeeps ==
    ASSUME OInv, NEW answer \in Answers("Attempt"), AttemptAnswered(answer)
    PROVE  OInv'
<1> DEFINE ph == "Attempt"
           failed == StepFailure(ph, answer)
<1>0. ph \in Phases \ CleanupPhases /\ ph \in Phases /\ pc = ph
    BY DEF Phases, CleanupPhases, AttemptAnswered
<1>1. /\ usage' \in Amounts /\ usage'.steps = usage.steps /\ usage'.calls = usage.calls
      /\ usage'.evidence <= usage.evidence + plan.cost[ph]
    BY <1>0, ChargedFacts DEF AttemptAnswered
<1>2. failed = None \/ failed \in RunFailures
    BY <1>0, StepFacts
<1> HIDE DEF failed
<1>3. /\ pending' = IF generation # 0 THEN CancelledFailure ELSE failed
      /\ IF failed = None THEN Transition("AttemptDelivered") ELSE UNCHANGED <<lifecycle, furthest>>
      /\ pc' = Continue("Attempt", IF generation # 0 THEN CancelledFailure ELSE failed)
    BY DEF AttemptAnswered, failed
<1>4. lifecycle = "AttemptStarted" /\ furthest \in States
    BY <1>0 DEF OInv, RunTypes, DataTypes, LifecycleInStep
<1>5. /\ failed = None => lifecycle' = "AttemptDelivered" /\ furthest' = "AttemptDelivered"
      /\ failed # None => lifecycle' = "AttemptStarted" /\ furthest' = furthest
    BY <1>3, <1>4, LegalMoves DEF Transition, EndStates
<1>6. lifecycle' \in Untouched /\ furthest' \in States
    BY <1>4, <1>5 DEF Untouched, States
<1>7. \/ pending' = None /\ pc' = "check trigger" /\ lifecycle' = "AttemptDelivered"
      \/ pending' \in RunFailures /\ pc' = ToCleanup
  <2>1. CancelledFailure \in RunFailures /\ None \notin RunFailures
    BY FailureFacts DEF RunFailures
  <2> QED
    BY <1>2, <1>3, <1>5, <2>1 DEF Continue
<1>8. /\ UNCHANGED <<called, plan, budget, generation, seen, cleanup, obligation, outcome, lateCalls>>
      /\ UNCHANGED <<trigger, impact, proof>>
    BY DEF AttemptAnswered
<1>9. /\ trigger' \subseteq References /\ proof' \subseteq References
      /\ impact' \in {"NotVerified", "Verified"} /\ ProofInStep'
  <2>1. impact # "Verified"
    BY <1>0 DEF OInv, ProofInStep
  <2> QED
    BY <1>8, <2>1 DEF OInv, RunTypes, DataTypes, ProofInStep
<1> QED
    BY <1>0, <1>1, <1>6, <1>7, <1>8, <1>9, AnsweredKeeps

LEMMA VerificationAnsweredKeeps ==
    ASSUME OInv, NEW ph \in Verifications, NEW answer \in Answers(ph), VerificationAnswered(ph, answer)
    PROVE  OInv'
<1> DEFINE step == StepFailure(ph, answer)
           unproven == ph = "ImpactVerification" /\ ~ImpactIsProven(answer.evidence)
           failure == IF generation # seen THEN CancelledFailure
                      ELSE IF step = None /\ unproven THEN FailedFor("ImpactVerification") ELSE step
<1>0. ph \in Phases \ CleanupPhases /\ ph \in Phases /\ pc = ph /\ ph # "Attempt"
    BY DEF Phases, CleanupPhases, Verifications, VerificationAnswered
<1>1. /\ usage' \in Amounts /\ usage'.steps = usage.steps /\ usage'.calls = usage.calls
      /\ usage'.evidence <= usage.evidence + plan.cost[ph]
    BY <1>0, ChargedFacts DEF VerificationAnswered
<1>2. failure = None \/ failure \in RunFailures
  <2>1. step = None \/ step \in RunFailures
    BY <1>0, StepFacts
  <2>2. CancelledFailure \in RunFailures /\ FailedFor("ImpactVerification") \in RunFailures
    BY FailureFacts DEF Phases, CleanupPhases
  <2> QED
    BY <2>1, <2>2
<1>3. failure = None => ~unproven
  <2>1. CancelledFailure # None /\ FailedFor("ImpactVerification") # None
    BY FailureFacts DEF RunFailures, Phases, CleanupPhases
  <2> QED
    BY <2>1
<1>4. /\ pending' = failure /\ pc' = Continue(ph, failure)
      /\ failure = None =>
            /\ Transition(Expected(ph))
            /\ trigger' = IF ph = "TriggerVerification" THEN answer.evidence ELSE trigger
            /\ impact' = IF ph = "ImpactVerification" THEN "Verified" ELSE impact
            /\ proof' = IF ph = "ImpactVerification" THEN answer.evidence ELSE proof
      /\ failure # None => UNCHANGED <<lifecycle, furthest, trigger, impact, proof>>
    BY DEF VerificationAnswered
<1>5. UNCHANGED <<called, plan, budget, generation, seen, cleanup, obligation, outcome, lateCalls>>
    BY DEF VerificationAnswered
<1> HIDE DEF failure
<1>6. /\ ph = "TriggerVerification" => lifecycle = "AttemptDelivered"
      /\ ph = "ImpactVerification" => lifecycle = "TriggerObserved"
      /\ furthest \in States
    BY <1>0 DEF OInv, RunTypes, DataTypes, LifecycleInStep, AtTrigger, AtImpact
<1>7. /\ failure = None /\ ph = "TriggerVerification" =>
            lifecycle' = "TriggerObserved" /\ furthest' = "TriggerObserved"
      /\ failure = None /\ ph = "ImpactVerification" =>
            lifecycle' = "ImpactVerified" /\ furthest' = "ImpactVerified"
      /\ failure # None => lifecycle' = lifecycle /\ furthest' = furthest
    BY <1>4, <1>6, LegalMoves DEF Transition, EndStates, Expected
<1>8. ph = "TriggerVerification" \/ ph = "ImpactVerification"
    BY DEF Verifications
<1>9. furthest' \in States /\ (failure # None => lifecycle' \in Untouched)
    BY <1>6, <1>7, <1>8 DEF Untouched, States
<1>10. \/ /\ pending' = None /\ ph = "TriggerVerification"
          /\ pc' = "check impact" /\ lifecycle' = "TriggerObserved"
       \/ /\ pending' = None /\ ph = "ImpactVerification"
          /\ pc' = ToCleanup /\ lifecycle' = "ImpactVerified"
       \/ /\ pending' \in RunFailures
          /\ pc' = ToCleanup /\ lifecycle' \in Untouched
  <2>1. None \notin RunFailures
    BY FailureFacts DEF RunFailures
  <2>2. CASE failure = None
    BY <1>4, <1>7, <1>8, <2>2 DEF Continue
  <2>3. CASE failure # None
    BY <1>2, <1>4, <1>9, <2>3 DEF Continue
  <2> QED
    BY <2>2, <2>3
<1>11. answer.evidence \subseteq References
    BY <1>0, AnswerShape
<1>12. /\ trigger \subseteq References /\ proof \subseteq References
       /\ impact \in {"NotVerified", "Verified"} /\ ProofInStep
    BY DEF OInv, RunTypes, DataTypes
<1>13. /\ trigger' \subseteq References /\ proof' \subseteq References
       /\ impact' \in {"NotVerified", "Verified"}
    BY <1>4, <1>8, <1>11, <1>12
<1>14. ProofInStep'
  <2>0. impact # "Verified"
    BY <1>0, <1>8 DEF OInv, ProofInStep, AtTrigger, AtImpact
  <2>1. CASE failure # None
    BY <1>4, <2>0, <2>1 DEF ProofInStep
  <2>2. CASE failure = None /\ ph = "ImpactVerification"
    <3>1. pc' \in {"clean up", "finish"} /\ trigger' = trigger /\ proof' = answer.evidence
      BY <1>4, <2>2 DEF Continue, ToCleanup
    <3>2. ImpactIsProven(proof)'
      BY <1>3, <1>5, <2>2, <3>1 DEF ImpactIsProven
    <3> QED
      BY <3>1, <3>2 DEF ProofInStep, Unbegun, AtTrigger, AtImpact
  <2>3. CASE failure = None /\ ph = "TriggerVerification"
    BY <1>4, <2>0, <2>3 DEF ProofInStep
  <2> QED
    BY <1>8, <2>1, <2>2, <2>3
<1> QED
    BY <1>0, <1>1, <1>5, <1>9, <1>10, <1>13, <1>14, AnsweredKeeps

(***************************************************************************)
(* The end of a run, whatever it ends on.                                  *)
(***************************************************************************)
LEMMA EndKeeps ==
    ASSUME OInv, pc \notin Waiting, pc' = "ended",
           usage' \in Amounts, usage'.steps = usage.steps, usage'.calls = usage.calls,
           usage'.evidence <= Owed(PhasesOf(plan)),
           UNCHANGED <<called, plan, budget, generation, seen, trigger, impact, proof, lateCalls>>,
           obligation' \in BOOLEAN, lifecycle' \in States, furthest' \in States,
           pending' = None \/ pending' \in Failures,
           cleanup' \in {"NotRequired", "Required", "Verified", "Failed", "Incomplete"},
           outcome' \in EndStates \cup {"None", "Completed", "CleanupFailed"},
           ObligationInStep'
    PROVE  OInv'
<1>0. DataTypes /\ CounterTypes /\ FlagTypes /\ RunTypes
    BY DEF OInv, RunTypes
<1>1. DataTypes'
  <2>1. pc' \in Places
    BY DEF Places
  <2> QED
    BY Zenon, <1>0, <2>1 DEF DataTypes
<1>2. CounterTypes' /\ FlagTypes'
    BY Zenon, <1>0 DEF CounterTypes, FlagTypes
<1>3. LifecycleInStep' /\ FailureInStep'
    BY DEF LifecycleInStep, FailureInStep, Waiting, Unbegun, AtTrigger, AtImpact, AtCleanup
<1>4. CallsInStep'
  <2>1. /\ usage.steps = usage.calls["Attempt"] + usage.calls["Verification"] + usage.calls["Cleanup"]
        /\ usage.calls["Attempt"] <= 1 /\ usage.calls["Verification"] <= 2 /\ usage.calls["Cleanup"] <= 2
        /\ ~plan.cleanup => usage.calls["Cleanup"] = 0
    BY DEF OInv, CallsInStep
  <2> QED
    BY <2>1 DEF CallsInStep, Unbegun, AtCleanup, Phases
<1>5. \A S : Owed(S)' = Owed(S)
    BY DEF Owed
<1>6. EvidenceInStep' /\ PlanIsCovered'
    BY <1>5 DEF OInv, EvidenceInStep, PlanIsCovered, Waiting, AtTrigger, AtImpact
<1>7. CancellationInStep'
    BY DEF OInv, CancellationInStep, Unbegun
<1>8. ProofInStep'
    BY DEF OInv, ProofInStep, ImpactIsProven, Unbegun, AtTrigger, AtImpact
<1> QED
    BY <1>1, <1>2, <1>3, <1>4, <1>6, <1>7, <1>8 DEF OInv, RunTypes

(***************************************************************************)
(* A cleanup that does not succeed ends the run, and the report says so.   *)
(***************************************************************************)
LEMMA CleanupEndKeeps ==
    ASSUME OInv, NEW ph \in CleanupPhases, pc = ph, NEW answer \in Answers(ph),
           usage' = Charged(ph, answer),
           UNCHANGED <<called, plan, budget, generation, seen, trigger, impact, obligation, proof, lateCalls>>,
           \/ CleanupReport(ph, answer)
           \/ cleanup' = "Incomplete" /\ Report(CancelledIncomplete)
    PROVE  OInv' /\ pc' = "ended" /\ cleanup' \in {"Failed", "Incomplete"}
                 /\ outcome' \in {"CleanupFailed", "Cancelled"}
<1>0. ph \in Phases /\ lifecycle = "CleanupStarted" /\ furthest \in States /\ pc \notin Waiting
    BY DEF OInv, RunTypes, DataTypes, LifecycleInStep, AtCleanup, CleanupPhases, Phases, Waiting
<1>1. PICK f \in Failures :
          /\ Report(f) /\ cleanup' \in {"Failed", "Incomplete"}
          /\ \/ f.terminal = "CleanupFailed" /\ f.outcome = "CleanupFailed"
             \/ f.terminal \in EndStates /\ f.outcome = "Cancelled"
  <2>1. CASE CleanupReport(ph, answer)
    BY <2>1, CleanupReportFacts
  <2>2. CASE cleanup' = "Incomplete" /\ Report(CancelledIncomplete)
    BY <2>2, FailureFacts DEF RunFailures
  <2> QED
    BY <2>1, <2>2
<1>2. pc' = "ended" /\ pending' = f /\ outcome' = f.outcome /\ outcome' \in {"CleanupFailed", "Cancelled"}
    BY <1>1 DEF Report
<1>3. lifecycle' \in States /\ furthest' \in States
  <2>1. Transition(f.terminal)
    BY <1>1 DEF Report
  <2>2. CASE f.terminal = "CleanupFailed"
    BY <1>0, <2>1, <2>2, LegalMoves DEF Transition, EndStates, States, Terminal
  <2>3. CASE f.terminal \in EndStates
    <3>1. lifecycle' = f.terminal /\ furthest' = furthest
      BY <1>0, <2>1, <2>3, LegalMoves DEF Transition
    <3> QED
      BY <1>0, <2>3, <3>1 DEF EndStates, States, Terminal
  <2> QED
    BY <1>1, <2>2, <2>3
<1>4. usage' \in Amounts /\ usage'.steps = usage.steps /\ usage'.calls = usage.calls
          /\ usage'.evidence <= usage.evidence + plan.cost[ph]
    BY <1>0, ChargedFacts
<1>5. usage'.evidence <= Owed(PhasesOf(plan))
  <2>1. usage.evidence + plan.cost[ph] <= Owed(PhasesOf(plan))
    BY <1>0, RoomForAnswer
  <2>2. RunTypes /\ usage.evidence \in Nat /\ usage'.evidence \in Nat
    BY <1>4 DEF OInv, RunTypes, DataTypes, Amounts
  <2>3. plan.cost[ph] \in Nat /\ Owed(PhasesOf(plan)) \in Nat
    BY <1>0, <2>2, OwedChain
  <2> QED
    BY <1>4, <2>1, <2>2, <2>3
<1>6. obligation \in BOOLEAN
    BY DEF OInv, RunTypes, FlagTypes
<1>7. ObligationInStep'
  <2>1. obligation /\ plan.cleanup
    BY DEF OInv, ObligationInStep, AtCleanup, CleanupPhases, Unbegun
  <2>2. usage'.calls["Cleanup"] \in {1, 2}
    BY <1>4 DEF OInv, CallsInStep, CleanupPhases
  <2>3. usage'.calls["Cleanup"] > 0
    BY <2>2
  <2> QED
    BY <1>1, <1>2, <2>1, <2>3 DEF ObligationInStep, Unbegun, AtCleanup
<1>8. pending' \in Failures /\ outcome' \in EndStates \cup {"None", "Completed", "CleanupFailed"}
    BY <1>1, <1>2 DEF EndStates
<1>9. cleanup' \in {"NotRequired", "Required", "Verified", "Failed", "Incomplete"}
    BY <1>1
<1>10. OInv'
    BY <1>0, <1>2, <1>3, <1>4, <1>5, <1>6, <1>7, <1>8, <1>9, EndKeeps
<1> QED
    BY <1>1, <1>2, <1>10

(***************************************************************************)
(* What a cleanup's answer may cost keeps the evidence within what is owed.*)
(***************************************************************************)
LEMMA CleanupEvidence ==
    ASSUME RunTypes, NEW ph \in CleanupPhases, NEW e \in Nat, NEW E \in Nat,
           E <= e + plan.cost[ph], e + plan.cost[ph] <= Owed(PhasesOf(plan)),
           ph = "Cleanup" =>
               e <= Owed({"Attempt", "TriggerVerification", "ImpactVerification"})
    PROVE  /\ E <= Owed(PhasesOf(plan))
           /\ ph = "Cleanup" =>
                 E <= Owed({"Attempt", "TriggerVerification", "ImpactVerification", "Cleanup"})
<1> DEFINE o3 == Owed({"Attempt", "TriggerVerification", "ImpactVerification"})
           o4 == Owed({"Attempt", "TriggerVerification", "ImpactVerification", "Cleanup"})
           all == Owed(PhasesOf(plan))
           c == plan.cost[ph]
<1>1. o3 \in Nat /\ o4 \in Nat /\ all \in Nat /\ c \in Nat
    BY OwedChain DEF CleanupPhases, Phases
<1>2. ph = "Cleanup" => o3 + c = o4
    BY OwedChain
<1>3. E <= e + c /\ e + c <= all /\ (ph = "Cleanup" => e <= o3)
    OBVIOUS
<1> HIDE DEF o3, o4, all, c
<1>4. E <= all
    BY <1>1, <1>3
<1>5. ph = "Cleanup" => E <= o4
    BY <1>1, <1>2, <1>3
<1> QED
    BY <1>4, <1>5 DEF o4, all

LEMMA CleanupGoesOn ==
    ASSUME OInv, NEW ph \in CleanupPhases, pc = ph, NEW answer \in Answers(ph),
           usage' = Charged(ph, answer),
           UNCHANGED <<called, plan, budget, generation, seen, trigger, impact, obligation, proof,
                       lateCalls, pending, outcome>>,
           \/ /\ ph = "Cleanup" /\ pc' = "verify cleanup"
              /\ UNCHANGED <<lifecycle, furthest, cleanup>>
           \/ /\ ph = "CleanupVerification" /\ pc' = "finish"
              /\ cleanup' = "Verified" /\ Transition("CleanupVerified")
    PROVE  OInv'
<1>0. ph \in Phases /\ lifecycle = "CleanupStarted" /\ pc \notin Waiting
    BY DEF OInv, LifecycleInStep, AtCleanup, CleanupPhases, Phases, Waiting
<1>1. DataTypes /\ CounterTypes /\ FlagTypes /\ RunTypes
    BY DEF OInv, RunTypes
<1>2. usage' \in Amounts /\ usage'.steps = usage.steps /\ usage'.calls = usage.calls
          /\ usage'.evidence <= usage.evidence + plan.cost[ph]
    BY <1>0, ChargedFacts
<1>3. obligation /\ plan.cleanup /\ cleanup # "Verified"
    BY DEF OInv, ObligationInStep, AtCleanup, CleanupPhases, Unbegun
<1>4. /\ pc' = "verify cleanup" => ph = "Cleanup" /\ lifecycle' = "CleanupStarted" /\ cleanup' = cleanup
      /\ pc' = "finish" => ph = "CleanupVerification" /\ lifecycle' = "CleanupVerified"
                               /\ cleanup' = "Verified"
      /\ pc' \in {"verify cleanup", "finish"}
    BY <1>0, LegalMoves DEF Transition
<1>5. DataTypes'
  <2>1. pc' \in Places
    BY <1>4 DEF Places, AtCleanup
  <2>2. lifecycle' \in States /\ cleanup' \in {"NotRequired", "Required", "Verified", "Failed", "Incomplete"}
    BY <1>1, <1>4 DEF DataTypes, States
  <2>3. furthest' \in States
    BY <1>1 DEF DataTypes, Transition, States, EndStates
  <2> QED
    BY Zenon, <1>1, <1>2, <2>1, <2>2, <2>3 DEF DataTypes
<1>6. CounterTypes' /\ FlagTypes'
    BY Zenon, <1>1 DEF CounterTypes, FlagTypes
<1>7. LifecycleInStep'
    BY <1>3, <1>4 DEF LifecycleInStep, Waiting, AtTrigger, AtImpact, AtCleanup
<1>8. FailureInStep'
  <2>1. pending # None => pending \in RunFailures
    BY DEF OInv, FailureInStep, CleanupPhases
  <2> QED
    BY <1>4, <2>1 DEF FailureInStep, Unbegun, AtTrigger, AtImpact
<1>9. ObligationInStep'
    BY <1>3, <1>4 DEF ObligationInStep, Unbegun, AtCleanup
<1>10. CallsInStep'
  <2>1. /\ usage.steps = usage.calls["Attempt"] + usage.calls["Verification"] + usage.calls["Cleanup"]
        /\ usage.calls["Attempt"] <= 1 /\ usage.calls["Verification"] <= 2 /\ usage.calls["Cleanup"] <= 2
    BY DEF OInv, CallsInStep
  <2>2. /\ ph = "Cleanup" => usage.calls["Cleanup"] = 1
        /\ ph = "CleanupVerification" => usage.calls["Cleanup"] = 2
    BY DEF OInv, CallsInStep
  <2> QED
    BY <1>2, <1>3, <1>4, <2>1, <2>2 DEF CallsInStep, Unbegun, AtCleanup, Phases
<1>11. \A S : Owed(S)' = Owed(S)
    BY DEF Owed
<1>12. EvidenceInStep'
  <2>1. usage.evidence + plan.cost[ph] <= Owed(PhasesOf(plan))
    BY <1>0, RoomForAnswer
  <2>2. usage.evidence \in Nat /\ usage'.evidence \in Nat
    BY <1>1, <1>2 DEF DataTypes, Amounts
  <2>3. ph = "Cleanup" =>
            usage.evidence <= Owed({"Attempt", "TriggerVerification", "ImpactVerification"})
    BY DEF OInv, EvidenceInStep
  <2>4. /\ usage'.evidence <= Owed(PhasesOf(plan))
        /\ ph = "Cleanup" => usage'.evidence <=
               Owed({"Attempt", "TriggerVerification", "ImpactVerification", "Cleanup"})
    BY <1>1, <1>2, <2>1, <2>2, <2>3, CleanupEvidence
  <2> QED
    BY <1>3, <1>4, <1>11, <2>4 DEF EvidenceInStep, Waiting, AtTrigger, AtImpact
<1>13. PlanIsCovered'
    BY <1>0, <1>11 DEF OInv, PlanIsCovered
<1>14. CancellationInStep'
    BY <1>4 DEF OInv, CancellationInStep, Unbegun
<1>15. ProofInStep'
    BY <1>4 DEF OInv, ProofInStep, ImpactIsProven, Unbegun, AtTrigger, AtImpact
<1> QED
    BY <1>5, <1>6, <1>7, <1>8, <1>9, <1>10, <1>12, <1>13, <1>14, <1>15 DEF OInv, RunTypes

LEMMA CleanupAnsweredKeeps ==
    ASSUME OInv, NEW answer \in Answers("Cleanup"), CleanupAnswered(answer)
    PROVE  OInv'
<1>1. CASE CleanupReport("Cleanup", answer) \/ (cleanup' = "Incomplete" /\ Report(CancelledIncomplete))
    BY <1>1, CleanupEndKeeps DEF CleanupAnswered, CleanupPhases
<1>2. CASE pc' = "verify cleanup" /\ UNCHANGED <<lifecycle, furthest, pending, cleanup, outcome>>
    BY <1>2, CleanupGoesOn DEF CleanupAnswered, CleanupPhases
<1> QED
    BY <1>1, <1>2 DEF CleanupAnswered

LEMMA CleanupVerificationAnsweredKeeps ==
    ASSUME OInv, NEW answer \in Answers("CleanupVerification"), CleanupVerificationAnswered(answer)
    PROVE  OInv'
<1>1. CASE \/ CleanupReport("CleanupVerification", answer)
           \/ cleanup' = "Incomplete" /\ Report(CancelledIncomplete)
    BY <1>1, CleanupEndKeeps DEF CleanupVerificationAnswered, CleanupPhases
<1>2. CASE /\ cleanup' = "Verified" /\ Transition("CleanupVerified")
           /\ pc' = "finish" /\ UNCHANGED <<pending, outcome>>
    BY <1>2, CleanupGoesOn DEF CleanupVerificationAnswered, CleanupPhases
<1> QED
    BY <1>1, <1>2 DEF CleanupVerificationAnswered

LEMMA FinishKeeps ==
    ASSUME OInv, Finish
    PROVE  OInv'
<1>0. pc = "finish" /\ pc \notin Waiting
    BY DEF Finish, Waiting
<1>1. /\ UNCHANGED <<called, plan, budget, generation, seen, trigger, impact, cleanup, obligation, usage,
                     proof, lateCalls>>
    BY DEF Finish
<1>2. /\ usage \in Amounts /\ furthest \in States /\ obligation \in BOOLEAN
      /\ cleanup \in {"NotRequired", "Required", "Verified", "Failed", "Incomplete"}
    BY DEF OInv, RunTypes, DataTypes, FlagTypes
<1>3. usage.evidence <= Owed(PhasesOf(plan))
    BY DEF OInv, EvidenceInStep
<1>4. lifecycle \in Untouched \cup {"Planned", "CleanupStarted", "CleanupVerified"}
    BY <1>0, <1>2 DEF OInv, LifecycleInStep
<1>5. /\ pc' = "ended" /\ lifecycle' \in States /\ furthest' \in States
      /\ pending' = None \/ pending' \in Failures
      /\ outcome' \in EndStates \cup {"None", "Completed", "CleanupFailed"}
  <2>1. CASE FinalFailure = None
    <3>1. lifecycle = "ImpactVerified" \/ lifecycle = "CleanupVerified"
      <4>1. pending = None
        BY <2>1 DEF FinalFailure
      <4> QED
        BY <1>0, <1>2, <4>1 DEF OInv, LifecycleInStep
    <3>2. lifecycle' = "Completed" /\ furthest' = "Completed"
      BY <2>1, <3>1, LegalMoves DEF Finish, Transition, EndStates
    <3>3. pending' = None \/ pending' \in Failures
      BY <2>1 DEF Finish, OInv, RunTypes, DataTypes
    <3> QED
      BY <2>1, <3>2, <3>3 DEF Finish, States, Terminal
  <2>2. CASE FinalFailure # None
    <3>1. pending = None \/ pending \in RunFailures
      BY <1>0 DEF OInv, FailureInStep
    <3>2. FinalFailure \in RunFailures
      BY <2>2, <3>1, FailureFacts DEF FinalFailure
    <3>3. Report(FinalFailure)
      BY <2>2 DEF Finish
    <3> QED
      BY <1>4, <3>2, <3>3, ReportMoves
  <2> QED
    BY <2>1, <2>2
<1>6. ObligationInStep'
  <2>1. /\ obligation <=> plan.cleanup
        /\ obligation => cleanup = "Verified"
    BY <1>0 DEF OInv, ObligationInStep, Unbegun
  <2>2. obligation => usage.calls["Cleanup"] = 2
    BY <1>0 DEF OInv, CallsInStep
  <2>3. obligation => usage.calls["Cleanup"] > 0
    BY <2>2
  <2> QED
    BY <1>1, <1>5, <2>1, <2>2, <2>3 DEF ObligationInStep, Unbegun, AtCleanup
<1> QED
    BY <1>0, <1>1, <1>2, <1>3, <1>5, <1>6, EndKeeps

(***************************************************************************)
(* What authorization grants covers the plan.                              *)
(***************************************************************************)
LEMMA AuthorizedCovers ==
    ASSUME NEW p \in Plans, NEW grant \in Budgets, NEW host \in Budgets,
           BudgetWithin(grant, ManifestBudget), FitsBudget(p, Intersection(grant, host))
    PROVE  LET b == Intersection(grant, host)
           IN  /\ b \in Amounts
               /\ b.steps >= IF p.cleanup THEN 5 ELSE 3
               /\ b.calls["Attempt"] >= 1 /\ b.calls["Verification"] >= 2
               /\ p.cleanup => b.calls["Cleanup"] >= 2
               /\ b.evidence >= Aggregate(p) + p.applicability
               /\ b.evidence <= ManifestBudget.evidence
<1> DEFINE b == Intersection(grant, host)
<1>1. grant \in Amounts /\ host \in Amounts /\ ManifestBudget \in Amounts
    BY BudgetsAssumption
<1>2. \A m, n \in Nat : Lesser(m, n) \in Nat /\ Lesser(m, n) <= m
    BY DEF Lesser
<1>3. b.steps \in Nat /\ b.evidence \in Nat /\ b.evidence <= grant.evidence
    BY <1>1, <1>2 DEF Intersection, Amounts
<1>4. b.calls \in [Calls -> Nat]
    BY <1>1, <1>2 DEF Intersection, Amounts
<1>5. b = [steps |-> b.steps, calls |-> b.calls, evidence |-> b.evidence]
    BY DEF Intersection
<1> HIDE DEF b
<1>6. b \in Amounts
    BY <1>3, <1>4, <1>5 DEF Amounts
<1>7. /\ Cardinality(PhasesOf(p)) <= b.steps
      /\ \A k \in Calls : CallsOf(p, k) <= b.calls[k]
      /\ Aggregate(p) + p.applicability <= b.evidence
    BY DEF FitsBudget, b
<1>8. b.evidence <= ManifestBudget.evidence
  <2>1. grant.evidence <= ManifestBudget.evidence /\ grant.evidence \in Nat /\ ManifestBudget.evidence \in Nat
    BY <1>1 DEF BudgetWithin, Amounts
  <2> QED
    BY <1>3, <2>1
<1>9. b.steps >= IF p.cleanup THEN 5 ELSE 3
    BY <1>3, <1>7, PhaseCounts
<1>10. /\ b.calls["Attempt"] >= 1 /\ b.calls["Verification"] >= 2
       /\ p.cleanup => b.calls["Cleanup"] >= 2
  <2>1. /\ CallsOf(p, "Attempt") <= b.calls["Attempt"]
        /\ CallsOf(p, "Verification") <= b.calls["Verification"]
        /\ CallsOf(p, "Cleanup") <= b.calls["Cleanup"]
    BY <1>7 DEF Calls
  <2>2. b.calls["Attempt"] \in Nat /\ b.calls["Verification"] \in Nat /\ b.calls["Cleanup"] \in Nat
    BY <1>4 DEF Calls
  <2> QED
    BY <2>1, <2>2, PhaseCounts
<1>11. b.evidence >= Aggregate(p) + p.applicability
  <2>1. Aggregate(p) + p.applicability \in Nat
    BY PlanFacts DEF Aggregate, Phases
  <2> QED
    BY <1>3, <1>7, <2>1
<1> QED
    BY <1>6, <1>8, <1>9, <1>10, <1>11 DEF b

LEMMA AuthorizeKeeps ==
    ASSUME OInv, NEW grant \in Budgets, NEW host \in Budgets, Authorize(grant, host)
    PROVE  OInv'
<1> DEFINE b == Intersection(grant, host)
<1>0. DataTypes /\ CounterTypes /\ FlagTypes /\ RunTypes /\ plan \in Plans
    BY DEF OInv, RunTypes, DataTypes
<1>1. /\ pc = "prepared" /\ ~obligation /\ lifecycle = "Planned" /\ pending = None /\ lateCalls = 0
      /\ impact # "Verified" /\ cleanup # "Verified"
    BY DEF Authorize, OInv, LifecycleInStep, FailureInStep, ObligationInStep, CancellationInStep,
           ProofInStep, Waiting, Unbegun
<1>2. UNCHANGED <<called, plan, generation, seen, lifecycle, furthest, pending, trigger, impact,
                  obligation, outcome, proof, lateCalls>>
    BY DEF Authorize
<1>3. \A S : Owed(S)' = Owed(S)
    BY <1>2 DEF Owed
<1>4. CounterTypes' /\ FlagTypes'
    BY Zenon, <1>0, <1>2 DEF CounterTypes, FlagTypes
<1>5. CASE pc' = "denied" /\ UNCHANGED <<budget, cleanup, usage>>
  <2>1. DataTypes'
    <3>1. pc' \in Places
      BY <1>5 DEF Places, Unbegun
    <3> QED
      BY Zenon, <1>0, <1>2, <1>5, <3>1 DEF DataTypes
  <2>2. LifecycleInStep' /\ FailureInStep'
    BY <1>1, <1>2, <1>5
       DEF LifecycleInStep, FailureInStep, Waiting, Unbegun, AtTrigger, AtImpact, AtCleanup
  <2>3. ObligationInStep'
    BY <1>1, <1>2, <1>5 DEF ObligationInStep, Unbegun, AtCleanup
  <2>4. CallsInStep'
    BY <1>1, <1>2, <1>5 DEF OInv, CallsInStep, Unbegun, AtCleanup, Phases
  <2>5. EvidenceInStep' /\ PlanIsCovered'
    BY <1>1, <1>2, <1>3, <1>5
    DEF OInv, EvidenceInStep, PlanIsCovered, Waiting, AtTrigger, AtImpact
  <2>6. CancellationInStep' /\ ProofInStep'
    BY <1>1, <1>2, <1>5 DEF OInv, CancellationInStep, ProofInStep, Unbegun
  <2> QED
    BY <1>4, <2>1, <2>2, <2>3, <2>4, <2>5, <2>6 DEF OInv, RunTypes
<1>6. CASE /\ pc' = "authorized" /\ budget' = b /\ FitsBudget(plan, b)
           /\ cleanup' = IF plan.cleanup THEN "Required" ELSE "NotRequired"
           /\ usage' = Charge(NoUsage, plan.applicability)
  <2>1. /\ b \in Amounts
        /\ b.steps >= IF plan.cleanup THEN 5 ELSE 3
        /\ b.calls["Attempt"] >= 1 /\ b.calls["Verification"] >= 2
        /\ plan.cleanup => b.calls["Cleanup"] >= 2
        /\ b.evidence >= Aggregate(plan) + plan.applicability
        /\ b.evidence <= ManifestBudget.evidence
    BY <1>0, <1>6, AuthorizedCovers DEF Authorize
  <2> HIDE DEF b
  <2>2. NoUsage \in Amounts /\ NoUsage.steps = 0 /\ NoUsage.evidence = 0
          /\ \A k \in Calls : NoUsage.calls[k] = 0
    BY DEF NoUsage, Amounts
  <2>3. plan.applicability \in Nat
    BY <1>0, PlanFacts
  <2>4. /\ usage' \in Amounts /\ usage'.steps = 0 /\ usage'.evidence = plan.applicability
        /\ usage'.calls["Attempt"] = 0 /\ usage'.calls["Verification"] = 0 /\ usage'.calls["Cleanup"] = 0
    BY <1>6, <2>2, <2>3, ChargeFacts DEF Calls
  <2>5. DataTypes'
    <3>1. pc' \in Places /\ cleanup' \in {"NotRequired", "Required", "Verified", "Failed", "Incomplete"}
      BY <1>6 DEF Places, Unbegun
    <3> QED
      BY Zenon, <1>0, <1>2, <1>6, <2>1, <2>4, <3>1 DEF DataTypes
  <2>6. LifecycleInStep' /\ FailureInStep'
    BY <1>1, <1>2, <1>6
       DEF LifecycleInStep, FailureInStep, Waiting, Unbegun, AtTrigger, AtImpact, AtCleanup
  <2>7. ObligationInStep'
    BY <1>1, <1>2, <1>6 DEF ObligationInStep, Unbegun, AtCleanup
  <2>8. CallsInStep'
    BY <1>6, <2>4 DEF CallsInStep, Unbegun, AtCleanup, Phases
  <2>9. Owed({}) = plan.applicability /\ Owed(PhasesOf(plan)) = Aggregate(plan) + plan.applicability
    BY <1>0, OwedFacts
  <2>10. EvidenceInStep'
    <3>1. plan.applicability <= Owed({}) /\ plan.applicability <= Owed(PhasesOf(plan))
      BY <1>0, <2>3, OwedFacts DEF Phases
    <3> QED
      BY <1>2, <1>3, <1>6, <2>4, <3>1 DEF EvidenceInStep, Waiting, AtTrigger, AtImpact
  <2>11. PlanIsCovered'
    BY <1>2, <1>3, <1>6, <2>1, <2>9 DEF PlanIsCovered
  <2>12. CancellationInStep' /\ ProofInStep'
    BY <1>1, <1>2, <1>6 DEF CancellationInStep, ProofInStep, Unbegun
  <2> QED
    BY <1>4, <2>5, <2>6, <2>7, <2>8, <2>10, <2>11, <2>12 DEF OInv, RunTypes
<1> QED
    BY <1>5, <1>6 DEF Authorize

LEMMA StutterKeeps ==
    ASSUME OInv, UNCHANGED vars
    PROVE  OInv'
<1>0. DataTypes /\ CounterTypes /\ FlagTypes
    BY DEF OInv, RunTypes
<1>1. DataTypes'
    BY Zenon, <1>0 DEF vars, DataTypes
<1>2. CounterTypes' /\ FlagTypes'
    BY Zenon, <1>0 DEF vars, CounterTypes, FlagTypes
<1>3. LifecycleInStep' /\ FailureInStep'
    BY Zenon DEF vars, OInv, LifecycleInStep, FailureInStep
<1>4. ObligationInStep' /\ CallsInStep'
    BY DEF vars, OInv, ObligationInStep, CallsInStep
<1>5. \A S : Owed(S)' = Owed(S)
    BY DEF vars, Owed
<1>6. EvidenceInStep' /\ PlanIsCovered'
    BY <1>5 DEF vars, OInv, EvidenceInStep, PlanIsCovered
<1>7. CancellationInStep' /\ ProofInStep'
    BY DEF vars, OInv, CancellationInStep, ProofInStep, ImpactIsProven
<1> QED
    BY <1>1, <1>2, <1>3, <1>4, <1>6, <1>7 DEF OInv, RunTypes

(***************************************************************************)
(* Every step of the host, the run and the executor.                       *)
(***************************************************************************)
LEMMA NextO == OInv /\ [orNext]_vars => OInv'
<1> SUFFICES ASSUME OInv, [orNext]_vars PROVE OInv'
    OBVIOUS
<1>1. CASE Cancel
    BY <1>1, CancelKeeps
<1>2. CASE \E grant, host \in Budgets : Authorize(grant, host)
    BY <1>2, AuthorizeKeeps
<1>3. CASE RunStep
  <2>1. CASE Start
    BY <2>1, StartKeeps
  <2>2. CASE BeginAttempt
    BY <2>2, BeginAttemptKeeps
  <2>3. CASE \E phase \in Verifications : VerifyUnlessCancelled(phase)
    BY <2>3, VerifyUnlessCancelledKeeps
  <2>4. CASE \E phase \in Verifications : BeginVerification(phase)
    BY <2>4, BeginVerificationKeeps
  <2>5. CASE BeginCleanup
    BY <2>5, BeginCleanupKeeps
  <2>6. CASE BeginCleanupVerification
    BY <2>6, BeginCleanupVerificationKeeps
  <2>7. CASE Finish
    BY <2>7, FinishKeeps
  <2> QED
    BY <1>3, <2>1, <2>2, <2>3, <2>4, <2>5, <2>6, <2>7 DEF RunStep
<1>4. CASE ExecutorAnswers
  <2>1. CASE \E answer \in Answers("Attempt") : AttemptAnswered(answer)
    BY <2>1, AttemptAnsweredKeeps
  <2>2. CASE \E phase \in Verifications :
                 \E answer \in Answers(phase) : VerificationAnswered(phase, answer)
    BY <2>2, VerificationAnsweredKeeps
  <2>3. CASE \E answer \in Answers("Cleanup") : CleanupAnswered(answer)
    BY <2>3, CleanupAnsweredKeeps
  <2>4. CASE \E answer \in Answers("CleanupVerification") : CleanupVerificationAnswered(answer)
    BY <2>4, CleanupVerificationAnsweredKeeps
  <2> QED
    BY <1>4, <2>1, <2>2, <2>3, <2>4 DEF ExecutorAnswers
<1>5. CASE UNCHANGED vars
    BY <1>5, StutterKeeps
<1> QED
    BY <1>1, <1>2, <1>3, <1>4, <1>5 DEF orNext

-----------------------------------------------------------------------------
(* OInv holds of every state of a run, whatever the plans, the budgets, the *)
(* executor's answers and the number of cancellations.                      *)
THEOREM RunInvariance == orSpec => []OInv
<1> QED
    BY InitO, NextO, PTL DEF orSpec

(***************************************************************************)
(* The usage of a run fits its budget before it is authorized as well.     *)
(***************************************************************************)
LEMMA UsageFits ==
    ASSUME OInv
    PROVE  UsageWithin(usage)
<1>1. RunTypes /\ PlanIsCovered /\ usage \in Amounts /\ budget \in Amounts
    BY DEF OInv, RunTypes, DataTypes
<1>2. /\ usage.steps = usage.calls["Attempt"] + usage.calls["Verification"] + usage.calls["Cleanup"]
      /\ usage.calls["Attempt"] <= 1 /\ usage.calls["Verification"] <= 2 /\ usage.calls["Cleanup"] <= 2
      /\ ~plan.cleanup => usage.calls["Cleanup"] = 0
    BY DEF OInv, CallsInStep
<1>3. usage.evidence <= Owed(PhasesOf(plan))
    BY DEF OInv, EvidenceInStep
<1>4. CASE pc \in Waiting
  <2>1. usage.calls["Attempt"] = 0 /\ usage.calls["Verification"] = 0 /\ usage.calls["Cleanup"] = 0
    BY <1>4 DEF OInv, CallsInStep, Waiting, Unbegun, AtCleanup
  <2>2. usage.evidence = 0
    BY <1>4 DEF OInv, EvidenceInStep
  <2>3. usage.steps = 0
    BY <1>2, <2>1
  <2>4. budget.steps \in Nat /\ budget.evidence \in Nat /\ \A k \in Calls : budget.calls[k] \in Nat
    BY <1>1 DEF Amounts
  <2>5. \A k \in Calls : usage.calls[k] <= budget.calls[k]
    BY <2>1, <2>4 DEF Calls
  <2> QED
    BY <2>2, <2>3, <2>4, <2>5 DEF UsageWithin, BudgetWithin
<1>5. CASE pc \notin Waiting
    BY <1>1, <1>2, <1>3, <1>5, PlannedIsAffordable
<1> QED
    BY <1>4, <1>5

\* What the invariant says of a run, in the terms of MutationIsAnsweredFor.
LEMMA UsageBounds ==
    ASSUME OInv
    PROVE  usage.steps \in 0..5 /\ usage.evidence \in 0..ManifestBudget.evidence
<1>1. RunTypes /\ usage \in Amounts /\ budget \in Amounts /\ ManifestBudget \in Amounts
    BY BudgetsAssumption DEF OInv, RunTypes, DataTypes
<1>2. /\ usage.evidence \in Nat /\ budget.evidence \in Nat /\ ManifestBudget.evidence \in Nat
      /\ usage.calls["Attempt"] \in Nat /\ usage.calls["Verification"] \in Nat
      /\ usage.calls["Cleanup"] \in Nat
    BY <1>1 DEF Amounts, Calls
<1>3. /\ usage.steps = usage.calls["Attempt"] + usage.calls["Verification"] + usage.calls["Cleanup"]
      /\ usage.calls["Attempt"] <= 1 /\ usage.calls["Verification"] <= 2 /\ usage.calls["Cleanup"] <= 2
    BY DEF OInv, CallsInStep
<1>4. usage.steps \in 0..5
    BY <1>2, <1>3
<1>5. usage.evidence <= ManifestBudget.evidence
  <2>1. CASE pc \in Waiting
    <3>1. usage.evidence = 0
      BY <2>1 DEF OInv, EvidenceInStep
    <3> QED
      BY <1>2, <3>1
  <2>2. CASE pc \notin Waiting
    <3>1. usage.evidence <= budget.evidence
      BY UsageFits DEF UsageWithin, BudgetWithin
    <3>2. budget.evidence <= ManifestBudget.evidence
      BY <2>2 DEF OInv, PlanIsCovered
    <3> QED
      BY <1>2, <3>1, <3>2
  <2> QED
    BY <2>1, <2>2
<1> QED
    BY <1>2, <1>4, <1>5

LEMMA TypesHold ==
    ASSUME OInv
    PROVE  orTypeOK /\ TransitionsAreLegal
<1>1. DataTypes /\ CounterTypes /\ FlagTypes
    BY DEF OInv, RunTypes
<1>2. lateCalls \in 0..2
    BY <1>1 DEF CounterTypes
<1>3. "panicked" \notin States
    BY DEF States, Terminal
<1>4. lifecycle \in States
    BY <1>1 DEF DataTypes
<1>5. orTypeOK
    BY Zenon, <1>1, <1>2, <1>4, UsageBounds DEF orTypeOK, DataTypes, CounterTypes, FlagTypes
<1> QED
    BY <1>3, <1>4, <1>5 DEF TransitionsAreLegal

LEMMA AccountsHold ==
    ASSUME OInv
    PROVE  MutationIsAccountedFor /\ CancellationStopsWork
<1>1. MutationIsAccountedFor
    BY DEF OInv, ObligationInStep, MutationIsAccountedFor
<1>2. CancellationStopsWork
    BY DEF OInv, RunTypes, CounterTypes, CancellationStopsWork
<1> QED
    BY <1>1, <1>2

LEMMA AffordableHolds ==
    ASSUME OInv
    PROVE  AuthorizedIsAffordable
<1>1. pc = "clean up" => Affordable("Cleanup")
    BY CallsAreAffordable DEF Entrance, Phases
<1>2. pc = "verify cleanup" => Affordable("CleanupVerification")
    BY CallsAreAffordable DEF Entrance, Phases
<1>3. pending.category # "BudgetExhausted"
  <2>1. pending = None \/ pending \in Failures
    BY DEF OInv, RunTypes, DataTypes
  <2> QED
    BY <2>1 DEF None, Failures
<1> QED
    BY <1>1, <1>2, <1>3, UsageFits DEF AuthorizedIsAffordable

(* Whatever the executor answers and whenever the host cancels, a run can   *)
(* still do what it owes and its end accounts for what it did: no           *)
(* transition the lifecycle refuses, a cleanup verdict for every mutating   *)
(* attempt, at most one verification after a cancellation, and a cleanup    *)
(* that is paid for by what was authorized (ExploitOrchestrator::execute).  *)
THEOREM MutationAnswered == orSpec => []MutationIsAnsweredFor
<1>1. OInv => MutationIsAnsweredFor
    BY TypesHold, AccountsHold, AffordableHolds DEF MutationIsAnsweredFor
<1> QED
    BY <1>1, RunInvariance, PTL

(***************************************************************************)
(* What a step may not do to the verdict, as the three parts of            *)
(* VerdictsAreEarned state it.                                             *)
(***************************************************************************)
Earned == CompletionIsEarned /\ CleanupIsUndisturbed /\ VerdictSurvivesCleanup

(* A step that neither ends the run nor its cleanup earns nothing ...       *)
LEMMA GoingOnIsEarned ==
    ASSUME pc = "ended" \/ pc' # "ended", cleanup' = cleanup \/ cleanup' # "Verified",
           pending = None \/ pending' = pending
    PROVE  Earned
BY DEF Earned, CompletionIsEarned, CleanupIsUndisturbed, VerdictSurvivesCleanup

(* ... nor does one that ends a run which owes no cleanup, in a failure.    *)
LEMMA EarlyEndIsEarned ==
    ASSUME Report(CancelledFailure), cleanup' = cleanup, ~obligation
    PROVE  Earned
<1>1. pc' = "ended" /\ outcome' = "Cancelled"
    BY DEF Report, CancelledFailure, Failure
<1> QED
    BY <1>1 DEF Earned, CompletionIsEarned, CleanupIsUndisturbed, VerdictSurvivesCleanup

\* Each answer that changes a verdict is one that carries it.
LEMMA AttemptIsEarned ==
    ASSUME OInv, Start \/ BeginAttempt
    PROVE  Earned
<1>1. cleanup' = cleanup /\ ~obligation /\ pending = None
    BY DEF Start, BeginAttempt, OInv, ObligationInStep, FailureInStep, Unbegun
<1>2. CASE Report(CancelledFailure)
    BY <1>1, <1>2, EarlyEndIsEarned
<1>3. CASE pc' \in {"attempt", "Attempt"}
    BY <1>1, <1>3, GoingOnIsEarned
<1> QED
    BY <1>2, <1>3 DEF Start, BeginAttempt, Invoke

LEMMA VerificationIsEarned ==
    ASSUME OInv, NEW ph \in Verifications, VerifyUnlessCancelled(ph) \/ BeginVerification(ph)
    PROVE  Earned
<1>1. pending = None
    BY DEF VerifyUnlessCancelled, BeginVerification, OInv, FailureInStep, AtTrigger, AtImpact
<1>2. cleanup' = cleanup /\ pc' # "ended"
    BY DEF VerifyUnlessCancelled, BeginVerification, Invoke, ToCleanup, Verifications
<1> QED
    BY <1>1, <1>2, GoingOnIsEarned

LEMMA AnswerIsEarned ==
    ASSUME OInv, NEW ph \in Phases \ CleanupPhases, pc = ph, NEW failure, cleanup' = cleanup,
           pc' = Continue(ph, failure)
    PROVE  Earned
<1>1. pending = None
    BY DEF OInv, FailureInStep, Phases, CleanupPhases, AtTrigger, AtImpact
<1>2. pc' # "ended"
    BY DEF Continue, ToCleanup, Phases, CleanupPhases
<1> QED
    BY <1>1, <1>2, GoingOnIsEarned

LEMMA CleanupIsEarned ==
    ASSUME OInv, BeginCleanup \/ BeginCleanupVerification
    PROVE  Earned
<1>1. /\ cleanup' = cleanup /\ pc' # "ended"
      /\ pending = None \/ pending' = pending
    BY DEF BeginCleanup, BeginCleanupVerification, Invoke
<1> QED
    BY <1>1, GoingOnIsEarned

(* A cleanup that ends the run is not verified and the report says so.      *)
LEMMA CleanupEndIsEarned ==
    ASSUME pc' = "ended", cleanup' \in {"Failed", "Incomplete"},
           outcome' \in {"CleanupFailed", "Cancelled"}
    PROVE  Earned
BY DEF Earned, CompletionIsEarned, CleanupIsUndisturbed, VerdictSurvivesCleanup

LEMMA CleanupAnswerIsEarned ==
    ASSUME OInv, NEW answer \in Answers("Cleanup"), CleanupAnswered(answer)
    PROVE  Earned
<1>1. CASE CleanupReport("Cleanup", answer) \/ (cleanup' = "Incomplete" /\ Report(CancelledIncomplete))
  <2>1. pc' = "ended" /\ cleanup' \in {"Failed", "Incomplete"} /\ outcome' \in {"CleanupFailed", "Cancelled"}
    BY <1>1, CleanupEndKeeps DEF CleanupAnswered, CleanupPhases
  <2> QED
    BY <2>1, CleanupEndIsEarned
<1>2. CASE pc' = "verify cleanup" /\ UNCHANGED <<lifecycle, furthest, pending, cleanup, outcome>>
    BY <1>2, GoingOnIsEarned
<1> QED
    BY <1>1, <1>2 DEF CleanupAnswered

LEMMA CleanupVerdictIsEarned ==
    ASSUME OInv, NEW answer \in Answers("CleanupVerification"), CleanupVerificationAnswered(answer)
    PROVE  Earned
<1>1. CASE \/ CleanupReport("CleanupVerification", answer)
           \/ cleanup' = "Incomplete" /\ Report(CancelledIncomplete)
  <2>1. pc' = "ended" /\ cleanup' \in {"Failed", "Incomplete"} /\ outcome' \in {"CleanupFailed", "Cancelled"}
    BY <1>1, CleanupEndKeeps DEF CleanupVerificationAnswered, CleanupPhases
  <2> QED
    BY <2>1, CleanupEndIsEarned
<1>2. CASE ~CancelledDuringCleanup /\ pc' = "finish" /\ UNCHANGED <<pending, outcome>>
  <2>1. generation = seen
    BY <1>2 DEF CancelledDuringCleanup
  <2> QED
    BY <1>2, <2>1 DEF Earned, CompletionIsEarned, CleanupIsUndisturbed, VerdictSurvivesCleanup
<1> QED
    BY <1>1, <1>2 DEF CleanupVerificationAnswered

(***************************************************************************)
(* The end of a run.                                                       *)
(***************************************************************************)
LEMMA FinishIsEarned ==
    ASSUME OInv, Finish
    PROVE  Earned
<1>1. /\ pc = "finish" /\ cleanup' = cleanup
      /\ obligation <=> plan.cleanup
      /\ obligation => cleanup = "Verified"
    BY DEF Finish, OInv, ObligationInStep, Unbegun
<1>2. CASE FinalFailure = None
  <2>1. pending = None /\ generation = 0 /\ impact = "Verified"
    BY <1>2, FailureFacts DEF FinalFailure, CancelledFailure, IncompleteFailure, Failure, None
  <2>2. ImpactIsProven(proof)
    BY <2>1 DEF OInv, ProofInStep
  <2>3. pc' = "ended" /\ outcome' = "Completed"
    BY <1>2 DEF Finish
  <2>4. CompletionIsEarned
    BY <1>1, <2>1, <2>2 DEF CompletionIsEarned, ImpactIsProven
  <2> QED
    BY <1>1, <2>1, <2>3, <2>4 DEF Earned, CleanupIsUndisturbed, VerdictSurvivesCleanup
<1>3. CASE FinalFailure # None
  <2>1. Report(FinalFailure)
    BY <1>3 DEF Finish
  <2>2. pending = None \/ pending \in RunFailures
    BY <1>1 DEF OInv, FailureInStep
  <2>3. FinalFailure \in RunFailures
    BY <1>3, <2>2, FailureFacts DEF FinalFailure
  <2>4. pc' = "ended" /\ outcome' = FinalFailure.outcome
    BY <2>1 DEF Report
  <2>5. outcome' # "Completed"
    BY <2>3, <2>4 DEF RunFailures, Failures, EndStates
  <2>6. pending # None => outcome' = pending.outcome
    BY <2>4 DEF FinalFailure
  <2> QED
    BY <1>1, <2>4, <2>5, <2>6
       DEF Earned, CompletionIsEarned, CleanupIsUndisturbed, VerdictSurvivesCleanup
<1> QED
    BY <1>2, <1>3

LEMMA StepsAreEarned == OInv /\ orNext => Earned
<1> SUFFICES ASSUME OInv, orNext PROVE Earned
    OBVIOUS
<1>1. CASE Cancel
    BY <1>1, GoingOnIsEarned DEF Cancel
<1>2. CASE \E grant, host \in Budgets : Authorize(grant, host)
  <2>1. PICK grant, host \in Budgets : Authorize(grant, host)
    BY <1>2
  <2>2. pc' # "ended" /\ pending' = pending /\ (cleanup' = cleanup \/ cleanup' # "Verified")
    BY <2>1 DEF Authorize
  <2> QED
    BY <2>2, GoingOnIsEarned
<1>3. CASE RunStep
    BY <1>3, AttemptIsEarned, VerificationIsEarned, CleanupIsEarned, FinishIsEarned DEF RunStep
<1>4. CASE ExecutorAnswers
  <2>1. CASE pc = "Attempt" /\ \E answer \in Answers("Attempt") : AttemptAnswered(answer)
    <3>1. PICK answer \in Answers("Attempt") : AttemptAnswered(answer)
      BY <2>1
    <3>2. cleanup' = cleanup /\ \E failure : pc' = Continue("Attempt", failure)
      BY <3>1 DEF AttemptAnswered
    <3> QED
      BY <2>1, <3>2, AnswerIsEarned DEF Phases, CleanupPhases
  <2>2. CASE \E phase \in Verifications :
                 pc = phase /\ \E answer \in Answers(phase) : VerificationAnswered(phase, answer)
    <3>1. PICK phase \in Verifications : \E answer \in Answers(phase) : VerificationAnswered(phase, answer)
      BY <2>2
    <3>2. PICK answer \in Answers(phase) : VerificationAnswered(phase, answer)
      BY <3>1
    <3>3. pc = phase /\ cleanup' = cleanup /\ \E failure : pc' = Continue(phase, failure)
      BY <3>2 DEF VerificationAnswered
    <3>4. phase \in Phases \ CleanupPhases
      BY DEF Verifications, Phases, CleanupPhases
    <3> QED
      BY <3>3, <3>4, AnswerIsEarned
  <2>3. CASE \E answer \in Answers("Cleanup") : CleanupAnswered(answer)
    BY <2>3, CleanupAnswerIsEarned
  <2>4. CASE \E answer \in Answers("CleanupVerification") : CleanupVerificationAnswered(answer)
    BY <2>4, CleanupVerdictIsEarned
  <2> QED
    BY <1>4, <2>1, <2>2, <2>3, <2>4 DEF ExecutorAnswers
<1> QED
    BY <1>1, <1>2, <1>3, <1>4 DEF orNext

(* No verdict is better than the run deserves, whichever of its reads of    *)
(* the generation a cancellation falls between: completion is reported only *)
(* of a run never cancelled before it, with the proof its contract asks and *)
(* nothing left to clean up; verified cleanup was undisturbed; and a        *)
(* failure met before the cleanup survives it (Execution::run, finish).     *)
THEOREM VerdictsEarned == orSpec => VerdictsAreEarned
<1>1. OInv /\ [orNext]_vars =>
          [CompletionIsEarned /\ CleanupIsUndisturbed /\ VerdictSurvivesCleanup]_vars
    BY StepsAreEarned DEF Earned
<1> QED
    BY <1>1, RunInvariance, PTL DEF orSpec, VerdictsAreEarned
=============================================================================
