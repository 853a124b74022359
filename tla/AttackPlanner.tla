---------------------------- MODULE AttackPlanner ----------------------------
(***************************************************************************)
(* The selection the planner makes                                         *)
(* (src/crates/termivar-scanner/src/planner/selection.rs and model.rs):    *)
(* which of the registered actions a plan holds, and in which order, and   *)
(* what is left of it when actions are suppressed by defense.              *)
(*                                                                         *)
(* Whether an action is eligible on a snapshot, and its utility, are the   *)
(* caller's: the plan is a function of the set of eligible actions and of  *)
(* the order of their utilities (ties in identity order already broken).   *)
(***************************************************************************)
EXTENDS Naturals, Sequences, SequencesExt

CONSTANTS
    IdOrder,        \* the registered actions in identity order
    Prerequisites,  \* action -> the actions that must come before it
    Cost,           \* action -> its cost in units
    budget          \* PlanningContext.budget

Actions == Range(IdOrder)

(***************************************************************************)
(* What validate_dependencies accepts: every prerequisite is registered    *)
(* and no action depends on itself, however far.                           *)
(***************************************************************************)
Acyclic ==
    \A S \in (SUBSET Actions) \ {{}} : \E a \in S : Prerequisites[a] \cap S = {}

ASSUME PlannerAssumption ==
    /\ IdOrder \in Seq(Actions)
    /\ \A a \in Actions : Prerequisites[a] \subseteq Actions /\ Cost[a] \in Nat
    /\ budget \in Nat
    /\ Acyclic

-----------------------------------------------------------------------------
\* The members of the sequence that are in S, in their order.
Select(seq, S) == FoldLeft(LAMBDA kept, x : IF x \in S THEN Append(kept, x) ELSE kept, << >>, seq)

TotalCost(steps) == FoldLeft(LAMBDA sum, a : sum + Cost[a], 0, steps)

\* The sequences of actions one after the other, nothing twice.
Merged(seqs) ==
    FoldLeft(LAMBDA seen, seq : seen \o Select(seq, Actions \ Range(seen)), << >>, seqs)

(***************************************************************************)
(* The order in which build_eligible_closure pushes an action and          *)
(* everything below it: prerequisites first, in identity order, nothing    *)
(* twice.                                                                  *)
(***************************************************************************)
Closure[a \in Actions] ==
    LET below == Select(IdOrder, Prerequisites[a])
    IN  Append(Merged([i \in DOMAIN below |-> Closure[below[i]]]), a)

(***************************************************************************)
(* One candidate, in utility order: left out when something it needs is    *)
(* not eligible (DependencyUnavailable) or when what is still missing of   *)
(* its closure does not fit the rest of the budget (BudgetExceeded).       *)
(***************************************************************************)
Consider(eligible, steps, a) ==
    LET missing == Select(Closure[a], Actions \ Range(steps))
    IN  IF /\ Range(missing) \subseteq eligible
           /\ TotalCost(missing) <= budget - TotalCost(steps)
        THEN steps \o missing
        ELSE steps

(***************************************************************************)
(* plan_snapshot_with_policy_suppressed: the baseline.                     *)
(***************************************************************************)
Baseline(eligible, ranked) ==
    FoldLeft(LAMBDA steps, a : Consider(eligible, steps, a), << >>,
             Select(ranked, eligible))

(***************************************************************************)
(* into_defense_filtered: a step goes when it is suppressed, or when one   *)
(* of its prerequisites went before it.                                    *)
(***************************************************************************)
DefenseFiltered(steps, defense) ==
    FoldLeft(LAMBDA kept, a :
                 IF a \in defense \/ ~(Prerequisites[a] \subseteq Range(kept))
                 THEN kept
                 ELSE Append(kept, a),
             << >>, steps)

=============================================================================
