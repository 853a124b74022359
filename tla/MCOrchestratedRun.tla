-------------------------- MODULE MCOrchestratedRun --------------------------
(* Small instances of OrchestratedRun for TLC. *)
EXTENDS OrchestratedRun, TLC

CONSTANTS e1, e2

MCReferences == {e1, e2}

\* Every combination of contract, with the proving steps worth one or two references.
MCPlans ==
    {[cleanup |-> r, reversible |-> r, independent |-> i, minimum |-> m, applicability |-> a,
      cost |-> [ph \in Phases |->
                  IF ph = "TriggerVerification" THEN t
                  ELSE IF ph = "ImpactVerification" THEN v
                  ELSE IF ph = "Cleanup" THEN 0 ELSE 1]] :
        r \in BOOLEAN, i \in BOOLEAN, m \in {1, 2}, a \in {0, 1}, t \in {1, 2}, v \in {1, 2}}

MCBudget(cleanups, evidence) ==
    [steps |-> 3 + cleanups,
     calls |-> [k \in Calls |->
                  IF k = "Attempt" THEN 1 ELSE IF k = "Verification" THEN 2 ELSE cleanups],
     evidence |-> evidence]

\* Exactly enough, one short, and ample.
MCBudgets == {MCBudget(2, 4), MCBudget(2, 6), MCBudget(0, 4), MCBudget(2, 7)}

MCManifestBudget == MCBudget(2, 7)

=============================================================================
