---------------------------- MODULE MCWebRuntime ----------------------------
EXTENDS WebRuntime

\* The composition that web_runtime.rs registers.
ASSUME WebRulesAssumption == OnlyWebRules /\ FewActions

CONSTANTS a1, a2, a3, a4, h1

mcOrder == <<a4, a1, a2, a3>>
mcPrerequisites == [a \in {a1, a2, a3, a4} |-> {}]
mcCost == [a \in {a1, a2, a3, a4} |-> 1]
mcMotive == [a \in {a1, a2, a3, a4} |-> h1]
mcTarget == [a \in {a1, a2, a3, a4} |-> IF a = a1 THEN h1 ELSE KnowledgeOnly]
mcClass == [a \in {a1, a2, a3, a4} |->
    CASE a = a1 -> "ActiveVerification" [] a \in {a2, a4} -> "Passive" [] a = a3 -> "LocalOnly"]
=============================================================================
