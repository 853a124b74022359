--------------------------- MODULE MCDecisionLoop ---------------------------
EXTENDS DecisionLoop

\* What the refinement of SessionLifecycle rests on.
ASSUME EscalationAssumption == EscalatesPassiveOnly

CONSTANTS a1, a2, h1, h2

mcOrder == <<a1, a2>>
mcPrerequisites == [a \in {a1, a2} |-> {}]
mcCost == [a \in {a1, a2} |-> 1]
mcMotive == [a \in {a1, a2} |-> IF a = a1 THEN h1 ELSE h2]
mcTarget == [a \in {a1, a2} |-> IF a = a1 THEN h1 ELSE KnowledgeOnly]

\* The standard policies' shapes: a throttled retry and a scheduled action for
\* what stays unresolved, and a continuation that suppresses the source.
mcRetry ==
    [id |-> 1, priority |-> 3, max_applications |-> 1,
     statuses |-> {"Blocked", "Unknown"}, stages |-> {"Passive", "Active"},
     directive |-> Directive("Throttle", "none", TRUE)]
mcSchedule ==
    [id |-> 2, priority |-> 2, max_applications |-> 2,
     statuses |-> {"Success", "Unknown"}, stages |-> {"Passive"},
     directive |-> Directive("ScheduleAction", a2, FALSE)]
mcNegative ==
    [id |-> 3, priority |-> 2, max_applications |-> 1,
     statuses |-> {"ConfirmedNegative"}, stages |-> {"Passive", "Active"},
     directive |-> Directive("Throttle", "none", TRUE)]
mcRules == {mcRetry, mcSchedule, mcNegative}

mcHosts == {[policy |-> {}, defense |-> {}],
            [policy |-> {a2}, defense |-> {}],
            [policy |-> {}, defense |-> {a1}]}
=============================================================================
