---------------------------- MODULE DecisionState ----------------------------
(***************************************************************************)
(* What the decision loop and the runtime around it both work on: the      *)
(* knowledge of one subject (knowledge/), the session                      *)
(* (decision_loop/state.rs) and the experience store (experience.rs), and  *)
(* how these are seen by the specification of a session's life.            *)
(***************************************************************************)
EXTENDS DecisionPolicy

VARIABLES
    hyp,         \* the subject's hypotheses in the knowledge base
    session,     \* DecisionSession
    experience   \* the outcomes observed, in order

Lifecycle ==
    INSTANCE SessionLifecycle WITH phase <- PhaseOf(session),
                                   issued <- session.cycles,
                                   outcomes <- Len(experience),
                                   MaxIssued <- max_action_cycles

=============================================================================
