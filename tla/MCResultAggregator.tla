------------------------- MODULE MCResultAggregator -------------------------
(***************************************************************************)
(* Two tasks and one worker, whose lease may expire before it completes;   *)
(* two storers and two results, of which one fills the store alone.        *)
(***************************************************************************)
EXTENDS ResultAggregator, TLC

MCBytes == {[tag |-> "a", size |-> 1], [tag |-> "b", size |-> 2]}
=============================================================================
