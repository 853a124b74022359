--------------------------- MODULE MCOastAdapter ---------------------------
(***************************************************************************)
(* Two connections, so that a request the adapter gave up on, or a         *)
(* callback, is in flight beside the current one.  No step of the adapter  *)
(* reads what its last operation returned or the receipts it keeps for its *)
(* caller, nor does a property here: states that differ only in them are   *)
(* the same state.                                                         *)
(***************************************************************************)
EXTENDS OastAdapter, TLC

Symmetry == Permutations(Conns)

AdView == <<vars, ad, call, conn, left, cancelled, settled>>
=============================================================================
