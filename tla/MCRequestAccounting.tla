------------------------ MODULE MCRequestAccounting ------------------------
(***************************************************************************)
(* Two collectors, two requests and three response bytes; one receipt is   *)
(* kept, so that a second one is omitted.                                  *)
(***************************************************************************)
EXTENDS RequestAccounting
=============================================================================
