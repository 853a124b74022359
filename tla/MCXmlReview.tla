---------------------------- MODULE MCXmlReview ----------------------------
(***************************************************************************)
(* One provider, one connection at a time: what several connections add is *)
(* MCOastAdapter's subject.                                                *)
(***************************************************************************)
EXTENDS XmlReview

\* The provider is configured with the limits of the review.
ASSUME ReviewLimitsAssumption == ReviewLimits

=============================================================================
