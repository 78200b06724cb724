---------------------------- MODULE MCCardReview ----------------------------
(* TLC instance of CardReview: every row reachable with streaks and          *)
(* intervals up to the bounds of the configuration.                          *)
EXTENDS CardReview

\* Those of at most 110 days; the others are left to the proofs.
MCLowHalves ==
  ({30, 50, 90, 110} \X {205}) \cup ({25, 45, 55, 85, 95, 105} \X {230})
=============================================================================
