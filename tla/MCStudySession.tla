--------------------------- MODULE MCStudySession ---------------------------
(* TLC instance of StudySession. One card was answered earlier in the day:   *)
(* two wrong answers and four hard ones leave it at half a day's product.    *)
EXTENDS StudySession, TLC

CONSTANTS c1, c2

MCEarlier ==
  c1 :> [streak |-> 4, interval |-> 1, ease |-> 150, last |-> "hard", due |-> 2, updated |-> 1]
=============================================================================
