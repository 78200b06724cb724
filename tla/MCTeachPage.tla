----------------------------- MODULE MCTeachPage -----------------------------
(* Instances of TeachPage for TLC.                                         *)
EXTENDS TeachPage
==============================================================================
