------------------------------- MODULE Answers -------------------------------
(***************************************************************************)
(* Answers on their way from the server to a page: a sequence, in the      *)
(* order in which the server gave them. A fetch may settle in any order,   *)
(* so that a handler may take any of them.                                 *)
(***************************************************************************)
EXTENDS Naturals, Sequences

\* RemoveAt of SequencesExt, in a form that the provers expand.
Without(s, i) == [j \in 1 .. Len(s) - 1 |-> IF j < i THEN s[j] ELSE s[j + 1]]

\* answers[i] would be handled before an older answer, and both are of S
Overtakes(answers, S, i) ==
  /\ answers[i].req.op \in S
  /\ \E j \in 1 .. i - 1 : answers[j].req.op \in S

\* The mishaps of the network in handling answers[i]
NetworkMishaps(answers, S, i) ==
  (IF Overtakes(answers, S, i) THEN {"order"} ELSE {})
  \union (IF answers[i].result = "lost" THEN {"lost"} ELSE {})
==============================================================================
