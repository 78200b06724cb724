---------------------------- MODULE MCAnswerSync ----------------------------
(* AnswerSync on small instances. *)
EXTENDS AnswerSync, TLC

\* Both answers are about the same card (random mode serves it again).
MCSameCard == [a \in Answers |-> CHOOSE c \in Cards : TRUE]


\* One card for each answer.
MCOwnCard == CHOOSE f \in [Answers -> Cards] : \A a, b \in Answers : a # b => f[a] # f[b]

SlotSymmetry == Permutations(Slots)

=============================================================================
