----------------------------- MODULE MCAccounts -----------------------------
(* Instances of Accounts for TLC.                                          *)
EXTENDS Accounts, TLC

\* Bodies that add, that remove, that do both, that name no role or nothing.
MCRequests ==
  {[add |-> {"admin"}, remove |-> {"student"}],
   [add |-> {}, remove |-> {"student", "admin"}],
   [add |-> {"root"}, remove |-> {}],
   [add |-> {}, remove |-> {}]}

\* The two removals of the smallest race, and what gives the user two roles.
MCTwoRemovals ==
  {[add |-> {"professor"}, remove |-> {}],
   [add |-> {}, remove |-> {"professor"}],
   [add |-> {}, remove |-> {"admin"}]}

MCSymmetry == Permutations(Calls)
=============================================================================
