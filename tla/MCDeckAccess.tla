---------------------------- MODULE MCDeckAccess ----------------------------
(* Instances of DeckAccess for TLC.                                        *)
EXTENDS DeckAccess, TLC

MCSymmetry == Permutations(Calls)
=============================================================================
