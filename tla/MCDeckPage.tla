----------------------------- MODULE MCDeckPage -----------------------------
(***************************************************************************)
(* The management page of a deck for TLC: its cards (DeckCards) and its    *)
(* settings (DeckSettings). They share neither state nor requests, so one  *)
(* of them moves in a behaviour, and the other stays as the page began.    *)
(***************************************************************************)
EXTENDS DeckCards, DeckSettings, TLC

CONSTANT MaxTouched   \* bound: fields of the form that the user touches

VARIABLE part   \* the half of the page that is used

MCInit ==
  /\ part \in {"cards", "settings"}
  /\ CardsInit /\ SettingsInit
  /\ part # "cards" => \E t \in Texts : table = [c \in Cards |-> t]
  /\ part # "settings" => row.active /\ row.expiry = NoExpiry /\ past = {}

\* Bound: once something went wrong, a request waits until no other is open.
OneAtATime ==
  /\ mishaps # {} /\ sent' \ sent # {} => CardsQuiet \/ answers' # answers
  /\ troubles # {} /\ Cardinality(calls') > Cardinality(calls) => calls = {} /\ replies = <<>>

MCNext ==
  /\ UNCHANGED part
  /\ \/ part = "cards" /\ CardsNext /\ UNCHANGED settingsVars
     \/ /\ part = "settings" /\ SettingsNext /\ UNCHANGED cardsVars
        /\ Cardinality({f \in Columns : meant'[f] # Untouched}) <= MaxTouched
  /\ OneAtATime

MCSpec == MCInit /\ [][MCNext]_<<part, cardsVars, settingsVars>>

\* The types of both halves of the page (CardsTypeOK, SettingsTypeOK).
PageTypeOK == CardsTypeOK /\ SettingsTypeOK

MCSymmetry == Permutations(Cards) \union Permutations(Types) \union Permutations(Names)
=============================================================================
