------------------------------ MODULE DeckCards ------------------------------
(***************************************************************************)
(* The cards of one deck on its management page (deck_manage.js), with the *)
(* table of cards behind it: the list, the dialog that edits or deletes a  *)
(* card, and the deletion of a selection. The deck belongs to whoever is   *)
(* looking at it (canEdit).                                                *)
(*                                                                         *)
(* The dialog is filled by a request and its buttons send others; all of   *)
(* their handlers work on editingID as it is when the answer arrives, not  *)
(* as it was when the request was sent.                                    *)
(***************************************************************************)
EXTENDS Answers, FiniteSets

CONSTANTS
  Cards,        \* the cards of the deck
  Words,        \* what may be written on one
  Types,        \* the types a card may have
  NoCard, NoText, NoType,
  ListLimit,    \* the cards that loadCards asks for (100)
  MaxOpen,      \* bound: requests without an answer
  MaxMishaps    \* bound: kinds of mishap in one behaviour

\* The words of a card and its type.
Texts == [words : Words, type : Types]

ASSUME CardsAssumption ==
  /\ NoCard \notin Cards /\ NoText \notin Texts /\ NoType \notin Types
  /\ MaxOpen \in Nat /\ MaxMishaps \in Nat

\* Of a larger deck the list shows its first page, and there is no button for more.
ASSUME ListAssumption ==
  ListLimit \in Nat /\ IsFiniteSet(Cards) /\ Cardinality(Cards) <= ListLimit

VARIABLES
  table,      \* table cards: the text of each, NoText for one that is deleted
  sent,       \* requests the server has not carried out
  answers,    \* answers on their way to the page
  list,       \* allCards
  modal,      \* the dialog is on the screen
  editing,    \* editingID
  shown,      \* the card whose text was loaded into the dialog
  radio,      \* the type chosen in the dialog (getEditType)
  canSave,    \* !btnModalSave.disabled
  canDelete,  \* !btnDeleteCard.disabled
  selecting,  \* selectionMode
  sel,        \* selectedIDs
  canBulk,    \* !btnBulkDelete.disabled
  confirmed,  \* history: the cards whose deletion was confirmed in a dialog
  mishaps     \* history: the overlaps and losses there have been

modalVars  == <<modal, editing, shown, radio, canSave, canDelete>>
selectVars == <<selecting, sel, canBulk>>
pageVars   == <<list, modalVars, selectVars>>
cardsVars  == <<table, sent, answers, pageVars, confirmed, mishaps>>

Tables     == [Cards -> Texts \union {NoText}]
CardOps    == {"list", "open", "save", "delete", "bulk"}
TellList   == {"list", "save", "delete"}
\* Only the list and a selection are asked for without a card; a save has its text.
Request    == {r \in [op : CardOps, card : Cards \union {NoCard}, text : Texts \union {NoText},
                      ids : SUBSET Cards] :
                 /\ r.op \in {"open", "save", "delete"} => r.card \in Cards
                 /\ r.op = "save" => r.text \in Texts}
\* seen: the table when the server answered a read; it has the card that was opened.
Answer     == {a \in [req : Request, result : {"done", "refused", "lost"}, seen : Tables] :
                 a.req.op = "open" /\ a.result = "done" => a.seen[a.req.card] \in Texts}
Mishaps    == {"order", "lost", "left", "retyped"}

Ask(op, c) == [op |-> op, card |-> c, text |-> NoText, ids |-> {}]
Listed     == {c \in Cards : list[c] # NoText}
Send(r)    == Cardinality(sent) + Len(answers) < MaxOpen /\ sent' = sent \union {r}
Happened(S) == /\ mishaps' = mishaps \union S
               /\ Cardinality(mishaps') <= MaxMishaps

CardsInit ==
  /\ table \in [Cards -> Texts]
  /\ sent = {Ask("list", NoCard)} /\ answers = <<>>
  /\ list = [c \in Cards |-> NoText]
  /\ modal = FALSE /\ editing = NoCard /\ shown = NoCard /\ radio = NoType
  /\ canSave = TRUE /\ canDelete = TRUE
  /\ selecting = FALSE /\ sel = {} /\ canBulk = FALSE
  /\ confirmed = {} /\ mishaps = {}

-----------------------------------------------------------------------------
(* The server.                                                             *)

\* BulkDelete without ids deletes every card of the deck.
Deleted(r) == IF r.op = "bulk" THEN (IF r.ids = {} THEN Cards ELSE r.ids) ELSE {r.card}

\* The table after r, if it is not refused: the card of a read, an update or a
\* deletion must be there.
Effects(r) ==
  CASE r.op = "list" -> {table}
    [] r.op = "bulk" -> {[c \in Cards |-> IF c \in Deleted(r) THEN NoText ELSE table[c]]}
    [] OTHER         -> IF table[r.card] = NoText THEN {}
                        ELSE CASE r.op = "open"   -> {table}
                               [] r.op = "save"   -> {[table EXCEPT ![r.card] = r.text]}
                               [] r.op = "delete" -> {[table EXCEPT ![r.card] = NoText]}

Reply(r, result) ==
  [req |-> r, result |-> result,
   seen |-> [c \in Cards |-> IF r.op = "list" \/ (r.op = "open" /\ c = r.card)
                             THEN table[c] ELSE NoText]]

Serve(r) ==
  /\ r \in sent /\ sent' = sent \ {r}
  /\ \/ /\ table' \in Effects(r)
        /\ \E result \in {"done", "lost"} : answers' = Append(answers, Reply(r, result))
     \/ /\ table' = table
        /\ \E result \in {"refused", "lost"} : answers' = Append(answers, Reply(r, result))
  /\ UNCHANGED <<pageVars, confirmed, mishaps>>

-----------------------------------------------------------------------------
(* What the professor does.                                                *)

\* Mutant: the card is the dialog's before its text has come.
OpenEditModalAtOnce(c) ==
  /\ c \in Listed /\ ~selecting /\ ~modal
  /\ modal' = TRUE /\ editing' = c /\ shown' = NoCard /\ radio' = list[c].type /\ canSave' = FALSE
  /\ Send(Ask("open", c))
  /\ UNCHANGED <<table, answers, list, canDelete, selectVars, confirmed, mishaps>>

\* openEditModal; the dialog covers the list while it is open
OpenEditModal(c) ==
  /\ c \in Listed /\ ~selecting /\ ~modal
  /\ modal' = TRUE /\ editing' = NoCard /\ shown' = NoCard /\ radio' = NoType /\ canSave' = FALSE
  /\ Send(Ask("open", c))
  /\ UNCHANGED <<table, answers, list, canDelete, selectVars, confirmed, mishaps>>

\* Mutant: the text is cleared where the card should be.
CloseModalByText ==
  modal' = FALSE /\ editing' = NoText /\ shown' = NoCard /\ radio' = NoType

\* What a dialog without a card shows does not matter.
CloseModal == modal' = FALSE /\ editing' = NoCard /\ shown' = NoCard /\ radio' = NoType

CancelModal ==
  /\ modal /\ CloseModal
  /\ UNCHANGED <<table, sent, answers, list, canSave, canDelete, selectVars, confirmed, mishaps>>

\* The radios stay enabled; what they say is looked at by SaveCard, which chooses
\* again here, and when a save is answered.
ChooseType(y) ==
  /\ modal /\ editing # NoCard /\ radio' = y
  /\ \/ \E r \in sent : r.op = "save"
     \/ \E i \in DOMAIN answers : answers[i].req.op = "save"
  /\ UNCHANGED <<table, sent, answers, list, modal, editing, shown, canSave, canDelete,
                 selectVars, confirmed, mishaps>>

\* t: what the loaded text has been edited to
SaveCard(t) ==
  /\ modal /\ canSave /\ editing # NoCard
  /\ canSave' = FALSE /\ radio' = t.type
  /\ Send([Ask("save", editing) EXCEPT !.text = t])
  /\ UNCHANGED <<table, answers, list, modal, editing, shown, canDelete, selectVars,
                 confirmed, mishaps>>

DeleteCard ==
  /\ modal /\ canDelete /\ editing # NoCard
  /\ canDelete' = FALSE /\ confirmed' = confirmed \union {editing}
  /\ Send(Ask("delete", editing))
  /\ UNCHANGED <<table, answers, list, modal, editing, shown, radio, canSave, selectVars, mishaps>>

EnterSelection ==
  /\ ~selecting /\ ~modal
  /\ selecting' = TRUE /\ sel' = {} /\ canBulk' = FALSE
  /\ UNCHANGED <<table, sent, answers, list, modalVars, confirmed, mishaps>>

ExitSelection ==
  /\ selecting /\ selecting' = FALSE /\ sel' = {} /\ UNCHANGED canBulk
  /\ UNCHANGED <<table, sent, answers, list, modalVars, confirmed, mishaps>>

\* One box, or "select all" of the cards that a search has left on the screen.
Check(S) ==
  /\ selecting /\ S # {} /\ S \subseteq Listed
  /\ sel' = IF S \subseteq sel THEN sel \ S ELSE sel \union S
  /\ canBulk' = (sel' # {})
  /\ UNCHANGED <<table, sent, answers, list, modalVars, selecting, confirmed, mishaps>>

\* Mutant: the size of the selection is left to the button.
BulkDeleteByButton ==
  /\ selecting /\ canBulk
  /\ canBulk' = FALSE /\ confirmed' = confirmed \union sel
  /\ Send([Ask("bulk", NoCard) EXCEPT !.ids = sel])
  /\ UNCHANGED <<table, answers, list, modalVars, selecting, sel, mishaps>>

BulkDelete ==
  /\ selecting /\ canBulk /\ sel # {}
  /\ canBulk' = FALSE /\ confirmed' = confirmed \union sel
  /\ Send([Ask("bulk", NoCard) EXCEPT !.ids = sel])
  /\ UNCHANGED <<table, answers, list, modalVars, selecting, sel, mishaps>>

-----------------------------------------------------------------------------
(* The handlers of the answers.                                            *)

Take(i, op) ==
  /\ i \in DOMAIN answers /\ answers[i].req.op = op
  /\ answers' = Without(answers, i)
  /\ UNCHANGED <<table, confirmed>>

Network(i) == NetworkMishaps(answers, TellList, i)
\* The dialog is no longer that of the card the request was about.
Left(i)    == IF answers[i].result = "done" /\ editing # answers[i].req.card
              THEN {"left"} ELSE {}
\* Another type has been chosen, or loaded, since the save was sent.
Retyped(i) == IF /\ answers[i].result = "done" /\ editing # NoCard
                 /\ radio # answers[i].req.text.type
              THEN {"retyped"} ELSE {}

OnList(i) ==
  /\ Take(i, "list")
  /\ Happened(Network(i) \union (IF answers[i].result = "done" THEN {} ELSE {"lost"}))
  /\ list' = IF answers[i].result = "done" THEN answers[i].seen ELSE list
  /\ UNCHANGED <<sent, modalVars, selectVars>>

\* The card is put into the dialog whichever card that is open for, or none.
OnOpen(i) ==
  LET c == answers[i].req.card IN
  /\ Take(i, "open") /\ Happened(Network(i))
  /\ IF answers[i].result = "done"
     THEN editing' = c /\ shown' = c /\ radio' = answers[i].seen[c].type /\ canSave' = TRUE
     ELSE UNCHANGED <<editing, shown, radio, canSave>>
  /\ UNCHANGED <<sent, list, modal, canDelete, selectVars>>

\* The list is given the words that were sent, and the type that is chosen now.
OnSave(i) ==
  /\ Take(i, "save") /\ Happened(Network(i) \union Left(i) \union Retyped(i))
  /\ canSave' = TRUE
  /\ IF answers[i].result = "done"
     THEN /\ list' = IF editing \in Listed
                     THEN [list EXCEPT ![editing] = [answers[i].req.text EXCEPT !.type = radio]]
                     ELSE list
          /\ CloseModal
     ELSE UNCHANGED <<list, modal, editing, shown, radio>>
  /\ UNCHANGED <<sent, canDelete, selectVars>>

OnDelete(i) ==
  /\ Take(i, "delete") /\ Happened(Network(i) \union Left(i))
  /\ canDelete' = TRUE
  /\ IF answers[i].result = "done"
     THEN /\ list' = [c \in Cards |-> IF c = editing THEN NoText ELSE list[c]]
          /\ CloseModal
     ELSE UNCHANGED <<list, modal, editing, shown, radio>>
  /\ UNCHANGED <<sent, canSave, selectVars>>

\* Mutant: the list is not read again.
OnBulkWithoutReload(i) ==
  /\ Take(i, "bulk") /\ Happened(Network(i))
  /\ IF answers[i].result = "done"
     THEN selecting' = FALSE /\ sel' = {} /\ UNCHANGED canBulk
     ELSE canBulk' = TRUE /\ UNCHANGED <<selecting, sel>>
  /\ UNCHANGED <<sent, list, modalVars>>

OnBulk(i) ==
  /\ Take(i, "bulk") /\ Happened(Network(i))
  /\ IF answers[i].result = "done"
     THEN /\ selecting' = FALSE /\ sel' = {} /\ UNCHANGED canBulk
          /\ sent' = sent \union {Ask("list", NoCard)}
     ELSE canBulk' = TRUE /\ UNCHANGED <<selecting, sel, sent>>
  /\ UNCHANGED <<list, modalVars>>

CardAnswered ==
  \E i \in DOMAIN answers : OnList(i) \/ OnOpen(i) \/ OnSave(i) \/ OnDelete(i) \/ OnBulk(i)

CardsNext ==
  \/ \E c \in Cards : OpenEditModal(c)
  \/ \E y \in Types : ChooseType(y)
  \/ \E t \in Texts : SaveCard(t)
  \/ CancelModal \/ DeleteCard
  \/ EnterSelection \/ ExitSelection \/ BulkDelete
  \/ \E S \in SUBSET Cards : Check(S)
  \/ \E r \in sent : Serve(r)
  \/ CardAnswered

CardsSpec == CardsInit /\ [][CardsNext]_cardsVars

-----------------------------------------------------------------------------
CardsTypeOK ==
  /\ table \in Tables /\ sent \subseteq Request /\ answers \in Seq(Answer)
  /\ list \in Tables /\ modal \in BOOLEAN /\ editing \in Cards \union {NoCard}
  /\ shown \in Cards \union {NoCard} /\ radio \in Types \union {NoType}
  /\ editing # NoCard => radio # NoType
  /\ canSave \in BOOLEAN /\ canDelete \in BOOLEAN
  /\ selecting \in BOOLEAN /\ sel \subseteq Cards /\ canBulk \in BOOLEAN
  /\ confirmed \subseteq Cards /\ mishaps \subseteq Mishaps

CardsQuiet == sent = {} /\ answers = <<>>
Free(S)    == mishaps \intersect S = {}

\* Whenever the dialog can save or delete a card, the text in it is that of the
\* same card, though an answer for a card opened before may come last
\* (deck_manage.js:402-428): no card is given the text of another.
DialogHoldsItsCard == editing # NoCard => shown = editing

\* When no request is open the list shows what the table holds, unless an answer
\* was lost or late, or the dialog had been left for another card or closed when
\* its save or deletion was answered (deck_manage.js:469-474 and 495 look at
\* editingID only then), or another type was chosen than the one that was saved
\* (line 472 looks at the radios only then).
ListShowsTable == CardsQuiet /\ Free(Mishaps) => list = table

\* A card is deleted only after its own deletion was confirmed. The server takes
\* an empty selection for the whole deck (content.go:205), and the button may be
\* enabled with nothing selected (deck_manage.js:371).
OnlyConfirmedDeleted ==
  [][\A c \in Cards : table[c] # NoText /\ table'[c] = NoText => c \in confirmed]_cardsVars
==============================================================================
