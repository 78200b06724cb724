--------------------------- MODULE DeckPageProofs ---------------------------
(***************************************************************************)
(* Theorems about the management page of a deck: its cards (DeckCards),    *)
(* its settings (DeckSettings) and the two together (MCDeckPage), for any  *)
(* cards, texts, names and dates, and without regard to the bounds.        *)
(***************************************************************************)
EXTENDS MCDeckPage, AnswersProofs

-----------------------------------------------------------------------------
(* Types.                                                                  *)

\* What the page asks without a text.
LEMMA AskType ==
  ASSUME NEW op \in CardOps \ {"save"}, NEW c \in Cards \union {NoCard}, NEW ids \in SUBSET Cards,
         op \in {"open", "delete"} => c \in Cards
  PROVE  [Ask(op, c) EXCEPT !.ids = ids] \in Request /\ Ask(op, c) \in Request
BY DEF Ask, Request

LEMMA CardsTypeInit == CardsInit => CardsTypeOK
<1> SUFFICES ASSUME CardsInit PROVE CardsTypeOK
  OBVIOUS
<1>1. Ask("list", NoCard) \in Request
  BY AskType DEF CardOps
<1>2. table \in Tables /\ list \in Tables
  BY DEF CardsInit, Tables
<1>3. answers \in Seq(Answer)
  BY DEF CardsInit
<1>4. QED
  BY <1>1, <1>2, <1>3 DEF CardsInit, CardsTypeOK, Mishaps

LEMMA EffectsType ==
  ASSUME CardsTypeOK, NEW r \in Request, NEW new \in Effects(r)
  PROVE  new \in Tables
<1>1. table \in Tables /\ r.text \in Texts \union {NoText}
  BY DEF CardsTypeOK, Request
<1>2. CASE r.op = "list" \/ r.op = "open"
  BY <1>1, <1>2 DEF Effects
<1>3. CASE r.op = "bulk"
  <2>1. new = [c \in Cards |-> IF c \in Deleted(r) THEN NoText ELSE table[c]]
    BY <1>3 DEF Effects
  <2>2. QED
    BY <1>1, <2>1 DEF Tables
<1>4. CASE r.op = "save"
  <2>1. new = [table EXCEPT ![r.card] = r.text]
    BY <1>4 DEF Effects
  <2>2. QED
    BY <1>1, <2>1 DEF Tables
<1>5. CASE r.op = "delete"
  <2>1. new = [table EXCEPT ![r.card] = NoText]
    BY <1>5 DEF Effects
  <2>2. QED
    BY <1>1, <2>1 DEF Tables
<1>6. QED
  BY <1>2, <1>3, <1>4, <1>5 DEF Request, CardOps

LEMMA ReplyType ==
  ASSUME CardsTypeOK, NEW r \in Request, NEW result \in {"done", "refused", "lost"},
         result = "done" => table' \in Effects(r)
  PROVE  /\ Reply(r, result) \in Answer
         /\ Reply(r, result).req = r /\ Reply(r, result).result = result
         /\ r.op = "list" => Reply(r, result).seen = table
<1> DEFINE seen == [c \in Cards |-> IF r.op = "list" \/ (r.op = "open" /\ c = r.card)
                                    THEN table[c] ELSE NoText]
<1>1. table \in [Cards -> Texts \union {NoText}]
  BY DEF CardsTypeOK, Tables
<1>2. seen \in Tables /\ (r.op = "list" => seen = table)
  BY <1>1 DEF Tables
<1>3. ASSUME r.op = "open", result = "done" PROVE seen[r.card] \in Texts
  <2>1. r.card \in Cards /\ table[r.card] # NoText
    BY <1>3 DEF Request, Effects
  <2>2. QED
    BY <1>1, <1>3, <2>1
<1>4. Reply(r, result) = [req |-> r, result |-> result, seen |-> seen]
  BY DEF Reply
<1> HIDE DEF seen
<1>5. QED
  BY <1>2, <1>3, <1>4 DEF Answer

LEMMA ServeType ==
  ASSUME CardsTypeOK, NEW r \in sent, Serve(r)
  PROVE  table' \in Tables /\ answers' \in Seq(Answer)
<1>1. r \in Request /\ table \in Tables /\ answers \in Seq(Answer)
  BY DEF CardsTypeOK
<1>2. table' \in Tables
  BY <1>1, EffectsType DEF Serve
<1>3. PICK result \in {"done", "refused", "lost"} :
        /\ answers' = Append(answers, Reply(r, result))
        /\ result = "done" => table' \in Effects(r)
  BY DEF Serve
<1>4. Reply(r, result) \in Answer
  BY <1>1, <1>3, ReplyType
<1>5. QED
  BY <1>1, <1>2, <1>3, <1>4

\* What the handlers share: one answer less, and known mishaps.
LEMMA TakeType ==
  ASSUME CardsTypeOK, NEW i \in DOMAIN answers, NEW op, Take(i, op)
  PROVE  /\ answers' \in Seq(Answer) /\ answers[i] \in Answer
         /\ UNCHANGED <<table, confirmed>>
         /\ Network(i) \union Left(i) \union Retyped(i) \union {"lost"} \subseteq Mishaps
<1>1. answers \in Seq(Answer)
  BY DEF CardsTypeOK
<1>2. Network(i) \subseteq {"order", "lost"}
  BY NetworkTwo DEF Network
<1>3. QED
  BY <1>1, <1>2, WithoutType DEF Take, Left, Retyped, Mishaps

LEMMA CardsTypeStep == CardsTypeOK /\ [CardsNext]_cardsVars => CardsTypeOK'
<1> SUFFICES ASSUME CardsTypeOK, [CardsNext]_cardsVars PROVE CardsTypeOK'
  OBVIOUS
<1> USE DEF Happened
<1>1. ASSUME NEW c \in Cards, OpenEditModal(c) PROVE CardsTypeOK'
  <2>1. Ask("open", c) \in Request
    BY AskType DEF CardOps
  <2>2. QED
    BY <1>1, <2>1 DEF OpenEditModal, Send, CardsTypeOK, selectVars
<1>2. ASSUME NEW t \in Texts, SaveCard(t) PROVE CardsTypeOK'
  <2>1. editing \in Cards
    BY <1>2 DEF SaveCard, CardsTypeOK
  <2>2. [Ask("save", editing) EXCEPT !.text = t] \in Request
    BY <2>1 DEF Ask, Request, CardOps
  <2>3. t.type \in Types /\ NoType \notin Types
    BY CardsAssumption DEF Texts
  <2>4. QED
    BY <1>2, <2>2, <2>3 DEF SaveCard, Send, CardsTypeOK, selectVars
<1>3. CASE CancelModal
  BY <1>3 DEF CancelModal, CloseModal, CardsTypeOK, selectVars
<1>4. CASE DeleteCard
  <2>1. editing \in Cards
    BY <1>4 DEF DeleteCard, CardsTypeOK
  <2>2. Ask("delete", editing) \in Request
    BY <2>1, AskType DEF CardOps
  <2>3. QED
    BY <1>4, <2>1, <2>2 DEF DeleteCard, Send, CardsTypeOK, selectVars
<1>5. CASE EnterSelection \/ ExitSelection
  BY <1>5 DEF EnterSelection, ExitSelection, CardsTypeOK, modalVars
<1>6. CASE BulkDelete
  <2>1. [Ask("bulk", NoCard) EXCEPT !.ids = sel] \in Request
    BY AskType DEF CardOps, CardsTypeOK
  <2>2. QED
    BY <1>6, <2>1 DEF BulkDelete, Send, CardsTypeOK, modalVars
<1>7. ASSUME NEW S \in SUBSET Cards, Check(S) PROVE CardsTypeOK'
  BY <1>7 DEF Check, CardsTypeOK, modalVars
<1>8. ASSUME NEW r \in sent, Serve(r) PROVE CardsTypeOK'
  <2>1. table' \in Tables /\ answers' \in Seq(Answer)
    BY <1>8, ServeType
  <2>2. QED
    BY <1>8, <2>1 DEF Serve, CardsTypeOK, pageVars, modalVars, selectVars
<1>9. ASSUME NEW i \in DOMAIN answers, OnList(i) PROVE CardsTypeOK'
  <2>1. /\ answers' \in Seq(Answer) /\ answers[i] \in Answer
        /\ UNCHANGED <<table, confirmed>>
        /\ Network(i) \union Left(i) \union Retyped(i) \union {"lost"} \subseteq Mishaps
    BY <1>9, TakeType DEF OnList
  <2>2. answers[i].seen \in Tables
    BY <2>1 DEF Answer
  <2>3. list' \in Tables /\ mishaps' \subseteq Mishaps
    BY <1>9, <2>1, <2>2 DEF OnList, CardsTypeOK
  <2>4. QED
    BY <1>9, <2>1, <2>3 DEF OnList, CardsTypeOK, modalVars, selectVars
<1>10. ASSUME NEW i \in DOMAIN answers, OnOpen(i) PROVE CardsTypeOK'
  <2>1. /\ answers' \in Seq(Answer) /\ answers[i] \in Answer
        /\ UNCHANGED <<table, confirmed>>
        /\ Network(i) \union Left(i) \union Retyped(i) \union {"lost"} \subseteq Mishaps
    BY <1>10, TakeType DEF OnOpen
  <2>2. answers[i].req.card \in Cards \union {NoCard}
    BY <2>1 DEF Answer, Request
  <2>3. answers[i].result = "done" => /\ answers[i].seen[answers[i].req.card].type \in Types
                                      /\ NoType \notin Types
    BY <1>10, <2>1, CardsAssumption DEF OnOpen, Take, Answer, Texts
  <2>4. /\ editing' \in Cards \union {NoCard} /\ shown' \in Cards \union {NoCard}
        /\ canSave' \in BOOLEAN /\ radio' \in Types \union {NoType}
        /\ editing' # NoCard => radio' # NoType
    BY <1>10, <2>2, <2>3 DEF OnOpen, CardsTypeOK
  <2>5. QED
    BY <1>10, <2>1, <2>4 DEF OnOpen, CardsTypeOK, selectVars
<1>11. ASSUME NEW i \in DOMAIN answers, OnSave(i) PROVE CardsTypeOK'
  <2>1. /\ answers' \in Seq(Answer) /\ answers[i] \in Answer
        /\ UNCHANGED <<table, confirmed>>
        /\ Network(i) \union Left(i) \union Retyped(i) \union {"lost"} \subseteq Mishaps
    BY <1>11, TakeType DEF OnSave
  <2>2. answers[i].req.text \in Texts
    BY <1>11, <2>1 DEF OnSave, Take, Answer, Request
  <2>3. list' \in Tables
    <3>1. editing \in Listed => [answers[i].req.text EXCEPT !.type = radio] \in Texts
      BY <2>2, CardsAssumption DEF CardsTypeOK, Listed, Texts
    <3>2. QED
      BY <1>11, <3>1 DEF OnSave, CardsTypeOK, Tables
  <2>4. /\ modal' \in BOOLEAN /\ editing' \in Cards \union {NoCard}
        /\ shown' \in Cards \union {NoCard} /\ radio' \in Types \union {NoType}
        /\ editing' # NoCard => radio' # NoType
    BY <1>11 DEF OnSave, CloseModal, CardsTypeOK
  <2>5. QED
    BY <1>11, <2>1, <2>3, <2>4 DEF OnSave, CardsTypeOK, selectVars
<1>12. ASSUME NEW i \in DOMAIN answers, OnDelete(i) PROVE CardsTypeOK'
  <2>1. /\ answers' \in Seq(Answer) /\ UNCHANGED <<table, confirmed>>
        /\ Network(i) \union Left(i) \union Retyped(i) \union {"lost"} \subseteq Mishaps
    BY <1>12, TakeType DEF OnDelete
  <2>2. list' \in Tables
    BY <1>12 DEF OnDelete, CardsTypeOK, Tables
  <2>3. /\ modal' \in BOOLEAN /\ editing' \in Cards \union {NoCard}
        /\ shown' \in Cards \union {NoCard} /\ radio' \in Types \union {NoType}
        /\ editing' # NoCard => radio' # NoType
    BY <1>12 DEF OnDelete, CloseModal, CardsTypeOK
  <2>4. QED
    BY <1>12, <2>1, <2>2, <2>3 DEF OnDelete, CardsTypeOK, selectVars
<1>13. ASSUME NEW i \in DOMAIN answers, OnBulk(i) PROVE CardsTypeOK'
  <2>1. /\ answers' \in Seq(Answer) /\ UNCHANGED <<table, confirmed>>
        /\ Network(i) \union Left(i) \union Retyped(i) \union {"lost"} \subseteq Mishaps
    BY <1>13, TakeType DEF OnBulk
  <2>2. Ask("list", NoCard) \in Request
    BY AskType DEF CardOps
  <2>3. /\ sent' \subseteq Request /\ selecting' \in BOOLEAN /\ sel' \subseteq Cards
        /\ canBulk' \in BOOLEAN
    BY <1>13, <2>2 DEF OnBulk, CardsTypeOK
  <2>4. QED
    BY <1>13, <2>1, <2>3 DEF OnBulk, CardsTypeOK, modalVars
<1>14. CASE UNCHANGED cardsVars
  BY <1>14 DEF cardsVars, pageVars, modalVars, selectVars, CardsTypeOK
<1>15. ASSUME NEW y \in Types, ChooseType(y) PROVE CardsTypeOK'
  BY <1>15, CardsAssumption DEF ChooseType, CardsTypeOK, selectVars
<1>16. QED
  BY <1>1, <1>2, <1>3, <1>4, <1>5, <1>6, <1>7, <1>8, <1>9, <1>10, <1>11, <1>12, <1>13, <1>14, <1>15
  DEF CardsNext, CardAnswered

\* The table, the requests, the answers and the page keep their types.
THEOREM CardsTypeCorrect == CardsSpec => []CardsTypeOK
BY CardsTypeInit, CardsTypeStep, PTL DEF CardsSpec

-----------------------------------------------------------------------------
(* The dialog and its card.                                                *)

LEMMA DialogStep == DialogHoldsItsCard /\ [CardsNext]_cardsVars => DialogHoldsItsCard'
<1> SUFFICES ASSUME DialogHoldsItsCard, [CardsNext]_cardsVars PROVE DialogHoldsItsCard'
  OBVIOUS
<1>1. ASSUME UNCHANGED <<editing, shown>> \/ editing' = NoCard PROVE DialogHoldsItsCard'
  BY <1>1 DEF DialogHoldsItsCard
<1>2. ASSUME NEW i \in DOMAIN answers, OnOpen(i) PROVE DialogHoldsItsCard'
  BY <1>1, <1>2 DEF OnOpen, DialogHoldsItsCard
<1>3. ASSUME NEW i \in DOMAIN answers, OnSave(i) \/ OnDelete(i) PROVE DialogHoldsItsCard'
  BY <1>1, <1>3 DEF OnSave, OnDelete, CloseModal
<1>4. CASE UNCHANGED cardsVars
  BY <1>1, <1>4 DEF cardsVars, pageVars, modalVars
<1>5. QED
  BY <1>1, <1>2, <1>3, <1>4
  DEF CardsNext, CardAnswered, OpenEditModal, ChooseType, SaveCard, CancelModal, CloseModal, DeleteCard,
      EnterSelection, ExitSelection, BulkDelete, Check, Serve, OnList, OnBulk, pageVars, modalVars

\* The dialog never saves or deletes a card with the text of another.
THEOREM DialogIsOfItsCard == CardsSpec => []DialogHoldsItsCard
<1>1. CardsInit => DialogHoldsItsCard
  BY DEF CardsInit, DialogHoldsItsCard
<1>2. QED
  BY <1>1, DialogStep, PTL DEF CardsSpec

-----------------------------------------------------------------------------
(* What is deleted. Every request on its way was confirmed: a bulk request *)
(* names its cards, and a save writes a text.                              *)

Confirmed(r) ==
  /\ r.op = "bulk" => r.ids # {} /\ r.ids \subseteq confirmed
  /\ r.op = "delete" => r.card \in confirmed
  /\ r.op = "save" => r.text \in Texts

ConfirmedInv == CardsTypeOK /\ \A r \in sent : Confirmed(r)

LEMMA ConfirmedStep == ConfirmedInv /\ [CardsNext]_cardsVars => \A r \in sent' : Confirmed(r)'
<1> SUFFICES ASSUME ConfirmedInv, [CardsNext]_cardsVars PROVE \A r \in sent' : Confirmed(r)'
  OBVIOUS
<1> USE DEF ConfirmedInv, Confirmed
<1>1. ASSUME confirmed \subseteq confirmed', \A r \in sent' : r \in sent \/ r.op \in {"list", "open"}
      PROVE  \A r \in sent' : Confirmed(r)'
  BY <1>1
<1>2. ASSUME NEW c \in Cards, OpenEditModal(c) PROVE \A r \in sent' : Confirmed(r)'
  BY <1>1, <1>2 DEF OpenEditModal, Send, Ask
<1>3. ASSUME NEW t \in Texts, SaveCard(t) PROVE \A r \in sent' : Confirmed(r)'
  <2>1. sent' = sent \union {[op |-> "save", card |-> editing, text |-> t, ids |-> {}]}
    <3>1. [Ask("save", editing) EXCEPT !.text = t] =
            [op |-> "save", card |-> editing, text |-> t, ids |-> {}]
      BY DEF Ask
    <3>2. QED
      BY <1>3, <3>1 DEF SaveCard, Send
  <2>2. QED
    BY <1>3, <2>1 DEF SaveCard
<1>4. CASE DeleteCard
  <2>1. sent' = sent \union {[op |-> "delete", card |-> editing, text |-> NoText, ids |-> {}]}
    BY <1>4 DEF DeleteCard, Send, Ask
  <2>2. confirmed' = confirmed \union {editing}
    BY <1>4 DEF DeleteCard
  <2>3. QED
    BY <2>1, <2>2
<1>5. CASE BulkDelete
  <2>1. sent' = sent \union {[op |-> "bulk", card |-> NoCard, text |-> NoText, ids |-> sel]}
    BY <1>5 DEF BulkDelete, Send, Ask
  <2>2. confirmed' = confirmed \union sel /\ sel # {}
    BY <1>5 DEF BulkDelete
  <2>3. QED
    BY <2>1, <2>2
<1>6. ASSUME NEW r \in sent, Serve(r) PROVE \A q \in sent' : Confirmed(q)'
  BY <1>1, <1>6 DEF Serve
<1>7. ASSUME NEW i \in DOMAIN answers, OnBulk(i) PROVE \A r \in sent' : Confirmed(r)'
  BY <1>1, <1>7 DEF OnBulk, Take, Ask
<1>8. CASE UNCHANGED cardsVars
  BY <1>1, <1>8 DEF cardsVars
<1>9. QED
  BY <1>1, <1>2, <1>3, <1>4, <1>5, <1>6, <1>7, <1>8
  DEF CardsNext, CardAnswered, ChooseType, CancelModal, EnterSelection, ExitSelection, Check, OnList,
      OnOpen, OnSave, OnDelete, Take

LEMMA ServeDeletes ==
  ASSUME ConfirmedInv, NEW r \in sent, Serve(r), NEW c \in Cards, table[c] # NoText, table'[c] = NoText
  PROVE  c \in confirmed
<1>1. table \in Tables /\ r \in Request /\ Confirmed(r) /\ table' \in Effects(r)
  BY DEF Serve, ConfirmedInv, CardsTypeOK
<1>2. r.op \notin {"list", "open"}
  BY <1>1 DEF Effects
<1>3. CASE r.op = "bulk"
  BY <1>1, <1>3 DEF Effects, Deleted, Confirmed
<1>4. CASE r.op = "save"
  <2>1. table' = [table EXCEPT ![r.card] = r.text] /\ r.text # NoText
    BY <1>1, <1>4, CardsAssumption DEF Effects, Confirmed
  <2>2. QED
    BY <1>1, <2>1 DEF Tables
<1>5. CASE r.op = "delete"
  <2>1. table' = [table EXCEPT ![r.card] = NoText]
    BY <1>1, <1>5 DEF Effects
  <2>2. r.card = c
    BY <1>1, <2>1 DEF Tables
  <2>3. QED
    BY <1>1, <1>5, <2>2 DEF Confirmed
<1>6. QED
  BY <1>1, <1>2, <1>3, <1>4, <1>5 DEF Request, CardOps

\* No card leaves the table whose deletion was not confirmed, through the empty
\* selection that the server would take for the whole deck or otherwise.
THEOREM DeletesOnlyConfirmed == CardsSpec => OnlyConfirmedDeleted
<1>1. CardsInit => ConfirmedInv
  BY CardsTypeInit DEF CardsInit, ConfirmedInv, Confirmed, Ask
<1>2. ConfirmedInv /\ [CardsNext]_cardsVars => ConfirmedInv'
  BY CardsTypeStep, ConfirmedStep DEF ConfirmedInv
<1>3. ASSUME ConfirmedInv, CardsNext, NEW c \in Cards, table[c] # NoText, table'[c] = NoText
      PROVE  c \in confirmed
  <2>1. PICK r \in sent : Serve(r)
    BY <1>3 DEF CardsNext, CardAnswered, OpenEditModal, ChooseType, SaveCard, CancelModal, DeleteCard,
                EnterSelection, ExitSelection, BulkDelete, Check, OnList, OnOpen, OnSave, OnDelete,
                OnBulk, Take
  <2>2. QED
    BY <1>3, <2>1, ServeDeletes
<1>4. ConfirmedInv /\ [CardsNext]_cardsVars =>
        [\A c \in Cards : table[c] # NoText /\ table'[c] = NoText => c \in confirmed]_cardsVars
  BY <1>3
<1>5. QED
  BY <1>1, <1>2, <1>4, PTL DEF CardsSpec, OnlyConfirmedDeleted

-----------------------------------------------------------------------------
(* The list and the table.                                                 *)

\* What an answer tells the list about a card.
Tells(a, c) ==
  /\ a.result = "done"
  /\ a.req.op = "list" \/ (a.req.op \in {"save", "delete"} /\ a.req.card = c)
TextOf(a, c) == CASE a.req.op = "list" -> a.seen[c]
                  [] a.req.op = "save" -> a.req.text
                  [] OTHER             -> NoText

\* An answer that will count as a mishap, and one after which the list is read again
\* because the card is gone.
Spoils(a)     == a.result = "lost" \/ (a.req.op = "list" /\ a.result # "done")
Reloads(a, c) == a.req.op = "bulk" /\ a.result = "done" /\ c \in Deleted(a.req)

\* The list will be read again or be spoilt; it shows the table, and no answer that is
\* on its way tells it anything; or the last one that does tells what the table holds.
ListWaits(c) ==
  \/ \E r \in sent : r.op = "list"
  \/ \E i \in DOMAIN answers : Spoils(answers[i]) \/ Reloads(answers[i], c)
Telling(c) == {a \in Answer : Tells(a, c)}
Right(c)   == {a \in Answer : TextOf(a, c) = table[c]}
ListIsTable(c) == list[c] = table[c] /\ NoneBefore(answers, Telling(c), Len(answers) + 1)
ListWillBe(c)  == LastBefore(answers, Telling(c), Right(c), Len(answers) + 1)

\* A card that is gone does not come back.
GoneInv ==
  \A i \in DOMAIN answers :
    /\ answers[i].req.op = "list" => \A c \in Cards : answers[i].seen[c] = NoText => table[c] = NoText
    /\ answers[i].req.op = "delete" /\ answers[i].result = "done" => table[answers[i].req.card] = NoText
\* What is saved has a text, and what is deleted is a card.
WellAsked(r) == (r.op = "save" => r.text \in Texts) /\ (r.op = "delete" => r.card \in Cards)
AskedInv ==
  /\ \A r \in sent : WellAsked(r)
  /\ \A i \in DOMAIN answers : WellAsked(answers[i].req)

\* Until the first list has come nothing can be asked of a card; after it the list
\* has every card that there is.
Loading ==
  /\ \A r \in sent : r.op = "list"
  /\ \A i \in DOMAIN answers : answers[i].req.op = "list"
  /\ editing = NoCard /\ sel = {} /\ \A c \in Cards : list[c] = NoText
Loaded == \A c \in Cards : list[c] = NoText => table[c] = NoText

CardsInv ==
  /\ CardsTypeOK /\ GoneInv /\ AskedInv
  /\ Free({"left"}) => Loading \/ Loaded
  /\ Free(Mishaps) => \A c \in Cards : ListWaits(c) \/ ListIsTable(c) \/ ListWillBe(c)

LEMMA CardsInvInit == CardsInit => CardsInv
<1> SUFFICES ASSUME CardsInit PROVE CardsInv
  OBVIOUS
<1>1. CardsTypeOK
  BY CardsTypeInit
<1>2. sent = {Ask("list", NoCard)} /\ DOMAIN answers = {} /\ Ask("list", NoCard).op = "list"
  BY DEF CardsInit, Ask
<1>3. GoneInv /\ AskedInv
  BY <1>2 DEF GoneInv, AskedInv, WellAsked
<1>4. Loading
  BY <1>2 DEF Loading, CardsInit
<1>5. \A c \in Cards : ListWaits(c)
  BY <1>2 DEF ListWaits
<1>6. QED
  BY <1>1, <1>3, <1>4, <1>5 DEF CardsInv

\* The table after a request is what the answer tells of each card.
LEMMA EffectsTell ==
  ASSUME CardsTypeOK, NEW r \in Request, NEW new \in Effects(r), NEW a,
         a.req = r, a.result = "done", r.op = "list" => a.seen = table, NEW c \in Cards
  PROVE  /\ new[c] = IF Tells(a, c) THEN TextOf(a, c)
                     ELSE IF Reloads(a, c) THEN NoText ELSE table[c]
         /\ table[c] = NoText => new[c] = NoText
         /\ r.op = "list" => new = table
<1>1. table \in Tables /\ r.op \in CardOps /\ NoCard \notin Cards
  BY CardsAssumption DEF CardsTypeOK, Request
<1>2. CASE r.op = "list"
  BY <1>1, <1>2 DEF Effects, Tells, TextOf, Reloads, Tables
<1>3. CASE r.op = "bulk"
  <2>1. new = [x \in Cards |-> IF x \in Deleted(r) THEN NoText ELSE table[x]]
    BY <1>3 DEF Effects
  <2>2. ~Tells(a, c) /\ (Reloads(a, c) <=> c \in Deleted(r))
    BY <1>3 DEF Tells, Reloads
  <2>3. QED
    BY <1>3, <2>1, <2>2
<1>4. CASE r.op = "open"
  <2>1. new = table
    BY <1>4 DEF Effects
  <2>2. QED
    BY <1>4, <2>1 DEF Tells, Reloads
<1>5. CASE r.op = "save"
  <2>1. new = [table EXCEPT ![r.card] = r.text] /\ table[r.card] # NoText
    BY <1>5 DEF Effects
  <2>2. new[c] = IF r.card = c THEN r.text ELSE table[c]
    BY <1>1, <2>1 DEF Tables
  <2>3. ~Reloads(a, c) /\ (Tells(a, c) <=> r.card = c) /\ TextOf(a, c) = r.text
    BY <1>5 DEF Tells, Reloads, TextOf
  <2>4. QED
    BY <1>5, <2>1, <2>2, <2>3
<1>6. CASE r.op = "delete"
  <2>1. new = [table EXCEPT ![r.card] = NoText] /\ table[r.card] # NoText
    BY <1>6 DEF Effects
  <2>2. new[c] = IF r.card = c THEN NoText ELSE table[c]
    BY <1>1, <2>1 DEF Tables
  <2>3. ~Reloads(a, c) /\ (Tells(a, c) <=> r.card = c) /\ TextOf(a, c) = NoText
    BY <1>6 DEF Tells, Reloads, TextOf
  <2>4. QED
    BY <1>6, <2>1, <2>2, <2>3
<1>7. QED
  BY <1>1, <1>2, <1>3, <1>4, <1>5, <1>6 DEF CardOps

LEMMA CardServed ==
  ASSUME CardsTypeOK, NEW r \in sent, Serve(r)
  PROVE  \E a \in Answer :
           /\ answers' = Append(answers, a) /\ a.req = r /\ sent' = sent \ {r}
           /\ r.op = "list" => a.seen = table /\ table' = table
           /\ \A c \in Cards : table[c] = NoText => table'[c] = NoText
           /\ a.result = "refused" => table' = table
           /\ a.result = "done" => \A c \in Cards :
                table'[c] = IF Tells(a, c) THEN TextOf(a, c)
                            ELSE IF Reloads(a, c) THEN NoText ELSE table[c]
<1>1. r \in Request /\ table \in Tables
  BY DEF CardsTypeOK
<1>2. PICK result \in {"done", "refused", "lost"} :
        /\ answers' = Append(answers, Reply(r, result)) /\ sent' = sent \ {r}
        /\ \/ result # "refused" /\ table' \in Effects(r)
           \/ result # "done" /\ table' = table
  BY DEF Serve
<1> DEFINE a == Reply(r, result)
<1>3. a.req = r /\ a.result = result
  BY <1>1, <1>2, ReplyType
<1>4. a \in Answer
  BY <1>1, <1>2, ReplyType
<1>5. r.op = "list" => a.seen = table
  BY <1>1, <1>2, ReplyType
<1> HIDE DEF a
<1>6. /\ r.op = "list" => table' = table
      /\ \A c \in Cards : table[c] = NoText => table'[c] = NoText
      /\ result = "refused" => table' = table
      /\ result = "done" => \A c \in Cards :
           table'[c] = IF Tells(a, c) THEN TextOf(a, c)
                       ELSE IF Reloads(a, c) THEN NoText ELSE table[c]
  <2>1. CASE result # "refused" /\ table' \in Effects(r)
    <3> DEFINE b == [req |-> r, result |-> "done", seen |-> table]
    <3>1. b.req = r /\ b.result = "done" /\ b.seen = table
      OBVIOUS
    <3> HIDE DEF b
    <3>2. \A c \in Cards : table[c] = NoText => table'[c] = NoText
      BY <1>1, <2>1, <3>1, EffectsTell
    <3>3. r.op = "list" => table' = table
      BY <2>1 DEF Effects
    <3>4. result = "done" => \A c \in Cards :
            table'[c] = IF Tells(a, c) THEN TextOf(a, c)
                        ELSE IF Reloads(a, c) THEN NoText ELSE table[c]
      BY <1>1, <1>3, <1>5, <2>1, EffectsTell
    <3>5. QED
      BY <2>1, <3>2, <3>3, <3>4
  <2>2. CASE result # "done" /\ table' = table
    BY <2>2
  <2>3. QED
    BY <1>2, <2>1, <2>2
<1>7. /\ answers' = Append(answers, a) /\ a.req = r /\ sent' = sent \ {r}
      /\ r.op = "list" => a.seen = table /\ table' = table
      /\ \A c \in Cards : table[c] = NoText => table'[c] = NoText
      /\ a.result = "refused" => table' = table
      /\ a.result = "done" => \A c \in Cards :
           table'[c] = IF Tells(a, c) THEN TextOf(a, c)
                       ELSE IF Reloads(a, c) THEN NoText ELSE table[c]
  <2>1. answers' = Append(answers, a)
    BY <1>2 DEF a
  <2>2. QED
    BY <1>2, <1>3, <1>5, <1>6, <2>1
<1>8. QED
  BY <1>4, <1>7

\* What an answer that is added means for a card of the list.
LEMMA ListAppended ==
  ASSUME CardsTypeOK, NEW a \in Answer, answers' = Append(answers, a), list' = list, NEW c \in Cards
  PROVE  /\ Spoils(a) \/ Reloads(a, c) => ListWaits(c)'
         /\ Tells(a, c) /\ TextOf(a, c) = table'[c] => ListWillBe(c)'
         /\ ~Tells(a, c) /\ table'[c] = table[c] =>
              (ListIsTable(c) => ListIsTable(c)') /\ (ListWillBe(c) => ListWillBe(c)')
         /\ (\E i \in DOMAIN answers : Spoils(answers[i]) \/ Reloads(answers[i], c)) => ListWaits(c)'
<1>1. answers \in Seq(Answer) /\ Len(answers') + 1 = Len(answers) + 2
  BY DEF CardsTypeOK
<1>2. /\ DOMAIN answers' = DOMAIN answers \union {Len(answers) + 1} /\ answers'[Len(answers) + 1] = a
      /\ \A j \in DOMAIN answers : answers'[j] = answers[j]
  BY <1>1, AppendAll
<1>3. /\ Spoils(a) \/ Reloads(a, c) => ListWaits(c)'
      /\ (\E i \in DOMAIN answers : Spoils(answers[i]) \/ Reloads(answers[i], c)) => ListWaits(c)'
  BY <1>2 DEF ListWaits
<1>4. ASSUME Tells(a, c), TextOf(a, c) = table'[c] PROVE ListWillBe(c)'
  <2>1. a \in Telling(c) \intersect Right(c)'
    BY <1>4 DEF Telling, Right
  <2>2. LastBefore(answers', Telling(c), Right(c)', Len(answers) + 2)
    BY <1>1, <2>1, LastAdded
  <2>3. QED
    BY <1>1, <2>2 DEF ListWillBe, Telling
<1>5. ASSUME ~Tells(a, c), table'[c] = table[c]
      PROVE  (ListIsTable(c) => ListIsTable(c)') /\ (ListWillBe(c) => ListWillBe(c)')
  <2>1. a \notin Telling(c) /\ Telling(c)' = Telling(c) /\ Right(c)' = Right(c)
    BY <1>5 DEF Telling, Right
  <2>2. /\ NoneBefore(answers, Telling(c), Len(answers) + 1) => NoneBefore(answers', Telling(c), Len(answers) + 2)
        /\ LastBefore(answers, Telling(c), Right(c), Len(answers) + 1) =>
             LastBefore(answers', Telling(c), Right(c), Len(answers) + 2)
    BY <1>1, <2>1, LastAdded
  <2>3. QED
    BY <1>1, <1>5, <2>1, <2>2 DEF ListIsTable, ListWillBe
<1>6. QED
  BY <1>3, <1>4, <1>5

\* What taking an answer in its turn means for a card, if its handler does with the
\* list what the answer tells.
LEMMA ListTaken ==
  ASSUME CardsTypeOK, NEW i \in DOMAIN answers, answers' = Without(answers, i), table' = table,
         ~Overtakes(answers, TellList, i), ~Spoils(answers[i]), NEW c \in Cards,
         Reloads(answers[i], c) => \E r \in sent' : r.op = "list",
         sent \subseteq sent',
         Tells(answers[i], c) /\ TextOf(answers[i], c) = table[c] => list'[c] = table[c],
         ~Tells(answers[i], c) => list'[c] = list[c],
         ListWaits(c) \/ ListIsTable(c) \/ ListWillBe(c)
  PROVE  (ListWaits(c) \/ ListIsTable(c) \/ ListWillBe(c))'
<1> DEFINE a == answers[i]
<1>1. answers \in Seq(Answer) /\ a \in Answer /\ i \in 1 .. Len(answers)
  BY DEF CardsTypeOK
<1>2. CASE ListWaits(c)
  <2>1. CASE \E r \in sent : r.op = "list"
    BY <2>1 DEF ListWaits
  <2>2. ASSUME NEW k \in DOMAIN answers, Spoils(answers[k]) \/ Reloads(answers[k], c) PROVE ListWaits(c)'
    <3>1. CASE k = i
      BY <2>2, <3>1 DEF ListWaits
    <3>2. CASE k # i
      <4>1. \E j \in DOMAIN answers' : answers'[j] = answers[k]
        BY <1>1, <3>2, WithoutKeeps
      <4>2. QED
        BY <2>2, <4>1 DEF ListWaits
    <3>3. QED
      BY <3>1, <3>2
  <2>3. QED
    BY <1>2, <2>1, <2>2 DEF ListWaits
<1>3. CASE ListIsTable(c) \/ ListWillBe(c)
  <2>1. PICK m \in 1 .. Len(answers) : m = Len(answers) /\ Len(answers') + 1 = m
                                       /\ From(i, m) = Len(answers) + 1 /\ i < From(i, m)
    <3>1. Len(answers) \in Nat /\ Len(answers') = Len(answers) - 1
      BY <1>1 DEF Without
    <3>2. QED
      BY <1>1, <3>1 DEF From
  <2>2. a \in Telling(c) => NoneBefore(answers, Telling(c), i)
    <3>1. \A x \in Telling(c) : x.req.op \in TellList
      BY DEF Telling, Tells, TellList
    <3>2. \A j \in DOMAIN answers : j < i => j \in 1 .. i - 1
      BY <1>1
    <3>3. QED
      BY <3>1, <3>2 DEF NoneBefore, Overtakes
  <2>3. /\ NoneBefore(answers, Telling(c), From(i, m)) =>
             a \notin Telling(c) /\ NoneBefore(answers', Telling(c), m)
        /\ LastBefore(answers, Telling(c), Right(c), From(i, m)) =>
             \/ a \in Telling(c) \intersect Right(c) /\ NoneBefore(answers', Telling(c), m)
             \/ LastBefore(answers', Telling(c), Right(c), m)
    BY <1>1, <2>1, <2>2, LastTaken
  <2>4. Telling(c)' = Telling(c) /\ Right(c)' = Right(c)
    BY DEF Telling, Right
  <2>5. /\ a \in Telling(c) \intersect Right(c) => list'[c] = table[c]
        /\ a \notin Telling(c) => list'[c] = list[c]
    BY <1>1 DEF Telling, Right
  <2>6. QED
    BY <1>3, <2>1, <2>3, <2>4, <2>5 DEF ListIsTable, ListWillBe
<1>4. QED
  BY <1>2, <1>3

LEMMA MishapsGrow ==
  ASSUME CardsNext PROVE mishaps \subseteq mishaps'
BY DEF CardsNext, CardAnswered, OpenEditModal, ChooseType, SaveCard, CancelModal, DeleteCard, EnterSelection,
  ExitSelection, BulkDelete, Check, Serve, OnList, OnOpen, OnSave, OnDelete, OnBulk, Happened

\* The server carries out a request.
LEMMA ServedLists ==
  ASSUME CardsInv, NEW r \in sent, Serve(r)
  PROVE  CardsInv'
<1>1. /\ CardsTypeOK /\ GoneInv /\ AskedInv
      /\ UNCHANGED <<list, editing, sel, mishaps>>
  BY DEF CardsInv, Serve, pageVars, modalVars, selectVars
<1>2. PICK a \in Answer :
        /\ answers' = Append(answers, a) /\ a.req = r /\ sent' = sent \ {r}
        /\ r.op = "list" => a.seen = table /\ table' = table
        /\ \A c \in Cards : table[c] = NoText => table'[c] = NoText
        /\ a.result = "refused" => table' = table
        /\ a.result = "done" => \A c \in Cards :
             table'[c] = IF Tells(a, c) THEN TextOf(a, c)
                         ELSE IF Reloads(a, c) THEN NoText ELSE table[c]
  BY <1>1, CardServed
<1>3. CardsTypeOK'
  BY <1>1, CardsTypeStep DEF CardsNext
<1>4. /\ DOMAIN answers' = DOMAIN answers \union {Len(answers) + 1} /\ answers'[Len(answers) + 1] = a
      /\ \A j \in DOMAIN answers : answers'[j] = answers[j]
  BY <1>1, <1>2, AppendAll DEF CardsTypeOK
<1>5. \A j \in DOMAIN answers' : answers'[j] = a \/ (j \in DOMAIN answers /\ answers'[j] = answers[j])
  BY <1>4
<1>6. AskedInv'
  BY <1>1, <1>2, <1>5 DEF AskedInv
<1>7. GoneInv'
  <2>1. \A c \in Cards : table[c] = NoText => table'[c] = NoText
    BY <1>2
  <2>2. ASSUME NEW j \in DOMAIN answers
        PROVE  /\ answers[j].req.op = "list" => \A c \in Cards : answers[j].seen[c] = NoText => table'[c] = NoText
               /\ answers[j].req.op = "delete" /\ answers[j].result = "done" => table'[answers[j].req.card] = NoText
    BY <1>1, <2>1 DEF GoneInv, AskedInv, WellAsked
  <2>3. a.req.op = "list" => \A c \in Cards : a.seen[c] = NoText => table'[c] = NoText
    BY <1>2
  <2>4. ASSUME a.req.op = "delete", a.result = "done" PROVE table'[a.req.card] = NoText
    <3>1. a.req.card \in Cards
      BY <1>1, <1>2, <2>4 DEF AskedInv, WellAsked
    <3>2. Tells(a, a.req.card) /\ TextOf(a, a.req.card) = NoText
      BY <2>4 DEF Tells, TextOf
    <3>3. QED
      BY <1>2, <2>4, <3>1, <3>2
  <2>5. QED
    BY <1>5, <2>2, <2>3, <2>4 DEF GoneInv
<1>8. ASSUME Free({"left"})' PROVE Loading' \/ Loaded'
  <2>1. Loading \/ Loaded
    BY <1>1, <1>8 DEF CardsInv, Free
  <2>2. Loading => Loading'
    BY <1>1, <1>2, <1>5 DEF Loading
  <2>3. Loaded => Loaded'
    BY <1>1, <1>2 DEF Loaded
  <2>4. QED
    BY <2>1, <2>2, <2>3
<1>9. ASSUME Free(Mishaps)', NEW c \in Cards
      PROVE  (ListWaits(c) \/ ListIsTable(c) \/ ListWillBe(c))'
  <2>1. ListWaits(c) \/ ListIsTable(c) \/ ListWillBe(c)
    BY <1>1, <1>9 DEF CardsInv, Free
  <2>2. /\ Spoils(a) \/ Reloads(a, c) => ListWaits(c)'
        /\ Tells(a, c) /\ TextOf(a, c) = table'[c] => ListWillBe(c)'
        /\ ~Tells(a, c) /\ table'[c] = table[c] =>
             (ListIsTable(c) => ListIsTable(c)') /\ (ListWillBe(c) => ListWillBe(c)')
        /\ (\E i \in DOMAIN answers : Spoils(answers[i]) \/ Reloads(answers[i], c)) => ListWaits(c)'
    BY <1>1, <1>2, ListAppended
  <2>3. CASE Spoils(a)
    BY <2>2, <2>3
  <2>4. CASE ~Spoils(a) /\ a.result = "done"
    <3>1. CASE Tells(a, c) \/ Reloads(a, c)
      BY <1>2, <2>2, <2>4, <3>1
    <3>2. CASE ~Tells(a, c) /\ ~Reloads(a, c)
      <4>1. table'[c] = table[c] /\ r.op # "list"
        BY <1>2, <2>4, <3>2 DEF Tells
      <4>2. ListWaits(c) => ListWaits(c)'
        BY <1>2, <2>2, <4>1 DEF ListWaits
      <4>3. QED
        BY <2>1, <2>2, <3>2, <4>1, <4>2
    <3>3. QED
      BY <3>1, <3>2
  <2>5. CASE ~Spoils(a) /\ a.result # "done"
    <3>1. ~Tells(a, c) /\ table' = table /\ r.op # "list"
      BY <1>2, <2>5 DEF Tells, Spoils, Answer
    <3>2. ListWaits(c) => ListWaits(c)'
      BY <1>2, <2>2, <3>1 DEF ListWaits
    <3>3. QED
      BY <2>1, <2>2, <3>1, <3>2
  <2>6. QED
    BY <2>3, <2>4, <2>5
<1>10. QED
  BY <1>3, <1>6, <1>7, <1>8, <1>9 DEF CardsInv

\* A request of the page changes neither the table nor the list.
LEMMA AskedLists ==
  ASSUME CardsInv, CardsTypeOK', NEW r, sent' = sent \union {r}, WellAsked(r), ~Loading,
         mishaps \subseteq mishaps', UNCHANGED <<table, answers, list>>
  PROVE  CardsInv'
<1>1. GoneInv' /\ AskedInv'
  BY DEF CardsInv, GoneInv, AskedInv
<1>2. Loaded => Loaded'
  BY DEF Loaded
<1>3. \A c \in Cards : /\ ListWaits(c) => ListWaits(c)'
                       /\ ListIsTable(c) => ListIsTable(c)'
                       /\ ListWillBe(c) => ListWillBe(c)'
  BY DEF ListWaits, ListIsTable, ListWillBe, Telling, Right
<1>4. (Free({"left"})' => Free({"left"})) /\ (Free(Mishaps)' => Free(Mishaps))
  BY DEF Free
<1>5. Free({"left"})' => Loading' \/ Loaded'
  BY <1>2, <1>4 DEF CardsInv
<1>6. Free(Mishaps)' => \A c \in Cards : ListWaits(c)' \/ ListIsTable(c)' \/ ListWillBe(c)'
  BY <1>3, <1>4 DEF CardsInv
<1>7. QED
  BY <1>1, <1>5, <1>6 DEF CardsInv

\* The page moves within what it holds.
LEMMA StillLists ==
  ASSUME CardsInv, CardsTypeOK', Loading => editing' = NoCard /\ sel' = {},
         UNCHANGED <<table, sent, answers, list, mishaps>>
  PROVE  CardsInv'
<1>1. GoneInv' /\ AskedInv' /\ CardsTypeOK'
  BY DEF CardsInv, GoneInv, AskedInv
<1>2. (Loaded => Loaded') /\ (Loading => Loading')
  BY DEF Loaded, Loading
<1>3. \A c \in Cards : /\ ListWaits(c) => ListWaits(c)'
                       /\ ListIsTable(c) => ListIsTable(c)'
                       /\ ListWillBe(c) => ListWillBe(c)'
  BY DEF ListWaits, ListIsTable, ListWillBe, Telling, Right
<1>4. (Free({"left"})' => Free({"left"})) /\ (Free(Mishaps)' => Free(Mishaps))
  BY DEF Free
<1>5. Free({"left"})' => Loading' \/ Loaded'
  BY <1>2, <1>4 DEF CardsInv
<1>6. Free(Mishaps)' => \A c \in Cards : ListWaits(c)' \/ ListIsTable(c)' \/ ListWillBe(c)'
  BY <1>3, <1>4 DEF CardsInv
<1>7. QED
  BY <1>1, <1>5, <1>6 DEF CardsInv

\* The handlers of the answers.
LEMMA TakenLists ==
  ASSUME CardsInv, NEW i \in DOMAIN answers,
         OnList(i) \/ OnOpen(i) \/ OnSave(i) \/ OnDelete(i) \/ OnBulk(i)
  PROVE  CardsInv'
<1> DEFINE a == answers[i]
<1>1. CardsTypeOK /\ GoneInv /\ AskedInv
  BY DEF CardsInv
<1>2. CardsTypeOK'
  BY <1>1, CardsTypeStep DEF CardsNext, CardAnswered
<1>3. answers' = Without(answers, i) /\ table' = table /\ a \in Answer /\ a.req \in Request
  <2>1. answers' = Without(answers, i) /\ table' = table
    BY DEF OnList, OnOpen, OnSave, OnDelete, OnBulk, Take
  <2>2. a \in Answer
    BY <1>1 DEF CardsTypeOK
  <2>3. QED
    BY <2>1, <2>2 DEF Answer
<1>4. ASSUME NEW j \in DOMAIN answers' PROVE \E k \in DOMAIN answers : answers'[j] = answers[k]
  BY <1>1, <1>3, <1>4, WithoutFrom DEF CardsTypeOK
<1>5. sent \subseteq sent' /\ \A r \in sent' : r \in sent \/ r = Ask("list", NoCard)
  BY DEF OnList, OnOpen, OnSave, OnDelete, OnBulk
<1>6. GoneInv' /\ AskedInv'
  <2>1. WellAsked(Ask("list", NoCard))
    BY DEF WellAsked, Ask
  <2>2. QED
    BY <1>1, <1>3, <1>4, <1>5, <2>1 DEF GoneInv, AskedInv
<1>7. /\ mishaps \subseteq mishaps' /\ Network(i) \subseteq mishaps'
      /\ a.req.op \in {"save", "delete"} => Left(i) \subseteq mishaps'
      /\ a.req.op = "save" => Retyped(i) \subseteq mishaps'
      /\ a.req.op = "list" /\ a.result # "done" => "lost" \in mishaps'
  BY DEF OnList, OnOpen, OnSave, OnDelete, OnBulk, Happened, Take
<1>8. ASSUME Free({"left"})' PROVE Loading' \/ Loaded'
  <2>1. Loading \/ Loaded
    BY <1>7, <1>8 DEF CardsInv, Free
  <2>2. CASE OnList(i) /\ a.result = "done"
    <3>1. list' = a.seen /\ a.req.op = "list"
      BY <2>2 DEF OnList, Take
    <3>2. QED
      BY <1>1, <1>3, <3>1 DEF GoneInv, Loaded
  <2>3. CASE OnList(i) /\ a.result # "done"
    <3>1. UNCHANGED <<list, sent, editing, sel>>
      BY <2>3 DEF OnList, modalVars, selectVars
    <3>2. QED
      BY <1>3, <1>4, <2>1, <3>1 DEF Loading, Loaded
  <2>4. CASE ~OnList(i)
    <3>1. Loaded
      BY <2>1, <2>4 DEF Loading, OnOpen, OnSave, OnDelete, OnBulk, Take
    <3>2. CASE OnOpen(i) \/ OnBulk(i)
      BY <1>3, <3>1, <3>2 DEF OnOpen, OnBulk, Loaded
    <3>3. CASE OnSave(i)
      <4>1. editing \in Listed => [a.req.text EXCEPT !.type = radio] # NoText
        <5>1. a.req.text \in Texts
          BY <1>1, <3>3 DEF OnSave, Take, AskedInv, WellAsked
        <5>2. editing \in Listed => [a.req.text EXCEPT !.type = radio] \in Texts
          BY <1>1, <5>1, CardsAssumption DEF CardsTypeOK, Listed, Texts
        <5>3. QED
          BY <5>2, CardsAssumption
      <4>2. \A c \in Cards : list'[c] = NoText => list[c] = NoText
        BY <1>1, <3>3, <4>1 DEF OnSave, CardsTypeOK, Tables
      <4>3. QED
        BY <1>3, <3>1, <4>2 DEF Loaded
    <3>4. CASE OnDelete(i)
      <4>1. a.result = "done" => editing = a.req.card /\ table[a.req.card] = NoText
        BY <1>1, <1>7, <1>8, <3>4 DEF OnDelete, Take, Left, Free, GoneInv
      <4>2. \A c \in Cards : list'[c] = NoText => (list[c] = NoText \/ table[c] = NoText)
        BY <3>4, <4>1 DEF OnDelete
      <4>3. QED
        BY <1>3, <3>1, <4>2 DEF Loaded
    <3>5. QED
      BY <2>4, <3>2, <3>3, <3>4
  <2>5. QED
    BY <2>2, <2>3, <2>4
<1>9. ASSUME Free(Mishaps)', NEW c \in Cards
      PROVE  (ListWaits(c) \/ ListIsTable(c) \/ ListWillBe(c))'
  <2>1. ListWaits(c) \/ ListIsTable(c) \/ ListWillBe(c)
    BY <1>7, <1>9 DEF CardsInv, Free
  <2>2. Free({"left"}) /\ mishaps' \intersect {"lost", "order", "left", "retyped"} = {}
    BY <1>7, <1>9 DEF Free, Mishaps
  <2>3. ~Overtakes(answers, TellList, i) /\ ~Spoils(a)
    BY <1>7, <2>2 DEF Network, NetworkMishaps, Spoils
  <2>4. Reloads(a, c) => \E r \in sent' : r.op = "list"
    <3>1. Ask("list", NoCard).op = "list"
      BY DEF Ask
    <3>2. QED
      BY <3>1 DEF Reloads, OnList, OnOpen, OnSave, OnDelete, OnBulk, Take
  <2>5. a.req.op \in {"save", "delete"} /\ a.result = "done" => editing = a.req.card
    BY <1>7, <2>2 DEF Left
  <2>6. ~Loading => Loaded
    BY <2>2 DEF CardsInv
  <2>7. /\ Tells(a, c) /\ TextOf(a, c) = table[c] => list'[c] = table[c]
        /\ ~Tells(a, c) => list'[c] = list[c]
    <3>1. CASE OnList(i)
      <4>1. a.req.op = "list" /\ a.result = "done" /\ list' = a.seen
        BY <2>3, <3>1 DEF OnList, Take, Spoils
      <4>2. QED
        BY <4>1 DEF Tells, TextOf
    <3>2. CASE OnOpen(i) \/ OnBulk(i)
      BY <3>2 DEF OnOpen, OnBulk, Take, Tells
    <3>3. CASE OnSave(i)
      <4>1. a.req.op = "save" /\ Loaded
        BY <2>6, <3>3 DEF OnSave, Take, Loading
      <4>2. a.result # "done" => list' = list
        BY <3>3 DEF OnSave
      <4>3. a.result = "done" => list' = IF editing \in Listed THEN [list EXCEPT ![editing] = a.req.text] ELSE list
        <5>1. editing \in Listed /\ a.result = "done" => radio = a.req.text.type
          BY <1>7, <2>2, <4>1, CardsAssumption DEF Retyped, Listed
        <5>2. a.req.text \in Texts
          BY <1>1, <4>1 DEF AskedInv, WellAsked
        <5>3. [a.req.text EXCEPT !.type = a.req.text.type] = a.req.text
          BY <5>2 DEF Texts
        <5>4. QED
          BY <3>3, <5>1, <5>3 DEF OnSave
      <4>4. CASE a.result = "done" /\ editing = c
        <5>1. Tells(a, c) /\ TextOf(a, c) = a.req.text
          BY <2>5, <4>1, <4>4 DEF Tells, TextOf
        <5>2. c \notin Listed => list[c] = NoText /\ table[c] = NoText
          BY <4>1 DEF Listed, Loaded
        <5>3. list'[c] = IF c \in Listed THEN a.req.text ELSE list[c]
          BY <1>1, <4>3, <4>4 DEF CardsTypeOK, Tables
        <5>4. QED
          BY <5>1, <5>2, <5>3
      <4>5. CASE a.result # "done" \/ editing # c
        <5>1. ~Tells(a, c)
          BY <2>5, <4>1, <4>5 DEF Tells
        <5>2. list'[c] = list[c]
          BY <1>1, <1>3, <4>2, <4>3, <4>5 DEF CardsTypeOK, Tables, Answer
        <5>3. QED
          BY <5>1, <5>2
      <4>6. QED
        BY <4>4, <4>5
    <3>4. CASE OnDelete(i)
      <4>1. a.req.op = "delete"
        BY <3>4 DEF OnDelete, Take
      <4>2. list'[c] = IF a.result = "done" /\ c = editing THEN NoText ELSE list[c]
        BY <3>4 DEF OnDelete
      <4>3. Tells(a, c) <=> (a.result = "done" /\ editing = c)
        BY <2>5, <4>1 DEF Tells
      <4>4. TextOf(a, c) = NoText
        BY <4>1 DEF TextOf
      <4>5. QED
        BY <4>2, <4>3, <4>4
    <3>5. QED
      BY <3>1, <3>2, <3>3, <3>4
  <2>8. QED
    BY <1>1, <1>3, <1>5, <2>1, <2>3, <2>4, <2>7, ListTaken
<1>10. QED
  BY <1>2, <1>6, <1>8, <1>9 DEF CardsInv

LEMMA CardsInvStep == CardsInv /\ [CardsNext]_cardsVars => CardsInv'
<1> SUFFICES ASSUME CardsInv, [CardsNext]_cardsVars PROVE CardsInv'
  OBVIOUS
<1>1. CardsTypeOK' /\ NoCard \notin Cards
  BY CardsTypeStep, CardsAssumption DEF CardsInv
<1>2. ASSUME NEW c \in Cards, OpenEditModal(c) PROVE CardsInv'
  <2>1. WellAsked(Ask("open", c))
    BY DEF WellAsked, Ask
  <2>2. ~Loading /\ sent' = sent \union {Ask("open", c)} /\ mishaps' = mishaps
        /\ UNCHANGED <<table, answers, list>>
    BY <1>2 DEF OpenEditModal, Listed, Loading, Send
  <2>3. QED
    BY <1>1, <2>1, <2>2, AskedLists
<1>3. ASSUME NEW t \in Texts, SaveCard(t) PROVE CardsInv'
  <2> DEFINE r == [Ask("save", editing) EXCEPT !.text = t]
  <2>1. WellAsked(r)
    BY DEF WellAsked, Ask
  <2>2. ~Loading /\ sent' = sent \union {r} /\ mishaps' = mishaps /\ UNCHANGED <<table, answers, list>>
    BY <1>3 DEF SaveCard, Loading, Send
  <2> HIDE DEF r
  <2>3. QED
    BY <1>1, <2>1, <2>2, AskedLists
<1>4. CASE CancelModal
  BY <1>1, <1>4, StillLists DEF CancelModal, CloseModal, selectVars, Loading
<1>5. CASE DeleteCard
  <2> DEFINE r == Ask("delete", editing)
  <2>1. editing \in Cards
    BY <1>5 DEF DeleteCard, CardsInv, CardsTypeOK
  <2>2. WellAsked(r)
    BY <2>1 DEF WellAsked, Ask
  <2>3. ~Loading /\ sent' = sent \union {r} /\ mishaps' = mishaps /\ UNCHANGED <<table, answers, list>>
    BY <1>5 DEF DeleteCard, Loading, Send
  <2> HIDE DEF r
  <2>4. QED
    BY <1>1, <2>2, <2>3, AskedLists
<1>6. CASE EnterSelection \/ ExitSelection
  BY <1>1, <1>6, StillLists DEF EnterSelection, ExitSelection, modalVars, Loading
<1>7. ASSUME NEW S \in SUBSET Cards, Check(S) PROVE CardsInv'
  <2>1. ~Loading
    BY <1>7 DEF Check, Listed, Loading
  <2>2. QED
    BY <1>1, <1>7, <2>1, StillLists DEF Check
<1>8. CASE BulkDelete
  <2> DEFINE r == [Ask("bulk", NoCard) EXCEPT !.ids = sel]
  <2>1. WellAsked(r)
    BY DEF WellAsked, Ask
  <2>2. ~Loading /\ sent' = sent \union {r} /\ mishaps' = mishaps /\ UNCHANGED <<table, answers, list>>
    BY <1>8 DEF BulkDelete, Loading, Send
  <2> HIDE DEF r
  <2>3. QED
    BY <1>1, <2>1, <2>2, AskedLists
<1>9. CASE UNCHANGED cardsVars
  BY <1>1, <1>9, StillLists DEF cardsVars, pageVars, modalVars, selectVars, Loading
<1>10. ASSUME NEW y \in Types, ChooseType(y) PROVE CardsInv'
  BY <1>1, <1>10, StillLists DEF ChooseType, selectVars, Loading
<1>11. QED
  BY <1>2, <1>3, <1>4, <1>5, <1>6, <1>7, <1>8, <1>9, <1>10, ServedLists, TakenLists
  DEF CardsNext, CardAnswered

\* When no request is open the list is the table, unless an answer was lost or late, the
\* dialog had been left when its save or deletion was answered, or another type had been
\* chosen by then: what is told by the answers on their way, and by the reload after a
\* deletion, is enough.
THEOREM ListIsTheTable == CardsSpec => []ListShowsTable
<1>1. CardsInv => ListShowsTable
  <2> SUFFICES ASSUME CardsInv, CardsQuiet, Free(Mishaps) PROVE list = table
    BY DEF ListShowsTable
  <2>1. sent = {} /\ DOMAIN answers = {}
    BY DEF CardsQuiet
  <2>2. \A c \in Cards : list[c] = table[c]
    BY <2>1 DEF CardsInv, ListWaits, ListIsTable, ListWillBe, LastBefore
  <2>3. list \in Tables /\ table \in Tables
    BY DEF CardsInv, CardsTypeOK
  <2>4. QED
    BY <2>2, <2>3 DEF Tables
<1>2. QED
  BY <1>1, CardsInvInit, CardsInvStep, PTL DEF CardsSpec

-----------------------------------------------------------------------------
(* The settings: types.                                                    *)

\* How far the halves of a call are, by its operation; one that is done with
\* both has left the calls, and of one that was refused the page was told.
ShapeInv ==
  \A c \in calls :
    /\ Failed(c) => c.told
    /\ c.op = "get" => c.put = "none" /\ c.patch = "none"
    /\ c.op = "publish" => c.put = "none" /\ c.patch \in {"todo", "read"}
    /\ c.op = "save" => /\ c.put \in {"todo", "done", "failed"}
                        /\ c.patch # "none" /\ ~Finished(c)

\* The name is filled in wherever it is sent or shown: the field is empty only
\* while the form is closed, and only a read of the row that failed has seen none.
NamedInv ==
  /\ formOpen => fields.name \in Names
  /\ \A c \in calls : c.op = "save" => c.values.name \in Names
  /\ \A i \in DOMAIN replies : replies[i].result = "done" => replies[i].seen \in Rows

SettingsTypeInv == SettingsTypeOK /\ ShapeInv /\ NamedInv

LEMMA SettingsTypeInit == SettingsInit => SettingsTypeInv
<1> SUFFICES ASSUME SettingsInit PROVE SettingsTypeInv
  OBVIOUS
<1>1. Blank \in Fields /\ NothingMeant \in Meant
  BY SettingsAssumption DEF Blank, NothingMeant, Fields, Meant
<1>2. row \in Rows /\ row.name \in Names /\ replies \in Seq(Settled)
  BY DEF SettingsInit, Rows
<1>3. SettingsTypeOK
  BY <1>1, <1>2 DEF SettingsInit, SettingsTypeOK, Buttons, Offer
<1>4. ShapeInv /\ NamedInv
  BY DEF SettingsInit, ShapeInv, NamedInv
<1>5. QED
  BY <1>3, <1>4 DEF SettingsTypeInv

LEMMA IssueType ==
  ASSUME SettingsTypeOK, NEW c \in Call, Issue(c)
  PROVE  calls' \subseteq Call
BY DEF Issue, SettingsTypeOK

LEMMA ConstantForms ==
  /\ Blank \in Fields /\ NothingMeant \in Meant
  /\ \A b \in BOOLEAN : [Blank EXCEPT !.active = b] \in Fields
BY SettingsAssumption DEF Blank, NothingMeant, Fields, Meant

\* How a call may change: the page is told of it once, of a refusal or a loss as soon as
\* there is one; and it leaves the calls when it is done with both halves.
Changes(c, d) ==
  /\ calls' = (calls \ {c}) \union (IF Finished(d) THEN {} ELSE {d})
  /\ \/ ~c.told /\ d.told /\ \E result \in Outcomes(d) : replies' = Append(replies, AnswerTo(d, result))
     \/ /\ d.told = c.told /\ replies' = replies
        /\ c.told \/ (~Finished(d) /\ ~Failed(d))

\* Two calls that differ at most in what the page was told.
Alike(c, d) == /\ c.op = d.op /\ c.put = d.put /\ c.patch = d.patch /\ c.values = d.values
               /\ c.meant = d.meant /\ c.seen = d.seen

LEMMA ProgressChanges ==
  ASSUME NEW c, NEW d \in Call, Progress(c, d), d.told = c.told
  PROVE  \E e \in Call : Changes(c, e) /\ Alike(d, e)
<1>1. CASE ~c.told /\ \E result \in Outcomes(d) : replies' = Append(replies, AnswerTo(d, result))
              /\ calls' = (calls \ {c}) \union (IF Finished(d) THEN {} ELSE {[d EXCEPT !.told = TRUE]})
  <2> DEFINE e == [d EXCEPT !.told = TRUE]
  <2>1. e \in Call /\ e.told /\ Alike(d, e)
    BY DEF Call, Alike
  <2>2. calls' = (calls \ {c}) \union (IF Finished(d) THEN {} ELSE {e})
    BY <1>1
  <2> HIDE DEF e
  <2>3. (Finished(d) <=> Finished(e)) /\ Outcomes(d) = Outcomes(e)
        /\ \A result : AnswerTo(d, result) = AnswerTo(e, result)
    BY <2>1 DEF Alike, Finished, Failed, Outcomes, AnswerTo
  <2>4. Changes(c, e)
    BY <1>1, <2>1, <2>2, <2>3 DEF Changes
  <2>5. QED
    BY <2>1, <2>4
<1>2. CASE /\ c.told \/ ~(Finished(d) \/ Failed(d))
           /\ UNCHANGED replies
           /\ calls' = (calls \ {c}) \union (IF Finished(d) THEN {} ELSE {d})
  BY <1>2 DEF Changes, Alike
<1>3. QED
  BY <1>1, <1>2 DEF Progress

LEMMA OutcomesAre ==
  ASSUME NEW d, NEW result \in Outcomes(d)
  PROVE  /\ result \in {"done", "refused", "lost"}
         /\ result = "done" => Finished(d) /\ d.put # "failed" /\ d.patch # "failed"
         /\ result = "refused" => Failed(d)
BY DEF Outcomes, Failed

LEMMA AnswerToType ==
  ASSUME NEW d \in Call, NEW result \in {"done", "refused", "lost"}
  PROVE  AnswerTo(d, result) \in Settled
<1>1. [d.seen EXCEPT !.name = d.values.name] \in Fields
  BY DEF Call, Fields
<1>2. QED
  BY <1>1 DEF Call, Settled, AnswerTo

\* What one step of the server does to a call of each operation, and to the row.
GetStep(c, d) ==
  /\ row' = row /\ Finished(d) /\ d.put = "none"
  /\ d.patch # "failed" => d.seen = row

PublishStep(c, d) ==
  /\ d.put = "none"
  /\ \/ /\ c.patch = "todo" /\ row' = row
        /\ d.patch = "failed" \/ (d.patch = "read" /\ d.seen = row)
     \/ /\ c.patch = "read" /\ d.patch = "done" /\ d.seen = row'
        /\ row' = [row EXCEPT !.active = c.values.active, !.expiry = c.seen.expiry]
        /\ formOpen \/ Waiting({"get"}) => "stale" \in troubles'

SaveStep(c, d) ==
  /\ \/ /\ c.put = "todo" /\ d.patch = c.patch /\ d.seen = c.seen
        /\ \/ d.put = "failed" /\ row' = row
           \/ d.put = "done" /\ row' = [row EXCEPT !.name = c.values.name]
     \/ /\ c.patch = "todo" /\ d.put = c.put /\ row' = row
        /\ d.patch \in {"read", "failed"}
     \/ /\ c.patch = "read" /\ d.put = c.put /\ d.patch = "done" /\ d.seen = row'
        /\ row' = [row EXCEPT !.active = c.values.active, !.expiry = c.values.expiry]
  /\ {d.put, d.patch} = {"done", "failed"} => "half" \in troubles'

Stepped(c, d) ==
  /\ d.op = c.op /\ d.values = c.values /\ d.meant = c.meant
  /\ troubles \subseteq troubles' /\ troubles' \subseteq Troubles
  /\ row' \in Rows
  /\ c.op = "get" => GetStep(c, d)
  /\ c.op = "publish" => PublishStep(c, d)
  /\ c.op = "save" => SaveStep(c, d)

Served(c, d) == Changes(c, d) /\ Stepped(c, d)

\* What a step does to a call does not depend on what the page was told of it.
LEMMA SteppedAlike ==
  ASSUME NEW c, NEW d, NEW e, Stepped(c, d), Alike(d, e)
  PROVE  Stepped(c, e)
BY DEF Stepped, Alike, GetStep, PublishStep, SaveStep, Finished

LEMMA ServeSettingsServed ==
  ASSUME SettingsTypeInv, NEW c \in calls,
         ServeGet(c) \/ ServePut(c) \/ PatchRead(c) \/ PatchWrite(c)
  PROVE  \E d \in Call : Served(c, d)
<1>1. c \in Call /\ row \in Rows /\ row \in Fields /\ troubles \subseteq Troubles
  BY DEF SettingsTypeInv, SettingsTypeOK, Rows, Fields
<1>2. ASSUME NEW h \in Half, NEW r \in Fields
      PROVE  /\ [c EXCEPT !.put = h] \in Call /\ [c EXCEPT !.patch = h] \in Call
             /\ [c EXCEPT !.seen = r] \in Call /\ [c EXCEPT !.patch = h, !.seen = r] \in Call
  BY <1>1 DEF Call
<1>3. {"done", "failed", "read"} \subseteq Half
  BY DEF Half
<1>4. /\ c.op = "get" => c.put = "none" /\ c.patch = "none"
      /\ c.op = "publish" => c.put = "none" /\ c.patch \in {"todo", "read"}
      /\ c.op = "save" => c.put \in {"todo", "done", "failed"} /\ c.patch # "none"
      /\ c.op = "save" => c.values.name \in Names
      /\ c.op \in {"get", "publish", "save"}
  BY <1>1 DEF SettingsTypeInv, ShapeInv, NamedInv, Call, SettingOps
<1>5. CASE \E d \in Call : Progress(c, d) /\ d.told = c.told /\ Stepped(c, d)
  BY <1>5, ProgressChanges, SteppedAlike DEF Served
<1>6. CASE ServeGet(c)
  <2>1. PICK d \in {[c EXCEPT !.seen = row], [c EXCEPT !.patch = "failed"]} : Progress(c, d)
    BY <1>6 DEF ServeGet
  <2>2. d \in Call
    BY <1>1, <1>2, <1>3, <2>1
  <2>3. c.op = "get" /\ row' = row /\ troubles' = troubles
    BY <1>6 DEF ServeGet
  <2>4. /\ d.op = c.op /\ d.values = c.values /\ d.meant = c.meant /\ d.told = c.told
        /\ d.put = "none" /\ d.patch \in {"none", "failed"}
        /\ d.patch # "failed" => d.seen = row
    BY <1>1, <1>4, <2>1, <2>3 DEF Call
  <2>5. Stepped(c, d)
    BY <1>1, <2>3, <2>4 DEF Stepped, GetStep, Finished
  <2>6. QED
    BY <1>5, <2>1, <2>2, <2>4, <2>5
<1>7. CASE ServePut(c)
  <2>1. c.op = "save" /\ c.put = "todo"
    BY <1>4, <1>7 DEF ServePut
  <2>2. CASE row' = [row EXCEPT !.name = c.values.name] /\ Progress(c, [c EXCEPT !.put = "done"])
             /\ Trouble(IF c.patch = "failed" THEN {"half"} ELSE {})
    <3> DEFINE d == [c EXCEPT !.put = "done"]
    <3>1. /\ d \in Call /\ d.op = c.op /\ d.values = c.values /\ d.meant = c.meant /\ d.told = c.told
          /\ d.put = "done" /\ d.patch = c.patch /\ d.seen = c.seen /\ Progress(c, d)
      BY <1>1, <1>2, <1>3, <2>2 DEF Call
    <3>2. row' \in Rows
      BY <1>1, <1>4, <2>1, <2>2 DEF Rows
    <3>3. troubles \subseteq troubles' /\ troubles' \subseteq Troubles
          /\ (c.patch = "failed" => "half" \in troubles')
      BY <1>1, <2>2 DEF Trouble, Troubles
    <3> HIDE DEF d
    <3>4. SaveStep(c, d)
      BY <2>1, <2>2, <3>1, <3>3 DEF SaveStep
    <3>5. QED
      BY <1>5, <2>1, <3>1, <3>2, <3>3, <3>4 DEF Stepped
  <2>3. CASE row' = row /\ Progress(c, [c EXCEPT !.put = "failed"])
             /\ Trouble(IF c.patch = "done" THEN {"half"} ELSE {})
    <3> DEFINE d == [c EXCEPT !.put = "failed"]
    <3>1. /\ d \in Call /\ d.op = c.op /\ d.values = c.values /\ d.meant = c.meant /\ d.told = c.told
          /\ d.put = "failed" /\ d.patch = c.patch /\ d.seen = c.seen /\ Progress(c, d)
      BY <1>1, <1>2, <1>3, <2>3 DEF Call
    <3>3. troubles \subseteq troubles' /\ troubles' \subseteq Troubles
          /\ (c.patch = "done" => "half" \in troubles')
      BY <1>1, <2>3 DEF Trouble, Troubles
    <3> HIDE DEF d
    <3>4. SaveStep(c, d)
      BY <2>1, <2>3, <3>1, <3>3 DEF SaveStep
    <3>5. QED
      BY <1>1, <1>5, <2>1, <2>3, <3>1, <3>3, <3>4 DEF Stepped
  <2>4. QED
    BY <1>7, <2>2, <2>3 DEF ServePut
<1>8. CASE PatchRead(c)
  <2>1. c.op \in {"publish", "save"} /\ c.patch = "todo" /\ row' = row
    BY <1>4, <1>8 DEF PatchRead
  <2>2. CASE /\ calls' = (calls \ {c}) \union {[c EXCEPT !.patch = "read", !.seen = row]}
             /\ UNCHANGED <<replies, troubles>>
    <3> DEFINE d == [c EXCEPT !.patch = "read", !.seen = row]
    <3>1. /\ d \in Call /\ d.op = c.op /\ d.values = c.values /\ d.meant = c.meant /\ d.told = c.told
          /\ d.patch = "read" /\ d.put = c.put /\ d.seen = row
          /\ calls' = (calls \ {c}) \union {d}
      BY <1>1, <1>2, <1>3, <2>2 DEF Call
    <3> HIDE DEF d
    <3>2. c.op = "save" => SaveStep(c, d)
      BY <2>1, <3>1 DEF SaveStep
    <3>3. c.op = "publish" => PublishStep(c, d)
      BY <1>4, <2>1, <3>1 DEF PublishStep
    <3>4. Stepped(c, d)
      BY <1>1, <2>1, <2>2, <3>1, <3>2, <3>3 DEF Stepped
    <3>5. Changes(c, d)
      <4>1. ~Finished(d) /\ (Failed(d) => Failed(c))
        BY <2>1, <3>1 DEF Finished, Failed
      <4>2. QED
        BY <2>2, <3>1, <4>1 DEF Changes, SettingsTypeInv, ShapeInv
    <3>6. QED
      BY <3>1, <3>4, <3>5 DEF Served
  <2>3. CASE Progress(c, [c EXCEPT !.patch = "failed"])
             /\ Trouble(IF c.put = "done" THEN {"half"} ELSE {})
    <3> DEFINE d == [c EXCEPT !.patch = "failed"]
    <3>1. /\ d \in Call /\ d.op = c.op /\ d.values = c.values /\ d.meant = c.meant /\ d.told = c.told
          /\ d.patch = "failed" /\ d.put = c.put /\ d.seen = c.seen /\ Progress(c, d)
      BY <1>1, <1>2, <1>3, <2>3 DEF Call
    <3>2. troubles \subseteq troubles' /\ troubles' \subseteq Troubles
          /\ (c.put = "done" => "half" \in troubles')
      BY <1>1, <2>3 DEF Trouble, Troubles
    <3> HIDE DEF d
    <3>3. c.op = "save" => SaveStep(c, d)
      BY <2>1, <3>1, <3>2 DEF SaveStep
    <3>4. c.op = "publish" => PublishStep(c, d)
      BY <1>4, <2>1, <3>1 DEF PublishStep
    <3>5. QED
      BY <1>1, <1>5, <2>1, <3>1, <3>2, <3>3, <3>4 DEF Stepped
  <2>4. QED
    BY <1>8, <2>2, <2>3 DEF PatchRead
<1>9. CASE PatchWrite(c)
  <2>1. /\ c.op \in {"publish", "save"} /\ c.patch = "read"
        /\ row' = [row EXCEPT !.active = c.values.active,
                     !.expiry = IF c.op = "publish" THEN c.seen.expiry ELSE c.values.expiry]
    BY <1>4, <1>9 DEF PatchWrite
  <2>2. row' \in Rows /\ row' \in Fields
    BY <1>1, <2>1 DEF Rows, Call, Fields
  <2> DEFINE d == [c EXCEPT !.patch = "done", !.seen = row']
  <2>3. /\ d \in Call /\ d.op = c.op /\ d.values = c.values /\ d.meant = c.meant /\ d.told = c.told
        /\ d.patch = "done" /\ d.put = c.put /\ d.seen = row' /\ Progress(c, d)
    BY <1>1, <1>2, <1>3, <1>9, <2>2 DEF Call, PatchWrite
  <2>4. /\ troubles \subseteq troubles' /\ troubles' \subseteq Troubles
        /\ c.put = "failed" => "half" \in troubles'
        /\ c.op = "publish" /\ (formOpen \/ Waiting({"get"})) => "stale" \in troubles'
    BY <1>1, <1>9 DEF PatchWrite, Trouble, Troubles
  <2> HIDE DEF d
  <2>5. c.op = "save" => SaveStep(c, d)
    BY <2>1, <2>3, <2>4 DEF SaveStep
  <2>6. c.op = "publish" => PublishStep(c, d)
    BY <1>4, <2>1, <2>3, <2>4 DEF PublishStep
  <2>7. QED
    BY <1>5, <2>1, <2>2, <2>3, <2>4, <2>5, <2>6 DEF Stepped
<1>10. QED
  BY <1>6, <1>7, <1>8, <1>9, <1>5

\* A call that is served keeps to its types, and so does its answer; an answer that
\* reports success has seen a row.
LEMMA ServedType ==
  ASSUME SettingsTypeInv, NEW c \in calls, NEW d \in Call, Served(c, d),
         UNCHANGED <<past, shownVars, formVars>>
  PROVE  SettingsTypeInv'
<1>1. /\ SettingsTypeOK /\ ShapeInv /\ NamedInv
      /\ c \in Call /\ replies \in Seq(Settled) /\ calls \subseteq Call /\ row \in Rows
      /\ c.op \in {"get", "publish", "save"}
  BY DEF SettingsTypeInv, SettingsTypeOK, Call, SettingOps
<1>2. /\ Changes(c, d) /\ d.op = c.op /\ d.values = c.values /\ row' \in Rows /\ troubles' \subseteq Troubles
      /\ c.op = "get" => GetStep(c, d)
      /\ c.op = "publish" => PublishStep(c, d)
      /\ c.op = "save" => SaveStep(c, d)
  BY DEF Served, Stepped
<1>3. calls' \subseteq Call
  BY <1>1, <1>2 DEF Changes
<1>4. \A result \in {"done", "refused", "lost"} :
        /\ AnswerTo(d, result) \in Settled /\ AnswerTo(d, result).result = result
        /\ AnswerTo(d, result).req.op = d.op
        /\ AnswerTo(d, result).seen = IF d.op = "save" THEN [d.seen EXCEPT !.name = d.values.name] ELSE d.seen
  BY AnswerToType DEF AnswerTo
<1>5. d.op = "save" => d.values.name \in Names
  BY <1>1, <1>2 DEF NamedInv
<1>6. Finished(d) /\ d.put # "failed" /\ d.patch # "failed" => d.op = "save" \/ d.seen \in Rows
  BY <1>1, <1>2 DEF GetStep, PublishStep, ShapeInv, Finished
<1>7. \/ replies' = replies
      \/ \E result \in {"done", "refused", "lost"} :
           /\ replies' = Append(replies, AnswerTo(d, result))
           /\ result = "done" => AnswerTo(d, result).seen \in Rows
  <2>1. ASSUME NEW result \in {"done", "refused", "lost"},
               result = "done" => Finished(d) /\ d.put # "failed" /\ d.patch # "failed"
        PROVE  result = "done" => AnswerTo(d, result).seen \in Rows
    <3>1. CASE d.op = "save"
      BY <1>4, <1>5, <3>1 DEF Rows, Call, Fields
    <3>2. CASE d.op # "save"
      BY <1>4, <1>6, <2>1, <3>2
    <3>3. QED
      BY <3>1, <3>2
  <2>2. QED
    BY <1>2, <2>1, OutcomesAre DEF Changes
<1>8. replies' \in Seq(Settled)
  BY <1>1, <1>4, <1>7
<1>9. \A i \in DOMAIN replies' : replies'[i].result = "done" => replies'[i].seen \in Rows
  <2>1. CASE replies' = replies
    BY <1>1, <2>1 DEF NamedInv
  <2>2. ASSUME NEW result \in {"done", "refused", "lost"},
               replies' = Append(replies, AnswerTo(d, result)),
               result = "done" => AnswerTo(d, result).seen \in Rows
        PROVE  \A i \in DOMAIN replies' : replies'[i].result = "done" => replies'[i].seen \in Rows
    BY <1>1, <1>4, <2>2, AppendFrom DEF NamedInv
  <2>3. QED
    BY <1>7, <2>1, <2>2
<1>10. SettingsTypeOK'
  BY <1>1, <1>2, <1>3, <1>8 DEF SettingsTypeOK, shownVars, formVars
<1>11. NamedInv'
  <2>1. \A e \in calls' : e.op = "save" => e.values.name \in Names
    BY <1>1, <1>2, <1>5 DEF Changes, NamedInv
  <2>2. formOpen' => fields'.name \in Names
    BY <1>1 DEF NamedInv, formVars
  <2>3. QED
    BY <1>9, <2>1, <2>2 DEF NamedInv
<1>12. ShapeInv'
  <2>1. ~Finished(d) =>
          /\ d.op # "get"
          /\ d.op = "publish" => d.put = "none" /\ d.patch \in {"todo", "read"}
          /\ d.op = "save" => d.put \in {"todo", "done", "failed"} /\ d.patch # "none"
    <3>1. CASE c.op = "get"
      BY <1>2, <3>1 DEF GetStep
    <3>2. CASE c.op = "publish"
      BY <1>2, <3>2 DEF PublishStep, Finished
    <3>3. CASE c.op = "save"
      BY <1>1, <1>2, <3>3 DEF SaveStep, ShapeInv, Finished
    <3>4. QED
      BY <1>1, <3>1, <3>2, <3>3
  <2>2. \A e \in calls' : e \in calls \/ (e = d /\ ~Finished(d))
    BY <1>2 DEF Changes
  <2>3. Failed(d) => d.told
    BY <1>2 DEF Changes
  <2>4. QED
    BY <1>1, <1>2, <2>1, <2>2, <2>3 DEF ShapeInv
<1>13. QED
  BY <1>10, <1>11, <1>12 DEF SettingsTypeInv

\* What the handlers share: one answer less, and known mishaps.
LEMMA TakeReplyType ==
  ASSUME SettingsTypeInv, NEW i \in DOMAIN replies, NEW op, TakeReply(i, op)
  PROVE  /\ replies' \in Seq(Settled) /\ replies[i] \in Settled
         /\ UNCHANGED <<row, calls>> /\ Late(i) \subseteq {"order", "lost"}
         /\ \A j \in DOMAIN replies' : \E k \in DOMAIN replies : k # i /\ replies'[j] = replies[k]
         /\ \A j \in DOMAIN replies' : replies'[j].result = "done" => replies'[j].seen \in Rows
         /\ replies[i].result = "done" => replies[i].seen \in Rows
<1>1. replies \in Seq(Settled) /\ NamedInv
  BY DEF SettingsTypeInv, SettingsTypeOK
<1>2. replies' = Without(replies, i)
  BY DEF TakeReply
<1>3. \A j \in DOMAIN replies' : \E k \in DOMAIN replies : k # i /\ replies'[j] = replies[k]
  BY <1>1, <1>2, WithoutFrom
<1>4. replies' \in Seq(Settled)
  BY <1>1, <1>2, WithoutType
<1>5. QED
  BY <1>1, <1>3, <1>4, NetworkTwo DEF TakeReply, Late, NamedInv

LEMMA SettingsTypeStep == SettingsTypeInv /\ [SettingsNext]_settingsVars => SettingsTypeInv'
<1> SUFFICES ASSUME SettingsTypeInv, [SettingsNext]_settingsVars PROVE SettingsTypeInv'
  OBVIOUS
<1>1. SettingsTypeOK /\ ShapeInv /\ NamedInv
  BY DEF SettingsTypeInv
<1>2. ASSUME NEW c \in Call, Issue(c), UNCHANGED <<row, past, replies, badge, button, title>>,
             c.op = "get" => c.put = "none" /\ c.patch = "none",
             c.op = "publish" => c.put = "none" /\ c.patch = "todo",
             c.op = "save" => c.put = "todo" /\ c.patch = "todo" /\ c.values.name \in Names,
             canPublish' \in BOOLEAN, formOpen' \in BOOLEAN, fields' \in Fields, meant' \in Meant,
             filled' \in BOOLEAN, canRename' \in BOOLEAN, troubles' \subseteq Troubles,
             formOpen' => fields'.name \in Names
      PROVE  SettingsTypeInv'
  <2>1. calls' = calls \union {c}
    BY <1>2 DEF Issue
  <2>2. SettingsTypeOK'
    BY <1>1, <1>2, <2>1 DEF SettingsTypeOK
  <2>3. ShapeInv'
    <3>1. (c.op = "save" => ~Finished(c)) /\ ~Failed(c)
      BY <1>2 DEF Finished, Failed, Call, SettingOps
    <3>2. QED
      BY <1>1, <1>2, <2>1, <3>1 DEF ShapeInv
  <2>4. NamedInv'
    BY <1>1, <1>2, <2>1 DEF NamedInv
  <2>5. QED
    BY <2>2, <2>3, <2>4 DEF SettingsTypeInv
<1>3. CASE ClickPublish
  <2> DEFINE c == [op |-> "publish", put |-> "none", patch |-> "todo", told |-> FALSE, meant |-> NothingMeant,
                   values |-> [Blank EXCEPT !.active = (button = "publish")], seen |-> Blank]
  <2>1. [Blank EXCEPT !.active = (button = "publish")] \in Fields
    BY ConstantForms
  <2>2. c \in Call
    BY <2>1, ConstantForms DEF Call, SettingOps, Half
  <2>3. troubles' \subseteq Troubles
    BY <1>1, <1>3 DEF ClickPublish, Trouble, Troubles, SettingsTypeOK
  <2>4. QED
    BY <1>1, <1>2, <1>3, <2>2, <2>3 DEF ClickPublish, formVars, SettingsTypeOK, NamedInv
<1>4. CASE OpenForm
  <2> DEFINE c == [op |-> "get", put |-> "none", patch |-> "none", told |-> FALSE, meant |-> NothingMeant,
                   values |-> Blank, seen |-> Blank]
  <2>1. c \in Call
    BY ConstantForms DEF Call, SettingOps, Half
  <2>2. fields' \in Fields /\ fields'.name \in Names
    BY <1>1, <1>4, SettingsAssumption DEF OpenForm, Fields, SettingsTypeOK
  <2>3. troubles' \subseteq Troubles
    BY <1>1, <1>4 DEF OpenForm, Trouble, Troubles, SettingsTypeOK
  <2>4. QED
    BY <1>1, <1>2, <1>4, <2>1, <2>2, <2>3, ConstantForms DEF OpenForm, shownVars, SettingsTypeOK
<1>5. CASE SaveForm
  <2> DEFINE c == [op |-> "save", put |-> "todo", patch |-> "todo", told |-> FALSE, values |-> fields,
                   meant |-> meant, seen |-> Blank]
  <2>1. c \in Call
    BY <1>1, ConstantForms DEF Call, SettingOps, Half, SettingsTypeOK
  <2>2. fields.name \in Names
    BY <1>1, <1>5 DEF SaveForm, NamedInv
  <2>3. troubles' \subseteq Troubles
    BY <1>1, <1>5 DEF SaveForm, Trouble, Troubles, SettingsTypeOK
  <2>4. QED
    BY <1>1, <1>2, <1>5, <2>1, <2>2, <2>3 DEF SaveForm, shownVars, SettingsTypeOK
<1>6. CASE TouchField
  <2>1. /\ fields' \in Fields /\ meant' \in Meant /\ (formOpen => fields'.name \in Names)
        /\ UNCHANGED <<row, past, calls, replies, shownVars, formOpen, filled, canRename, troubles>>
    BY <1>1, <1>6 DEF TouchField, Touch, Fields, Meant, SettingsTypeOK, NamedInv
  <2>2. QED
    BY <1>1, <2>1 DEF SettingsTypeInv, SettingsTypeOK, ShapeInv, NamedInv, shownVars
<1>7. CASE CancelForm
  BY <1>1, <1>7, ConstantForms
  DEF CancelForm, CloseForm, SettingsTypeInv, SettingsTypeOK, ShapeInv, NamedInv, shownVars
<1>8. CASE ServeSettings
  BY <1>8, ServeSettingsServed, ServedType DEF ServeSettings
<1>9. ASSUME NEW i \in DOMAIN replies, OnGet(i) \/ OnPublish(i) \/ OnSaveForm(i)
      PROVE  SettingsTypeInv'
  <2>1. PICK op : TakeReply(i, op)
    BY <1>9 DEF OnGet, OnPublish, OnSaveForm
  <2>2. /\ replies' \in Seq(Settled) /\ UNCHANGED <<row, calls>>
        /\ \A j \in DOMAIN replies' : replies'[j].result = "done" => replies'[j].seen \in Rows
        /\ replies[i].result = "done" => replies[i].seen \in Rows
        /\ Late(i) \subseteq {"order", "lost"}
    BY <2>1, TakeReplyType
  <2>3. troubles' \subseteq Troubles
    BY <1>1, <1>9, <2>2 DEF OnGet, OnPublish, OnSaveForm, Trouble, Troubles, SettingsTypeOK
  <2>4. badge' \in Rows /\ button' \in Buttons /\ past' = past
    BY <1>1, <1>9, <2>2 DEF OnGet, OnPublish, OnSaveForm, TakeReply, RenderStatusBadge, SettingsTypeOK,
      Buttons, Offer
  <2>5. title' \in Names
    BY <1>1, <1>9, <2>2 DEF OnGet, OnPublish, OnSaveForm, SettingsTypeOK, Rows, formVars
  <2>6. /\ formOpen' \in BOOLEAN /\ fields' \in Fields /\ (formOpen' => fields'.name \in Names)
        /\ meant' \in Meant /\ filled' \in BOOLEAN
    <3>1. CASE OnGet(i)
      BY <1>1, <2>2, <3>1 DEF OnGet, SettingsTypeOK, NamedInv, Rows, Fields
    <3>2. CASE OnPublish(i)
      BY <1>1, <3>2 DEF OnPublish, SettingsTypeOK, NamedInv, formVars
    <3>3. CASE OnSaveForm(i)
      BY <1>1, <3>3, ConstantForms DEF OnSaveForm, CloseForm, SettingsTypeOK, NamedInv
    <3>4. QED
      BY <1>9, <3>1, <3>2, <3>3
  <2>7. canPublish' \in BOOLEAN /\ canRename' \in BOOLEAN
    BY <1>1, <1>9 DEF OnGet, OnPublish, OnSaveForm, SettingsTypeOK, formVars
  <2>8. QED
    BY <1>1, <2>2, <2>3, <2>4, <2>5, <2>6, <2>7 DEF SettingsTypeInv, SettingsTypeOK, ShapeInv, NamedInv
<1>10. CASE UNCHANGED settingsVars
  BY <1>1, <1>10 DEF settingsVars, shownVars, formVars, SettingsTypeInv, SettingsTypeOK, ShapeInv, NamedInv
<1>11. ASSUME NEW e \in Expiries \ {NoExpiry}, DatePasses(e) PROVE SettingsTypeInv'
  BY <1>1, <1>11 DEF DatePasses, shownVars, formVars, SettingsTypeInv, SettingsTypeOK, ShapeInv, NamedInv
<1>12. QED
  BY <1>3, <1>4, <1>5, <1>6, <1>7, <1>8, <1>9, <1>10, <1>11 DEF SettingsNext

\* The row, the requests, the answers, the page and the form keep their types.
THEOREM SettingsTypeCorrect == SettingsSpec => []SettingsTypeOK
<1>1. SettingsTypeInv => SettingsTypeOK
  BY DEF SettingsTypeInv
<1>2. QED
  BY <1>1, SettingsTypeInit, SettingsTypeStep, PTL DEF SettingsSpec

-----------------------------------------------------------------------------
(* What a save and the publish button write.                               *)

\* One write at a time.
OneWriter == \A c, d \in calls : c.op \in Writing /\ d.op \in Writing => c = d

WaitingCall(op)  == \E c \in calls : c.op = op
WaitingReply(op) == \E i \in DOMAIN replies : replies[i].req.op = op

\* One read of the row at a time, none of them with a save, and none with a form
\* that is filled; what it has read is the row.
ReadInv ==
  /\ \A c, d \in calls : c.op = "get" /\ d.op = "get" => c = d
  /\ \A i, j \in DOMAIN replies : replies[i].req.op = "get" /\ replies[j].req.op = "get" => i = j
  /\ ~(WaitingCall("get") /\ WaitingReply("get"))
  /\ WaitingCall("save") => ~WaitingCall("get") /\ ~WaitingReply("get")
  /\ formOpen /\ filled => ~WaitingCall("get") /\ ~WaitingReply("get")
  /\ \A i \in DOMAIN replies :
       replies[i].req.op = "get" /\ replies[i].result = "done" => replies[i].seen = row

\* v holds what the user put into each field, and the row where nothing was put.
Holds(v, m) == \A f \in {"name", "active", "expiry"} :
                 v[f] = IF m[f] = Untouched THEN row[f] ELSE m[f]

FormInv ==
  /\ formOpen /\ filled => Holds(fields, meant)
  /\ formOpen /\ ~filled /\ meant.expiry = Untouched => fields.expiry = NoExpiry

\* A save holds what was meant; what it meant to change, the form still means to.
SaveInv ==
  \A c \in calls : c.op = "save" =>
    /\ Holds(c.values, c.meant)
    /\ formOpen => \A f \in {"name", "active", "expiry"} :
                     meant[f] = Untouched => c.meant[f] = Untouched

PublishInv == \A c \in calls : c.op = "publish" /\ c.patch = "read" => c.seen.expiry = row.expiry

Writes == {"unfilled", "stale", "overwritten", "overlap"}
WriteParts == OneWriter /\ ReadInv /\ FormInv /\ SaveInv /\ PublishInv
WriteInv == SettingsTypeInv /\ (NoTrouble(Writes) => WriteParts)

LEMMA WriteInit == SettingsInit => WriteInv
<1> SUFFICES ASSUME SettingsInit PROVE WriteInv
  OBVIOUS
<1>1. calls = {} /\ DOMAIN replies = {} /\ formOpen = FALSE
  BY DEF SettingsInit
<1>2. WriteParts
  BY <1>1 DEF WriteParts, OneWriter, ReadInv, FormInv, SaveInv, PublishInv, WaitingCall, WaitingReply
<1>3. QED
  BY <1>2, SettingsTypeInit DEF WriteInv

\* A mishap that has happened stays in the history.
LEMMA TroublesGrow ==
  ASSUME SettingsTypeInv, [SettingsNext]_settingsVars, NEW S, NoTrouble(S)'
  PROVE  NoTrouble(S)
<1>1. troubles \subseteq troubles'
  <2>1. CASE ServeSettings
    BY <2>1, ServeSettingsServed DEF ServeSettings, Served, Stepped
  <2>2. CASE ~ServeSettings
    BY <2>2 DEF SettingsNext, settingsVars, ClickPublish, OpenForm, TouchField, Touch, CancelForm,
      SaveForm, DatePasses, OnGet, OnPublish, OnSaveForm, Trouble
  <2>3. QED
    BY <2>1, <2>2
<1>2. QED
  BY <1>1 DEF NoTrouble

\* A save that the server carries out leaves the row as it was where nothing was
\* meant, and puts what was meant where something was.
LEMMA SaveWrites ==
  ASSUME SettingsTypeInv, NEW c \in calls, NEW d \in Call, Served(c, d), c.op = "save",
         Holds(c.values, c.meant), NEW f \in {"name", "active", "expiry"}
  PROVE  row'[f] = row[f] \/ row'[f] = c.values[f]
<1>1. row \in Rows /\ SaveStep(c, d)
  BY DEF SettingsTypeInv, SettingsTypeOK, Served, Stepped
<1>2. QED
  BY <1>1 DEF SaveStep, Rows

\* While a get, a save or a form is about, publishing does not change the row unnoticed.
LEMMA ServedWrites ==
  ASSUME SettingsTypeInv, WriteParts, NEW c \in calls, NEW d \in Call, Served(c, d),
         NoTrouble(Writes)', UNCHANGED <<past, shownVars, formVars>>
  PROVE  WriteParts'
<1>1. /\ SettingsTypeOK /\ ShapeInv /\ NamedInv
      /\ c \in Call /\ replies \in Seq(Settled) /\ calls \subseteq Call /\ row \in Rows
      /\ c.op \in {"get", "publish", "save"}
  BY DEF SettingsTypeInv, SettingsTypeOK, Call, SettingOps
<1>2. OneWriter /\ ReadInv /\ FormInv /\ SaveInv /\ PublishInv
  BY DEF WriteParts
<1>3. d.op = c.op /\ d.values = c.values /\ d.meant = c.meant /\ row' \in Rows
  BY DEF Served, Stepped
<1>4. \A e \in calls' : e = d \/ (e \in calls /\ e # c)
  BY DEF Served, Changes
<1>5. \/ replies' = replies
      \/ /\ c.op = "get" => calls' = calls \ {c}
         /\ \E a \in Settled : /\ replies' = Append(replies, a) /\ a.req.op = c.op
                               /\ c.op = "get" /\ a.result = "done" => a.seen = row
  <2>1. ASSUME NEW result \in Outcomes(d)
        PROVE  LET a == AnswerTo(d, result)
               IN  /\ a \in Settled /\ a.req.op = c.op
                   /\ c.op = "get" /\ a.result = "done" => a.seen = row
    BY <1>3, <2>1, OutcomesAre, AnswerToType DEF AnswerTo, Served, Stepped, GetStep
  <2>2. c.op = "get" => calls' = calls \ {c}
    BY DEF Served, Stepped, Changes, GetStep
  <2>3. QED
    BY <2>1, <2>2 DEF Served, Changes
<1>6. c.op = "get" \/ (c.op = "publish" /\ c.patch = "todo") => row' = row
  BY DEF Served, Stepped, GetStep, PublishStep
<1>7. c.op = "publish" /\ c.patch = "read" =>
        /\ ~formOpen /\ ~Waiting({"get"})
        /\ row'.expiry = row.expiry
  <2>1. "stale" \notin troubles'
    BY DEF NoTrouble, Writes
  <2>2. QED
    BY <1>1, <1>2, <2>1 DEF Served, Stepped, PublishStep, PublishInv, Rows
<1>8. OneWriter'
  BY <1>2, <1>3, <1>4 DEF OneWriter
<1>9. PublishInv'
  <2>1. ASSUME NEW e \in calls', e.op = "publish", e.patch = "read" PROVE e.seen.expiry = row'.expiry
    <3>1. CASE e = d
      BY <1>3, <2>1, <3>1 DEF Served, Stepped, PublishStep
    <3>2. CASE e \in calls /\ e # c
      <4>1. c.op = "get"
        BY <1>1, <1>2, <2>1, <3>2 DEF OneWriter, Writing
      <4>2. QED
        BY <1>2, <1>6, <2>1, <3>2, <4>1 DEF PublishInv
    <3>3. QED
      BY <1>4, <3>1, <3>2
  <2>2. QED
    BY <2>1 DEF PublishInv
<1>10. SaveInv'
  <2>1. ASSUME NEW e \in calls', e.op = "save"
        PROVE  /\ Holds(e.values, e.meant)'
               /\ formOpen' => \A f \in {"name", "active", "expiry"} :
                                 meant'[f] = Untouched => e.meant[f] = Untouched
    <3>1. CASE e = d
      <4>1. c.op = "save"
        BY <1>3, <2>1, <3>1
      <4>2. Holds(c.values, c.meant)
        BY <1>2, <4>1 DEF SaveInv
      <4>3. \A f \in {"name", "active", "expiry"} : row'[f] = row[f] \/ row'[f] = c.values[f]
        BY <4>1, <4>2, SaveWrites
      <4>4. Holds(e.values, e.meant)'
        BY <1>3, <3>1, <4>2, <4>3 DEF Holds
      <4>5. QED
        BY <1>2, <1>3, <3>1, <4>1, <4>4 DEF SaveInv, formVars
    <3>2. CASE e \in calls /\ e # c
      <4>1. c.op = "get"
        BY <1>1, <1>2, <2>1, <3>2 DEF OneWriter, Writing
      <4>2. QED
        BY <1>2, <1>6, <2>1, <3>2, <4>1 DEF SaveInv, formVars, Holds
    <3>3. QED
      BY <1>4, <3>1, <3>2
  <2>2. QED
    BY <2>1 DEF SaveInv
<1>11. FormInv'
  <2>1. CASE row' = row
    BY <1>2, <2>1 DEF FormInv, Holds, formVars
  <2>2. CASE c.op = "save"
    <3>1. Holds(c.values, c.meant)
      BY <1>2, <2>2 DEF SaveInv
    <3>2. \A f \in {"name", "active", "expiry"} : row'[f] = row[f] \/ row'[f] = c.values[f]
      BY <2>2, <3>1, SaveWrites
    <3>3. formOpen => \A f \in {"name", "active", "expiry"} : meant[f] = Untouched => row'[f] = row[f]
      BY <1>2, <2>2, <3>1, <3>2 DEF SaveInv, Holds
    <3>4. QED
      BY <1>2, <3>3 DEF FormInv, Holds, formVars
  <2>3. CASE ~formOpen
    BY <2>3 DEF FormInv, formVars
  <2>4. QED
    BY <1>1, <1>6, <1>7, <2>1, <2>2, <2>3 DEF ShapeInv
<1>12. ReadInv'
  <2>1. WaitingCall("get")' => WaitingCall("get")
    BY <1>3, <1>4 DEF WaitingCall
  <2>2. WaitingCall("save")' => WaitingCall("save")
    BY <1>3, <1>4 DEF WaitingCall
  <2>3. \A e, g \in calls' : e.op = "get" /\ g.op = "get" => e = g
    BY <1>2, <1>3, <1>4 DEF ReadInv
  <2>4. WaitingCall("get") \/ WaitingReply("get") => row' = row
    <3>1. c.op # "save" \/ ~(WaitingCall("get") \/ WaitingReply("get"))
      BY <1>2 DEF ReadInv, WaitingCall
    <3>2. WaitingCall("get") \/ WaitingReply("get") => Waiting({"get"})
      BY DEF Waiting, WaitingCall, WaitingReply
    <3>3. QED
      BY <1>1, <1>6, <1>7, <3>1, <3>2 DEF ShapeInv
  <2>5. CASE replies' = replies
    <3>1. WaitingReply("get")' = WaitingReply("get")
      BY <2>5 DEF WaitingReply
    <3>2. \A i \in DOMAIN replies : replies[i].req.op = "get" => row' = row
      BY <2>4 DEF WaitingReply
    <3>3. QED
      BY <1>2, <2>1, <2>2, <2>3, <2>5, <3>1, <3>2 DEF ReadInv, formVars
  <2>6. ASSUME NEW a \in Settled, replies' = Append(replies, a), a.req.op = c.op,
               c.op = "get" => calls' = calls \ {c},
               c.op = "get" /\ a.result = "done" => a.seen = row
        PROVE  ReadInv'
    <3>1. DOMAIN replies' = DOMAIN replies \union {Len(replies) + 1} /\ Len(replies) + 1 \notin DOMAIN replies
          /\ replies'[Len(replies) + 1] = a /\ \A i \in DOMAIN replies : replies'[i] = replies[i]
      BY <1>1, <2>6
    <3>2. CASE c.op = "get"
      <4>1. ~WaitingReply("get") /\ ~WaitingCall("get")' /\ ~WaitingCall("save")' /\ ~(formOpen /\ filled)
        BY <1>2, <2>2, <2>6, <3>2 DEF ReadInv, WaitingCall
      <4>2. \A i \in DOMAIN replies' : replies'[i].req.op = "get" => i = Len(replies) + 1 /\ replies'[i] = a
        BY <3>1, <4>1 DEF WaitingReply
      <4>3. QED
        BY <1>6, <2>3, <2>6, <3>2, <4>1, <4>2 DEF ReadInv, formVars
    <3>3. CASE c.op # "get"
      <4>1. \A i \in DOMAIN replies' : replies'[i].req.op = "get" => i \in DOMAIN replies /\ replies'[i] = replies[i]
        BY <2>6, <3>1, <3>3
      <4>2. WaitingReply("get")' => WaitingReply("get")
        BY <4>1 DEF WaitingReply
      <4>3. \A i \in DOMAIN replies' : replies'[i].req.op = "get" => row' = row
        BY <2>4, <4>1 DEF WaitingReply
      <4>4. QED
        BY <1>2, <2>1, <2>2, <2>3, <4>1, <4>2, <4>3 DEF ReadInv, formVars
    <3>4. QED
      BY <3>2, <3>3
  <2>7. QED
    BY <1>5, <2>5, <2>6
<1>13. QED
  BY <1>8, <1>9, <1>10, <1>11, <1>12 DEF WriteParts

\* What the answers that are left told before one was taken.
LEMMA TakeReplyReads ==
  ASSUME SettingsTypeInv, ReadInv, NEW i \in DOMAIN replies, NEW op, TakeReply(i, op),
         (formOpen /\ filled)' => (formOpen /\ filled) \/ op = "get"
  PROVE  ReadInv'
<1>1. replies \in Seq(Settled) /\ replies[i].req.op = op /\ UNCHANGED <<row, calls>>
  BY DEF SettingsTypeInv, SettingsTypeOK, TakeReply
<1>2. ASSUME NEW j \in DOMAIN replies'
      PROVE  /\ From(i, j) \in DOMAIN replies /\ From(i, j) # i /\ j \in Nat /\ i \in Nat
             /\ replies'[j] = replies[From(i, j)]
  BY <1>1, <1>2, WithoutPlace DEF TakeReply
<1>3. WaitingReply("get")' => WaitingReply("get")
  BY <1>2 DEF WaitingReply
<1>4. op = "get" => ~WaitingReply("get")' /\ ~WaitingCall("get")
  BY <1>1, <1>2 DEF WaitingReply, ReadInv
<1>5. \A j, k \in DOMAIN replies' : replies'[j].req.op = "get" /\ replies'[k].req.op = "get" => j = k
  <2> SUFFICES ASSUME NEW j \in DOMAIN replies', NEW k \in DOMAIN replies',
                      replies'[j].req.op = "get", replies'[k].req.op = "get"
               PROVE  j = k
    OBVIOUS
  <2>1. From(i, j) = From(i, k)
    BY <1>2 DEF ReadInv
  <2>2. QED
    BY <1>2, <2>1, FromOrder
<1>6. WaitingCall("get")' = WaitingCall("get") /\ WaitingCall("save")' = WaitingCall("save")
  BY <1>1 DEF WaitingCall
<1>7. \A j \in DOMAIN replies' :
        replies'[j].req.op = "get" /\ replies'[j].result = "done" => replies'[j].seen = row'
  BY <1>1, <1>2 DEF ReadInv
<1>8. (formOpen /\ filled)' => ~WaitingCall("get")' /\ ~WaitingReply("get")'
  BY <1>3, <1>4, <1>6 DEF ReadInv
<1>9. \A c, d \in calls' : c.op = "get" /\ d.op = "get" => c = d
  BY <1>1 DEF ReadInv
<1>10. QED
  BY <1>3, <1>5, <1>6, <1>7, <1>8, <1>9 DEF ReadInv

LEMMA WriteStep == WriteInv /\ [SettingsNext]_settingsVars => WriteInv'
<1> SUFFICES ASSUME WriteInv, [SettingsNext]_settingsVars, NoTrouble(Writes)' PROVE WriteParts'
  BY SettingsTypeStep DEF WriteInv
<1>1. /\ SettingsTypeInv /\ SettingsTypeOK /\ ShapeInv /\ NamedInv
      /\ OneWriter /\ ReadInv /\ FormInv /\ SaveInv /\ PublishInv
  BY TroublesGrow DEF WriteInv, WriteParts, SettingsTypeInv
<1>2. ~("unfilled" \in troubles' \/ "stale" \in troubles' \/ "overwritten" \in troubles' \/ "overlap" \in troubles')
  BY DEF NoTrouble, Writes
<1>3. CASE ClickPublish
  <2>1. PICK c : /\ calls' = calls \union {c} /\ c.op = "publish" /\ c.patch = "todo"
                 /\ UNCHANGED <<row, replies, formVars>>
    <3> DEFINE c == [op |-> "publish", put |-> "none", patch |-> "todo", told |-> FALSE, meant |-> NothingMeant,
                     values |-> [Blank EXCEPT !.active = (button = "publish")], seen |-> Blank]
    <3>1. c.op = "publish" /\ c.patch = "todo"
      OBVIOUS
    <3>2. calls' = calls \union {c} /\ UNCHANGED <<row, replies, formVars>>
      BY <1>3 DEF ClickPublish, Issue
    <3> HIDE DEF c
    <3>3. QED
      BY <3>1, <3>2
  <2>2. ~Waiting(Writing)
    BY <1>2, <1>3 DEF ClickPublish, Trouble
  <2>3. OneWriter'
    BY <1>1, <2>1, <2>2 DEF OneWriter, Waiting
  <2>4. WaitingCall("get")' = WaitingCall("get") /\ WaitingCall("save")' = WaitingCall("save")
        /\ WaitingReply("get")' = WaitingReply("get")
    BY <2>1 DEF WaitingCall, WaitingReply
  <2>5. ReadInv'
    BY <1>1, <2>1, <2>4 DEF ReadInv, formVars
  <2>6. FormInv'
    BY <1>1, <2>1 DEF FormInv, Holds, formVars
  <2>7. SaveInv' /\ PublishInv'
    BY <1>1, <2>1 DEF SaveInv, PublishInv, Holds, formVars
  <2>8. QED
    BY <2>3, <2>5, <2>6, <2>7 DEF WriteParts
<1>4. CASE OpenForm
  <2>1. PICK c : /\ calls' = calls \union {c} /\ c.op = "get" /\ UNCHANGED <<row, replies>>
                 /\ ~filled' /\ fields'.expiry = NoExpiry
    BY <1>4 DEF OpenForm, Issue
  <2>2. ~Waiting(Writing \union {"get"})
    BY <1>2, <1>4 DEF OpenForm, Trouble
  <2>3. calls = {} /\ \A i \in DOMAIN replies : FALSE
    <3>1. \A e \in calls : e.op \in Writing \union {"get"}
      BY <1>1 DEF SettingsTypeOK, Call, SettingOps, Writing
    <3>2. \A i \in DOMAIN replies : replies[i].req.op \in Writing \union {"get"}
      <4>1. \A i \in DOMAIN replies : replies[i] \in Settled
        BY <1>1 DEF SettingsTypeOK
      <4>2. QED
        BY <4>1 DEF Settled, SettingOps, Writing
    <3>3. QED
      BY <2>2, <3>1, <3>2 DEF Waiting
  <2>4. OneWriter' /\ SaveInv' /\ PublishInv' /\ FormInv'
    BY <2>1, <2>3 DEF OneWriter, SaveInv, PublishInv, FormInv
  <2>5. ReadInv'
    BY <2>1, <2>3 DEF ReadInv, WaitingCall, WaitingReply
  <2>6. QED
    BY <2>4, <2>5 DEF WriteParts
<1>5. CASE TouchField
  <2>1. PICK f \in {"name", "active", "expiry"}, v \in Names \union BOOLEAN \union Expiries :
          /\ formOpen /\ fields' = [fields EXCEPT ![f] = v] /\ meant' = [meant EXCEPT ![f] = v]
          /\ UNCHANGED <<row, calls, replies, formOpen, filled>>
    BY <1>5 DEF TouchField, Touch, shownVars
  <2>2. v # Untouched
    BY SettingsAssumption
  <2>3. /\ fields'[f] = v /\ meant'[f] = v
        /\ \A g \in {"name", "active", "expiry"} : g # f => fields'[g] = fields[g] /\ meant'[g] = meant[g]
    BY <1>1, <2>1 DEF SettingsTypeOK, Fields, Meant
  <2>4. FormInv'
    <3>1. Holds(fields, meant) => Holds(fields, meant)'
      BY <2>1, <2>2, <2>3 DEF Holds
    <3>2. meant'["expiry"] = Untouched => fields'["expiry"] = fields["expiry"] /\ meant["expiry"] = Untouched
      BY <2>2, <2>3
    <3>3. QED
      BY <1>1, <2>1, <3>1, <3>2 DEF FormInv
  <2>5. SaveInv'
    BY <1>1, <2>1, <2>2, <2>3 DEF SaveInv, Holds
  <2>6. WaitingCall("get")' = WaitingCall("get") /\ WaitingCall("save")' = WaitingCall("save")
        /\ WaitingReply("get")' = WaitingReply("get")
    BY <2>1 DEF WaitingCall, WaitingReply
  <2>7. ReadInv'
    BY <1>1, <2>1, <2>6 DEF ReadInv
  <2>8. OneWriter' /\ PublishInv'
    BY <1>1, <2>1 DEF OneWriter, PublishInv
  <2>9. QED
    BY <2>4, <2>5, <2>7, <2>8 DEF WriteParts
<1>6. CASE CancelForm
  <2>1. ~formOpen' /\ UNCHANGED <<row, calls, replies>>
    BY <1>6 DEF CancelForm, CloseForm
  <2>2. WaitingCall("get")' = WaitingCall("get") /\ WaitingCall("save")' = WaitingCall("save")
        /\ WaitingReply("get")' = WaitingReply("get")
    BY <2>1 DEF WaitingCall, WaitingReply
  <2>3. QED
    BY <1>1, <2>1, <2>2 DEF WriteParts, OneWriter, ReadInv, FormInv, SaveInv, PublishInv, Holds
<1>7. CASE SaveForm
  <2>1. PICK c : /\ calls' = calls \union {c} /\ c.op = "save" /\ c.values = fields /\ c.meant = meant
                 /\ formOpen /\ UNCHANGED <<row, replies, formOpen, fields, meant, filled>>
    <3> DEFINE c == [op |-> "save", put |-> "todo", patch |-> "todo", told |-> FALSE, values |-> fields,
                     meant |-> meant, seen |-> Blank]
    <3>1. c.op = "save" /\ c.values = fields /\ c.meant = meant
      OBVIOUS
    <3>2. /\ calls' = calls \union {c} /\ formOpen
          /\ UNCHANGED <<row, replies, formOpen, fields, meant, filled>>
      BY <1>7 DEF SaveForm, Issue
    <3> HIDE DEF c
    <3>3. QED
      BY <3>1, <3>2
  <2>2. ~Waiting(Writing) /\ filled
    BY <1>2, <1>7 DEF SaveForm, Trouble
  <2>3. OneWriter'
    BY <1>1, <2>1, <2>2 DEF OneWriter, Waiting
  <2>4. WaitingCall("get")' = WaitingCall("get") /\ WaitingReply("get")' = WaitingReply("get")
    BY <2>1 DEF WaitingCall, WaitingReply
  <2>5. ReadInv'
    BY <1>1, <2>1, <2>2, <2>4 DEF ReadInv
  <2>6. FormInv'
    BY <1>1, <2>1 DEF FormInv, Holds
  <2>7. SaveInv' /\ PublishInv'
    BY <1>1, <2>1, <2>2 DEF SaveInv, PublishInv, FormInv, Holds
  <2>8. QED
    BY <2>3, <2>5, <2>6, <2>7 DEF WriteParts
<1>8. CASE ServeSettings
  <2>1. WriteParts
    BY <1>1 DEF WriteParts
  <2>2. QED
    BY <1>1, <1>8, <2>1, ServeSettingsServed, ServedWrites DEF ServeSettings
<1>9. ASSUME NEW i \in DOMAIN replies, OnGet(i) \/ OnPublish(i) \/ OnSaveForm(i)
      PROVE  WriteParts'
  <2>1. PICK op : TakeReply(i, op) /\ (op = "get" <=> OnGet(i))
    BY <1>9 DEF OnGet, OnPublish, OnSaveForm, TakeReply
  <2>2. UNCHANGED <<row, calls>>
    BY <2>1 DEF TakeReply
  <2>3. OneWriter' /\ PublishInv'
    BY <1>1, <2>2 DEF OneWriter, PublishInv
  <2>4. \/ OnGet(i) /\ UNCHANGED <<formOpen, meant>>
        \/ ~OnGet(i) /\ UNCHANGED <<formOpen, meant, fields, filled>>
        \/ ~OnGet(i) /\ ~formOpen'
    BY <1>9, <2>1 DEF OnGet, OnPublish, OnSaveForm, CloseForm, formVars, TakeReply
  <2>5. SaveInv'
    BY <1>1, <2>2, <2>4 DEF SaveInv, Holds
  <2>6. FormInv'
    <3>1. CASE OnGet(i) /\ replies[i].result = "done" /\ formOpen
      <4>1. replies[i].req.op = "get" /\ replies[i].seen = row /\ ~filled
        BY <1>1, <2>1, <3>1 DEF ReadInv, TakeReply, WaitingReply
      <4>2. meant = NothingMeant
        BY <1>2, <3>1 DEF OnGet, Trouble
      <4>3. fields.expiry = NoExpiry
        BY <1>1, <3>1, <4>1, <4>2 DEF FormInv, NothingMeant
      <4>4. filled' = TRUE /\ meant' = meant
            /\ fields' = IF row.expiry = NoExpiry THEN [row EXCEPT !.expiry = NoExpiry] ELSE row
        BY <3>1, <4>1, <4>3 DEF OnGet
      <4>5. \A f \in {"name", "active", "expiry"} : fields'[f] = row[f] /\ meant'[f] = Untouched
        BY <1>1, <4>2, <4>4 DEF SettingsTypeOK, Rows, NothingMeant
      <4>6. QED
        BY <2>2, <4>4, <4>5 DEF FormInv, Holds
    <3>2. CASE ~(OnGet(i) /\ replies[i].result = "done" /\ formOpen)
      <4>1. ~formOpen' \/ UNCHANGED <<formOpen, meant, fields, filled>>
        BY <2>4, <3>2 DEF OnGet
      <4>2. QED
        BY <1>1, <2>2, <4>1 DEF FormInv, Holds
    <3>3. QED
      BY <3>1, <3>2
  <2>7. (formOpen /\ filled)' => (formOpen /\ filled) \/ op = "get"
    BY <2>1, <2>4
  <2>8. ReadInv'
    BY <1>1, <2>1, <2>7, TakeReplyReads
  <2>9. QED
    BY <2>3, <2>5, <2>6, <2>8 DEF WriteParts
<1>10. CASE UNCHANGED settingsVars \/ \E e \in Expiries \ {NoExpiry} : DatePasses(e)
  <2>1. UNCHANGED <<row, calls, replies, formOpen, fields, meant, filled>>
    BY <1>10 DEF DatePasses, settingsVars, formVars
  <2>2. WaitingCall("get")' = WaitingCall("get") /\ WaitingCall("save")' = WaitingCall("save")
        /\ WaitingReply("get")' = WaitingReply("get")
    BY <2>1 DEF WaitingCall, WaitingReply
  <2>3. QED
    BY <1>1, <2>1, <2>2 DEF WriteParts, OneWriter, ReadInv, FormInv, SaveInv, PublishInv, Holds
<1>11. QED
  BY <1>3, <1>4, <1>5, <1>6, <1>7, <1>8, <1>9, <1>10 DEF SettingsNext

\* A save writes into each column what the user put there or what the row holds, and
\* publishing the expiry that the row holds, unless the form was saved before it was
\* filled or filled over what was typed, the row changed under it, or two writes
\* overlapped (deck_manage.js:518-548, deck.go:146-177).
THEOREM WritesOnlyWhatIsMeant == SettingsSpec => []WritesOnlyWhatWasMeant
<1>1. WriteInv => WritesOnlyWhatWasMeant
  <2> SUFFICES ASSUME WriteInv, NoTrouble(Writes) PROVE WritesOnlyWhatWasMeant
    BY DEF WritesOnlyWhatWasMeant, Writes
  <2>1. Columns = {"name", "active", "expiry"}
    BY DEF WriteInv, SettingsTypeInv, SettingsTypeOK, Rows, Columns
  <2>2. QED
    BY <2>1 DEF WriteInv, WriteParts, SaveInv, PublishInv, Holds, WritesOnlyWhatWasMeant
<1>2. QED
  BY <1>1, WriteInit, WriteStep, PTL DEF SettingsSpec

-----------------------------------------------------------------------------
(* What the page shows of the row.                                         *)

Shows == {"order", "lost", "half", "overlap"}
Done(i) == replies[i].result = "done"

\* The halves of a save that are done stand in the row.
PartInv ==
  \A c \in calls : c.op = "save" =>
    /\ c.put = "done" => row.name = c.values.name
    /\ c.patch = "done" => c.seen.active = row.active /\ c.seen.expiry = row.expiry

SameSwitch(r) == r.active = row.active /\ r.expiry = row.expiry

\* The last answer that is done, or the page, shows the switch and the expiry of the
\* row, unless an answer is lost or a save has written them and is not yet answered.
LostWaits    == \E i \in DOMAIN replies : replies[i].result = "lost"
BadgeWaits   == \E c \in calls : c.op = "save" /\ c.patch = "done"
BadgeIsRow   == SameSwitch(badge) /\ \A i \in DOMAIN replies : ~Done(i)
BadgeWillBe  == \E i \in DOMAIN replies : /\ Done(i) /\ SameSwitch(replies[i].seen)
                                         /\ \A j \in DOMAIN replies : j > i => ~Done(j)
\* While a loss is not on its way, the page was told of a refusal or of nothing yet.
ToldInv == \A c \in calls : c.told => LostWaits \/ Failed(c)
BadgeInv == LostWaits \/ BadgeWaits \/ BadgeIsRow \/ BadgeWillBe

\* The same for the title and the saves.
SaveDone(i)  == Done(i) /\ replies[i].req.op = "save"
TitleWaits   == \E c \in calls : c.op = "save" /\ c.put = "done"
TitleIsRow   == title = row.name /\ \A i \in DOMAIN replies : ~SaveDone(i)
TitleWillBe  == \E i \in DOMAIN replies : /\ SaveDone(i) /\ replies[i].seen.name = row.name
                                         /\ \A j \in DOMAIN replies : j > i => ~SaveDone(j)
TitleInv == LostWaits \/ TitleWaits \/ TitleIsRow \/ TitleWillBe

\* The publish button, unless the date it was drawn for has passed.
ButtonInv == badge.expiry \notin past => button = Offer(badge.active)

ShowParts == OneWriter /\ PartInv /\ ToldInv /\ BadgeInv /\ TitleInv
ShowInv   == SettingsTypeInv /\ ButtonInv /\ (NoTrouble(Shows) => ShowParts)

LEMMA ShowInit == SettingsInit => ShowInv
<1> SUFFICES ASSUME SettingsInit PROVE ShowInv
  OBVIOUS
<1>1. calls = {} /\ DOMAIN replies = {} /\ badge = row /\ title = row.name
  BY DEF SettingsInit
<1>2. BadgeIsRow /\ TitleIsRow
  BY <1>1 DEF BadgeIsRow, TitleIsRow, SameSwitch
<1>3. OneWriter /\ PartInv /\ ToldInv
  BY <1>1 DEF OneWriter, PartInv, ToldInv
<1>4. ButtonInv
  BY DEF SettingsInit, ButtonInv
<1>5. QED
  BY <1>2, <1>3, <1>4, SettingsTypeInit DEF ShowInv, ShowParts, BadgeInv, TitleInv

LEMMA ButtonStep == ButtonInv /\ [SettingsNext]_settingsVars => ButtonInv'
<1> SUFFICES ASSUME ButtonInv, [SettingsNext]_settingsVars PROVE ButtonInv'
  OBVIOUS
<1>1. ASSUME UNCHANGED <<badge, button>>, past \subseteq past' PROVE ButtonInv'
  BY <1>1 DEF ButtonInv
<1>2. ASSUME NEW i \in DOMAIN replies, OnGet(i) \/ OnPublish(i) \/ OnSaveForm(i) PROVE ButtonInv'
  <2>1. RenderStatusBadge(i) /\ past' = past
    BY <1>2 DEF OnGet, OnPublish, OnSaveForm, TakeReply
  <2>2. QED
    BY <1>1, <2>1 DEF RenderStatusBadge, ButtonInv
<1>3. CASE ~\E i \in DOMAIN replies : OnGet(i) \/ OnPublish(i) \/ OnSaveForm(i)
  BY <1>1, <1>3 DEF SettingsNext, settingsVars, shownVars, ClickPublish, OpenForm, TouchField, Touch,
    CancelForm, SaveForm, ServeSettings, DatePasses
<1>4. QED
  BY <1>2, <1>3

\* A request of the page has changed nothing yet.
LEMMA AskedShows ==
  ASSUME ShowParts, NEW c, calls' = calls \union {c}, c.put # "done", c.patch # "done", ~c.told,
         UNCHANGED <<row, replies, badge, title>>, OneWriter'
  PROVE  ShowParts'
<1>1. LostWaits' = LostWaits /\ BadgeIsRow' = BadgeIsRow /\ BadgeWillBe' = BadgeWillBe
      /\ TitleIsRow' = TitleIsRow /\ TitleWillBe' = TitleWillBe
  BY DEF LostWaits, BadgeIsRow, BadgeWillBe, TitleIsRow, TitleWillBe, SameSwitch, Done, SaveDone
<1>2. (BadgeWaits => BadgeWaits') /\ (TitleWaits => TitleWaits')
  BY DEF BadgeWaits, TitleWaits
<1>3. PartInv' /\ ToldInv'
  BY <1>1 DEF ShowParts, PartInv, ToldInv
<1>4. QED
  BY <1>1, <1>2, <1>3 DEF ShowParts, BadgeInv, TitleInv

\* Without an answer that overtakes another the first one is taken.
LEMMA TakesFirst ==
  ASSUME SettingsTypeInv, NEW i \in DOMAIN replies, NEW op, TakeReply(i, op), "order" \notin Late(i)
  PROVE  /\ i = 1
         /\ \A j \in DOMAIN replies' : j \in Nat /\ j > 0 /\ j + 1 \in DOMAIN replies /\ replies'[j] = replies[j + 1]
         /\ \A k \in DOMAIN replies : k # 1 =>
              k - 1 \in DOMAIN replies' /\ replies'[k - 1] = replies[k] /\ k \in Nat /\ k > 1
<1>1. replies \in Seq(Settled) /\ replies' = Without(replies, i)
  BY DEF SettingsTypeInv, SettingsTypeOK, TakeReply
<1>2. i \in 1 .. Len(replies) /\ Len(replies) \in Nat /\ DOMAIN replies = 1 .. Len(replies)
  BY <1>1
<1>3. \A j \in DOMAIN replies : replies[j].req.op \in SettingOps
  <2>1. \A j \in DOMAIN replies : replies[j] \in Settled
    BY <1>1
  <2>2. QED
    BY <2>1 DEF Settled
<1>4. i = 1
  <2>1. ~ Overtakes(replies, SettingOps, i)
    BY DEF Late, NetworkMishaps
  <2>2. QED
    BY <1>2, <1>3, <2>1 DEF Overtakes
<1>5. DOMAIN replies' = 1 .. Len(replies) - 1
      /\ \A j \in 1 .. Len(replies) - 1 : replies'[j] = IF j < 1 THEN replies[j] ELSE replies[j + 1]
  BY <1>1, <1>4 DEF Without
<1>6. QED
  BY <1>2, <1>4, <1>5

\* Taking the first answer brings the page up to it.
LEMMA TakenShows ==
  ASSUME SettingsTypeInv, ShowParts, NEW i \in DOMAIN replies, NEW op, TakeReply(i, op),
         Late(i) = {}, RenderStatusBadge(i),
         title' = IF op = "save" /\ Done(i) THEN replies[i].seen.name ELSE title
  PROVE  ShowParts'
<1>1. /\ i = 1
      /\ \A j \in DOMAIN replies' : j \in Nat /\ j > 0 /\ j + 1 \in DOMAIN replies /\ replies'[j] = replies[j + 1]
      /\ \A k \in DOMAIN replies : k # 1 =>
           k - 1 \in DOMAIN replies' /\ replies'[k - 1] = replies[k] /\ k \in Nat /\ k > 1
  BY TakesFirst
<1>2. replies[1].result # "lost" /\ replies[1].req.op = op /\ UNCHANGED <<row, calls>>
  BY <1>1 DEF Late, NetworkMishaps, TakeReply
<1>3. OneWriter' /\ PartInv' /\ BadgeWaits' = BadgeWaits /\ TitleWaits' = TitleWaits
  BY <1>2 DEF ShowParts, OneWriter, PartInv, BadgeWaits, TitleWaits
<1>4. LostWaits => LostWaits'
  BY <1>1, <1>2 DEF LostWaits
<1>5. BadgeIsRow => BadgeIsRow'
  BY <1>1, <1>2 DEF BadgeIsRow, Done, SameSwitch, RenderStatusBadge
<1>6. ToldInv'
  BY <1>2, <1>4 DEF ShowParts, ToldInv
<1>7. BadgeWillBe => BadgeWillBe' \/ BadgeIsRow'
  <2>1. ASSUME NEW k \in DOMAIN replies, Done(k), SameSwitch(replies[k].seen),
               \A j \in DOMAIN replies : j > k => ~Done(j)
        PROVE  BadgeWillBe' \/ BadgeIsRow'
    <3>1. CASE k = 1
      <4>1. badge' = replies[1].seen
        BY <1>1, <2>1, <3>1 DEF Done, RenderStatusBadge
      <4>2. \A j \in DOMAIN replies' : j + 1 > 1
        BY <1>1
      <4>3. \A j \in DOMAIN replies' : ~Done(j)'
        BY <1>1, <2>1, <3>1, <4>2 DEF Done
      <4>4. QED
        BY <1>2, <2>1, <3>1, <4>1, <4>3 DEF BadgeIsRow, SameSwitch
    <3>2. CASE k # 1
      <4>1. k - 1 \in DOMAIN replies' /\ replies'[k - 1] = replies[k] /\ k \in Nat
        BY <1>1, <3>2
      <4>2. \A j \in DOMAIN replies' : j > k - 1 => j + 1 > k
        BY <1>1, <4>1
      <4>3. \A j \in DOMAIN replies' : j > k - 1 => ~Done(j)'
        BY <1>1, <2>1, <4>2 DEF Done
      <4>4. QED
        BY <1>2, <2>1, <4>1, <4>3 DEF BadgeWillBe, Done, SameSwitch
    <3>3. QED
      BY <3>1, <3>2
  <2>2. QED
    BY <2>1 DEF BadgeWillBe
<1>8. TitleIsRow => TitleIsRow'
  BY <1>1, <1>2 DEF TitleIsRow, Done, SaveDone
<1>9. TitleWillBe => TitleWillBe' \/ TitleIsRow'
  <2>1. ASSUME NEW k \in DOMAIN replies, SaveDone(k), replies[k].seen.name = row.name,
               \A j \in DOMAIN replies : j > k => ~SaveDone(j)
        PROVE  TitleWillBe' \/ TitleIsRow'
    <3>1. CASE k = 1
      <4>1. title' = replies[1].seen.name
        BY <1>1, <1>2, <2>1, <3>1 DEF SaveDone
      <4>2. \A j \in DOMAIN replies' : j + 1 > 1
        BY <1>1
      <4>3. \A j \in DOMAIN replies' : ~SaveDone(j)'
        BY <1>1, <2>1, <3>1, <4>2 DEF SaveDone, Done
      <4>4. QED
        BY <1>2, <2>1, <3>1, <4>1, <4>3 DEF TitleIsRow
    <3>2. CASE k # 1
      <4>1. k - 1 \in DOMAIN replies' /\ replies'[k - 1] = replies[k] /\ k \in Nat
        BY <1>1, <3>2
      <4>2. \A j \in DOMAIN replies' : j > k - 1 => j + 1 > k
        BY <1>1, <4>1
      <4>3. \A j \in DOMAIN replies' : j > k - 1 => ~SaveDone(j)'
        BY <1>1, <2>1, <4>2 DEF SaveDone, Done
      <4>4. QED
        BY <1>2, <2>1, <4>1, <4>3 DEF TitleWillBe, SaveDone, Done
    <3>3. QED
      BY <3>1, <3>2
  <2>2. QED
    BY <2>1 DEF TitleWillBe
<1>10. QED
  BY <1>3, <1>4, <1>5, <1>7, <1>8, <1>9, <1>6 DEF ShowParts, BadgeInv, TitleInv

\* An answer that is added at the end.
LEMMA Answered ==
  ASSUME SettingsTypeInv, NEW a \in Settled, replies' = Append(replies, a)
  PROVE  /\ DOMAIN replies' = DOMAIN replies \union {Len(replies) + 1}
         /\ replies'[Len(replies) + 1] = a
         /\ \A j \in DOMAIN replies : j < Len(replies) + 1 /\ replies'[j] = replies[j]
         /\ \A j \in DOMAIN replies' : ~(j > Len(replies) + 1)
<1>1. replies \in Seq(Settled) /\ Len(replies) \in Nat /\ DOMAIN replies = 1 .. Len(replies)
  BY DEF SettingsTypeInv, SettingsTypeOK
<1>2. QED
  BY <1>1

\* An answer that is not done tells the page nothing.
LEMMA Untold ==
  ASSUME SettingsTypeInv, replies' = replies \/ \E a \in Settled : replies' = Append(replies, a) /\ a.result # "done"
  PROVE  /\ LostWaits => LostWaits'
         /\ BadgeIsRow /\ row'.active = row.active /\ row'.expiry = row.expiry /\ badge' = badge => BadgeIsRow'
         /\ BadgeWillBe /\ row'.active = row.active /\ row'.expiry = row.expiry => BadgeWillBe'
         /\ TitleIsRow /\ row'.name = row.name /\ title' = title => TitleIsRow'
         /\ TitleWillBe /\ row'.name = row.name => TitleWillBe'
<1>1. CASE replies' = replies
  BY <1>1 DEF LostWaits, BadgeIsRow, BadgeWillBe, TitleIsRow, TitleWillBe, SameSwitch, Done, SaveDone
<1>2. ASSUME NEW a \in Settled, replies' = Append(replies, a), a.result # "done"
      PROVE  /\ LostWaits => LostWaits'
             /\ BadgeIsRow /\ row'.active = row.active /\ row'.expiry = row.expiry /\ badge' = badge => BadgeIsRow'
             /\ BadgeWillBe /\ row'.active = row.active /\ row'.expiry = row.expiry => BadgeWillBe'
             /\ TitleIsRow /\ row'.name = row.name /\ title' = title => TitleIsRow'
             /\ TitleWillBe /\ row'.name = row.name => TitleWillBe'
  <2> DEFINE n == Len(replies) + 1
  <2>1. /\ DOMAIN replies' = DOMAIN replies \union {n} /\ replies'[n] = a
        /\ \A j \in DOMAIN replies : replies'[j] = replies[j]
    BY <1>2, Answered
  <2> HIDE DEF n
  <2>2. \A j \in DOMAIN replies' : Done(j)' => j \in DOMAIN replies /\ Done(j)
    BY <1>2, <2>1 DEF Done
  <2>3. \A j \in DOMAIN replies' : SaveDone(j)' => j \in DOMAIN replies /\ SaveDone(j)
    BY <2>1, <2>2 DEF SaveDone, Done
  <2>4. LostWaits => LostWaits'
    BY <2>1 DEF LostWaits
  <2>5. BadgeIsRow /\ row'.active = row.active /\ row'.expiry = row.expiry /\ badge' = badge => BadgeIsRow'
    BY <2>2 DEF BadgeIsRow, SameSwitch
  <2>6. BadgeWillBe /\ row'.active = row.active /\ row'.expiry = row.expiry => BadgeWillBe'
    BY <2>1, <2>2 DEF BadgeWillBe, SameSwitch, Done
  <2>7. TitleIsRow /\ row'.name = row.name /\ title' = title => TitleIsRow'
    BY <2>3 DEF TitleIsRow
  <2>8. TitleWillBe /\ row'.name = row.name => TitleWillBe'
    BY <2>1, <2>3 DEF TitleWillBe, SaveDone, Done
  <2>9. QED
    BY <2>4, <2>5, <2>6, <2>7, <2>8
<1>3. QED
  BY <1>1, <1>2

\* A last answer that is done and tells the row.
LEMMA Told ==
  ASSUME SettingsTypeInv, NEW a \in Settled, replies' = Append(replies, a)
  PROVE  /\ a.result = "lost" => LostWaits'
         /\ a.result = "done" /\ a.seen.active = row'.active /\ a.seen.expiry = row'.expiry => BadgeWillBe'
         /\ a.result = "done" /\ a.req.op = "save" /\ a.seen.name = row'.name => TitleWillBe'
         /\ a.req.op # "save" /\ row'.name = row.name /\ title' = title =>
              (TitleIsRow => TitleIsRow') /\ (TitleWillBe => TitleWillBe')
<1> DEFINE n == Len(replies) + 1
<1>1. /\ DOMAIN replies' = DOMAIN replies \union {n} /\ replies'[n] = a
      /\ \A j \in DOMAIN replies : replies'[j] = replies[j]
      /\ \A j \in DOMAIN replies' : ~(j > n)
  BY Answered
<1> HIDE DEF n
<1>2. a.result = "lost" => LostWaits'
  BY <1>1 DEF LostWaits
<1>3. a.result = "done" /\ a.seen.active = row'.active /\ a.seen.expiry = row'.expiry => BadgeWillBe'
  BY <1>1 DEF BadgeWillBe, SameSwitch, Done
<1>4. a.result = "done" /\ a.req.op = "save" /\ a.seen.name = row'.name => TitleWillBe'
  BY <1>1 DEF TitleWillBe, SaveDone, Done
<1>5. ASSUME a.req.op # "save", row'.name = row.name, title' = title
      PROVE  (TitleIsRow => TitleIsRow') /\ (TitleWillBe => TitleWillBe')
  <2>1. \A j \in DOMAIN replies' : SaveDone(j)' => j \in DOMAIN replies /\ SaveDone(j)
    BY <1>1, <1>5 DEF SaveDone, Done
  <2>2. TitleIsRow => TitleIsRow'
    BY <1>5, <2>1 DEF TitleIsRow
  <2>3. TitleWillBe => TitleWillBe'
    BY <1>1, <1>5, <2>1 DEF TitleWillBe, SaveDone, Done
  <2>4. QED
    BY <2>2, <2>3
<1>6. QED
  BY <1>2, <1>3, <1>4, <1>5

LEMMA ServedShows ==
  ASSUME SettingsTypeInv, ShowParts, NEW c \in calls, NEW d \in Call, Served(c, d),
         NoTrouble(Shows)', UNCHANGED <<past, shownVars, formVars>>
  PROVE  ShowParts'
<1>1. /\ SettingsTypeOK /\ ShapeInv /\ OneWriter /\ PartInv /\ ToldInv /\ BadgeInv /\ TitleInv
      /\ c \in Call /\ row \in Rows /\ c.op \in {"get", "publish", "save"}
      /\ badge' = badge /\ title' = title
  BY DEF SettingsTypeInv, SettingsTypeOK, Call, SettingOps, ShowParts, shownVars
<1>2. /\ Changes(c, d) /\ d.op = c.op /\ d.values = c.values /\ d.meant = c.meant /\ row' \in Rows
      /\ c.op = "get" => GetStep(c, d)
      /\ c.op = "publish" => PublishStep(c, d)
      /\ c.op = "save" => SaveStep(c, d)
  BY DEF Served, Stepped
<1>3. /\ \A e \in calls' : (e = d /\ ~Finished(d)) \/ (e \in calls /\ e # c)
      /\ \A e \in calls : e # c => e \in calls'
      /\ ~Finished(d) => d \in calls'
  BY <1>2 DEF Changes
<1>4. \/ /\ replies' = replies /\ d.told = c.told
         /\ c.told \/ (~Finished(d) /\ ~Failed(d))
      \/ ~c.told /\ \E result \in Outcomes(d) : replies' = Append(replies, AnswerTo(d, result))
  BY <1>2 DEF Changes
<1>5. c.op = "save" => {d.put, d.patch} # {"done", "failed"}
  BY <1>2 DEF SaveStep, NoTrouble, Shows
<1>6. OneWriter'
  BY <1>1, <1>2, <1>3 DEF OneWriter
<1>7. PartInv'
  <2>1. ASSUME NEW e \in calls', e.op = "save"
        PROVE  /\ e.put = "done" => row'.name = e.values.name
               /\ e.patch = "done" => e.seen.active = row'.active /\ e.seen.expiry = row'.expiry
    <3>1. CASE e = d
      BY <1>1, <1>2, <2>1, <3>1 DEF SaveStep, PartInv, Rows, ShapeInv
    <3>2. CASE e \in calls /\ e # c
      <4>1. c.op = "get" /\ row' = row
        BY <1>1, <1>2, <2>1, <3>2 DEF OneWriter, Writing, GetStep
      <4>2. QED
        BY <1>1, <2>1, <3>2, <4>1 DEF PartInv
    <3>3. QED
      BY <1>3, <3>1, <3>2
  <2>2. QED
    BY <2>1 DEF PartInv
<1>8. ASSUME NEW result \in Outcomes(d)
      PROVE  /\ AnswerTo(d, result) \in Settled /\ AnswerTo(d, result).result = result
             /\ AnswerTo(d, result).req.op = c.op
             /\ c.op # "save" => AnswerTo(d, result).seen = d.seen
             /\ c.op = "save" => /\ AnswerTo(d, result).seen.name = c.values.name
                                 /\ AnswerTo(d, result).seen.active = d.seen.active
                                 /\ AnswerTo(d, result).seen.expiry = d.seen.expiry
             /\ result \in {"done", "refused", "lost"}
             /\ result = "done" => Finished(d) /\ d.put # "failed" /\ d.patch # "failed"
             /\ result = "refused" => Failed(d)
  BY <1>2, OutcomesAre, AnswerToType DEF AnswerTo, Call, Fields
<1>9. LostWaits => LostWaits'
  <2>1. \A j \in DOMAIN replies : j \in DOMAIN replies' /\ replies'[j] = replies[j]
    BY <1>4, <1>8, Answered
  <2>2. QED
    BY <2>1 DEF LostWaits
<1>10. LostWaits' \/ (d.told => Failed(d) \/ Finished(d))
  <2>1. CASE c.told /\ ~LostWaits
    <3>1. Failed(c)
      BY <1>1, <2>1 DEF ToldInv
    <3>2. QED
      BY <1>1, <1>2, <3>1 DEF Failed, ShapeInv, SaveStep
  <2>2. CASE ~c.told
    <3>1. ASSUME NEW result \in Outcomes(d), replies' = Append(replies, AnswerTo(d, result))
          PROVE  LostWaits' \/ Failed(d) \/ Finished(d)
      BY <1>8, <3>1, Told
    <3>2. QED
      BY <1>4, <2>2, <3>1
  <2>3. QED
    BY <1>9, <2>1, <2>2
<1>11. ToldInv'
  BY <1>1, <1>3, <1>9, <1>10 DEF ToldInv
<1>12. ASSUME \/ replies' = replies
              \/ \E result \in Outcomes(d) : replies' = Append(replies, AnswerTo(d, result)) /\ result # "done"
       PROVE  /\ row'.active = row.active /\ row'.expiry = row.expiry =>
                   (BadgeIsRow => BadgeIsRow') /\ (BadgeWillBe => BadgeWillBe')
              /\ row'.name = row.name =>
                   (TitleIsRow => TitleIsRow') /\ (TitleWillBe => TitleWillBe')
  <2>1. \/ replies' = replies
        \/ \E a \in Settled : replies' = Append(replies, a) /\ a.result # "done"
    BY <1>8, <1>12
  <2>2. QED
    BY <1>1, <2>1, Untold
<1>13. ASSUME ~LostWaits' PROVE BadgeInv' /\ TitleInv'
  <2>1. c.told => Failed(c)
    BY <1>1, <1>9, <1>13 DEF ToldInv
  <2>2. /\ BadgeWaits \/ BadgeIsRow \/ BadgeWillBe
        /\ TitleWaits \/ TitleIsRow \/ TitleWillBe
    BY <1>1, <1>9, <1>13 DEF BadgeInv, TitleInv
  <2>3. ASSUME NEW result \in Outcomes(d), replies' = Append(replies, AnswerTo(d, result))
        PROVE  result # "lost"
    BY <1>8, <1>13, <2>3, Told
  <2>4. CASE c.op = "get"
    <3>1. /\ row' = row /\ (BadgeWaits => BadgeWaits') /\ (TitleWaits => TitleWaits')
          /\ ~c.told
      BY <1>1, <1>2, <1>3, <2>1, <2>4 DEF GetStep, BadgeWaits, TitleWaits, ShapeInv, Failed
    <3>2. PICK result \in Outcomes(d) : replies' = Append(replies, AnswerTo(d, result))
      BY <1>2, <1>4, <2>4, <3>1 DEF GetStep
    <3>3. CASE result = "done"
      <4>1. d.seen = row
        BY <1>2, <1>8, <2>4, <3>3 DEF GetStep
      <4>2. BadgeWillBe'
        BY <1>8, <2>4, <3>1, <3>2, <3>3, <4>1, Told
      <4>3. (TitleIsRow => TitleIsRow') /\ (TitleWillBe => TitleWillBe')
        BY <1>1, <1>8, <2>4, <3>1, <3>2, Told
      <4>4. QED
        BY <2>2, <3>1, <4>2, <4>3 DEF BadgeInv, TitleInv
    <3>4. CASE result # "done"
      BY <1>12, <2>2, <3>1, <3>2, <3>4 DEF BadgeInv, TitleInv
    <3>5. QED
      BY <3>3, <3>4
  <2>5. CASE c.op = "publish"
    <3>1. /\ (BadgeWaits => BadgeWaits') /\ (TitleWaits => TitleWaits') /\ PublishStep(c, d)
          /\ ~c.told
      BY <1>1, <1>2, <1>3, <2>1, <2>5 DEF BadgeWaits, TitleWaits, ShapeInv, Failed
    <3>2. row'.name = row.name
      BY <1>1, <3>1 DEF PublishStep, Rows
    <3>3. CASE d.patch # "done"
      <4>1. row' = row
        BY <3>1, <3>3 DEF PublishStep
      <4>2. \/ replies' = replies
            \/ \E result \in Outcomes(d) : replies' = Append(replies, AnswerTo(d, result)) /\ result # "done"
        <5>1. "done" \notin Outcomes(d)
          BY <1>8, <3>1, <3>3 DEF PublishStep, Finished
        <5>2. QED
          BY <1>4, <5>1
      <4>3. QED
        BY <1>12, <2>2, <3>1, <4>1, <4>2 DEF BadgeInv, TitleInv
    <3>4. CASE d.patch = "done"
      <4>1. d.seen = row' /\ Finished(d) /\ ~Failed(d)
        BY <3>1, <3>4 DEF PublishStep, Finished, Failed
      <4>2. PICK result \in Outcomes(d) : replies' = Append(replies, AnswerTo(d, result))
        BY <1>4, <3>1, <4>1
      <4>3. result = "done"
        BY <1>8, <2>3, <4>1, <4>2
      <4>4. BadgeWillBe'
        BY <1>8, <2>5, <4>1, <4>2, <4>3, Told
      <4>5. (TitleIsRow => TitleIsRow') /\ (TitleWillBe => TitleWillBe')
        BY <1>1, <1>8, <2>5, <3>2, <4>2, Told
      <4>6. QED
        BY <2>2, <3>1, <4>4, <4>5 DEF BadgeInv, TitleInv
    <3>5. QED
      BY <3>3, <3>4
  <2>6. CASE c.op = "save"
    <3>1. /\ SaveStep(c, d)
          /\ c.put \in {"todo", "done", "failed"} /\ c.patch # "none" /\ ~Finished(c)
          /\ c.put = "done" => row.name = c.values.name
          /\ c.patch = "done" => c.seen.active = row.active /\ c.seen.expiry = row.expiry
          /\ c.told <=> Failed(c)
      BY <1>1, <1>2, <2>1, <2>6 DEF ShapeInv, PartInv
    <3>2. (BadgeWaits => BadgeWaits' \/ c.patch = "done") /\ (TitleWaits => TitleWaits' \/ c.put = "done")
      BY <1>3 DEF BadgeWaits, TitleWaits
    <3>3. CASE Failed(d)
      <4>1. d.put # "done" /\ d.patch # "done"
        BY <1>5, <2>6, <3>3 DEF Failed
      <4>2. row' = row /\ c.put # "done" /\ c.patch # "done"
        BY <3>1, <4>1 DEF SaveStep
      <4>3. \/ replies' = replies
            \/ \E result \in Outcomes(d) : replies' = Append(replies, AnswerTo(d, result)) /\ result # "done"
        <5>1. "done" \notin Outcomes(d)
          BY <1>8, <3>3 DEF Failed
        <5>2. QED
          BY <1>4, <5>1
      <4>4. QED
        BY <1>12, <2>2, <3>2, <4>2, <4>3 DEF BadgeInv, TitleInv
    <3>4. CASE ~Failed(d) /\ ~Finished(d)
      <4>1. replies' = replies /\ d \in calls'
        BY <1>3, <1>4, <1>8, <2>3, <3>4
      <4>2. /\ d.patch = "done" => BadgeWaits'
            /\ d.put = "done" => TitleWaits'
        BY <1>2, <2>6, <4>1 DEF BadgeWaits, TitleWaits
      <4>3. /\ d.patch = "done" \/ (c.patch # "done" /\ row'.active = row.active /\ row'.expiry = row.expiry)
            /\ d.put = "done" \/ (c.put # "done" /\ row'.name = row.name)
        BY <1>1, <3>1 DEF SaveStep, Rows
      <4>4. BadgeInv'
        BY <1>12, <2>2, <3>2, <4>1, <4>2, <4>3 DEF BadgeInv
      <4>5. TitleInv'
        BY <1>12, <2>2, <3>2, <4>1, <4>2, <4>3 DEF TitleInv
      <4>6. QED
        BY <4>4, <4>5
    <3>5. CASE ~Failed(d) /\ Finished(d)
      <4>1. d.put = "done" /\ d.patch = "done"
        BY <3>1, <3>5 DEF SaveStep, Finished, Failed
      <4>2. ~c.told
        BY <3>1, <3>5 DEF SaveStep, Failed
      <4>3. PICK result \in Outcomes(d) : replies' = Append(replies, AnswerTo(d, result))
        BY <1>4, <3>5, <4>2
      <4>4. result = "done"
        BY <1>8, <2>3, <3>5, <4>3
      <4>5. row'.name = c.values.name /\ d.seen.active = row'.active /\ d.seen.expiry = row'.expiry
        BY <1>1, <3>1, <4>1 DEF SaveStep, Rows
      <4>6. BadgeWillBe' /\ TitleWillBe'
        BY <1>8, <2>6, <4>3, <4>4, <4>5, Told
      <4>7. QED
        BY <4>6 DEF BadgeInv, TitleInv
    <3>6. QED
      BY <3>3, <3>4, <3>5
  <2>7. QED
    BY <1>1, <2>4, <2>5, <2>6
<1>14. BadgeInv' /\ TitleInv'
  BY <1>13 DEF BadgeInv, TitleInv
<1>15. QED
  BY <1>6, <1>7, <1>11, <1>14 DEF ShowParts

LEMMA ShowStep == ShowInv /\ [SettingsNext]_settingsVars => ShowInv'
<1> SUFFICES ASSUME ShowInv, [SettingsNext]_settingsVars, NoTrouble(Shows)' PROVE ShowParts'
  BY SettingsTypeStep, ButtonStep DEF ShowInv
<1>1. SettingsTypeInv /\ ShowParts
  BY TroublesGrow DEF ShowInv
<1>2. "overlap" \notin troubles' /\ "order" \notin troubles' /\ "lost" \notin troubles'
  BY DEF NoTrouble, Shows
<1>3. CASE ClickPublish
  <2> DEFINE c == [op |-> "publish", put |-> "none", patch |-> "todo", told |-> FALSE, meant |-> NothingMeant,
                   values |-> [Blank EXCEPT !.active = (button = "publish")], seen |-> Blank]
  <2>1. c.op = "publish" /\ c.put # "done" /\ c.patch # "done" /\ ~c.told
    OBVIOUS
  <2>2. calls' = calls \union {c} /\ UNCHANGED <<row, replies, badge, title>>
    BY <1>3 DEF ClickPublish, Issue
  <2> HIDE DEF c
  <2>3. ~Waiting(Writing)
    BY <1>2, <1>3 DEF ClickPublish, Trouble
  <2>4. OneWriter'
    BY <1>1, <2>2, <2>3 DEF ShowParts, OneWriter, Waiting
  <2>5. QED
    BY <1>1, <2>1, <2>2, <2>4, AskedShows
<1>4. CASE OpenForm
  <2> DEFINE c == [op |-> "get", put |-> "none", patch |-> "none", told |-> FALSE, meant |-> NothingMeant,
                   values |-> Blank, seen |-> Blank]
  <2>1. c.op = "get" /\ c.put # "done" /\ c.patch # "done" /\ ~c.told
    OBVIOUS
  <2>2. calls' = calls \union {c} /\ UNCHANGED <<row, replies, badge, title>>
    BY <1>4 DEF OpenForm, Issue, shownVars
  <2> HIDE DEF c
  <2>3. OneWriter'
    BY <1>1, <2>1, <2>2 DEF ShowParts, OneWriter, Writing
  <2>4. QED
    BY <1>1, <2>1, <2>2, <2>3, AskedShows
<1>5. CASE SaveForm
  <2> DEFINE c == [op |-> "save", put |-> "todo", patch |-> "todo", told |-> FALSE, values |-> fields,
                   meant |-> meant, seen |-> Blank]
  <2>1. c.op = "save" /\ c.put # "done" /\ c.patch # "done" /\ ~c.told
    OBVIOUS
  <2>2. calls' = calls \union {c} /\ UNCHANGED <<row, replies, badge, title>>
    BY <1>5 DEF SaveForm, Issue, shownVars
  <2> HIDE DEF c
  <2>3. ~Waiting(Writing)
    BY <1>2, <1>5 DEF SaveForm, Trouble
  <2>4. OneWriter'
    BY <1>1, <2>2, <2>3 DEF ShowParts, OneWriter, Waiting
  <2>5. QED
    BY <1>1, <2>1, <2>2, <2>4, AskedShows
<1>6. CASE UNCHANGED <<row, calls, replies, badge, title>>
  BY <1>1, <1>6 DEF ShowParts, OneWriter, PartInv, ToldInv, BadgeInv, TitleInv, LostWaits, BadgeWaits, BadgeIsRow,
    BadgeWillBe, TitleWaits, TitleIsRow, TitleWillBe, SameSwitch, Done, SaveDone
<1>7. CASE ServeSettings
  BY <1>1, <1>7, ServeSettingsServed, ServedShows DEF ServeSettings
<1>8. ASSUME NEW i \in DOMAIN replies, OnGet(i) \/ OnPublish(i) \/ OnSaveForm(i)
      PROVE  ShowParts'
  <2>1. \E op : /\ TakeReply(i, op) /\ RenderStatusBadge(i) /\ Late(i) \subseteq troubles'
                /\ title' = IF op = "save" /\ Done(i) THEN replies[i].seen.name ELSE title
    <3>1. CASE OnGet(i)
      <4>1. /\ TakeReply(i, "get") /\ RenderStatusBadge(i) /\ Late(i) \subseteq troubles' /\ title' = title
        BY <3>1 DEF OnGet, Trouble
      <4>2. QED
        BY <4>1
    <3>2. CASE OnPublish(i)
      <4>1. /\ TakeReply(i, "publish") /\ RenderStatusBadge(i) /\ Late(i) \subseteq troubles' /\ title' = title
        BY <3>2 DEF OnPublish, Trouble
      <4>2. QED
        BY <4>1
    <3>3. CASE OnSaveForm(i)
      <4>1. /\ TakeReply(i, "save") /\ RenderStatusBadge(i) /\ Late(i) \subseteq troubles'
            /\ title' = IF Done(i) THEN replies[i].seen.name ELSE title
        BY <3>3 DEF OnSaveForm, Trouble, Done
      <4>2. QED
        BY <4>1
    <3>4. QED
      BY <1>8, <3>1, <3>2, <3>3
  <2>2. Late(i) \subseteq {"order", "lost"}
    BY NetworkTwo DEF Late
  <2>3. Late(i) \subseteq troubles' => Late(i) = {}
    BY <1>2, <2>2
  <2>4. QED
    BY <1>1, <2>1, <2>3, TakenShows
<1>9. QED
  BY <1>3, <1>4, <1>5, <1>6, <1>7, <1>8
  DEF SettingsNext, settingsVars, shownVars, TouchField, Touch, CancelForm, DatePasses

\* Once every request is answered the status and the title are those of the row, and the
\* publish button offers what the row is not, unless an answer was lost or late, only one
\* half of a save was done, or two writes overlapped (renderStatusBadge and the handlers
\* of deck_manage.js). Nothing is said of the button of a deck whose date has passed.
THEOREM BadgeIsOfTheRow == SettingsSpec => []BadgeShowsRow
<1>1. ShowInv => BadgeShowsRow
  BY DEF ShowInv, ButtonInv, ShowParts, BadgeInv, TitleInv, LostWaits, BadgeWaits, BadgeIsRow, BadgeWillBe,
    TitleWaits, TitleIsRow, TitleWillBe, SameSwitch, BadgeShowsRow, Shows
<1>2. QED
  BY <1>1, ShowInit, ShowStep, PTL DEF SettingsSpec

-----------------------------------------------------------------------------
(* The page.                                                               *)

\* Both halves of the page keep their types, whichever of them is used.
THEOREM PageTypeCorrect == MCSpec => []PageTypeOK
<1> DEFINE Inv == CardsTypeOK /\ SettingsTypeInv
<1>1. MCInit => Inv
  BY CardsTypeInit, SettingsTypeInit DEF MCInit
<1>2. Inv /\ [MCNext]_<<part, cardsVars, settingsVars>> => Inv'
  <2> SUFFICES ASSUME Inv, [MCNext]_<<part, cardsVars, settingsVars>> PROVE Inv'
    OBVIOUS
  <2>1. [CardsNext]_cardsVars /\ [SettingsNext]_settingsVars
    BY DEF MCNext
  <2>2. QED
    BY <2>1, CardsTypeStep, SettingsTypeStep
<1>3. Inv => PageTypeOK
  BY DEF SettingsTypeInv, PageTypeOK
<1>4. QED
  BY <1>1, <1>2, <1>3, PTL DEF MCSpec
=============================================================================
