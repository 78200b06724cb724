--------------------------- MODULE TeachPageProofs ---------------------------
(***************************************************************************)
(* Theorems about the professor's page (TeachPage), for any decks and      *)
(* files, and without regard to the bounds.                                *)
(***************************************************************************)
EXTENDS TeachPage, AnswersProofs

-----------------------------------------------------------------------------
(* Types.                                                                  *)

LEMMA AskType ==
  ASSUME NEW op \in Ops, NEW d \in Decks \union {NoDeck}
  PROVE  Ask(op, d) \in Request
BY DEF Ask, Request

LEMMA TypeInit == Init => TypeOK
<1> SUFFICES ASSUME Init PROVE TypeOK
  OBVIOUS
<1>1. Ask("list", NoDeck) \in Request
  BY AskType DEF Ops
<1>2. answers \in Seq(Answer)
  BY DEF Init
<1>3. db \in Lists /\ list \in Lists
  BY DEF Init, Lists, NoList
<1>4. QED
  BY <1>1, <1>2, <1>3 DEF Init, TypeOK, NoPreview, Mishaps

LEMMA EffectsType ==
  ASSUME TypeOK, NEW r \in Request, NEW new \in Effects(r)
  PROVE  new \in Lists
<1>1. db \in Lists
  BY DEF TypeOK
<1>2. CASE r.op \in {"create", "publish"}
  BY <1>1, <1>2 DEF Effects, Lists
<1>3. CASE r.op = "delete"
  <2>1. PICK gone \in Deletable(r) : new = [d \in Decks |-> IF d \in gone THEN "absent" ELSE db[d]]
    BY <1>3 DEF Effects
  <2>2. QED
    BY <1>1, <2>1 DEF Lists
<1>4. CASE r.op = "import" /\ r.deck = NoDeck
  <2>1. new = db \/ \E d \in Mine : new = [db EXCEPT ![d] = "draft"]
    BY <1>4 DEF Effects
  <2>2. QED
    BY <1>1, <2>1 DEF Lists
<1>5. CASE r.op \in {"preview", "save", "list"} \/ (r.op = "import" /\ r.deck # NoDeck)
  BY <1>1, <1>5 DEF Effects
<1>6. QED
  BY <1>2, <1>3, <1>4, <1>5 DEF Request, Ops

LEMMA ServeType ==
  ASSUME TypeOK, NEW r \in sent, Serve(r)
  PROVE  db' \in Lists /\ answers' \in Seq(Answer)
<1>1. r \in Request /\ db \in Lists /\ answers \in Seq(Answer)
  BY DEF TypeOK
<1>2. db' \in Lists
  BY <1>1, EffectsType DEF Serve
<1>3. \A result \in {"done", "refused", "lost"} : Reply(r, result) \in Answer
  <2>1. (IF r.op = "list" THEN db ELSE NoList) \in Lists
    BY <1>1 DEF Lists, NoList
  <2>2. QED
    BY <1>1, <2>1 DEF Reply, Answer
<1>4. PICK result \in {"done", "refused", "lost"} : answers' = Append(answers, Reply(r, result))
  BY DEF Serve
<1>5. QED
  BY <1>1, <1>2, <1>3, <1>4

\* What the handlers share: one answer less, and known mishaps.
LEMMA TakeType ==
  ASSUME TypeOK, NEW i \in DOMAIN answers, NEW op, Take(i, op)
  PROVE  /\ answers' \in Seq(Answer) /\ answers[i] \in Answer /\ db' = db
         /\ Network(i) \subseteq Mishaps
<1>1. answers \in Seq(Answer)
  BY DEF TypeOK
<1>2. Network(i) \subseteq {"order", "lost"}
  BY NetworkTwo DEF Network
<1>3. QED
  BY <1>1, <1>2, WithoutType DEF Take, Mishaps

LEMMA TypeStep == TypeOK /\ [Next]_vars => TypeOK'
<1> SUFFICES ASSUME TypeOK, [Next]_vars PROVE TypeOK'
  OBVIOUS
<1> USE DEF Happened
<1>1. ASSUME NEW d \in Decks, ClickDeck(d) PROVE TypeOK'
  BY <1>1 DEF ClickDeck, Select, ClearPreview, NoPreview, TypeOK, selectVars
<1>2. ASSUME NEW d \in Decks, Publish(d) PROVE TypeOK'
  <2>1. Ask("publish", d) \in Request
    BY AskType DEF Ops
  <2>2. [Ask("publish", d) EXCEPT !.on = (list[d] = "draft")] \in Request
    BY <2>1 DEF Request
  <2>3. QED
    BY <1>2, <2>2 DEF Publish, Send, TypeOK, pageVars, deckVars, selectVars, fileVars
<1>3. ASSUME NEW d \in Decks, CreateDeck(d) PROVE TypeOK'
  <2>1. Ask("create", d) \in Request
    BY AskType DEF Ops
  <2>2. QED
    BY <1>3, <2>1 DEF CreateDeck, Send, TypeOK, pageVars, deckVars, selectVars, fileVars
<1>4. CASE EnterSelection \/ ExitSelection
  BY <1>4 DEF EnterSelection, ExitSelection, TypeOK, deckVars, fileVars
<1>5. CASE CheckDeck
  <2>1. PICK S \in SUBSET Decks : Check(S)
    BY <1>5, TeachAssumption DEF CheckDeck
  <2>2. QED
    BY <2>1 DEF Check, TypeOK, deckVars, fileVars
<1>6. CASE ConfirmDelete
  <2>1. Ask("delete", NoDeck) \in Request
    BY AskType DEF Ops
  <2>2. [Ask("delete", NoDeck) EXCEPT !.ids = sel] \in Request
    BY <2>1 DEF Request, TypeOK
  <2>3. QED
    BY <1>6, <2>2 DEF ConfirmDelete, Send, TypeOK, deckVars, fileVars
<1>7. ASSUME NEW f \in Files, ChooseFile(f) PROVE TypeOK'
  <2>1. Ask("preview", cur) \in Request
    BY AskType DEF Ops, TypeOK
  <2>2. [Ask("preview", cur) EXCEPT !.file = f] \in Request
    BY <2>1 DEF Request
  <2>3. QED
    BY <1>7, <2>2 DEF ChooseFile, NoPreview, Send, TypeOK, deckVars, selectVars
<1>8. CASE CancelFile
  BY <1>8 DEF CancelFile, ClearPreview, NoPreview, TypeOK, deckVars, selectVars
<1>9. CASE Import
  <2>1. Ask("import", cur) \in Request
    BY AskType DEF Ops, TypeOK
  <2>2. [Ask("import", cur) EXCEPT !.file = file] \in Request
    BY <2>1 DEF Request, TypeOK
  <2>3. QED
    BY <1>9, <2>2 DEF Import, Send, TypeOK, deckVars, selectVars
<1>10. CASE SaveCard
  <2>1. Ask("save", cur) \in Request
    BY AskType DEF Ops, TypeOK
  <2>2. QED
    BY <1>10, <2>1 DEF SaveCard, Send, TypeOK, selectVars, fileVars
<1>11. ASSUME NEW r \in sent, Serve(r) PROVE TypeOK'
  <2>1. db' \in Lists /\ answers' \in Seq(Answer)
    BY <1>11, ServeType
  <2>2. QED
    BY <1>11, <2>1 DEF Serve, TypeOK, pageVars, deckVars, selectVars, fileVars
<1>12. ASSUME NEW i \in DOMAIN answers, OnList(i) PROVE TypeOK'
  <2>1. /\ answers' \in Seq(Answer) /\ answers[i] \in Answer /\ db' = db
        /\ Network(i) \subseteq Mishaps
    BY <1>12, TakeType DEF OnList
  <2>2. answers[i].list \in Lists /\ answers[i].req.deck \in Decks \union {NoDeck}
    BY <2>1 DEF Answer, Request
  <2>3. list' \in Lists /\ cur' \in Decks \union {NoDeck} /\ canSave' \in BOOLEAN
    BY <1>12, <2>2 DEF OnList, Select, TypeOK, deckVars
  <2>4. /\ file' \in Files \union {NoFile} /\ canImport' \in BOOLEAN
        /\ preview' \in [file : Files \union {NoFile}, deck : Decks \union {NoDeck}]
    BY <1>12 DEF OnList, Select, ClearPreview, NoPreview, TypeOK, fileVars
  <2>5. mishaps' \subseteq Mishaps
    BY <1>12, <2>1 DEF OnList, TypeOK, Mishaps
  <2>6. QED
    BY <1>12, <2>1, <2>3, <2>4, <2>5 DEF OnList, TypeOK, selectVars
<1>13. ASSUME NEW i \in DOMAIN answers, OnDelete(i) PROVE TypeOK'
  <2>1. /\ answers' \in Seq(Answer) /\ answers[i] \in Answer /\ db' = db
        /\ Network(i) \subseteq Mishaps
    BY <1>13, TakeType DEF OnDelete
  <2>2. list' \in Lists
    BY <1>13 DEF OnDelete, TypeOK, Lists
  <2>3. cur' \in Decks \union {NoDeck}
    BY <1>13 DEF OnDelete, TypeOK
  <2>4. sent' \subseteq Request
    <3>1. \A d \in Decks \union {NoDeck} : Ask("list", d) \in Request
      BY AskType DEF Ops
    <3>2. QED
      BY <1>13, <2>3, <3>1 DEF OnDelete, Reload, TypeOK
  <2>5. mishaps' \subseteq Mishaps
    BY <1>13, <2>1 DEF OnDelete, TypeOK, Mishaps
  <2>6. selecting' \in BOOLEAN /\ sel' \subseteq Decks /\ canDelete' \in BOOLEAN
    BY <1>13 DEF OnDelete, TypeOK
  <2>7. QED
    BY <1>13, <2>1, <2>2, <2>3, <2>4, <2>5, <2>6 DEF OnDelete, TypeOK, fileVars
<1>14. ASSUME NEW i \in DOMAIN answers, OnPublish(i) PROVE TypeOK'
  <2>1. /\ answers' \in Seq(Answer) /\ db' = db /\ Network(i) \subseteq Mishaps
    BY <1>14, TakeType DEF OnPublish
  <2>2. list' \in Lists
    BY <1>14 DEF OnPublish, TypeOK, Lists
  <2>3. QED
    BY <1>14, <2>1, <2>2 DEF OnPublish, TypeOK, selectVars, fileVars
<1>15. ASSUME NEW i \in DOMAIN answers, OnCreate(i) PROVE TypeOK'
  <2>1. /\ answers' \in Seq(Answer) /\ answers[i] \in Answer /\ db' = db
        /\ Network(i) \subseteq Mishaps
    BY <1>15, TakeType DEF OnCreate
  <2>2. answers[i].req.deck \in Decks \union {NoDeck}
    BY <2>1 DEF Answer, Request
  <2>3. list' \in Lists
    BY <1>15 DEF OnCreate, TypeOK, Lists, deckVars
  <2>4. cur' \in Decks \union {NoDeck} /\ canSave' \in BOOLEAN
    BY <1>15, <2>2 DEF OnCreate, Select, TypeOK, deckVars
  <2>5. /\ file' \in Files \union {NoFile} /\ canImport' \in BOOLEAN
        /\ preview' \in [file : Files \union {NoFile}, deck : Decks \union {NoDeck}]
    BY <1>15 DEF OnCreate, Select, ClearPreview, NoPreview, TypeOK, fileVars
  <2>6. QED
    BY <1>15, <2>1, <2>3, <2>4, <2>5 DEF OnCreate, TypeOK, selectVars
<1>16. ASSUME NEW i \in DOMAIN answers, OnPreview(i) PROVE TypeOK'
  <2>1. /\ answers' \in Seq(Answer) /\ answers[i] \in Answer /\ db' = db
        /\ Network(i) \subseteq Mishaps
    BY <1>16, TakeType DEF OnPreview
  <2>2. /\ answers[i].req.file \in Files \union {NoFile}
        /\ answers[i].req.deck \in Decks \union {NoDeck}
        /\ answers[i].result \in {"done", "refused", "lost"}
    BY <2>1 DEF Answer, Request
  <2>3. /\ preview' \in [file : Files \union {NoFile}, deck : Decks \union {NoDeck}]
        /\ canImport' \in BOOLEAN
    <3>1. [file |-> answers[i].req.file, deck |-> answers[i].req.deck]
            \in [file : Files \union {NoFile}, deck : Decks \union {NoDeck}]
      BY <2>2
    <3>2. \/ /\ preview' = [file |-> answers[i].req.file, deck |-> answers[i].req.deck]
             /\ canImport' = TRUE
          \/ preview' = NoPreview /\ canImport' \in {FALSE, canImport}
      BY <1>16, <2>2 DEF OnPreview
    <3>3. NoPreview \in [file : Files \union {NoFile}, deck : Decks \union {NoDeck}]
      BY DEF NoPreview
    <3>4. canImport \in BOOLEAN
      BY DEF TypeOK
    <3>5. CASE preview' = NoPreview /\ canImport' \in {FALSE, canImport}
      BY <3>3, <3>4, <3>5
    <3>6. QED
      BY <3>1, <3>2, <3>5
  <2>4. mishaps' \subseteq Mishaps
    BY <1>16, <2>1 DEF OnPreview, TypeOK, Mishaps
  <2>5. QED
    BY <1>16, <2>1, <2>3, <2>4 DEF OnPreview, TypeOK, deckVars, selectVars
<1>17. ASSUME NEW i \in DOMAIN answers, OnImport(i) PROVE TypeOK'
  <2>1. answers' \in Seq(Answer) /\ db' = db /\ Network(i) \subseteq Mishaps
    BY <1>17, TakeType DEF OnImport
  <2>2. Ask("list", cur) \in Request
    BY AskType DEF Ops, TypeOK
  <2>3. sent' \subseteq Request /\ mishaps' \subseteq Mishaps
    BY <1>17, <2>1, <2>2 DEF OnImport, Reload, TypeOK, Mishaps
  <2>4. /\ file' \in Files \union {NoFile} /\ canImport' \in BOOLEAN
        /\ preview' \in [file : Files \union {NoFile}, deck : Decks \union {NoDeck}]
    <3>1. CASE answers[i].result = "lost"
      BY <1>17, <3>1 DEF OnImport, TypeOK
    <3>2. CASE answers[i].result # "lost"
      <4>1. ClearPreview
        BY <1>17, <3>2 DEF OnImport
      <4>2. QED
        BY <4>1 DEF ClearPreview, NoPreview, TypeOK
    <3>3. QED
      BY <3>1, <3>2
  <2>5. QED
    BY <1>17, <2>1, <2>3, <2>4 DEF OnImport, TypeOK, deckVars, selectVars
<1>18. ASSUME NEW i \in DOMAIN answers, OnSave(i) PROVE TypeOK'
  <2>1. answers' \in Seq(Answer) /\ db' = db /\ Network(i) \subseteq Mishaps
    BY <1>18, TakeType DEF OnSave
  <2>2. QED
    BY <1>18, <2>1 DEF OnSave, TypeOK, selectVars, fileVars
<1>19. CASE UNCHANGED vars
  BY <1>19 DEF vars, pageVars, deckVars, selectVars, fileVars, TypeOK
<1>20. QED
  BY <1>1, <1>2, <1>3, <1>4, <1>5, <1>6, <1>7, <1>8, <1>9, <1>10, <1>11, <1>12, <1>13, <1>14,
     <1>15, <1>16, <1>17, <1>18, <1>19 DEF Next, Answered

\* The table, the requests, the answers and the page keep their types.
THEOREM TypeCorrect == Spec => []TypeOK
BY TypeInit, TypeStep, PTL DEF Spec

-----------------------------------------------------------------------------
(* What is imported. The property is inductive: every step that changes    *)
(* the file or the deck under an enabled button clears the file, disables  *)
(* the button, or is one of the three mishaps.                             *)

LEMMA PreviewedStep == TypeOK /\ ImportWillBeAsPreviewed /\ [Next]_vars => ImportWillBeAsPreviewed'
<1> SUFFICES ASSUME TypeOK, ImportWillBeAsPreviewed, [Next]_vars PROVE ImportWillBeAsPreviewed'
  OBVIOUS
<1> USE DEF Happened, Free
<1>1. ASSUME UNCHANGED <<fileVars, cur>>, mishaps \subseteq mishaps' PROVE ImportWillBeAsPreviewed'
  BY <1>1 DEF ImportWillBeAsPreviewed, fileVars
<1>2. ASSUME file' = NoFile \/ canImport' = FALSE PROVE ImportWillBeAsPreviewed'
  BY <1>2 DEF ImportWillBeAsPreviewed
<1>3. ASSUME NEW i \in DOMAIN answers, OnList(i) PROVE ImportWillBeAsPreviewed'
  <2>1. \/ ClearPreview
        \/ UNCHANGED <<cur, fileVars>> /\ mishaps \subseteq mishaps'
    BY <1>3 DEF OnList, Select, deckVars
  <2>2. QED
    BY <1>1, <1>2, <2>1 DEF ClearPreview
<1>4. ASSUME NEW i \in DOMAIN answers, OnDelete(i) PROVE ImportWillBeAsPreviewed'
  <2>1. CASE cur' = cur
    BY <1>1, <1>4, <2>1 DEF OnDelete
  <2>2. CASE cur' # cur /\ file = NoFile
    BY <1>2, <1>4, <2>2 DEF OnDelete, fileVars
  <2>3. CASE cur' # cur /\ file # NoFile
    <3>1. "reset" \in mishaps'
      BY <1>4, <2>3 DEF OnDelete
    <3>2. QED
      BY <3>1 DEF ImportWillBeAsPreviewed
  <2>4. QED
    BY <2>1, <2>2, <2>3
<1>5. ASSUME NEW i \in DOMAIN answers, OnCreate(i) PROVE ImportWillBeAsPreviewed'
  <2>1. \/ ClearPreview
        \/ UNCHANGED <<cur, fileVars>> /\ mishaps \subseteq mishaps'
    BY <1>5 DEF OnCreate, Select, deckVars
  <2>2. QED
    BY <1>1, <1>2, <2>1 DEF ClearPreview
<1>6. ASSUME NEW i \in DOMAIN answers, OnPreview(i) PROVE ImportWillBeAsPreviewed'
  <2> DEFINE r == answers[i].req
  <2>1. answers[i].result \in {"done", "refused", "lost"} /\ UNCHANGED <<file, cur>>
    <3>1. answers[i] \in Answer
      BY <1>6, TakeType DEF OnPreview
    <3>2. QED
      BY <1>6, <3>1 DEF OnPreview, Answer, deckVars
  <2>2. CASE answers[i].result = "done"
    <3>1. preview' = [file |-> r.file, deck |-> r.deck]
      BY <1>6, <2>2 DEF OnPreview
    <3>2. preview' # [file |-> file, deck |-> cur] => "stale" \in mishaps'
      BY <1>6, <2>2, <3>1 DEF OnPreview
    <3>3. QED
      BY <2>1, <3>2 DEF ImportWillBeAsPreviewed
  <2>3. CASE answers[i].result = "refused"
    BY <1>2, <1>6, <2>3 DEF OnPreview
  <2>4. CASE answers[i].result = "lost"
    <3>1. canImport' = canImport /\ (canImport => "stale" \in mishaps')
      BY <1>6, <2>4 DEF OnPreview
    <3>2. QED
      BY <3>1 DEF ImportWillBeAsPreviewed
  <2>5. QED
    BY <2>1, <2>2, <2>3, <2>4
<1>7. ASSUME NEW i \in DOMAIN answers, OnImport(i) PROVE ImportWillBeAsPreviewed'
  <2>1. CASE answers[i].result = "lost"
    <3>1. UNCHANGED <<file, preview, cur>>
          /\ (preview # [file |-> file, deck |-> cur] => "retry" \in mishaps')
      BY <1>7, <2>1 DEF OnImport, deckVars
    <3>2. QED
      BY <3>1 DEF ImportWillBeAsPreviewed
  <2>2. CASE answers[i].result # "lost"
    BY <1>2, <1>7, <2>2 DEF OnImport, ClearPreview
  <2>3. QED
    BY <2>1, <2>2
<1>8. ASSUME NEW i \in DOMAIN answers, OnPublish(i) \/ OnSave(i) PROVE ImportWillBeAsPreviewed'
  BY <1>1, <1>8 DEF OnPublish, OnSave
<1>9. ASSUME NEW d \in Decks, ClickDeck(d) PROVE ImportWillBeAsPreviewed'
  BY <1>2, <1>9 DEF ClickDeck, Select, ClearPreview
<1>10. CASE UNCHANGED vars
  BY <1>1, <1>10 DEF vars, pageVars, deckVars
<1>11. QED
  BY <1>1, <1>2, <1>3, <1>4, <1>5, <1>6, <1>7, <1>8, <1>9, <1>10
  DEF Next, Answered, Publish, CreateDeck, EnterSelection, ExitSelection, CheckDeck, Check,
      ConfirmDelete, ChooseFile, CancelFile, ClearPreview, Import, SaveCard, Serve,
      pageVars, deckVars

\* What the import button sends is what the preview on the screen shows, but for
\* a late preview, a deleted deck and a retried import.
THEOREM ImportsWhatIsShown == Spec => []ImportWillBeAsPreviewed
<1>1. Init => ImportWillBeAsPreviewed
  BY DEF Init, ImportWillBeAsPreviewed
<1>2. QED
  BY <1>1, PreviewedStep, TypeCorrect, PTL DEF Spec

-----------------------------------------------------------------------------
(* Into which decks a card can be saved, whatever is lost or late.         *)

\* The part of SavesIntoOwnDecks that knows no exception.
SavesOnlyIntoMine == canSave /\ cur # NoDeck => cur \in Mine

LEMMA MineStep == SavesOnlyIntoMine /\ [Next]_vars => SavesOnlyIntoMine'
<1> SUFFICES ASSUME SavesOnlyIntoMine, [Next]_vars PROVE SavesOnlyIntoMine'
  OBVIOUS
<1>1. ASSUME UNCHANGED <<cur, canSave>> PROVE SavesOnlyIntoMine'
  BY <1>1 DEF SavesOnlyIntoMine
<1>2. ASSUME NEW d, NEW l, Select(d, l) PROVE SavesOnlyIntoMine'
  BY <1>2 DEF Select, SavesOnlyIntoMine
<1>3. ASSUME NEW i \in DOMAIN answers, OnList(i) PROVE SavesOnlyIntoMine'
  BY <1>1, <1>2, <1>3 DEF OnList, deckVars
<1>4. ASSUME NEW i \in DOMAIN answers, OnCreate(i) PROVE SavesOnlyIntoMine'
  BY <1>1, <1>2, <1>4 DEF OnCreate, deckVars
<1>5. ASSUME NEW i \in DOMAIN answers, OnDelete(i) PROVE SavesOnlyIntoMine'
  BY <1>5 DEF OnDelete, SavesOnlyIntoMine
<1>6. ASSUME NEW i \in DOMAIN answers, OnSave(i) PROVE SavesOnlyIntoMine'
  BY <1>6 DEF OnSave, SavesOnlyIntoMine
<1>7. ASSUME NEW d \in Decks, ClickDeck(d) PROVE SavesOnlyIntoMine'
  BY <1>2, <1>7 DEF ClickDeck
<1>8. CASE SaveCard
  BY <1>8 DEF SaveCard, SavesOnlyIntoMine
<1>9. CASE UNCHANGED vars
  BY <1>1, <1>9 DEF vars, pageVars, deckVars
<1>10. QED
  BY <1>1, <1>3, <1>4, <1>5, <1>6, <1>7, <1>8, <1>9
  DEF Next, Answered, Publish, CreateDeck, EnterSelection, ExitSelection, CheckDeck, Check,
      ConfirmDelete, ChooseFile, CancelFile, Import, Serve, OnPublish, OnPreview, OnImport,
      pageVars, deckVars

\* The save button works for nobody else's deck, after whatever answers.
THEOREM SavesOnlyMine == Spec => []SavesOnlyIntoMine
<1>1. Init => SavesOnlyIntoMine
  BY DEF Init, SavesOnlyIntoMine
<1>2. QED
  BY <1>1, MineStep, PTL DEF Spec
-----------------------------------------------------------------------------
(* The list and the server's decks.                                        *)

\* What an answer tells the list about a deck, and whether it says that it is there.
Tells(a, d) ==
  /\ a.result = "done"
  /\ a.req.op = "list" \/ (a.req.op \in {"create", "publish"} /\ a.req.deck = d)
ToldOf(a, d) == CASE a.req.op = "list"    -> a.list[d]
                  [] a.req.op = "publish" -> IF a.req.on THEN "published" ELSE "draft"
                  [] OTHER                -> "draft"
Finds(a, d)  == Tells(a, d) /\ a.req.op # "publish"

\* An answer that will count as a mishap, and one after which the list is read again.
Lost(a)    == a.result = "lost"
Reloads(a) == a.req.op \in {"delete", "import"} /\ a.result # "lost"

\* The list will be read again or be spoilt.
ListWaits ==
  \/ \E r \in sent : r.op = "list"
  \/ \E i \in DOMAIN answers : Lost(answers[i]) \/ Reloads(answers[i])

\* The answers that tell about a deck, those that tell how it is in the table, and the
\* same for those that can bring it into the list: publishing changes only what is there.
Telling(d)  == {a \in Answer : Tells(a, d)}
Right(d)    == {a \in Answer : ToldOf(a, d) = db[d]}
Finding(d)  == {a \in Answer : Finds(a, d)}
RightFor(d) == {a \in Answer : ToldOf(a, d) = "absent" => db[d] = "absent"}

\* The last answer on its way that tells about a deck tells how it is; if none tells,
\* the list shows it.
End == Len(answers) + 1
ListIs(d)      == list[d] = db[d] /\ NoneBefore(answers, Telling(d), End)
ListWillBe(d)  == LastBefore(answers, Telling(d), Right(d), End)
FoundIs(d)     == (list[d] = "absent" => db[d] = "absent") /\ NoneBefore(answers, Finding(d), End)
FoundWillBe(d) == LastBefore(answers, Finding(d), RightFor(d), End)

DeckInv(d) == (ListIs(d) \/ ListWillBe(d)) /\ (FoundIs(d) \/ FoundWillBe(d))

\* A read of the list is not refused, and what is deleted was asked to be.
AnswerInv ==
  \A i \in DOMAIN answers :
    /\ answers[i].req.op = "list" => answers[i].result # "refused"
    /\ answers[i].gone \subseteq answers[i].req.ids

ListInv ==
  /\ TypeOK /\ AnswerInv
  /\ Free({"lost", "order"}) => ListWaits \/ \A d \in Decks : DeckInv(d)

LEMMA ListInit == Init => ListInv
<1> SUFFICES ASSUME Init PROVE ListInv
  OBVIOUS
<1>1. Ask("list", NoDeck) \in sent /\ Ask("list", NoDeck).op = "list" /\ DOMAIN answers = {}
  BY DEF Init, Ask
<1>2. QED
  BY <1>1, TypeInit DEF ListInv, AnswerInv, ListWaits

\* What the table becomes, deck by deck.
LEMMA EffectsTell ==
  ASSUME TypeOK, NEW r \in Request, NEW new \in Effects(r), NEW d \in Decks
  PROVE  /\ r.op \in {"list", "preview", "save"} => new[d] = db[d]
         /\ r.op = "list" => new = db
         /\ r.op = "create" => new[d] = IF r.deck = d THEN "draft" ELSE db[d]
         /\ r.op = "publish" =>
              /\ new[d] = IF r.deck = d THEN (IF r.on THEN "published" ELSE "draft") ELSE db[d]
              /\ r.deck = d => db[d] # "absent"
         /\ r.op = "import" => (new[d] = "absent" => db[d] = "absent")
         /\ r.op = "delete" => (new[d] = "absent" \/ new[d] = db[d])
                               /\ (new[d] # db[d] => d \in r.ids)
<1>1. db \in Lists /\ NoDeck \notin Decks
  BY TeachAssumption DEF TypeOK
<1>2. CASE r.op \in {"list", "preview", "save"}
  BY <1>2 DEF Effects
<1>3. CASE r.op = "create"
  <2>1. new = [db EXCEPT ![r.deck] = "draft"]
    BY <1>3 DEF Effects
  <2>2. QED
    BY <1>1, <1>3, <2>1 DEF Lists
<1>4. CASE r.op = "publish"
  <2>1. new = [db EXCEPT ![r.deck] = IF r.on THEN "published" ELSE "draft"] /\ db[r.deck] # "absent"
    BY <1>4 DEF Effects, Editable
  <2>2. QED
    BY <1>1, <1>4, <2>1 DEF Lists
<1>5. CASE r.op = "delete"
  <2>1. PICK gone \in Deletable(r) : new = [x \in Decks |-> IF x \in gone THEN "absent" ELSE db[x]]
    BY <1>5 DEF Effects
  <2>2. gone \subseteq r.ids
    BY DEF Deletable
  <2>3. QED
    BY <1>5, <2>1, <2>2
<1>6. CASE r.op = "import"
  <2>1. new = db \/ \E x \in Mine : new = [db EXCEPT ![x] = "draft"]
    BY <1>6 DEF Effects
  <2>2. QED
    BY <1>1, <1>6, <2>1 DEF Lists
<1>7. QED
  BY <1>2, <1>3, <1>4, <1>5, <1>6 DEF Request, Ops

\* What an answer says of the table before and after its request.
Carried(r, a) ==
  /\ answers' = Append(answers, a) /\ a.req = r /\ sent' = sent \ {r}
  /\ r.op = "list" => a.list = db /\ db' = db /\ a.result # "refused"
  /\ a.gone \subseteq r.ids
  /\ a.result = "refused" => db' = db
  /\ a.result = "done" => \A d \in Decks :
       /\ Tells(a, d) => db'[d] = ToldOf(a, d)
       /\ ~Tells(a, d) /\ ~Reloads(a) => db'[d] = db[d]
       /\ Tells(a, d) /\ ~Finds(a, d) => db[d] # "absent" /\ db'[d] # "absent"
       /\ db'[d] = "absent" => db[d] = "absent" \/ (r.op = "delete" /\ d \in a.gone)

LEMMA DeckServed ==
  ASSUME TypeOK, NEW r \in sent, Serve(r)
  PROVE  \E a \in Answer : Carried(r, a)
<1>1. r \in Request /\ db \in Lists /\ r.op \in Ops
  BY DEF TypeOK, Request
<1>2. PICK result \in {"done", "refused", "lost"} :
        /\ answers' = Append(answers, Reply(r, result)) /\ sent' = sent \ {r}
        /\ \/ result # "refused" /\ db' \in Effects(r)
           \/ result = "refused" /\ r.op # "list" /\ db' = db
           \/ result = "lost" /\ db' = db
  BY DEF Serve
<1> DEFINE a == Reply(r, result)
<1>3. a.req = r /\ a.result = result
  BY DEF Reply
<1>4. a \in Answer
  <2>1. (IF r.op = "list" THEN db ELSE NoList) \in Lists
    BY <1>1 DEF Lists, NoList
  <2>2. QED
    BY <1>1, <2>1 DEF Reply, Answer
<1>5. r.op = "list" => a.list = db
  BY DEF Reply
<1>6. a.gone = IF r.op = "delete" /\ result = "done"
               THEN {d \in Decks : db[d] # "absent" /\ db'[d] = "absent"} ELSE {}
  BY DEF Reply
<1>7. answers' = Append(answers, a)
  BY <1>2
<1> HIDE DEF a
<1>8. CASE db' \in Effects(r)
  <2>1. ASSUME NEW d \in Decks
        PROVE  /\ r.op \in {"list", "preview", "save"} => db'[d] = db[d]
               /\ r.op = "list" => db' = db
               /\ r.op = "create" => db'[d] = IF r.deck = d THEN "draft" ELSE db[d]
               /\ r.op = "publish" =>
                    /\ db'[d] = IF r.deck = d THEN (IF r.on THEN "published" ELSE "draft") ELSE db[d]
                    /\ r.deck = d => db[d] # "absent"
               /\ r.op = "import" => (db'[d] = "absent" => db[d] = "absent")
               /\ r.op = "delete" => (db'[d] = "absent" \/ db'[d] = db[d])
                                     /\ (db'[d] # db[d] => d \in r.ids)
    BY <1>1, <1>8, EffectsTell
  <2>2. a.gone \subseteq r.ids
    BY <1>6, <2>1
  <2>3. ASSUME a.result = "done", NEW d \in Decks
        PROVE  /\ Tells(a, d) => db'[d] = ToldOf(a, d)
               /\ ~Tells(a, d) /\ ~Reloads(a) => db'[d] = db[d]
               /\ Tells(a, d) /\ ~Finds(a, d) => db[d] # "absent" /\ db'[d] # "absent"
               /\ db'[d] = "absent" => db[d] = "absent" \/ (r.op = "delete" /\ d \in a.gone)
    <3>1. CASE r.op \in {"list", "preview", "save"}
      BY <1>3, <1>5, <2>1, <2>3, <3>1 DEF Tells, ToldOf, Finds, Reloads
    <3>2. CASE r.op = "create"
      BY <1>3, <2>1, <2>3, <3>2 DEF Tells, ToldOf, Finds, Reloads
    <3>3. CASE r.op = "publish"
      BY <1>3, <2>1, <2>3, <3>3 DEF Tells, ToldOf, Finds, Reloads
    <3>4. CASE r.op = "import"
      BY <1>3, <2>1, <2>3, <3>4 DEF Tells, Finds, Reloads
    <3>5. CASE r.op = "delete"
      BY <1>3, <1>6, <2>1, <2>3, <3>5 DEF Tells, Finds, Reloads
    <3>6. QED
      BY <1>1, <3>1, <3>2, <3>3, <3>4, <3>5 DEF Ops
  <2>4. r.op = "list" => db' = db
    BY <1>8 DEF Effects
  <2>5. a.result = "refused" => db' = db
    BY <1>2, <1>3
  <2>6. r.op = "list" => a.result # "refused"
    BY <1>2, <1>3
  <2>7. Carried(r, a)
    BY <1>2, <1>3, <1>5, <1>7, <2>2, <2>3, <2>4, <2>5, <2>6 DEF Carried
  <2>8. QED
    BY <1>4, <2>7
<1>9. CASE result # "done" /\ db' = db /\ ~(result = "refused" /\ r.op = "list")
  <2>1. a.gone = {}
    BY <1>6, <1>9
  <2>2. Carried(r, a)
    BY <1>2, <1>3, <1>5, <1>7, <1>9, <2>1 DEF Carried
  <2>3. QED
    BY <1>4, <2>2
<1>10. QED
  BY <1>2, <1>8, <1>9

\* Handling an answer in its turn: no older one is about the list.
LEMMA InTurn ==
  ASSUME TypeOK, NEW i \in DOMAIN answers, ~Overtakes(answers, ListOps, i), answers[i].req.op \in ListOps
  PROVE  \A j \in DOMAIN answers : j < i => answers[j].req.op \notin ListOps
<1>1. i \in Nat /\ \A j \in DOMAIN answers : j < i => j \in 1 .. i - 1
  BY DEF TypeOK
<1>2. QED
  BY <1>1 DEF Overtakes

\* The server carries out a request.
LEMMA ServedAnswers ==
  ASSUME AnswerInv, TypeOK, NEW r \in sent, NEW a \in Answer, Carried(r, a)
  PROVE  AnswerInv'
<1>1. \A j \in DOMAIN answers' : answers'[j] = a \/ (j \in DOMAIN answers /\ answers'[j] = answers[j])
  BY AppendFrom DEF Carried, TypeOK
<1>2. QED
  BY <1>1 DEF AnswerInv, Carried

LEMMA ServedLists ==
  ASSUME ListInv, NEW r \in sent, Serve(r)
  PROVE  ListInv'
<1>0. TypeOK /\ AnswerInv /\ list' = list /\ mishaps' = mishaps
  BY DEF ListInv, Serve, pageVars, deckVars
<1>1. PICK a \in Answer : Carried(r, a)
  BY <1>0, DeckServed
<1>2. TypeOK'
  BY <1>0, TypeStep DEF Next
<1>3. AnswerInv'
  BY <1>0, <1>1, ServedAnswers
<1>4. answers \in Seq(Answer) /\ answers' = Append(answers, a) /\ End' = Len(answers) + 2
  BY <1>0, <1>1 DEF Carried, TypeOK, End
<1>5. ASSUME Free({"lost", "order"})', ~ListWaits' PROVE \A d \in Decks : DeckInv(d)'
  <2>1. /\ DOMAIN answers' = DOMAIN answers \union {Len(answers) + 1} /\ answers'[Len(answers) + 1] = a
        /\ \A j \in DOMAIN answers : answers'[j] = answers[j]
    BY <1>4, AppendAll
  <2>2. ~Lost(a) /\ ~Reloads(a)
    BY <1>5, <2>1 DEF ListWaits
  <2>3. ListWaits => r.op = "list" /\ a.result = "done"
    <3>1. \A i \in DOMAIN answers : ~Lost(answers[i]) /\ ~Reloads(answers[i])
      BY <1>5, <2>1 DEF ListWaits
    <3>2. ListWaits => r.op = "list"
      BY <1>1, <1>5, <3>1 DEF ListWaits, Carried
    <3>3. r.op = "list" => a.result = "done"
      BY <1>1, <2>2 DEF Carried, Answer, Lost
    <3>4. QED
      BY <3>2, <3>3
  <2>4. ASSUME NEW d \in Decks PROVE DeckInv(d)'
    <3>1. ListWaits => Finds(a, d)
      BY <1>1, <2>3 DEF Finds, Tells, Carried
    <3>2. ~ListWaits => DeckInv(d)
      BY <1>0, <1>5 DEF ListInv, Free
    <3>3. /\ Tells(a, d) => db'[d] = ToldOf(a, d)
          /\ ~Tells(a, d) => db'[d] = db[d]
          /\ Tells(a, d) /\ ~Finds(a, d) => db[d] # "absent" /\ db'[d] # "absent"
      <4>1. CASE a.result = "done"
        BY <1>1, <2>2, <4>1 DEF Carried
      <4>2. CASE a.result = "refused"
        BY <1>1, <4>2 DEF Carried, Tells
      <4>3. QED
        BY <2>2, <4>1, <4>2 DEF Lost, Answer
    <3>4. (ListIs(d) \/ ListWillBe(d))'
      <4>1. CASE Tells(a, d)
        <5>1. a \in Telling(d) \intersect Right(d)'
          BY <3>3, <4>1 DEF Telling, Right
        <5>2. LastBefore(answers', Telling(d), Right(d)', End')
          BY <1>4, <5>1, LastAdded
        <5>3. QED
          BY <5>2 DEF ListWillBe, Telling
      <4>2. CASE ~Tells(a, d)
        <5>1. a \notin Telling(d) /\ Right(d)' = Right(d)
          BY <3>3, <4>2 DEF Telling, Right
        <5>2. ListIs(d) \/ ListWillBe(d)
          BY <3>1, <3>2, <4>2 DEF DeckInv, Finds
        <5>3. NoneBefore(answers, Telling(d), End) => NoneBefore(answers', Telling(d), End')
          BY <1>4, <5>1, LastAdded DEF End
        <5>4. LastBefore(answers, Telling(d), Right(d), End) => LastBefore(answers', Telling(d), Right(d)', End')
          BY <1>4, <5>1, LastAdded DEF End
        <5>5. QED
          BY <1>0, <3>3, <4>2, <5>2, <5>3, <5>4 DEF ListIs, ListWillBe, Telling
      <4>3. QED
        BY <4>1, <4>2
    <3>5. (FoundIs(d) \/ FoundWillBe(d))'
      <4>1. CASE Finds(a, d)
        <5>1. a \in Finding(d) \intersect RightFor(d)'
          BY <3>3, <4>1 DEF Finding, RightFor, Finds
        <5>2. LastBefore(answers', Finding(d), RightFor(d)', End')
          BY <1>4, <5>1, LastAdded
        <5>3. QED
          BY <5>2 DEF FoundWillBe, Finding
      <4>2. CASE ~Finds(a, d)
        <5>1. db'[d] = "absent" <=> db[d] = "absent"
          BY <3>3, <4>2
        <5>2. a \notin Finding(d) /\ RightFor(d)' = RightFor(d)
          BY <4>2, <5>1 DEF Finding, RightFor
        <5>3. FoundIs(d) \/ FoundWillBe(d)
          BY <3>1, <3>2, <4>2 DEF DeckInv
        <5>4. NoneBefore(answers, Finding(d), End) => NoneBefore(answers', Finding(d), End')
          BY <1>4, <5>2, LastAdded DEF End
        <5>5. LastBefore(answers, Finding(d), RightFor(d), End) => LastBefore(answers', Finding(d), RightFor(d)', End')
          BY <1>4, <5>2, LastAdded DEF End
        <5>6. QED
          BY <1>0, <5>1, <5>3, <5>4, <5>5 DEF FoundIs, FoundWillBe, Finding
      <4>3. QED
        BY <4>1, <4>2
    <3>6. QED
      BY <3>4, <3>5 DEF DeckInv
  <2>5. QED
    BY <2>4
<1>6. QED
  BY <1>2, <1>3, <1>5 DEF ListInv

\* What the handlers have in common.
Taken(i) == \/ OnList(i) \/ OnDelete(i) \/ OnPublish(i) \/ OnCreate(i)
            \/ OnPreview(i) \/ OnImport(i) \/ OnSave(i)

LEMMA TakenShape ==
  ASSUME TypeOK, AnswerInv, NEW i \in DOMAIN answers, Taken(i)
  PROVE  /\ answers' = Without(answers, i) /\ db' = db /\ TypeOK' /\ AnswerInv'
         /\ sent \subseteq sent' /\ mishaps \subseteq mishaps' /\ Network(i) \subseteq mishaps'
         /\ Reloads(answers[i]) => \E r \in sent' : r.op = "list"
         /\ answers[i] \in Answer /\ answers[i].req.op \in Ops
         /\ End' = Len(answers) /\ Len(answers) \in 1 .. Len(answers) /\ From(i, Len(answers)) = End
<1>1. answers' = Without(answers, i) /\ db' = db
  BY DEF Taken, OnList, OnDelete, OnPublish, OnCreate, OnPreview, OnImport, OnSave, Take
<1>2. TypeOK'
  BY TypeStep DEF Taken, Answered, Next
<1>3. answers \in Seq(Answer) /\ answers[i] \in Answer
  BY DEF TypeOK
<1>4. ASSUME NEW j \in DOMAIN answers' PROVE \E k \in DOMAIN answers : answers'[j] = answers[k]
  BY <1>1, <1>3, <1>4, WithoutFrom
<1>5. AnswerInv'
  BY <1>4 DEF AnswerInv
<1>6. sent \subseteq sent' /\ mishaps \subseteq mishaps' /\ Network(i) \subseteq mishaps'
  BY DEF Taken, OnList, OnDelete, OnPublish, OnCreate, OnPreview, OnImport, OnSave, Happened, Reload
<1>7. Reloads(answers[i]) => \E r \in sent' : r.op = "list"
  <2>1. \A x : Ask("list", x).op = "list"
    BY DEF Ask
  <2>2. QED
    BY <2>1 DEF Reloads, Reload, Taken, OnList, OnDelete, OnPublish, OnCreate, OnPreview, OnImport, OnSave, Take
<1>8. answers[i].req.op \in Ops
  BY <1>3 DEF Answer, Request
<1>9. End' = Len(answers) /\ Len(answers) \in 1 .. Len(answers) /\ From(i, Len(answers)) = End
  <2>1. Len(answers) \in Nat /\ i \in 1 .. Len(answers)
    BY <1>3
  <2>2. Len(answers') = Len(answers) - 1
    BY <1>1, <2>1 DEF Without
  <2>3. QED
    BY <2>1, <2>2 DEF End, From
<1>10. QED
  BY <1>1, <1>2, <1>3, <1>5, <1>6, <1>7, <1>8, <1>9

\* What a handler that is not of a deletion does with the list is what the answer tells.
LEMMA HandlersTell ==
  ASSUME TypeOK, AnswerInv, NEW i \in DOMAIN answers, Taken(i), ~Lost(answers[i]),
         answers[i].req.op # "delete", NEW d \in Decks
  PROVE  /\ Tells(answers[i], d) /\ answers[i].req.op # "publish" => list'[d] = ToldOf(answers[i], d)
         /\ Tells(answers[i], d) /\ d \in Listed => list'[d] = ToldOf(answers[i], d)
         /\ ~Tells(answers[i], d) => list'[d] = list[d]
         /\ ~Finds(answers[i], d) => (list'[d] = "absent" <=> list[d] = "absent")
<1> DEFINE a == answers[i]
<1>1. list \in Lists /\ a \in Answer /\ a.result # "lost"
  BY DEF TypeOK, Lost
<1>2. CASE OnList(i)
  <2>1. a.req.op = "list" /\ a.result = "done" /\ list' = a.list
    BY <1>1, <1>2 DEF OnList, Take, AnswerInv, Answer
  <2>2. QED
    BY <2>1 DEF Tells, ToldOf, Finds
<1>3. CASE OnPublish(i)
  <2>1. a.req.op = "publish"
    BY <1>3 DEF OnPublish, Take
  <2>2. a.result = "done" /\ a.req.deck \in Listed =>
          list' = [list EXCEPT ![a.req.deck] = IF a.req.on THEN "published" ELSE "draft"]
    BY <1>3 DEF OnPublish
  <2>3. ~(a.result = "done" /\ a.req.deck \in Listed) => list' = list
    BY <1>3 DEF OnPublish
  <2>4. CASE a.result = "done" /\ a.req.deck = d /\ d \in Listed
    <3>1. list'[d] = (IF a.req.on THEN "published" ELSE "draft") /\ list[d] # "absent"
      BY <1>1, <2>2, <2>4 DEF Lists, Listed
    <3>2. Tells(a, d) /\ ToldOf(a, d) = IF a.req.on THEN "published" ELSE "draft"
      BY <2>1, <2>4 DEF Tells, ToldOf
    <3>3. QED
      BY <2>1, <3>1, <3>2
  <2>5. CASE ~(a.result = "done" /\ a.req.deck = d /\ d \in Listed)
    <3>1. list'[d] = list[d]
      BY <1>1, <2>2, <2>3, <2>5 DEF Lists
    <3>2. ~(Tells(a, d) /\ d \in Listed)
      BY <2>1, <2>5 DEF Tells
    <3>3. QED
      BY <2>1, <3>1, <3>2
  <2>6. QED
    BY <2>4, <2>5
<1>4. CASE OnCreate(i)
  <2>1. a.req.op = "create"
    BY <1>4 DEF OnCreate, Take
  <2>2. a.result = "done" => list' = [list EXCEPT ![a.req.deck] = "draft"]
    BY <1>4 DEF OnCreate
  <2>3. a.result # "done" => list' = list
    BY <1>4 DEF OnCreate, deckVars
  <2>4. CASE a.result = "done" /\ a.req.deck = d
    <3>1. list'[d] = "draft"
      BY <1>1, <2>2, <2>4 DEF Lists
    <3>2. Tells(a, d) /\ ToldOf(a, d) = "draft" /\ Finds(a, d)
      BY <2>1, <2>4 DEF Tells, ToldOf, Finds
    <3>3. QED
      BY <3>1, <3>2
  <2>5. CASE ~(a.result = "done" /\ a.req.deck = d)
    <3>1. list'[d] = list[d]
      BY <1>1, <2>2, <2>3, <2>5 DEF Lists
    <3>2. ~Tells(a, d)
      BY <2>1, <2>5 DEF Tells
    <3>3. QED
      BY <3>1, <3>2
  <2>6. QED
    BY <2>4, <2>5
<1>5. CASE OnPreview(i) \/ OnImport(i) \/ OnSave(i)
  <2>1. a.req.op \in {"preview", "import", "save"} /\ list' = list
    BY <1>5 DEF OnPreview, OnImport, OnSave, Take, deckVars
  <2>2. ~Tells(a, d)
    BY <2>1 DEF Tells
  <2>3. QED
    BY <2>1, <2>2
<1>6. QED
  BY <1>2, <1>3, <1>4, <1>5 DEF Taken, OnDelete, Take

LEMMA TakenLists ==
  ASSUME ListInv, NEW i \in DOMAIN answers, Taken(i)
  PROVE  ListInv'
<1> DEFINE a == answers[i]
<1>0. TypeOK /\ AnswerInv /\ answers \in Seq(Answer)
  BY DEF ListInv, TypeOK
<1>1. /\ answers' = Without(answers, i) /\ db' = db /\ TypeOK' /\ AnswerInv'
      /\ sent \subseteq sent' /\ mishaps \subseteq mishaps' /\ Network(i) \subseteq mishaps'
      /\ Reloads(a) => \E r \in sent' : r.op = "list"
      /\ a \in Answer /\ a.req.op \in Ops
      /\ End' = Len(answers) /\ Len(answers) \in 1 .. Len(answers) /\ From(i, Len(answers)) = End
  BY <1>0, TakenShape
<1>2. ASSUME Free({"lost", "order"})', ~ListWaits' PROVE \A d \in Decks : DeckInv(d)'
  <2>1. "lost" \notin mishaps' /\ "order" \notin mishaps' /\ Free({"lost", "order"})
    BY <1>1, <1>2 DEF Free
  <2>2. ~Overtakes(answers, ListOps, i) /\ ~Lost(a)
    BY <1>1, <2>1 DEF Network, NetworkMishaps, Lost
  <2>3. ~Reloads(a) /\ a.req.op # "delete"
    BY <1>1, <1>2, <2>2 DEF ListWaits, Reloads, Lost
  <2>4. ~ListWaits
    <3>1. ASSUME NEW k \in DOMAIN answers, Lost(answers[k]) \/ Reloads(answers[k]) PROVE FALSE
      <4>1. k # i
        BY <2>2, <2>3, <3>1
      <4>2. PICK j \in DOMAIN answers' : answers'[j] = answers[k]
        BY <1>0, <1>1, <4>1, WithoutKeeps
      <4>3. QED
        BY <1>2, <3>1, <4>2 DEF ListWaits
    <3>2. QED
      BY <1>1, <1>2, <3>1 DEF ListWaits
  <2>5. a.req.op \in ListOps => \A j \in DOMAIN answers : j < i => answers[j].req.op \notin ListOps
    BY <1>0, <2>2, InTurn
  <2>6. i < From(i, Len(answers))
    BY <1>0, <1>1 DEF End
  <2>7. ASSUME NEW d \in Decks PROVE DeckInv(d)'
    <3>1. DeckInv(d)
      BY <2>1, <2>4 DEF ListInv
    <3>2. /\ Tells(a, d) /\ a.req.op # "publish" => list'[d] = ToldOf(a, d)
          /\ Tells(a, d) /\ d \in Listed => list'[d] = ToldOf(a, d)
          /\ ~Tells(a, d) => list'[d] = list[d]
          /\ ~Finds(a, d) => (list'[d] = "absent" <=> list[d] = "absent")
      BY <1>0, <2>2, <2>3, HandlersTell
    <3>3. a \in Telling(d) => NoneBefore(answers, Telling(d), i)
      BY <2>5 DEF Telling, Tells, ListOps, NoneBefore
    <3>4. a \in Finding(d) => NoneBefore(answers, Finding(d), i)
      BY <2>5 DEF Finding, Finds, Tells, ListOps, NoneBefore
    <3>5. /\ NoneBefore(answers, Telling(d), End) => a \notin Telling(d) /\ NoneBefore(answers', Telling(d), End')
          /\ LastBefore(answers, Telling(d), Right(d), End) =>
               \/ a \in Telling(d) \intersect Right(d) /\ NoneBefore(answers', Telling(d), End')
               \/ LastBefore(answers', Telling(d), Right(d), End')
      BY <1>0, <1>1, <2>6, <3>3, LastTaken
    <3>6. /\ NoneBefore(answers, Finding(d), End) => a \notin Finding(d) /\ NoneBefore(answers', Finding(d), End')
          /\ LastBefore(answers, Finding(d), RightFor(d), End) =>
               \/ a \in Finding(d) \intersect RightFor(d) /\ NoneBefore(answers', Finding(d), End')
               \/ LastBefore(answers', Finding(d), RightFor(d), End')
      BY <1>0, <1>1, <2>6, <3>4, LastTaken
    <3>7. Telling(d)' = Telling(d) /\ Right(d)' = Right(d) /\ Finding(d)' = Finding(d) /\ RightFor(d)' = RightFor(d)
      BY <1>1 DEF Telling, Right, Finding, RightFor
    <3>8. (FoundIs(d) \/ FoundWillBe(d))'
      <4>1. CASE FoundIs(d)
        <5>1. a \notin Finding(d) /\ NoneBefore(answers', Finding(d), End')
          BY <3>6, <4>1 DEF FoundIs
        <5>2. ~Finds(a, d)
          BY <1>1, <5>1 DEF Finding
        <5>3. QED
          BY <1>1, <3>2, <3>7, <4>1, <5>1, <5>2 DEF FoundIs
      <4>2. CASE FoundWillBe(d)
        <5>1. CASE a \in Finding(d) \intersect RightFor(d) /\ NoneBefore(answers', Finding(d), End')
          <6>1. Finds(a, d) /\ (ToldOf(a, d) = "absent" => db[d] = "absent")
            BY <5>1 DEF Finding, RightFor
          <6>2. list'[d] = ToldOf(a, d)
            BY <3>2, <6>1 DEF Finds
          <6>3. QED
            BY <1>1, <3>7, <5>1, <6>1, <6>2 DEF FoundIs
        <5>2. QED
          BY <3>6, <3>7, <4>2, <5>1 DEF FoundWillBe
      <4>3. QED
        BY <3>1, <4>1, <4>2 DEF DeckInv
    <3>9. (ListIs(d) \/ ListWillBe(d))'
      <4>1. CASE ListIs(d)
        <5>1. a \notin Telling(d) /\ NoneBefore(answers', Telling(d), End')
          BY <3>5, <4>1 DEF ListIs
        <5>2. ~Tells(a, d)
          BY <1>1, <5>1 DEF Telling
        <5>3. QED
          BY <1>1, <3>2, <3>7, <4>1, <5>1, <5>2 DEF ListIs
      <4>2. CASE ListWillBe(d)
        <5>1. CASE a \in Telling(d) \intersect Right(d) /\ NoneBefore(answers', Telling(d), End')
          <6>1. Tells(a, d) /\ ToldOf(a, d) = db[d]
            BY <5>1 DEF Telling, Right
          <6>2. CASE a.req.op # "publish"
            BY <1>1, <3>2, <3>7, <5>1, <6>1, <6>2 DEF ListIs
          <6>3. CASE a.req.op = "publish"
            <7>1. a \notin Finding(d)
              BY <6>3 DEF Finding, Finds
            <7>2. ~LastBefore(answers', Finding(d), RightFor(d), End')
              BY <5>1 DEF LastBefore, NoneBefore, Finding, Telling, Finds
            <7>3. FoundIs(d)
              BY <3>1, <3>6, <7>1, <7>2 DEF DeckInv, FoundWillBe
            <7>4. db[d] # "absent"
              BY <6>1, <6>3 DEF ToldOf
            <7>5. d \in Listed
              BY <7>3, <7>4 DEF FoundIs, Listed
            <7>6. QED
              BY <1>1, <3>2, <3>7, <5>1, <6>1, <7>5 DEF ListIs
          <6>4. QED
            BY <6>2, <6>3
        <5>2. QED
          BY <3>5, <3>7, <4>2, <5>1 DEF ListWillBe
      <4>3. QED
        BY <3>1, <4>1, <4>2 DEF DeckInv
    <3>10. QED
      BY <3>8, <3>9 DEF DeckInv
  <2>8. QED
    BY <2>7
<1>3. QED
  BY <1>1, <1>2 DEF ListInv

\* What the professor does changes neither the table nor the list.
LEMMA Untouched ==
  ASSUME \/ \E d \in Decks : ClickDeck(d) \/ Publish(d) \/ CreateDeck(d)
         \/ EnterSelection \/ ExitSelection \/ CheckDeck \/ ConfirmDelete
         \/ \E f \in Files : ChooseFile(f)
         \/ CancelFile \/ Import \/ SaveCard \/ UNCHANGED vars
  PROVE  UNCHANGED <<db, answers, list, mishaps>> /\ sent \subseteq sent'
BY DEF ClickDeck, Publish, CreateDeck, EnterSelection, ExitSelection, CheckDeck, Check, ConfirmDelete,
  ChooseFile, CancelFile, Import, SaveCard, Send, vars, pageVars, deckVars

LEMMA StillLists ==
  ASSUME ListInv, TypeOK', UNCHANGED <<db, answers, list, mishaps>>, sent \subseteq sent'
  PROVE  ListInv'
<1>1. AnswerInv' /\ (ListWaits => ListWaits')
  BY DEF ListInv, AnswerInv, ListWaits
<1>2. \A d \in Decks : DeckInv(d) => DeckInv(d)'
  BY DEF DeckInv, ListIs, ListWillBe, FoundIs, FoundWillBe, Telling, Right, Finding, RightFor, End
<1>3. Free({"lost", "order"})' => Free({"lost", "order"})
  BY DEF Free
<1>4. QED
  BY <1>1, <1>2, <1>3 DEF ListInv

LEMMA ListStep == ListInv /\ [Next]_vars => ListInv'
<1> SUFFICES ASSUME ListInv, [Next]_vars PROVE ListInv'
  OBVIOUS
<1>1. TypeOK'
  BY TypeStep DEF ListInv
<1>2. ASSUME NEW r \in sent, Serve(r) PROVE ListInv'
  BY <1>2, ServedLists
<1>3. CASE Answered
  <2>1. PICK i \in DOMAIN answers : Taken(i)
    BY <1>3 DEF Answered, Taken
  <2>2. QED
    BY <2>1, TakenLists
<1>4. CASE ~Answered /\ ~(\E r \in sent : Serve(r))
  <2>1. UNCHANGED <<db, answers, list, mishaps>> /\ sent \subseteq sent'
    BY <1>4, Untouched DEF Next
  <2>2. QED
    BY <1>1, <2>1, StillLists
<1>5. QED
  BY <1>2, <1>3, <1>4

\* When no request is open the list on the screen is the server's, unless an answer was
\* lost or late (teach.js:222-279, 414-429, 488-522, 619-646): what is told by the answers
\* on their way, and by the reloads of the handlers that do not edit the list, is enough.
THEOREM ListIsTheServers == Spec => []ListIsServers
<1>1. ListInv => ListIsServers
  <2> SUFFICES ASSUME ListInv, Quiet, Free({"lost", "order"}) PROVE list = db
    BY DEF ListIsServers
  <2>1. DOMAIN answers = {} /\ ~ListWaits /\ list \in Lists /\ db \in Lists
    BY DEF Quiet, ListWaits, ListInv, TypeOK
  <2>2. \A d \in Decks : list[d] = db[d]
    BY <2>1 DEF ListInv, DeckInv, ListIs, ListWillBe, LastBefore
  <2>3. QED
    BY <2>1, <2>2 DEF Lists
<1>2. QED
  BY <1>1, ListInit, ListStep, PTL DEF Spec

-----------------------------------------------------------------------------
(* Saving into decks that exist.                                           *)

\* Answers by which the list loses or can gain a deck, and those that say it is not there.
Gone(a, d)  == a.req.op = "delete" /\ d \in a.gone
Moving(d)   == {a \in Answer : Finds(a, d) \/ Gone(a, d)}
Absences(d) == {a \in Answer : Gone(a, d) \/ (a.req.op = "list" /\ a.list[d] = "absent")}

\* The page will have learned that a deck is not there before it handles what is at
\* place n. Because that holds of every read that did not see the deck, a read never
\* takes the current deck out of the list: a deletion has done so, and has left it.
AbsentBefore(n, d) ==
  \/ list[d] = "absent" /\ NoneBefore(answers, Moving(d), n)
  \/ LastBefore(answers, Moving(d), Absences(d), n)

Misses(a, d) == a.req.op = "list" /\ a.result = "done" /\ a.list[d] = "absent"

GoneParts(d) ==
  /\ \A i \in DOMAIN answers : Misses(answers[i], d) => AbsentBefore(i, d)
  /\ db[d] = "absent" => AbsentBefore(End, d)

CurrentListed == canSave /\ cur # NoDeck => list[cur] # "absent"

AnyLost     == \E i \in DOMAIN answers : Lost(answers[i])
Undisturbed == Free({"lost", "order", "selection"}) /\ ~AnyLost

SavesInv ==
  /\ TypeOK /\ AnswerInv
  /\ Undisturbed => CurrentListed /\ \A d \in Decks : GoneParts(d)

LEMMA SavesInit == Init => SavesInv
<1> SUFFICES ASSUME Init PROVE SavesInv
  OBVIOUS
<1>1. DOMAIN answers = {} /\ \A d \in Decks : list[d] = "absent"
  BY DEF Init, NoList
<1>2. \A d \in Decks : GoneParts(d)
  BY <1>1 DEF GoneParts, AbsentBefore, NoneBefore
<1>3. CurrentListed
  BY DEF Init, CurrentListed
<1>4. QED
  BY <1>1, <1>2, <1>3, TypeInit DEF SavesInv, AnswerInv

LEMMA ServedSaves ==
  ASSUME SavesInv, NEW r \in sent, Serve(r)
  PROVE  SavesInv'
<1>0. TypeOK /\ AnswerInv /\ UNCHANGED <<list, cur, canSave, mishaps>>
  BY DEF SavesInv, Serve, pageVars, deckVars
<1>1. PICK a \in Answer : Carried(r, a)
  BY <1>0, DeckServed
<1>2. TypeOK'
  BY <1>0, TypeStep DEF Next
<1>3. AnswerInv'
  BY <1>0, <1>1, ServedAnswers
<1>4. answers \in Seq(Answer) /\ answers' = Append(answers, a) /\ End' = Len(answers) + 2
  BY <1>0, <1>1 DEF Carried, TypeOK, End
<1>5. /\ DOMAIN answers' = DOMAIN answers \union {End} /\ answers'[End] = a
      /\ \A j \in DOMAIN answers : answers'[j] = answers[j] /\ j \in 1 .. End
      /\ End \in 1 .. End
  BY <1>4, AppendAll DEF End
<1>6. ASSUME Undisturbed' PROVE CurrentListed' /\ \A d \in Decks : GoneParts(d)'
  <2>1. Undisturbed /\ ~Lost(a)
    BY <1>0, <1>5, <1>6 DEF Undisturbed, AnyLost, Free
  <2>2. CurrentListed'
    BY <1>0, <2>1 DEF SavesInv, CurrentListed
  <2>3. ASSUME NEW d \in Decks PROVE GoneParts(d)'
    <3>1. GoneParts(d)
      BY <2>1 DEF SavesInv
    <3>2. ASSUME NEW n \in 1 .. End, AbsentBefore(n, d) PROVE AbsentBefore(n, d)'
      <4>1. /\ NoneBefore(answers, Moving(d), n) => NoneBefore(answers', Moving(d), n)
            /\ LastBefore(answers, Moving(d), Absences(d), n) => LastBefore(answers', Moving(d), Absences(d), n)
        BY <1>4, <3>2, StillBefore DEF End
      <4>2. QED
        BY <1>0, <3>2, <4>1 DEF AbsentBefore, Moving, Absences
    <3>3. r.op = "list" => a.list = db /\ db' = db
      BY <1>1 DEF Carried
    <3>4. a.req = r
      BY <1>1 DEF Carried
    <3>5. ASSUME NEW j \in DOMAIN answers', Misses(answers'[j], d) PROVE AbsentBefore(j, d)'
      <4>1. CASE j \in DOMAIN answers
        BY <1>5, <3>1, <3>2, <3>5, <4>1 DEF GoneParts
      <4>2. CASE j = End
        <5>1. db[d] = "absent"
          BY <1>5, <3>3, <3>4, <3>5, <4>2 DEF Misses
        <5>2. QED
          BY <1>5, <3>1, <3>2, <4>2, <5>1 DEF GoneParts
      <4>3. QED
        BY <1>5, <4>1, <4>2
    <3>6. ASSUME db'[d] = "absent" PROVE (AbsentBefore(End, d))'
      <4>1. CASE a \in Moving(d)
        <5>1. a \in Absences(d)
          <6>1. CASE Gone(a, d)
            BY <6>1 DEF Absences
          <6>2. CASE Finds(a, d)
            <7>1. ToldOf(a, d) = "absent"
              BY <1>1, <3>6, <6>2 DEF Carried, Finds, Tells
            <7>2. a.req.op = "list" /\ a.list[d] = "absent"
              BY <6>2, <7>1 DEF ToldOf, Finds, Tells
            <7>3. QED
              BY <7>2 DEF Absences
          <6>3. QED
            BY <4>1, <6>1, <6>2 DEF Moving
        <5>2. LastBefore(answers', Moving(d), Absences(d), End')
          BY <1>4, <4>1, <5>1, LastAdded
        <5>3. QED
          BY <5>2 DEF AbsentBefore, Moving, Absences
      <4>2. CASE a \notin Moving(d)
        <5>1. ~Gone(a, d)
          BY <4>2 DEF Moving
        <5>2. db[d] = "absent"
          <6>1. CASE a.result = "done"
            BY <1>1, <3>4, <3>6, <5>1, <6>1 DEF Carried, Gone
          <6>2. CASE a.result = "refused"
            BY <1>1, <3>6, <6>2 DEF Carried
          <6>3. QED
            BY <2>1, <6>1, <6>2 DEF Lost, Answer
        <5>3. AbsentBefore(End, d)
          BY <3>1, <5>2 DEF GoneParts
        <5>4. /\ NoneBefore(answers, Moving(d), End) => NoneBefore(answers', Moving(d), End')
              /\ LastBefore(answers, Moving(d), Absences(d), End) => LastBefore(answers', Moving(d), Absences(d), End')
          BY <1>4, <4>2, LastAdded DEF End
        <5>5. QED
          BY <1>0, <5>3, <5>4 DEF AbsentBefore, Moving, Absences
      <4>3. QED
        BY <4>1, <4>2
    <3>7. QED
      BY <3>5, <3>6 DEF GoneParts
  <2>4. QED
    BY <2>2, <2>3
<1>7. QED
  BY <1>2, <1>3, <1>6 DEF SavesInv

\* What an undisturbed handler does with the list, as far as a deck being in it goes.
LEMMA HandlersMove ==
  ASSUME TypeOK, AnswerInv, NEW i \in DOMAIN answers, Taken(i), ~Lost(answers[i]),
         answers[i].req.op = "delete" => sel = answers[i].req.ids, NEW d \in Decks
  PROVE  /\ answers[i] \notin Moving(d) => (list[d] = "absent" => list'[d] = "absent")
         /\ answers[i] \in Moving(d) \intersect Absences(d) => list'[d] = "absent"
<1> DEFINE a == answers[i]
<1>1. a \in Answer /\ a.result # "lost"
  BY DEF TypeOK, Lost
<1>2. CASE a.req.op = "delete"
  <2>1. OnDelete(i)
    BY <1>2 DEF Taken, OnList, OnPublish, OnCreate, OnPreview, OnImport, OnSave, Take
  <2>2. list' = IF a.gone = {} THEN list
                ELSE [x \in Decks |-> IF x \in sel \ (a.req.ids \ a.gone) THEN "absent" ELSE list[x]]
    BY <1>1, <2>1 DEF OnDelete
  <2>3. list[d] = "absent" => list'[d] = "absent"
    BY <2>2
  <2>4. a \in Moving(d) => d \in a.gone
    BY <1>2 DEF Moving, Gone, Finds, Tells
  <2>5. d \in a.gone => d \in sel \ (a.req.ids \ a.gone)
    BY <1>2 DEF AnswerInv
  <2>6. QED
    BY <2>2, <2>3, <2>4, <2>5
<1>3. CASE a.req.op # "delete"
  <2>1. ~Finds(a, d) => (list'[d] = "absent" <=> list[d] = "absent")
    BY <1>3, HandlersTell
  <2>2. a \notin Moving(d) => ~Finds(a, d)
    BY <1>1 DEF Moving
  <2>3. a \in Moving(d) \intersect Absences(d) => list'[d] = "absent"
    <3>1. SUFFICES ASSUME a \in Moving(d), a \in Absences(d) PROVE list'[d] = "absent"
      OBVIOUS
    <3>2. Finds(a, d) /\ a.req.op = "list" /\ a.list[d] = "absent"
      BY <1>3, <3>1 DEF Moving, Absences, Gone
    <3>3. list'[d] = ToldOf(a, d)
      BY <1>3, <3>2, HandlersTell DEF Finds
    <3>4. QED
      BY <3>2, <3>3 DEF ToldOf
  <2>4. QED
    BY <2>1, <2>2, <2>3
<1>4. QED
  BY <1>2, <1>3

LEMMA TakenSaves ==
  ASSUME SavesInv, NEW i \in DOMAIN answers, Taken(i)
  PROVE  SavesInv'
<1> DEFINE a == answers[i]
<1>0. TypeOK /\ AnswerInv /\ answers \in Seq(Answer)
  BY DEF SavesInv, TypeOK
<1>1. /\ answers' = Without(answers, i) /\ db' = db /\ TypeOK' /\ AnswerInv'
      /\ sent \subseteq sent' /\ mishaps \subseteq mishaps' /\ Network(i) \subseteq mishaps'
      /\ a \in Answer /\ a.req.op \in Ops
      /\ End' = Len(answers) /\ Len(answers) \in 1 .. Len(answers) /\ From(i, Len(answers)) = End
  BY <1>0, TakenShape
<1>2. ASSUME Undisturbed' PROVE CurrentListed' /\ \A d \in Decks : GoneParts(d)'
  <2>1. /\ "lost" \notin mishaps' /\ "order" \notin mishaps' /\ "selection" \notin mishaps'
        /\ Free({"lost", "order", "selection"})
    BY <1>1, <1>2 DEF Undisturbed, Free
  <2>2. ~Overtakes(answers, ListOps, i) /\ ~Lost(a) /\ a.result # "lost"
    BY <1>1, <2>1 DEF Network, NetworkMishaps, Lost
  <2>3. ~AnyLost
    <3>1. ASSUME NEW k \in DOMAIN answers, Lost(answers[k]) PROVE FALSE
      <4>1. k # i
        BY <2>2, <3>1
      <4>2. PICK j \in DOMAIN answers' : answers'[j] = answers[k]
        BY <1>0, <1>1, <4>1, WithoutKeeps
      <4>3. QED
        BY <1>2, <3>1, <4>2 DEF Undisturbed, AnyLost
    <3>2. QED
      BY <3>1 DEF AnyLost
  <2>4. CurrentListed /\ \A d \in Decks : GoneParts(d)
    BY <2>1, <2>3 DEF SavesInv, Undisturbed
  <2>5. a.req.op = "delete" => sel = a.req.ids
    <3>1. ASSUME a.req.op = "delete", sel # a.req.ids PROVE FALSE
      <4>1. OnDelete(i)
        BY <3>1 DEF Taken, OnList, OnPublish, OnCreate, OnPreview, OnImport, OnSave, Take
      <4>2. "selection" \in mishaps'
        BY <2>2, <3>1, <4>1 DEF OnDelete, Happened
      <4>3. QED
        BY <2>1, <4>2
    <3>2. QED
      BY <3>1
  <2>6. a.req.op \in ListOps => \A j \in DOMAIN answers : j < i => answers[j].req.op \notin ListOps
    BY <1>0, <2>2, InTurn
  <2>7. ASSUME NEW d \in Decks PROVE a \in Moving(d) => NoneBefore(answers, Moving(d), i)
    <3>1. \A x \in Moving(d) : x.req.op \in ListOps
      BY DEF Moving, Finds, Tells, Gone, ListOps
    <3>2. QED
      BY <2>6, <3>1 DEF NoneBefore
  <2>8. ASSUME NEW d \in Decks PROVE GoneParts(d)'
    <3>1. /\ a \notin Moving(d) => (list[d] = "absent" => list'[d] = "absent")
          /\ a \in Moving(d) \intersect Absences(d) => list'[d] = "absent"
      BY <1>0, <2>2, <2>5, HandlersMove
    <3>2. ASSUME NEW m \in 1 .. Len(answers), a \in Moving(d) => i < From(i, m),
                 AbsentBefore(From(i, m), d)
          PROVE  AbsentBefore(m, d)'
      <4>1. a \in Moving(d) => i < From(i, m) /\ NoneBefore(answers, Moving(d), i)
        BY <2>7, <3>2
      <4>2. /\ NoneBefore(answers, Moving(d), From(i, m)) =>
                 a \notin Moving(d) /\ NoneBefore(answers', Moving(d), m)
            /\ LastBefore(answers, Moving(d), Absences(d), From(i, m)) =>
                 \/ a \in Moving(d) \intersect Absences(d) /\ NoneBefore(answers', Moving(d), m)
                 \/ LastBefore(answers', Moving(d), Absences(d), m)
        BY <1>0, <1>1, <4>1, LastTaken
      <4>3. QED
        BY <3>1, <3>2, <4>2 DEF AbsentBefore, Moving, Absences
    <3>3. ASSUME NEW j \in DOMAIN answers', Misses(answers'[j], d) PROVE AbsentBefore(j, d)'
      <4>1. From(i, j) \in DOMAIN answers /\ From(i, j) # i /\ answers'[j] = answers[From(i, j)]
        BY <1>0, <1>1, WithoutPlace
      <4>2. j \in 1 .. Len(answers) /\ i \in Nat /\ From(i, j) \in Nat
        BY <1>0, <1>1, <4>1 DEF Without
      <4>3. AbsentBefore(From(i, j), d)
        BY <2>4, <3>3, <4>1 DEF GoneParts
      <4>4. a \in Moving(d) => i < From(i, j)
        <5>1. answers[From(i, j)].req.op \in ListOps
          BY <3>3, <4>1 DEF Misses, ListOps
        <5>2. a \in Moving(d) => a.req.op \in ListOps
          BY DEF Moving, Finds, Tells, Gone, ListOps
        <5>3. a \in Moving(d) => ~(From(i, j) < i)
          BY <2>6, <4>1, <5>1, <5>2
        <5>4. QED
          BY <4>1, <4>2, <5>3
      <4>5. QED
        BY <3>2, <4>2, <4>3, <4>4
    <3>4. ASSUME db'[d] = "absent" PROVE (AbsentBefore(End, d))'
      <4>1. AbsentBefore(End, d)
        BY <1>1, <2>4, <3>4 DEF GoneParts
      <4>2. i < From(i, Len(answers))
        BY <1>0, <1>1 DEF End
      <4>3. PICK m \in 1 .. Len(answers) : m = Len(answers)
        BY <1>1
      <4>4. AbsentBefore(m, d)'
        BY <1>1, <3>2, <4>1, <4>2, <4>3
      <4>5. QED
        BY <1>1, <4>3, <4>4 DEF AbsentBefore
    <3>5. QED
      BY <3>3, <3>4 DEF GoneParts
  <2>9. CurrentListed'
    <3>1. ASSUME NEW x, NEW l, Select(x, l), list' = l PROVE CurrentListed'
      BY <3>1 DEF Select, CurrentListed
    <3>2. ASSUME UNCHANGED <<cur, canSave>>, cur \in Decks => a \notin Moving(cur) \/ list'[cur] # "absent",
                 a.req.op # "delete" PROVE CurrentListed'
      <4>1. CASE cur \in Decks
        <5>1. ~Finds(a, cur) => (list'[cur] = "absent" <=> list[cur] = "absent")
          BY <1>0, <2>2, <3>2, <4>1, HandlersTell
        <5>2. QED
          BY <1>1, <2>4, <3>2, <4>1, <5>1 DEF CurrentListed, Moving
      <4>2. CASE cur = NoDeck
        BY <3>2, <4>2 DEF CurrentListed
      <4>3. QED
        BY <1>0, <4>1, <4>2 DEF TypeOK
    <3>3. CASE OnList(i)
      <4>1. a.req.op = "list" /\ a.result = "done" /\ list' = a.list
        BY <1>0, <1>1, <2>2, <3>3 DEF OnList, Take, AnswerInv, Answer
      <4>2. CASE a.req.deck # NoDeck
        BY <2>2, <3>1, <3>3, <4>1, <4>2 DEF OnList
      <4>3. CASE a.req.deck = NoDeck
        <5>1. UNCHANGED <<cur, canSave>>
          BY <2>2, <3>3, <4>3 DEF OnList
        <5>2. ASSUME cur \in Decks, canSave, list'[cur] = "absent" PROVE FALSE
          <6>1. AbsentBefore(i, cur)
            BY <2>4, <4>1, <5>2 DEF GoneParts, Misses
          <6>2. a \in Moving(cur)
            BY <1>1, <4>1 DEF Moving, Finds, Tells
          <6>3. NoneBefore(answers, Moving(cur), i)
            BY <2>7, <5>2, <6>2
          <6>4. list[cur] = "absent"
            BY <6>1, <6>3 DEF AbsentBefore, LastBefore, NoneBefore
          <6>5. QED
            BY <2>4, <5>2, <6>4, TeachAssumption DEF CurrentListed
        <5>3. QED
          BY <1>0, <5>1, <5>2 DEF CurrentListed, TypeOK
      <4>4. QED
        BY <4>2, <4>3
    <3>4. CASE OnCreate(i)
      <4>1. CASE a.result = "done"
        BY <3>1, <3>4, <4>1 DEF OnCreate
      <4>2. CASE a.result # "done"
        <5>1. UNCHANGED <<list, cur, canSave>>
          BY <3>4, <4>2 DEF OnCreate, deckVars
        <5>2. QED
          BY <2>4, <5>1 DEF CurrentListed
      <4>3. QED
        BY <4>1, <4>2
    <3>5. CASE OnDelete(i)
      <4> DEFINE gone == sel \ (a.req.ids \ a.gone)
      <4>1. /\ canSave' = canSave
            /\ cur' = IF a.gone # {} /\ cur \in gone THEN NoDeck ELSE cur
            /\ list' = IF a.gone = {} THEN list
                       ELSE [d \in Decks |-> IF d \in gone THEN "absent" ELSE list[d]]
        BY <2>2, <3>5 DEF OnDelete
      <4> HIDE DEF gone
      <4>2. QED
        BY <1>0, <2>4, <4>1 DEF CurrentListed, TypeOK
    <3>6. CASE OnPublish(i)
      <4>1. UNCHANGED <<cur, canSave>> /\ a.req.op = "publish"
        BY <3>6 DEF OnPublish, Take
      <4>2. \A d : a \notin Moving(d)
        BY <4>1 DEF Moving, Finds, Tells, Gone
      <4>3. QED
        BY <3>2, <4>1, <4>2
    <3>7. CASE OnPreview(i) \/ OnImport(i)
      <4>1. UNCHANGED <<list, cur, canSave>>
        BY <3>7 DEF OnPreview, OnImport, deckVars
      <4>2. QED
        BY <2>4, <4>1 DEF CurrentListed
    <3>8. CASE OnSave(i)
      BY <3>8 DEF OnSave, CurrentListed, Listed
    <3>9. QED
      BY <3>3, <3>4, <3>5, <3>6, <3>7, <3>8 DEF Taken
  <2>10. QED
    BY <2>8, <2>9
<1>3. QED
  BY <1>1, <1>2 DEF SavesInv

LEMMA SavesStep == SavesInv /\ [Next]_vars => SavesInv'
<1> SUFFICES ASSUME SavesInv, [Next]_vars PROVE SavesInv'
  OBVIOUS
<1>1. TypeOK'
  BY TypeStep DEF SavesInv
<1>2. ASSUME NEW r \in sent, Serve(r) PROVE SavesInv'
  BY <1>2, ServedSaves
<1>3. CASE Answered
  <2>1. PICK i \in DOMAIN answers : Taken(i)
    BY <1>3 DEF Answered, Taken
  <2>2. QED
    BY <2>1, TakenSaves
<1>4. CASE ~Answered /\ ~(\E r \in sent : Serve(r))
  <2>1. UNCHANGED <<db, answers, list, mishaps>>
    BY <1>4, Untouched DEF Next
  <2>2. AnswerInv' /\ (Undisturbed' => Undisturbed)
    BY <2>1 DEF SavesInv, AnswerInv, Undisturbed, AnyLost, Free
  <2>3. \A d \in Decks : GoneParts(d) => GoneParts(d)'
    BY <2>1 DEF GoneParts, AbsentBefore, Moving, Absences, End
  <2>4. CurrentListed => CurrentListed'
    <3>1. CASE UNCHANGED <<cur, canSave>>
      BY <2>1, <3>1 DEF CurrentListed
    <3>2. ASSUME NEW d \in Decks, ClickDeck(d) PROVE CurrentListed'
      BY <3>2 DEF ClickDeck, Select, CurrentListed
    <3>3. CASE SaveCard
      BY <3>3 DEF SaveCard, CurrentListed
    <3>4. QED
      BY <1>4, <3>1, <3>2, <3>3
      DEF Next, Publish, CreateDeck, EnterSelection, ExitSelection, CheckDeck, Check, ConfirmDelete,
          ChooseFile, CancelFile, Import, vars, pageVars, deckVars
  <2>5. QED
    BY <1>1, <2>2, <2>3, <2>4 DEF SavesInv
<1>5. QED
  BY <1>2, <1>3, <1>4

\* A card can be saved only into a deck of the professor's (teach.js:749) and, when no
\* request is open, only into one that exists, unless an answer was lost or late or the
\* selection was changed while its decks were being deleted (teach.js:250-255).
THEOREM SavesIntoOwn == Spec => []SavesIntoOwnDecks
<1>1. SavesInv /\ SavesOnlyIntoMine => SavesIntoOwnDecks
  <2> SUFFICES ASSUME SavesInv, SavesOnlyIntoMine, canSave, cur # NoDeck
               PROVE  SavesIntoOwnDecks
    BY DEF SavesIntoOwnDecks
  <2>1. ASSUME Quiet, Free({"lost", "order", "selection"}), db[cur] = "absent" PROVE FALSE
    <3>1. DOMAIN answers = {} /\ Undisturbed /\ cur \in Decks
      BY <2>1 DEF Quiet, Undisturbed, AnyLost, SavesInv, TypeOK
    <3>2. AbsentBefore(End, cur) /\ list[cur] # "absent"
      BY <2>1, <3>1 DEF SavesInv, GoneParts, CurrentListed
    <3>3. QED
      BY <3>1, <3>2 DEF AbsentBefore, LastBefore
  <2>2. QED
    BY <2>1 DEF SavesIntoOwnDecks, SavesOnlyIntoMine
<1>2. QED
  BY <1>1, SavesInit, SavesStep, SavesOnlyMine, PTL DEF Spec
==============================================================================
