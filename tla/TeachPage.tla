------------------------------ MODULE TeachPage ------------------------------
(***************************************************************************)
(* The page on which a professor creates, publishes and deletes decks,     *)
(* imports CSV files and writes cards (teach.js), with the table of decks  *)
(* behind it.                                                              *)
(*                                                                         *)
(* The page holds a copy of the list, a current deck, a selection, a file  *)
(* and a preview of it. Every request is answered later: the server acts   *)
(* on what was sent, and the handler of the answer works on whatever the   *)
(* page holds by then. Answers may be delivered in another order than the  *)
(* server gave them, and any of them may be lost. `mishaps` remembers      *)
(* which of these overlaps have happened, so that the properties say       *)
(* exactly which one breaks what.                                          *)
(*                                                                         *)
(* One professor edits in one tab, and begins without decks; those of      *)
(* others stay as they are. Two equal reads of the list that are both on   *)
(* their way are one; the rest of the page's data (names, cards, the text  *)
(* of a preview) is left out, and so is a list that the server refuses: it *)
(* makes allDecks an error object, on which the page breaks.               *)
(***************************************************************************)
EXTENDS Answers, FiniteSets

CONSTANTS
  Decks,       \* decks that exist or may be created
  Mine,        \* those the professor may edit, or would own
  Files,       \* CSV files at hand
  NoDeck, NoFile,
  MaxOpen,     \* bound: requests without an answer
  MaxMishaps   \* bound: kinds of mishap in one behaviour

ASSUME TeachAssumption ==
  /\ Mine \subseteq Decks /\ NoDeck \notin Decks /\ NoFile \notin Files
  /\ MaxOpen \in Nat /\ MaxMishaps \in Nat

VARIABLES
  db,         \* table decks: is a deck there, and published
  sent,       \* requests the server has not carried out
  answers,    \* answers on their way to the page, in the order the server gave them
  list,       \* allDecks
  cur,        \* currentDeckID
  canSave,    \* !btnSave.disabled
  selecting,  \* selectionMode
  sel,        \* selectedIds
  canDelete,  \* !btnBulkDelete.disabled
  file,       \* currentFile
  preview,    \* file and deck of the preview on the screen
  canImport,  \* !btnImport.disabled
  mishaps     \* history: the overlaps and losses there have been

deckVars    == <<list, cur, canSave>>
selectVars  == <<selecting, sel, canDelete>>
fileVars    == <<file, preview, canImport>>
pageVars    == <<deckVars, selectVars, fileVars>>
vars        == <<db, sent, answers, pageVars, mishaps>>

NoPreview   == [file |-> NoFile, deck |-> NoDeck]
Lists       == [Decks -> {"absent", "draft", "published"}]
NoList      == [d \in Decks |-> "absent"]
Ops         == {"list", "create", "publish", "delete", "preview", "import", "save"}
ListOps     == {"list", "create", "publish", "delete"}
Request     == [op : Ops, deck : Decks \union {NoDeck}, file : Files \union {NoFile},
                ids : SUBSET Decks, on : BOOLEAN]
\* gone: the decks a bulk delete has deleted; list: what a read of the list saw.
Answer      == [req : Request, result : {"done", "refused", "lost"},
                gone : SUBSET Decks, list : Lists]
Mishaps     == {"order", "lost", "selection", "stale", "reset", "retry"}

Ask(op, d)  == [op |-> op, deck |-> d, file |-> NoFile, ids |-> {}, on |-> FALSE]
Listed      == {d \in Decks : list[d] # "absent"}
Open        == Cardinality(sent) + Len(answers)
Send(r)     == Open < MaxOpen /\ sent' = sent \union {r}
Happened(S) == /\ mishaps' = mishaps \union S
               /\ Cardinality(mishaps') <= MaxMishaps

Init ==
  /\ db = [d \in Decks |-> IF d \in Mine THEN "absent" ELSE "published"]
  /\ sent = {Ask("list", NoDeck)} /\ answers = <<>>
  /\ list = NoList /\ cur = NoDeck /\ canSave = TRUE
  /\ selecting = FALSE /\ sel = {} /\ canDelete = FALSE
  /\ file = NoFile /\ preview = NoPreview /\ canImport = FALSE
  /\ mishaps = {}

-----------------------------------------------------------------------------
(* The server. GetDeck, PatchDeck, DeleteDeck, CreateCard refuse a deck    *)
(* that is not there or not the caller's.                                  *)

Editable(d) == d \in Mine /\ db[d] # "absent"

\* The decks a bulk delete may leave deleted: each is a request of its own, any
\* of which may fail. Atomic here, the page looks only when all are answered.
Deletable(r) == SUBSET {d \in r.ids : Editable(d)}

\* What carrying out r leaves in the table, if it is not refused.
Effects(r) ==
  CASE r.op = "create"  -> IF db[r.deck] = "absent"
                           THEN {[db EXCEPT ![r.deck] = "draft"]} ELSE {}
    [] r.op = "publish" -> IF Editable(r.deck)
                           THEN {[db EXCEPT ![r.deck] = IF r.on THEN "published" ELSE "draft"]}
                           ELSE {}
    [] r.op = "delete"  -> {[d \in Decks |-> IF d \in gone THEN "absent" ELSE db[d]] :
                              gone \in Deletable(r)}
    [] r.op = "import" /\ r.deck = NoDeck ->   \* the rows name their deck: FindOrCreateByName
         {db} \union {[db EXCEPT ![d] = "draft"] : d \in {m \in Mine : db[m] = "absent"}}
    [] r.op = "import" /\ r.deck # NoDeck -> IF Editable(r.deck) THEN {db} ELSE {}
    [] r.op = "preview" -> IF r.deck = NoDeck \/ Editable(r.deck) THEN {db} ELSE {}
    [] r.op = "save"    -> IF Editable(r.deck) THEN {db} ELSE {}
    [] OTHER            -> {db}

Reply(r, result) ==
  [req |-> r, result |-> result,
   gone |-> IF r.op = "delete" /\ result = "done"
            THEN {d \in Decks : db[d] # "absent" /\ db'[d] = "absent"} ELSE {},
   list |-> IF r.op = "list" THEN db ELSE NoList]

\* Whatever the reason, a request may fail (no valid row, an error, no memory),
\* and an answer may be lost after the request was carried out.
Serve(r) ==
  /\ r \in sent /\ sent' = sent \ {r}
  /\ \/ /\ db' \in Effects(r)
        /\ \E result \in {"done", "lost"} : answers' = Append(answers, Reply(r, result))
     \/ /\ r.op # "list" /\ db' = db
        /\ answers' = Append(answers, Reply(r, "refused"))
     \/ /\ db' = db
        /\ answers' = Append(answers, Reply(r, "lost"))
  /\ UNCHANGED <<pageVars, mishaps>>

-----------------------------------------------------------------------------
(* What the professor does.                                                *)

\* Mutant: the preview is forgotten as a file, not as a file and a deck.
ClearPreviewFileOnly == file' = NoFile /\ preview' = NoFile /\ UNCHANGED canImport

ClearPreview == file' = NoFile /\ preview' = NoPreview /\ UNCHANGED canImport

\* Mutant: the file chosen for the last deck stays.
SelectKeepsFile(d, l) ==
  /\ cur' = d /\ canSave' = (d \in Mine /\ l[d] # "absent")
  /\ UNCHANGED fileVars

\* selectDeck: l is the list by which ownership is derived
Select(d, l) ==
  /\ cur' = d /\ canSave' = (d \in Mine /\ l[d] # "absent")
  /\ ClearPreview

ClickDeck(d) ==
  /\ d \in Listed /\ ~selecting
  /\ Select(d, list)
  /\ UNCHANGED <<db, sent, answers, list, selectVars, mishaps>>

EnterSelection ==
  /\ ~selecting /\ selecting' = TRUE /\ sel' = {} /\ canDelete' = FALSE
  /\ UNCHANGED <<db, sent, answers, deckVars, fileVars, mishaps>>

ExitSelection ==
  /\ selecting /\ selecting' = FALSE /\ sel' = {}
  /\ UNCHANGED <<db, sent, answers, deckVars, canDelete, fileVars, mishaps>>

\* The click on a deck in selection mode, and "Selecionar todos".
Check(S) ==
  /\ selecting /\ S # {} /\ S \subseteq Mine \intersect Listed
  /\ sel' = IF S \subseteq sel THEN sel \ S ELSE sel \union S
  /\ canDelete' = (sel' # {})
  /\ UNCHANGED <<db, sent, answers, deckVars, selecting, fileVars, mishaps>>

CheckDeck == \/ \E d \in Decks : Check({d})
             \/ Check(Mine \intersect Listed)

ConfirmDelete ==
  /\ selecting /\ sel # {} /\ canDelete /\ canDelete' = FALSE
  /\ Send([Ask("delete", NoDeck) EXCEPT !.ids = sel])
  /\ UNCHANGED <<db, answers, deckVars, selecting, sel, fileVars, mishaps>>

\* The button is disabled until its answer, or until any render of the grid.
Publish(d) ==
  /\ d \in Mine \intersect Listed /\ ~selecting
  /\ Send([Ask("publish", d) EXCEPT !.on = (list[d] = "draft")])
  /\ UNCHANGED <<db, answers, pageVars, mishaps>>

\* btnCreate is disabled until the answer, but Enter in the name's field asks
\* again; a name that is taken is the server's to refuse.
CreateDeck(d) ==
  /\ d \in Mine
  /\ Send(Ask("create", d))
  /\ UNCHANGED <<db, answers, pageVars, mishaps>>

\* handleFile and runPreview
ChooseFile(f) ==
  /\ file' = f /\ preview' = NoPreview /\ canImport' = FALSE
  /\ Send([Ask("preview", cur) EXCEPT !.file = f])
  /\ UNCHANGED <<db, answers, deckVars, selectVars, mishaps>>

CancelFile ==
  /\ file # NoFile /\ ClearPreview
  /\ UNCHANGED <<db, sent, answers, deckVars, selectVars, mishaps>>

Import ==
  /\ canImport /\ file # NoFile /\ canImport' = FALSE
  /\ Send([Ask("import", cur) EXCEPT !.file = file])
  /\ UNCHANGED <<db, answers, deckVars, selectVars, file, preview, mishaps>>

\* saveCard: without a current deck it only shows a message.
SaveCard ==
  /\ canSave /\ cur # NoDeck /\ canSave' = FALSE
  /\ Send(Ask("save", cur))
  /\ UNCHANGED <<db, answers, list, cur, selectVars, fileVars, mishaps>>

-----------------------------------------------------------------------------
(* The handlers of the answers. Take(i) removes the answer and counts the  *)
(* two mishaps of the network.                                             *)

Network(i) == NetworkMishaps(answers, ListOps, i)

Take(i, op) == /\ i \in DOMAIN answers /\ answers[i].req.op = op
               /\ answers' = Without(answers, i)
               /\ UNCHANGED db

\* Mutant: the list is left as it is.
ReloadNothing(d) == UNCHANGED sent

Reload(d) == sent' = sent \union {Ask("list", d)}

\* loadDecks, and reloadDecks with the deck that was current when it was called.
OnList(i) ==
  LET a == answers[i]   prev == a.req.deck IN
  /\ Take(i, "list") /\ Happened(Network(i)) /\ UNCHANGED <<sent, selectVars>>
  /\ IF a.result = "lost"
     THEN UNCHANGED <<deckVars, fileVars>>
     ELSE /\ list' = a.list
          /\ IF prev = NoDeck THEN UNCHANGED <<cur, canSave, fileVars>>
             ELSE Select(prev, a.list)

\* The answers to a bulk delete: what leaves the list is what is selected now.
OnDelete(i) ==
  LET a == answers[i]   gone == sel \ (a.req.ids \ a.gone) IN
  /\ Take(i, "delete") /\ UNCHANGED <<canSave, fileVars>>
  /\ IF a.result = "lost"
     THEN /\ canDelete' = TRUE
          /\ UNCHANGED <<list, cur, selecting, sel, sent>>
          /\ Happened(Network(i))
     ELSE /\ list' = IF a.gone = {} THEN list
                     ELSE [d \in Decks |-> IF d \in gone THEN "absent" ELSE list[d]]
          /\ cur' = IF a.gone # {} /\ cur \in gone THEN NoDeck ELSE cur
          /\ selecting' = FALSE /\ sel' = {} /\ UNCHANGED canDelete
          /\ Reload(cur')
          /\ Happened(Network(i)
                \union (IF sel # a.req.ids THEN {"selection"} ELSE {})
                \union (IF cur' # cur /\ file # NoFile THEN {"reset"} ELSE {}))

OnPublish(i) ==
  LET a == answers[i] IN
  /\ Take(i, "publish")
  /\ list' = IF a.result = "done" /\ a.req.deck \in Listed
             THEN [list EXCEPT ![a.req.deck] = IF a.req.on THEN "published" ELSE "draft"]
             ELSE list
  /\ Happened(Network(i))
  /\ UNCHANGED <<sent, cur, canSave, selectVars, fileVars>>

OnCreate(i) ==
  LET a == answers[i] IN
  /\ Take(i, "create")
  /\ IF a.result = "done"
     THEN list' = [list EXCEPT ![a.req.deck] = "draft"] /\ Select(a.req.deck, list')
     ELSE UNCHANGED <<deckVars, fileVars>>
  /\ Happened(Network(i))
  /\ UNCHANGED <<sent, selectVars>>

\* renderPreview enables the import for whatever file and deck are current now.
OnPreview(i) ==
  LET a == answers[i]   shown == [file |-> a.req.file, deck |-> a.req.deck] IN
  /\ Take(i, "preview")
  /\ CASE a.result = "done"    -> preview' = shown /\ canImport' = TRUE
       [] a.result = "refused" -> preview' = NoPreview /\ canImport' = FALSE
       [] a.result = "lost"    -> preview' = NoPreview /\ UNCHANGED canImport
  /\ Happened(Network(i) \union
       (IF \/ a.result = "done" /\ shown # [file |-> file, deck |-> cur]
           \/ a.result = "lost" /\ canImport
        THEN {"stale"} ELSE {}))
  /\ UNCHANGED <<sent, deckVars, selectVars, file>>

\* The status of the answer is not looked at: a refused import is reported as done.
OnImport(i) ==
  LET a == answers[i] IN
  /\ Take(i, "import")
  /\ IF a.result = "lost"
     THEN /\ canImport' = TRUE
          /\ UNCHANGED <<file, preview, sent>>
          /\ Happened(Network(i) \union
               (IF preview # [file |-> file, deck |-> cur] THEN {"retry"} ELSE {}))
     ELSE ClearPreview /\ Reload(cur) /\ Happened(Network(i))
  /\ UNCHANGED <<deckVars, selectVars>>

\* Mutant: the button is enabled again whatever is current.
OnSaveEnables(i) ==
  /\ Take(i, "save")
  /\ canSave' = TRUE
  /\ Happened(Network(i))
  /\ UNCHANGED <<sent, list, cur, selectVars, fileVars>>

OnSave(i) ==
  /\ Take(i, "save")
  /\ canSave' = (cur \in Mine \intersect Listed)
  /\ Happened(Network(i))
  /\ UNCHANGED <<sent, list, cur, selectVars, fileVars>>

Answered ==
  \E i \in DOMAIN answers :
    \/ OnList(i) \/ OnDelete(i) \/ OnPublish(i) \/ OnCreate(i)
    \/ OnPreview(i) \/ OnImport(i) \/ OnSave(i)

Next ==
  \/ \E d \in Decks : ClickDeck(d) \/ Publish(d) \/ CreateDeck(d)
  \/ EnterSelection \/ ExitSelection \/ CheckDeck \/ ConfirmDelete
  \/ \E f \in Files : ChooseFile(f)
  \/ CancelFile \/ Import \/ SaveCard
  \/ \E r \in sent : Serve(r)
  \/ Answered

Spec == Init /\ [][Next]_vars

-----------------------------------------------------------------------------
TypeOK ==
  /\ db \in Lists /\ sent \subseteq Request /\ answers \in Seq(Answer)
  /\ list \in Lists /\ cur \in Decks \union {NoDeck} /\ canSave \in BOOLEAN
  /\ selecting \in BOOLEAN /\ sel \subseteq Decks /\ canDelete \in BOOLEAN
  /\ file \in Files \union {NoFile}
  /\ preview \in [file : Files \union {NoFile}, deck : Decks \union {NoDeck}]
  /\ canImport \in BOOLEAN /\ mishaps \subseteq Mishaps

Quiet == sent = {} /\ answers = <<>>
Free(S) == mishaps \intersect S = {}

\* When no request is open the list on the screen is the server's, unless an
\* answer was lost or two answers about the list came in the wrong order: every
\* handler that does not edit the list itself reloads it (teach.js:222-279,
\* 414-429, 488-522, 619-646).
ListIsServers == Quiet /\ Free({"lost", "order"}) => list = db

\* What is imported is the file and the deck of the preview on the screen, unless
\* an older preview came in late (teach.js:556-566), the current deck was deleted
\* under the file (teach.js:252-255), or a failed import enabled the button again
\* for a newer file (teach.js:643).
ImportWillBeAsPreviewed ==
  canImport /\ file # NoFile /\ Free({"stale", "reset", "retry"})
    => preview = [file |-> file, deck |-> cur]

\* "Re-enable only if the current deck is still owned by this professor" (teach.js:749):
\* whatever is answered in whatever order, a card can be saved only into a deck of the
\* professor's, and when no request is open only into one that exists, unless an answer
\* was lost or late or the selection was changed while its decks were being deleted
\* (teach.js:250-255 reads it anew).
SavesIntoOwnDecks ==
  canSave /\ cur # NoDeck =>
    /\ cur \in Mine
    /\ Quiet /\ Free({"lost", "order", "selection"}) => db[cur] # "absent"
==============================================================================
