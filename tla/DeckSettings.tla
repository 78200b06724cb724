----------------------------- MODULE DeckSettings -----------------------------
(***************************************************************************)
(* The settings of one deck: the publish button and the form for its name, *)
(* its switch and its expiry on the management page (deck_manage.js), and  *)
(* the update and the patch they send to the server.                       *)
(*                                                                         *)
(* Saving the form sends PUT (the name) and PATCH (switch and expiry) at   *)
(* once, and always all three fields, touched by the user or not. The      *)
(* server's Patch reads the row and then writes both of its columns. So a  *)
(* field may be written that nobody meant to change: with the form not yet *)
(* filled, with a form that was filled before another change, or with a    *)
(* column that Patch read before another change.                           *)
(*                                                                         *)
(* Deleting cards in bulk reads the deck again (loadCards), for the badge  *)
(* only: here that is a form that was opened and closed before its answer. *)
(* The subject and the description go the way of the name.                 *)
(***************************************************************************)
EXTENDS Answers, FiniteSets

CONSTANTS
  Names, Expiries,   \* names of the deck, and expiry dates, NoExpiry among them
  NoExpiry, Untouched,
  MaxOpenSettings,   \* bound: requests without an answer
  MaxSettingMishaps  \* bound: kinds of mishap in one behaviour

ASSUME SettingsAssumption ==
  /\ NoExpiry \in Expiries /\ Untouched \notin Names \union Expiries \union BOOLEAN
  /\ MaxOpenSettings \in Nat /\ MaxSettingMishaps \in Nat

VARIABLES
  row,         \* the deck's row: name, active, expiry
  calls,       \* requests the server is carrying out, with how far each half is
  replies,     \* answers on their way to the page
  past,        \* the dates that have passed
  badge,       \* currentDeck, as the status shows it
  button,      \* btnPublishDeck: what a click will do, or "hidden"
  title,       \* deckName
  canPublish,  \* !btnPublishDeck.disabled
  formOpen,    \* renameForm is on the screen
  fields,      \* its fields
  meant,       \* history: what the user has put into each, or Untouched
  filled,      \* history: the answer with the row has arrived since the form was opened
  canRename,   \* !btnRenameSave.disabled
  troubles     \* history: the overlaps and losses there have been

formVars     == <<formOpen, fields, meant, filled, canRename>>
shownVars    == <<badge, button, title, canPublish>>
settingsVars == <<row, past, calls, replies, shownVars, formVars, troubles>>

Rows      == [name : Names, active : BOOLEAN, expiry : Expiries]
Fields    == [name : Names \union {Untouched}, active : BOOLEAN, expiry : Expiries]
Columns   == DOMAIN row
Meant     == [name : Names \union {Untouched}, active : BOOLEAN \union {Untouched},
              expiry : Expiries \union {Untouched}]
NothingMeant == [name |-> Untouched, active |-> Untouched, expiry |-> Untouched]
SettingOps == {"get", "publish", "save"}
Half      == {"none", "todo", "read", "done", "failed"}
\* put, patch: how far the two halves of a save are; told: the page is given an error
\* for one of them; values: what it writes; seen: the row Patch or the read of the deck
\* has seen, and in the end wrote
Call      == [op : SettingOps, put : Half, patch : Half, told : BOOLEAN,
              values : Fields, meant : Meant, seen : Fields]
\* seen: the row as the answers to the request tell it
Settled   == [req : [op : SettingOps], result : {"done", "refused", "lost"}, seen : Fields]
Blank     == [name |-> Untouched, active |-> TRUE, expiry |-> NoExpiry]
Buttons   == {"hidden", "publish", "withdraw"}
Offer(active) == IF active THEN "withdraw" ELSE "publish"
Troubles  == {"order", "lost", "half", "overlap", "unfilled", "stale", "overwritten"}

Trouble(S) == /\ troubles' = troubles \union S
              /\ Cardinality(troubles') <= MaxSettingMishaps
Issue(c)   == /\ Cardinality(calls) + Len(replies) < MaxOpenSettings
              /\ calls' = calls \union {c}
Writing    == {"publish", "save"}
\* a request of one of the operations S is not yet answered
Waiting(S) == \/ \E c \in calls : c.op \in S
              \/ \E i \in DOMAIN replies : replies[i].req.op \in S

SettingsInit ==
  /\ row \in Rows /\ past \in SUBSET (Expiries \ {NoExpiry}) /\ calls = {} /\ replies = <<>>
  /\ badge = row /\ button = IF row.expiry \in past THEN "hidden" ELSE Offer(row.active)
  /\ title = row.name /\ canPublish = TRUE
  /\ formOpen = FALSE /\ fields = Blank /\ meant = NothingMeant /\ filled = FALSE
  /\ canRename = TRUE /\ troubles = {}

-----------------------------------------------------------------------------
(* What the professor does.                                                *)

ClickPublish ==
  /\ button # "hidden" /\ canPublish /\ canPublish' = FALSE
  /\ Issue([op |-> "publish", put |-> "none", patch |-> "todo", told |-> FALSE, meant |-> NothingMeant,
            values |-> [Blank EXCEPT !.active = (button = "publish")], seen |-> Blank])
  /\ Trouble(IF Waiting(Writing) THEN {"overlap"} ELSE {})
  /\ UNCHANGED <<row, past, replies, badge, button, title, formVars>>

\* A form that is not on the screen is forgotten: opening it fills it anew.
CloseForm == formOpen' = FALSE /\ fields' = Blank /\ meant' = NothingMeant /\ filled' = FALSE

\* The form opens with the name of the page, switched on, without an expiry, and
\* asks for the row; it may be opened again while it is open.
OpenForm ==
  /\ formOpen' = TRUE /\ filled' = FALSE /\ meant' = NothingMeant
  /\ fields' = [name |-> title, active |-> TRUE, expiry |-> NoExpiry]
  /\ Issue([op |-> "get", put |-> "none", patch |-> "none", told |-> FALSE, meant |-> NothingMeant,
            values |-> Blank, seen |-> Blank])
  /\ Trouble(IF Waiting(Writing \union {"get"}) THEN {"stale"} ELSE {})
  /\ UNCHANGED <<row, past, replies, shownVars, canRename>>

Touch(f, v) ==
  /\ formOpen /\ fields' = [fields EXCEPT ![f] = v] /\ meant' = [meant EXCEPT ![f] = v]
  /\ UNCHANGED <<row, past, calls, replies, shownVars, formOpen, filled, canRename, troubles>>

TouchField == \/ \E n \in Names : Touch("name", n)
              \/ \E b \in BOOLEAN : Touch("active", b)
              \/ \E e \in Expiries : Touch("expiry", e)

CancelForm ==
  /\ formOpen /\ CloseForm
  /\ UNCHANGED <<row, past, calls, replies, shownVars, canRename, troubles>>

SaveForm ==
  /\ formOpen /\ canRename /\ canRename' = FALSE
  /\ Issue([op |-> "save", put |-> "todo", patch |-> "todo", told |-> FALSE, values |-> fields,
            meant |-> meant, seen |-> Blank])
  /\ Trouble((IF filled THEN {} ELSE {"unfilled"})
             \union (IF Waiting(Writing) THEN {"overlap"} ELSE {}))
  /\ UNCHANGED <<row, past, replies, shownVars, formOpen, fields, meant, filled>>

-----------------------------------------------------------------------------
(* The server. The two halves of a save are requests of their own. The page *)
(* is told once (Promise.all): of the first half that is refused or whose  *)
(* answer is lost, though the other still runs, or when both are done.     *)

Finished(c) == c.put \in {"none", "done", "failed"} /\ c.patch \in {"none", "done", "failed"}
Failed(c)   == "failed" \in {c.put, c.patch}
Outcomes(d) == {"lost"} \union (IF Failed(d) THEN {"refused"} ELSE {})
                       \union (IF Finished(d) /\ ~Failed(d) THEN {"done"} ELSE {})
\* What the page is told of d: the name comes from the answer to PUT.
AnswerTo(d, result) ==
  [req |-> [op |-> d.op], result |-> result,
   seen |-> IF d.op = "save" THEN [d.seen EXCEPT !.name = d.values.name] ELSE d.seen]

Progress(c, d) ==   \* call c has become d
  \/ /\ ~c.told /\ \E result \in Outcomes(d) : replies' = Append(replies, AnswerTo(d, result))
     /\ calls' = (calls \ {c}) \union (IF Finished(d) THEN {} ELSE {[d EXCEPT !.told = TRUE]})
  \/ /\ c.told \/ ~(Finished(d) \/ Failed(d))
     /\ UNCHANGED replies
     /\ calls' = (calls \ {c}) \union (IF Finished(d) THEN {} ELSE {d})

ServeGet(c) ==
  /\ c.op = "get" /\ UNCHANGED <<row, troubles>>
  /\ \/ Progress(c, [c EXCEPT !.seen = row])
     \/ Progress(c, [c EXCEPT !.patch = "failed"])

\* A name that is taken is refused; so is anything the database fails to do.
ServePut(c) ==
  /\ c.put = "todo"
  /\ \/ /\ row' = [row EXCEPT !.name = c.values.name]
        /\ Progress(c, [c EXCEPT !.put = "done"])
        /\ Trouble(IF c.patch = "failed" THEN {"half"} ELSE {})
     \/ /\ row' = row /\ Progress(c, [c EXCEPT !.put = "failed"])
        /\ Trouble(IF c.patch = "done" THEN {"half"} ELSE {})

PatchRead(c) ==
  /\ c.patch = "todo" /\ UNCHANGED row
  /\ \/ /\ calls' = (calls \ {c}) \union {[c EXCEPT !.patch = "read", !.seen = row]}
        /\ UNCHANGED <<replies, troubles>>
     \/ /\ Progress(c, [c EXCEPT !.patch = "failed"])
        /\ Trouble(IF c.put = "done" THEN {"half"} ELSE {})

\* publish sends no expiry, so Patch writes back the one it has read
PatchWrite(c) ==
  /\ c.patch = "read"
  /\ row' = [row EXCEPT !.active = c.values.active,
                        !.expiry = IF c.op = "publish" THEN c.seen.expiry ELSE c.values.expiry]
  /\ Progress(c, [c EXCEPT !.patch = "done", !.seen = row'])
  /\ Trouble((IF c.op = "publish" /\ (formOpen \/ Waiting({"get"})) THEN {"stale"} ELSE {})
             \union (IF c.put = "failed" THEN {"half"} ELSE {}))

ServeSettings ==
  \E c \in calls :
    /\ ServeGet(c) \/ ServePut(c) \/ PatchRead(c) \/ PatchWrite(c)
    /\ UNCHANGED <<past, shownVars, formVars>>

\* Time goes by; the dates may pass in any order.
DatePasses(e) ==
  /\ e \notin past /\ past' = past \union {e}
  /\ UNCHANGED <<row, calls, replies, shownVars, formVars, troubles>>

-----------------------------------------------------------------------------
(* The handlers of the answers.                                            *)

TakeReply(i, op) ==
  /\ i \in DOMAIN replies /\ replies[i].req.op = op
  /\ replies' = Without(replies, i)
  /\ UNCHANGED <<row, past, calls>>

Late(i) == NetworkMishaps(replies, SettingOps, i)

\* renderStatusBadge, and the publish button with it, which stays as it was when the
\* deck has expired.
RenderStatusBadge(i) ==
  IF replies[i].result = "done"
  THEN /\ badge' = replies[i].seen
       /\ button' = IF badge'.expiry \in past THEN button ELSE Offer(badge'.active)
  ELSE UNCHANGED <<badge, button>>

\* Mutant: the date is left out when the form is filled.
OnGetWithoutExpiry(i) ==
  LET done == replies[i].result = "done" IN
  /\ TakeReply(i, "get")
  /\ RenderStatusBadge(i)
  /\ IF done /\ formOpen
     THEN /\ fields' = [replies[i].seen EXCEPT !.expiry = fields.expiry] /\ filled' = TRUE
          /\ Trouble(Late(i) \union
               (IF meant # NothingMeant THEN {"overwritten"} ELSE {}))
     ELSE UNCHANGED <<fields, filled>> /\ Trouble(Late(i))
  /\ UNCHANGED <<title, canPublish, formOpen, meant, canRename>>

\* The row fills the form, whatever has been typed into it by now; a row without
\* an expiry leaves that field alone.
OnGet(i) ==
  LET done == replies[i].result = "done" IN
  /\ TakeReply(i, "get")
  /\ RenderStatusBadge(i)
  /\ IF done /\ formOpen
     THEN /\ fields' = IF replies[i].seen.expiry = NoExpiry
                       THEN [replies[i].seen EXCEPT !.expiry = fields.expiry] ELSE replies[i].seen
          /\ filled' = TRUE
          /\ Trouble(Late(i) \union
               (IF meant # NothingMeant THEN {"overwritten"} ELSE {}))
     ELSE UNCHANGED <<fields, filled>> /\ Trouble(Late(i))
  /\ UNCHANGED <<title, canPublish, formOpen, meant, canRename>>

OnPublish(i) ==
  /\ TakeReply(i, "publish") /\ Trouble(Late(i))
  /\ RenderStatusBadge(i)
  /\ canPublish' = TRUE
  /\ UNCHANGED <<title, formVars>>

\* Mutant: the status on the page is not brought up to date.
OnSaveFormKeepsBadge(i) ==
  /\ TakeReply(i, "save") /\ Trouble(Late(i))
  /\ IF replies[i].result = "done"
     THEN title' = replies[i].seen.name /\ CloseForm
     ELSE UNCHANGED <<title, formOpen, fields, meant, filled>>
  /\ canRename' = TRUE
  /\ UNCHANGED <<badge, button, canPublish>>

OnSaveForm(i) ==
  /\ TakeReply(i, "save") /\ Trouble(Late(i))
  /\ IF replies[i].result = "done"
     THEN title' = replies[i].seen.name /\ CloseForm
     ELSE UNCHANGED <<title, formOpen, fields, meant, filled>>
  /\ RenderStatusBadge(i)
  /\ canRename' = TRUE
  /\ UNCHANGED canPublish

SettingsNext ==
  \/ ClickPublish \/ OpenForm \/ TouchField \/ CancelForm \/ SaveForm
  \/ ServeSettings
  \/ \E e \in Expiries \ {NoExpiry} : DatePasses(e)
  \/ \E i \in DOMAIN replies : OnGet(i) \/ OnPublish(i) \/ OnSaveForm(i)

SettingsSpec == SettingsInit /\ [][SettingsNext]_settingsVars

-----------------------------------------------------------------------------
SettingsTypeOK ==
  /\ row \in Rows /\ calls \subseteq Call /\ replies \in Seq(Settled)
  /\ past \subseteq Expiries \ {NoExpiry} /\ badge \in Rows /\ button \in Buttons /\ title \in Names /\ canPublish \in BOOLEAN
  /\ formOpen \in BOOLEAN /\ fields \in Fields /\ meant \in Meant
  /\ filled \in BOOLEAN /\ canRename \in BOOLEAN /\ troubles \subseteq Troubles

NoTrouble(S) == troubles \intersect S = {}

\* A save writes into every column what the user put there, and into one the user
\* left alone what the row holds, unless it was sent before the form was filled
\* (deck_manage.js:518-548), the row has changed since, the answer that fills the
\* form came after the user began to type, or another write was under way; and
\* publishing writes back the expiry that the row holds (deck.go:146-177).
WritesOnlyWhatWasMeant ==
  \A c \in calls : NoTrouble({"unfilled", "stale", "overwritten", "overlap"}) =>
    /\ c.op = "save" => \A f \in Columns :
         c.values[f] = IF c.meant[f] = Untouched THEN row[f] ELSE c.meant[f]
    /\ c.op = "publish" /\ c.patch = "read" => c.seen.expiry = row.expiry

\* When no request is open the status and the title are those of the row, and the
\* publish button offers what the row is not, unless an answer was lost or late, only
\* one half of a save was done (its handler shows an error and keeps the old name), or
\* two writes overlapped. The button of a deck whose date has passed is left as it was
\* (deck_manage.js:674): it may offer to withdraw what is withdrawn.
BadgeShowsRow ==
  calls = {} /\ replies = <<>> /\ NoTrouble({"order", "lost", "half", "overlap"})
    => /\ badge.active = row.active /\ badge.expiry = row.expiry /\ title = row.name
       /\ row.expiry \notin past => button = Offer(row.active)
==============================================================================
