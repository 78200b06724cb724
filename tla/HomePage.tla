------------------------------- MODULE HomePage -------------------------------
(***************************************************************************)
(* The home page (home.js): the grid of decks, the section of the decks a  *)
(* student has hidden, the search box, and behind them the list of decks   *)
(* and the table user_deck_hidden.                                         *)
(*                                                                         *)
(* Hiding a deck writes a row and reloads the list. The list may be older  *)
(* than what happened since; the grid may have been filtered; the page may *)
(* come back from the browser's cache. `causes` names why the page may     *)
(* now be out of date: a complete and recent list clears it.               *)
(*                                                                         *)
(* Whoever looks is a student, a member of staff, or staff in student mode *)
(* ("preview"): the page takes these for students (effectiveIsStaff), the  *)
(* server does not. Two equal requests that are both under way are one.    *)
(* The text shown for an empty list is left out.                           *)
(***************************************************************************)
EXTENDS Answers, FiniteSets

CONSTANTS
  Decks,
  Queries, NoQuery,   \* texts of the search box, NoQuery the empty one
  Matches,            \* Matches[q]: the decks that q finds
  MaxAsked,           \* bound: requests without an answer
  MaxCauses,          \* bound: kinds of cause at once
  MaxMoved            \* bound: decks moved by staff

ASSUME HomeAssumption ==
  /\ NoQuery \notin Queries /\ Matches \in [Queries \union {NoQuery} -> SUBSET Decks]
  /\ Matches[NoQuery] = Decks /\ MaxAsked \in Nat
  /\ MaxCauses \in Nat /\ MaxMoved \in Nat

VARIABLES
  viewer,      \* who looks at the page
  kind,        \* the decks as they are for the viewer
  hiddenRows,  \* table user_deck_hidden, the viewer's rows
  asked,       \* requests the server has not carried out
  told,        \* answers on their way to the page
  decks,       \* allDecks and hiddenDecks: what the last list said of each
  grid,        \* gridEl: the decks in it, as they were said to be
  hiddenGrid,  \* the decks in the hidden section, if it is on the screen
  busy,        \* decks whose hide or unhide button is disabled
  query,       \* the text in the search box
  typing,      \* the timer of debounce runs
  frozen,      \* the page is in the browser's back/forward cache
  causes,      \* history: why the page may be out of date
  moved        \* history: the decks that staff have published, assigned or taken back

serverVars == <<kind, hiddenRows, moved>>
gridVars   == <<decks, grid, hiddenGrid, busy>>
inputVars  == <<query, typing, frozen>>
homeVars   == <<viewer, serverVars, asked, told, gridVars, inputVars, causes>>

\* off: a draft, expired, without cards, or of a class the student is not in
Kinds      == {"off", "general", "class", "private"}
Movable    == Kinds \ {"private"}
Said       == Kinds \union {"none", "hidden"}
NoDecks    == [d \in Decks |-> "none"]
HomeOps    == {"list", "hide", "show"}
\* late: the table has changed since the list was read
HomeAnswer == [req : [op : HomeOps, deck : SUBSET Decks], result : {"done", "refused", "lost"},
               seen : [Decks -> Said], late : BOOLEAN]
Causes     == {"late", "lost", "moved", "emptied", "searched"}

AskList    == [op |-> "list", deck |-> {}]
Apply(r)   == /\ Cardinality(asked) + Len(told) < MaxAsked
              /\ asked' = asked \union {r}
Cause(S)   == causes' = S /\ Cardinality(S) <= MaxCauses
Shown(l)   == [d \in Decks |-> IF l[d] = "hidden" THEN "none" ELSE l[d]]
Filtered(l, q) == [d \in Decks |-> IF d \in Matches[q] THEN Shown(l)[d] ELSE "none"]
HiddenOf(l) == {d \in Decks : l[d] = "hidden"}

HomeInit ==
  /\ viewer \in {"student", "staff", "preview"}
  /\ kind \in [Decks -> Kinds] /\ hiddenRows = {}
  /\ asked = {AskList} /\ told = <<>>
  /\ decks = NoDecks /\ grid = NoDecks /\ hiddenGrid = {} /\ busy = {}
  /\ query = NoQuery /\ typing = FALSE /\ frozen = FALSE /\ causes = {} /\ moved = {}

-----------------------------------------------------------------------------
(* The server.                                                             *)

\* ListDecks: staff get every deck and neither its class nor what they have hidden.
List ==
  [d \in Decks |->
     IF viewer # "student" THEN IF kind[d] = "class" THEN "general" ELSE kind[d]
     ELSE CASE kind[d] = "off" -> "none"
            [] kind[d] = "general" /\ d \in hiddenRows -> "hidden"
            [] OTHER -> kind[d]]

\* HideDeck looks at the access only, and not at all for staff.
MayHide(d) == viewer # "student" \/ kind[d] # "off"

Aged == [i \in DOMAIN told |-> [told[i] EXCEPT !.late = @ \/ told[i].req.op = "list"]]

HomeReply(r, result) ==
  [req |-> r, result |-> result, late |-> FALSE, seen |-> IF r.op = "list" THEN List ELSE NoDecks]

ServeHome(r) ==
  /\ r \in asked /\ asked' = asked \ {r}
  /\ \/ /\ r.op = "list" /\ UNCHANGED hiddenRows
        /\ \E result \in {"done", "lost"} : told' = Append(told, HomeReply(r, result))
     \/ /\ r.op # "list" /\ \A d \in r.deck : MayHide(d)
        /\ hiddenRows' = IF r.op = "hide" THEN hiddenRows \union r.deck ELSE hiddenRows \ r.deck
        /\ \E result \in {"done", "lost"} : told' = Append(Aged, HomeReply(r, result))
     \/ /\ UNCHANGED hiddenRows
        /\ \E result \in {"refused", "lost"} : told' = Append(told, HomeReply(r, result))
  /\ UNCHANGED <<viewer, kind, moved, gridVars, inputVars, causes>>

\* Staff publish a deck, assign it to a class or take it back.
MoveDeck(d, k) ==
  /\ kind[d] \in Movable /\ k \in Movable \ {kind[d]}
  /\ Cardinality(moved) < MaxMoved /\ d \notin moved /\ moved' = moved \union {d}
  /\ kind' = [kind EXCEPT ![d] = k]
  /\ told' = Aged
  /\ IF frozen THEN UNCHANGED causes ELSE Cause(causes \union {"moved"})
  /\ UNCHANGED <<viewer, hiddenRows, asked, gridVars, inputVars>>

-----------------------------------------------------------------------------
(* What the user does.                                                     *)

\* Mutant: the decks of a class are not excepted.
HideButtonsOfClasses ==
  {d \in Decks : viewer # "staff" /\ grid[d] \in {"general", "class"}} \ busy

\* Hide button: only for students, on general decks that are active
HideButtons == {d \in Decks : viewer # "staff" /\ grid[d] = "general"} \ busy

PressHide(d) ==
  /\ ~frozen /\ d \in HideButtons /\ busy' = busy \union {d}
  /\ Apply([op |-> "hide", deck |-> {d}])
  /\ UNCHANGED <<viewer, serverVars, told, decks, grid, hiddenGrid, inputVars, causes>>

PressShow(d) ==
  /\ ~frozen /\ d \in hiddenGrid \ busy /\ busy' = busy \union {d}
  /\ Apply([op |-> "show", deck |-> {d}])
  /\ UNCHANGED <<viewer, serverVars, told, decks, grid, hiddenGrid, inputVars, causes>>

Type(q) ==
  /\ ~frozen /\ q # query /\ query' = q /\ typing' = TRUE
  /\ UNCHANGED <<viewer, serverVars, asked, told, gridVars, frozen, causes>>

\* The timer of the search box: renders the decks of the last list.
Search ==
  /\ typing /\ typing' = FALSE
  /\ grid' = Filtered(decks, query) /\ busy' = busy \intersect hiddenGrid
  /\ Cause(causes \ {"searched"})
  /\ UNCHANGED <<viewer, serverVars, asked, told, decks, hiddenGrid, query, frozen>>

HomeQuiet == asked = {} /\ told = <<>> /\ ~typing

\* The browser keeps the page, when nothing of it is under way, and brings it back.
Leave ==
  /\ ~frozen /\ HomeQuiet /\ frozen' = TRUE
  /\ UNCHANGED <<viewer, serverVars, asked, told, gridVars, query, typing, causes>>

PageShow ==
  /\ frozen /\ frozen' = FALSE /\ asked' = asked \union {AskList}
  /\ UNCHANGED <<viewer, serverVars, told, gridVars, query, typing, causes>>

-----------------------------------------------------------------------------
(* The handlers of the answers.                                            *)

Hear(i, S) ==
  /\ i \in DOMAIN told /\ told[i].req.op \in S
  /\ told' = Without(told, i)
  /\ UNCHANGED <<viewer, serverVars, inputVars>>

\* Mutant: the hidden section is rendered only when there is one to show.
OnDecksKeepsSection(i) ==
  LET l == told[i].seen   stale == IF told[i].late THEN {"late"} ELSE {} IN
  /\ Hear(i, {"list"}) /\ UNCHANGED asked
  /\ IF told[i].result # "done" \/ l = NoDecks
     THEN UNCHANGED <<gridVars, causes>>
     ELSE /\ decks' = l /\ grid' = Shown(l) /\ busy' = {}
          /\ hiddenGrid' = IF HiddenOf(l) = {} THEN hiddenGrid ELSE HiddenOf(l)
          /\ Cause(stale \union (IF query # NoQuery THEN {"searched"} ELSE {}))

\* A list without any deck leaves what is on the screen as it was;
\* any other is rendered whole, whatever is in the search box.
OnDecks(i) ==
  LET l == told[i].seen   stale == IF told[i].late THEN {"late"} ELSE {} IN
  /\ Hear(i, {"list"}) /\ UNCHANGED asked
  /\ IF told[i].result # "done"
     THEN /\ grid' = NoDecks /\ busy' = busy \intersect hiddenGrid
          /\ Cause(causes \union {"lost"})
          /\ UNCHANGED <<decks, hiddenGrid>>
     ELSE /\ decks' = l
          /\ IF l = NoDecks
             THEN /\ UNCHANGED <<grid, hiddenGrid, busy>>
                  /\ Cause(stale \union (IF grid # NoDecks \/ hiddenGrid # {} THEN {"emptied"} ELSE {}))
             ELSE /\ grid' = Shown(l)
                  /\ hiddenGrid' = IF viewer = "staff" THEN hiddenGrid ELSE HiddenOf(l)
                  /\ busy' = {}
                  /\ Cause(stale \union (IF query # NoQuery THEN {"searched"} ELSE {}))

\* Mutant: the list is not read again.
OnHiddenWithoutReload(i) ==
  /\ Hear(i, {"hide", "show"})
  /\ busy' = busy \ told[i].req.deck
  /\ UNCHANGED <<asked, decks, grid, hiddenGrid, causes>>

OnHidden(i) ==
  /\ Hear(i, {"hide", "show"})
  /\ IF told[i].result = "done"
     THEN asked' = asked \union {AskList} /\ UNCHANGED <<busy, causes>>
     ELSE /\ busy' = busy \ told[i].req.deck
          /\ Cause(IF told[i].result = "lost" THEN causes \union {"lost"} ELSE causes)
          /\ UNCHANGED asked
  /\ UNCHANGED <<decks, grid, hiddenGrid>>

HomeNext ==
  \/ \E d \in Decks : PressHide(d) \/ PressShow(d)
  \/ \E q \in Queries \union {NoQuery} : Type(q)
  \/ Search \/ Leave \/ PageShow
  \/ \E r \in asked : ServeHome(r)
  \/ \E i \in DOMAIN told : OnDecks(i) \/ OnHidden(i)
  \/ \E d \in Decks, k \in Movable : MoveDeck(d, k)

HomeSpec == HomeInit /\ [][HomeNext]_homeVars

-----------------------------------------------------------------------------
HomeTypeOK ==
  /\ viewer \in {"student", "staff", "preview"} /\ kind \in [Decks -> Kinds]
  /\ hiddenRows \subseteq Decks
  /\ asked \subseteq [op : HomeOps, deck : SUBSET Decks] /\ told \in Seq(HomeAnswer)
  /\ decks \in [Decks -> Said] /\ grid \in [Decks -> Said \ {"hidden"}]
  /\ hiddenGrid \subseteq Decks /\ busy \subseteq Decks
  /\ query \in Queries \union {NoQuery}
  /\ typing \in BOOLEAN /\ frozen \in BOOLEAN
  /\ causes \subseteq Causes /\ moved \subseteq Decks

\* When no request and no timer is pending, the grid holds what the search box
\* finds and the hidden section every deck that can be shown again, just as the
\* server has them, unless one of the causes says why not: an answer was lost, the
\* list is older than a change, a deck was moved meanwhile, a list without decks
\* left the old grid (home.js:138-141), or a reload forgot the text in the search
\* box (home.js:145). The page that the browser brings back is no exception (65-70).
HomeShowsServer ==
  HomeQuiet /\ ~frozen /\ causes = {} => grid = Filtered(List, query) /\ hiddenGrid = HiddenOf(List)

\* No deck is in two places: one in the grid, where it can be hidden, is not in
\* the section of the hidden ones too, whatever was late, lost, moved or searched.
InOnePlace == \A d \in hiddenGrid : grid[d] = "none"

\* "Only general (non-private, non-class) decks may be hidden" (study.go:330): the
\* server does not see to it, the page does (home.js:497) with what a list has said.
\* A student hides a deck of a class or a private one only if staff have moved it.
HidesOnlyGeneral ==
  [][viewer = "student" =>
       \A d \in hiddenRows' \ hiddenRows : kind[d] = "general" \/ d \in moved]_homeVars
==============================================================================
