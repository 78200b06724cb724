------------------------------ MODULE HomeProofs ------------------------------
(***************************************************************************)
(* Theorems about the home page (HomePage), the bar and the offer of a     *)
(* reminder around it (AppShell), and the server's daily reminder          *)
(* (Reminders), for any decks, queries, users and endpoints, for days of   *)
(* any length, and without regard to the bounds.                           *)
(***************************************************************************)
EXTENDS HomePage, AppShell, Reminders, AnswersProofs

-----------------------------------------------------------------------------
(* The home page: types.                                                   *)

HomeRequest == [op : HomeOps, deck : SUBSET Decks]

LEMMA ListType == HomeTypeOK => List \in [Decks -> Said]
<1> SUFFICES ASSUME HomeTypeOK, NEW d \in Decks PROVE List[d] \in Said
  BY DEF List
<1>1. kind[d] \in Kinds
  BY DEF HomeTypeOK
<1>2. List[d] \in {"none", "general", "hidden", kind[d]}
  BY DEF List
<1>3. QED
  BY <1>1, <1>2 DEF Said, Kinds

LEMMA ReplyType ==
  ASSUME HomeTypeOK, NEW r \in HomeRequest, NEW result \in {"done", "refused", "lost"}
  PROVE  HomeReply(r, result) \in HomeAnswer
<1>1. NoDecks \in [Decks -> Said]
  BY DEF NoDecks, Said
<1>2. (IF r.op = "list" THEN List ELSE NoDecks) \in [Decks -> Said]
  BY <1>1, ListType
<1>3. QED
  BY <1>2 DEF HomeReply, HomeAnswer, HomeRequest

\* Aging changes nothing but the mark of the answers to a read of the list.
LEMMA AgedType ==
  ASSUME HomeTypeOK
  PROVE  /\ Aged \in Seq(HomeAnswer) /\ DOMAIN Aged = DOMAIN told
         /\ \A i \in DOMAIN told :
              /\ Aged[i].req = told[i].req /\ Aged[i].result = told[i].result
              /\ Aged[i].seen = told[i].seen
              /\ told[i].req.op = "list" => Aged[i].late
<1>1. told \in Seq(HomeAnswer)
  BY DEF HomeTypeOK
<1>2. ASSUME NEW i \in DOMAIN told
      PROVE  /\ Aged[i] \in HomeAnswer
             /\ Aged[i].req = told[i].req /\ Aged[i].result = told[i].result
             /\ Aged[i].seen = told[i].seen
             /\ told[i].req.op = "list" => Aged[i].late
  <2>1. told[i] \in HomeAnswer
    BY <1>1
  <2>2. Aged[i] = [told[i] EXCEPT !.late = @ \/ told[i].req.op = "list"]
    BY DEF Aged
  <2>3. QED
    BY <2>1, <2>2 DEF HomeAnswer
<1>3. DOMAIN told = 1 .. Len(told) /\ Len(told) \in Nat
  BY <1>1
<1>4. Aged \in [1 .. Len(told) -> HomeAnswer]
  <2>1. Aged = [i \in 1 .. Len(told) |-> [told[i] EXCEPT !.late = @ \/ told[i].req.op = "list"]]
    BY <1>3 DEF Aged
  <2>2. QED
    BY <1>2, <1>3, <2>1
<1>5. Aged \in Seq(HomeAnswer)
  BY <1>3, <1>4
<1>6. QED
  BY <1>2, <1>5 DEF Aged

LEMMA ShownType ==
  ASSUME NEW l \in [Decks -> Said], NEW q
  PROVE  /\ Shown(l) \in [Decks -> Said \ {"hidden"}]
         /\ Filtered(l, q) \in [Decks -> Said \ {"hidden"}]
<1>1. Shown(l) \in [Decks -> Said \ {"hidden"}]
  BY DEF Shown, Said
<1>2. QED
  BY <1>1 DEF Filtered, Said

LEMMA HomeTypeInit == HomeInit => HomeTypeOK
<1> SUFFICES ASSUME HomeInit PROVE HomeTypeOK
  OBVIOUS
<1>1. told \in Seq(HomeAnswer)
  BY DEF HomeInit
<1>2. AskList \in HomeRequest
  BY DEF AskList, HomeRequest, HomeOps
<1>3. NoDecks \in [Decks -> Said \ {"hidden"}] /\ NoDecks \in [Decks -> Said]
  BY DEF NoDecks, Said, Kinds
<1>4. QED
  BY <1>1, <1>2, <1>3 DEF HomeInit, HomeTypeOK, HomeRequest, Causes

LEMMA HomeTypeStep == HomeTypeOK /\ [HomeNext]_homeVars => HomeTypeOK'
<1> SUFFICES ASSUME HomeTypeOK, [HomeNext]_homeVars PROVE HomeTypeOK'
  OBVIOUS
<1> USE DEF Cause, Causes
<1>1. ASSUME NEW d \in Decks, PressHide(d) PROVE HomeTypeOK'
  <2>1. [op |-> "hide", deck |-> {d}] \in HomeRequest
    BY DEF HomeRequest, HomeOps
  <2>2. QED
    BY <1>1, <2>1 DEF PressHide, Apply, HomeTypeOK, HomeRequest, serverVars, inputVars
<1>2. ASSUME NEW d \in Decks, PressShow(d) PROVE HomeTypeOK'
  <2>1. [op |-> "show", deck |-> {d}] \in HomeRequest
    BY DEF HomeRequest, HomeOps
  <2>2. QED
    BY <1>2, <2>1 DEF PressShow, Apply, HomeTypeOK, HomeRequest, serverVars, inputVars
<1>3. ASSUME NEW q \in Queries \union {NoQuery}, Type(q) PROVE HomeTypeOK'
  BY <1>3 DEF Type, HomeTypeOK, serverVars, gridVars
<1>4. CASE Search
  BY <1>4, ShownType DEF Search, HomeTypeOK, serverVars
<1>5. CASE Leave
  BY <1>5 DEF Leave, HomeTypeOK, serverVars, gridVars
<1>6. CASE PageShow
  <2>1. AskList \in HomeRequest
    BY DEF AskList, HomeRequest, HomeOps
  <2>2. QED
    BY <1>6, <2>1 DEF PageShow, HomeTypeOK, HomeRequest, serverVars, gridVars
<1>7. ASSUME NEW r \in asked, ServeHome(r) PROVE HomeTypeOK'
  <2>1. r \in HomeRequest /\ r.deck \subseteq Decks
    BY DEF HomeTypeOK, HomeRequest
  <2>2. told \in Seq(HomeAnswer) /\ Aged \in Seq(HomeAnswer)
    BY AgedType DEF HomeTypeOK
  <2>3. told' \in Seq(HomeAnswer)
    <3>1. \A result \in {"done", "refused", "lost"} : HomeReply(r, result) \in HomeAnswer
      BY <2>1, ReplyType
    <3>2. PICK result \in {"done", "refused", "lost"} :
            told' \in {Append(told, HomeReply(r, result)), Append(Aged, HomeReply(r, result))}
      BY <1>7 DEF ServeHome
    <3>3. HomeReply(r, result) \in HomeAnswer
      BY <3>1
    <3>4. CASE told' = Append(told, HomeReply(r, result))
      BY <2>2, <3>3, <3>4
    <3>5. CASE told' = Append(Aged, HomeReply(r, result))
      BY <2>2, <3>3, <3>5
    <3>6. QED
      BY <3>2, <3>4, <3>5
  <2>4. hiddenRows' \subseteq Decks
    BY <1>7, <2>1 DEF ServeHome, HomeTypeOK
  <2>5. QED
    BY <1>7, <2>3, <2>4 DEF ServeHome, HomeTypeOK, gridVars, inputVars
<1>8. ASSUME NEW i \in DOMAIN told, OnDecks(i) PROVE HomeTypeOK'
  <2>1. told \in Seq(HomeAnswer) /\ told[i] \in HomeAnswer
    BY DEF HomeTypeOK
  <2>2. told' \in Seq(HomeAnswer)
    BY <1>8, <2>1, WithoutType DEF OnDecks, Hear
  <2>3. told[i].seen \in [Decks -> Said]
    BY <2>1 DEF HomeAnswer
  <2>4. Shown(told[i].seen) \in [Decks -> Said \ {"hidden"}] /\ HiddenOf(told[i].seen) \subseteq Decks
    BY <2>3, ShownType DEF HiddenOf
  <2>5. NoDecks \in [Decks -> Said \ {"hidden"}]
    BY DEF NoDecks, Said, Kinds
  <2>6. decks' \in [Decks -> Said] /\ grid' \in [Decks -> Said \ {"hidden"}]
    BY <1>8, <2>3, <2>4, <2>5 DEF OnDecks, HomeTypeOK
  <2>7. hiddenGrid' \subseteq Decks /\ busy' \subseteq Decks
    BY <1>8, <2>4 DEF OnDecks, HomeTypeOK
  <2>8. causes' \subseteq Causes
    BY <1>8 DEF OnDecks, HomeTypeOK
  <2>9. QED
    BY <1>8, <2>2, <2>6, <2>7, <2>8 DEF OnDecks, Hear, HomeTypeOK, serverVars, inputVars
<1>9. ASSUME NEW i \in DOMAIN told, OnHidden(i) PROVE HomeTypeOK'
  <2>1. told \in Seq(HomeAnswer) /\ told' \in Seq(HomeAnswer)
    BY <1>9, WithoutType DEF OnHidden, Hear, HomeTypeOK
  <2>2. AskList \in HomeRequest
    BY DEF AskList, HomeRequest, HomeOps
  <2>3. asked' \subseteq HomeRequest /\ busy' \subseteq Decks /\ causes' \subseteq Causes
    BY <1>9, <2>2 DEF OnHidden, HomeTypeOK, HomeRequest
  <2>4. QED
    BY <1>9, <2>1, <2>3 DEF OnHidden, Hear, HomeTypeOK, HomeRequest, serverVars, inputVars
<1>10. ASSUME NEW d \in Decks, NEW k \in Movable, MoveDeck(d, k) PROVE HomeTypeOK'
  <2>1. k \in Kinds
    BY DEF Movable
  <2>2. QED
    BY <1>10, <2>1, AgedType DEF MoveDeck, HomeTypeOK, gridVars, inputVars
<1>11. CASE UNCHANGED homeVars
  BY <1>11 DEF homeVars, serverVars, gridVars, inputVars, HomeTypeOK
<1>12. QED
  BY <1>1, <1>2, <1>3, <1>4, <1>5, <1>6, <1>7, <1>8, <1>9, <1>10, <1>11 DEF HomeNext

\* The page, the requests, the answers and the tables keep their types.
THEOREM HomeTypeCorrect == HomeSpec => []HomeTypeOK
BY HomeTypeInit, HomeTypeStep, PTL DEF HomeSpec

-----------------------------------------------------------------------------
(* No deck is in two places. The search renders what the last list said,   *)
(* so that must agree with the hidden section too; for staff, whose page   *)
(* has no such section, it stays empty.                                    *)

Apart == \A d \in hiddenGrid : grid[d] = "none" /\ decks[d] \in {"hidden", "none"}
NoSection == viewer = "staff" => hiddenGrid = {}

PlaceInv == HomeTypeOK /\ Apart /\ NoSection

LEMMA PlaceInit == HomeInit => Apart /\ NoSection
BY DEF HomeInit, Apart, NoSection

LEMMA PlaceStep == PlaceInv /\ [HomeNext]_homeVars => (Apart /\ NoSection)'
<1> SUFFICES ASSUME PlaceInv, [HomeNext]_homeVars PROVE (Apart /\ NoSection)'
  OBVIOUS
<1> USE DEF PlaceInv
<1>1. ASSUME UNCHANGED <<viewer, decks, grid, hiddenGrid>> PROVE (Apart /\ NoSection)'
  BY <1>1 DEF Apart, NoSection
<1>2. CASE Search
  <2>1. grid' = Filtered(decks, query) /\ UNCHANGED <<viewer, decks, hiddenGrid>>
    BY <1>2 DEF Search
  <2>2. \A d \in hiddenGrid : Filtered(decks, query)[d] = "none"
    BY DEF Apart, Filtered, Shown, HomeTypeOK
  <2>3. QED
    BY <2>1, <2>2 DEF Apart, NoSection
<1>3. ASSUME NEW i \in DOMAIN told, OnDecks(i) PROVE (Apart /\ NoSection)'
  <2> DEFINE l == told[i].seen
  <2>1. UNCHANGED viewer
    BY <1>3 DEF OnDecks, Hear
  <2>2. CASE told[i].result # "done"
    <3>1. grid' = NoDecks /\ UNCHANGED <<decks, hiddenGrid>>
      BY <1>3, <2>2 DEF OnDecks
    <3>2. QED
      BY <2>1, <3>1 DEF Apart, NoSection, NoDecks, HomeTypeOK
  <2>3. CASE told[i].result = "done" /\ l = NoDecks
    <3>1. decks' = NoDecks /\ UNCHANGED <<grid, hiddenGrid>>
      BY <1>3, <2>3 DEF OnDecks
    <3>2. QED
      BY <2>1, <3>1 DEF Apart, NoSection, NoDecks, HomeTypeOK
  <2>4. CASE told[i].result = "done" /\ l # NoDecks
    <3>1. /\ decks' = l /\ grid' = Shown(l)
          /\ hiddenGrid' = IF viewer = "staff" THEN hiddenGrid ELSE HiddenOf(l)
      BY <1>3, <2>4 DEF OnDecks
    <3>2. \A d \in HiddenOf(l) : Shown(l)[d] = "none" /\ l[d] = "hidden"
      BY DEF HiddenOf, Shown
    <3>3. hiddenGrid' \subseteq HiddenOf(l)
      BY <3>1 DEF NoSection
    <3>4. Apart'
      BY <3>1, <3>2, <3>3 DEF Apart
    <3>5. QED
      BY <2>1, <3>1, <3>4 DEF NoSection
  <2>5. QED
    BY <2>2, <2>3, <2>4
<1>4. CASE UNCHANGED homeVars
  BY <1>1, <1>4 DEF homeVars, gridVars
<1>5. QED
  BY <1>1, <1>2, <1>3, <1>4
  DEF HomeNext, PressHide, PressShow, Type, Leave, PageShow, ServeHome, OnHidden, Hear, MoveDeck, gridVars

LEMMA PlaceInvariant == HomeSpec => []PlaceInv
<1>1. HomeInit => PlaceInv
  BY HomeTypeInit, PlaceInit DEF PlaceInv
<1>2. PlaceInv /\ [HomeNext]_homeVars => PlaceInv'
  BY HomeTypeStep, PlaceStep DEF PlaceInv
<1>3. QED
  BY <1>1, <1>2, PTL DEF HomeSpec

\* A deck in the section of the hidden ones is not in the grid.
THEOREM NeverInTwoPlaces == HomeSpec => []InOnePlace
<1>1. PlaceInv => InOnePlace
  BY DEF PlaceInv, Apart, InOnePlace
<1>2. QED
  BY <1>1, PlaceInvariant, PTL

-----------------------------------------------------------------------------
(* The page shows what the server has. Four facts carry it: an answer to a *)
(* read of the list that is not marked as late holds the list as it is     *)
(* now; as long as no cause says otherwise either something is still to be *)
(* heard or the page knows the list; and the grid is then what the search  *)
(* box finds in it.                                                        *)

Fresh ==
  \A i \in DOMAIN told :
    told[i].req.op = "list" /\ told[i].result = "done" /\ ~told[i].late => told[i].seen = List

\* Something is on its way that may change what the page knows.
Unread ==
  \/ AskList \in asked
  \/ \E i \in DOMAIN told : told[i].req.op = "list" \/ told[i].result # "refused"

Knows == decks = List /\ hiddenGrid = HiddenOf(List)
Known == ~frozen /\ causes \subseteq {"searched"} => Unread \/ Knows
Searched == causes = {} /\ ~typing => grid = Filtered(decks, query)

ShowInv == PlaceInv /\ Fresh /\ Known /\ Searched

LEMMA NoneHiddenFromStaff ==
  ASSUME HomeTypeOK, viewer # "student"
  PROVE  HiddenOf(List) = {}
<1>1. \A d \in Decks : kind[d] # "hidden"
  BY DEF HomeTypeOK, Kinds
<1>2. \A d \in Decks : List[d] \in {"general", kind[d]}
  BY DEF List
<1>3. QED
  BY <1>1, <1>2 DEF HiddenOf

LEMMA ShowInit == HomeInit => Fresh /\ Known /\ Searched
<1> SUFFICES ASSUME HomeInit PROVE Fresh /\ Known /\ Searched
  OBVIOUS
<1>1. Fresh /\ Known
  BY DEF HomeInit, Fresh, Known, Unread
<1>2. Filtered(NoDecks, NoQuery) = NoDecks
  BY DEF Filtered, Shown, NoDecks
<1>3. QED
  BY <1>1, <1>2 DEF HomeInit, Searched

LEMMA ListSame == UNCHANGED <<viewer, kind, hiddenRows>> => List' = List
BY DEF List

LEMMA FreshStep == ShowInv /\ [HomeNext]_homeVars => Fresh'
<1> SUFFICES ASSUME ShowInv, [HomeNext]_homeVars PROVE Fresh'
  OBVIOUS
<1> USE DEF ShowInv, PlaceInv
<1>0. told \in Seq(HomeAnswer)
  BY DEF HomeTypeOK
<1>1. ASSUME UNCHANGED <<told, viewer, kind, hiddenRows>> PROVE Fresh'
  BY <1>1, ListSame DEF Fresh
<1>2. ASSUME NEW i \in DOMAIN told, Hear(i, HomeOps) PROVE Fresh'
  <2>1. told' = Without(told, i) /\ List' = List
    BY <1>2, ListSame DEF Hear, serverVars
  <2>2. \A j \in DOMAIN told' : \E k \in DOMAIN told : told'[j] = told[k]
    BY <1>0, <2>1, WithoutFrom
  <2>3. QED
    BY <2>1, <2>2 DEF Fresh
<1>3. ASSUME NEW r \in asked, ServeHome(r) PROVE Fresh'
  <2>1. \A result \in {"done", "refused", "lost"} : HomeReply(r, result) \in HomeAnswer
    BY ReplyType DEF HomeTypeOK, HomeRequest
  <2>2. Aged \in Seq(HomeAnswer)
    BY AgedType
  <2>3. CASE UNCHANGED hiddenRows
    <3>1. List' = List
      BY <1>3, <2>3, ListSame DEF ServeHome
    <3>2. PICK result \in {"done", "refused", "lost"} :
            told' \in {Append(told, HomeReply(r, result)), Append(Aged, HomeReply(r, result))}
      BY <1>3 DEF ServeHome
    <3>3. HomeReply(r, result).seen = List \/ HomeReply(r, result).req.op # "list"
      BY DEF HomeReply
    <3>4. CASE told' = Append(told, HomeReply(r, result))
      <4>1. \A j \in DOMAIN told' : \/ j \in DOMAIN told /\ told'[j] = told[j]
                                  \/ told'[j] = HomeReply(r, result)
        BY <1>0, <2>1, <3>4, AppendFrom
      <4>2. QED
        BY <3>1, <3>3, <4>1 DEF Fresh
    <3>5. CASE told' = Append(Aged, HomeReply(r, result))
      <4>1. \A j \in DOMAIN told' : \/ j \in DOMAIN told /\ told'[j] = Aged[j]
                                    \/ told'[j] = HomeReply(r, result)
        BY <2>1, <2>2, <3>5, AppendFrom, AgedType
      <4>2. QED
        BY <3>1, <3>3, <4>1, AgedType DEF Fresh
    <3>6. QED
      BY <3>2, <3>4, <3>5
  <2>4. CASE ~ UNCHANGED hiddenRows
    <3>1. r.op # "list"
      BY <1>3, <2>4 DEF ServeHome
    <3>2. PICK result \in {"done", "lost"} : told' = Append(Aged, HomeReply(r, result))
      BY <1>3, <2>4 DEF ServeHome
    <3>3. \A j \in DOMAIN told' : \/ j \in DOMAIN told /\ told'[j] = Aged[j]
                                  \/ told'[j] = HomeReply(r, result)
      BY <2>1, <2>2, <3>2, AppendFrom, AgedType
    <3>4. HomeReply(r, result).req = r
      BY DEF HomeReply
    <3>5. QED
      BY <3>1, <3>3, <3>4, AgedType DEF Fresh
  <2>5. QED
    BY <2>3, <2>4
<1>4. ASSUME NEW d \in Decks, NEW k \in Movable, MoveDeck(d, k) PROVE Fresh'
  <2>1. told' = Aged
    BY <1>4 DEF MoveDeck
  <2>2. QED
    BY <2>1, AgedType DEF Fresh
<1>5. CASE UNCHANGED homeVars
  BY <1>1, <1>5 DEF homeVars, serverVars
<1>6. ASSUME NEW i \in DOMAIN told, OnDecks(i) \/ OnHidden(i) PROVE Hear(i, HomeOps)
  BY <1>6 DEF OnDecks, OnHidden, Hear, HomeOps
<1>7. QED
  BY <1>1, <1>2, <1>3, <1>4, <1>5, <1>6
  DEF HomeNext, PressHide, PressShow, Type, Search, Leave, PageShow, serverVars

LEMMA SearchedStep == ShowInv /\ [HomeNext]_homeVars => Searched'
<1> SUFFICES ASSUME ShowInv, [HomeNext]_homeVars PROVE Searched'
  OBVIOUS
<1> USE DEF ShowInv, PlaceInv
<1>1. ASSUME UNCHANGED <<decks, grid, query, typing>>, causes' = causes \/ causes' # {}
      PROVE  Searched'
  BY <1>1 DEF Searched, Filtered, Shown
<1>2. ASSUME NEW q \in Queries \union {NoQuery}, Type(q) PROVE Searched'
  BY <1>2 DEF Type, Searched
<1>3. CASE Search
  BY <1>3 DEF Search, Searched
<1>4. ASSUME NEW i \in DOMAIN told, OnDecks(i) PROVE Searched'
  <2> DEFINE l == told[i].seen
  <2>1. UNCHANGED <<query, typing>>
    BY <1>4 DEF OnDecks, Hear, inputVars
  <2>2. CASE told[i].result # "done"
    BY <1>4, <2>2 DEF OnDecks, Cause, Searched
  <2>3. CASE told[i].result = "done" /\ l = NoDecks
    <3>1. decks' = NoDecks /\ UNCHANGED grid /\ (causes' = {} => grid = NoDecks)
      BY <1>4, <2>3 DEF OnDecks, Cause
    <3>2. Filtered(NoDecks, query) = NoDecks
      BY DEF Filtered, Shown, NoDecks
    <3>3. QED
      BY <2>1, <3>1, <3>2 DEF Searched
  <2>4. CASE told[i].result = "done" /\ l # NoDecks
    <3>1. decks' = l /\ grid' = Shown(l) /\ (causes' = {} => query = NoQuery)
      BY <1>4, <2>4 DEF OnDecks, Cause
    <3>2. Filtered(l, NoQuery) = Shown(l)
      BY HomeAssumption DEF Filtered, Shown
    <3>3. QED
      BY <2>1, <3>1, <3>2 DEF Searched
  <2>5. QED
    BY <2>2, <2>3, <2>4
<1>5. ASSUME NEW i \in DOMAIN told, OnHidden(i) PROVE Searched'
  <2>1. causes' = causes \/ causes' = causes \union {"lost"}
    BY <1>5 DEF OnHidden, Cause
  <2>2. QED
    BY <1>1, <1>5, <2>1 DEF OnHidden, Hear, inputVars
<1>6. ASSUME NEW d \in Decks, NEW k \in Movable, MoveDeck(d, k) PROVE Searched'
  <2>1. causes' = causes \/ causes' = causes \union {"moved"}
    BY <1>6 DEF MoveDeck, Cause
  <2>2. QED
    BY <1>1, <1>6, <2>1 DEF MoveDeck, gridVars, inputVars
<1>7. CASE UNCHANGED homeVars
  BY <1>1, <1>7 DEF homeVars, gridVars, inputVars
<1>8. QED
  BY <1>1, <1>2, <1>3, <1>4, <1>5, <1>6, <1>7
  DEF HomeNext, PressHide, PressShow, Leave, PageShow, ServeHome, gridVars, inputVars

LEMMA KnownStep == ShowInv /\ [HomeNext]_homeVars => Known'
<1> SUFFICES ASSUME ShowInv, [HomeNext]_homeVars, ~frozen', causes' \subseteq {"searched"}
             PROVE  Unread' \/ Knows'
  BY DEF Known
<1> USE DEF ShowInv, PlaceInv
<1>0. told \in Seq(HomeAnswer)
  BY DEF HomeTypeOK
<1>1. ASSUME UNCHANGED <<told, viewer, kind, hiddenRows, decks, hiddenGrid, frozen>>,
             asked \subseteq asked', causes \subseteq {"searched"}
      PROVE  Unread' \/ Knows'
  <2>1. Knows => Knows'
    BY <1>1, ListSame DEF Knows, HiddenOf
  <2>2. Unread => Unread'
    BY <1>1 DEF Unread
  <2>3. QED
    BY <1>1, <2>1, <2>2 DEF Known
<1>2. CASE Search
  BY <1>1, <1>2 DEF Search, Cause, serverVars
<1>3. CASE PageShow
  BY <1>3 DEF PageShow, Unread
<1>4. ASSUME NEW r \in asked, ServeHome(r) PROVE Unread' \/ Knows'
  <2>1. \A result \in {"done", "refused", "lost"} : HomeReply(r, result) \in HomeAnswer
    BY ReplyType DEF HomeTypeOK, HomeRequest
  <2>2. PICK old \in {told, Aged}, result \in {"done", "refused", "lost"} :
          /\ told' = Append(old, HomeReply(r, result))
          /\ r.op = "list" \/ result # "refused" \/ (old = told /\ UNCHANGED hiddenRows)
    BY <1>4 DEF ServeHome
  <2>3. old \in Seq(HomeAnswer) /\ HomeReply(r, result) \in HomeAnswer
    BY <1>0, <2>1, AgedType
  <2>4. CASE r.op = "list" \/ result # "refused"
    <3>1. Len(told') \in DOMAIN told' /\ told'[Len(told')] = HomeReply(r, result)
      BY <2>2, <2>3
    <3>2. HomeReply(r, result).req = r /\ HomeReply(r, result).result = result
      BY DEF HomeReply
    <3>3. QED
      BY <2>4, <3>1, <3>2 DEF Unread
  <2>5. CASE r.op # "list" /\ old = told /\ UNCHANGED hiddenRows
    <3>1. Knows => Knows'
      BY <1>4, <2>5, ListSame DEF ServeHome, Knows, HiddenOf, gridVars
    <3>2. AskList \in asked => AskList \in asked'
      BY <1>4, <2>5 DEF ServeHome, AskList
    <3>3. \A j \in DOMAIN told : j \in DOMAIN told' /\ told'[j] = told[j]
      BY <1>0, <2>2, <2>3, <2>5
    <3>4. Unread => Unread'
      BY <3>2, <3>3 DEF Unread
    <3>5. QED
      BY <1>4, <3>1, <3>4 DEF ServeHome, Known, inputVars
  <2>6. QED
    BY <2>2, <2>4, <2>5
<1>5. ASSUME NEW i \in DOMAIN told, OnDecks(i) PROVE Unread' \/ Knows'
  <2> DEFINE l == told[i].seen
  <2>1. List' = List /\ told[i].req.op = "list"
    BY <1>5, ListSame DEF OnDecks, Hear, serverVars
  <2>2. told[i].result = "done" /\ ~told[i].late
    BY <1>5 DEF OnDecks, Cause
  <2>3. l = List
    BY <2>1, <2>2 DEF Fresh
  <2>4. decks' = List'
    BY <1>5, <2>1, <2>2, <2>3 DEF OnDecks
  <2>5. CASE l = NoDecks
    <3>1. hiddenGrid' = {}
      BY <1>5, <2>2, <2>5 DEF OnDecks, Cause
    <3>2. HiddenOf(NoDecks) = {}
      BY DEF HiddenOf, NoDecks
    <3>3. QED
      BY <2>1, <2>3, <2>4, <2>5, <3>1, <3>2 DEF Knows, HiddenOf
  <2>6. CASE l # NoDecks
    <3>1. hiddenGrid' = IF viewer = "staff" THEN hiddenGrid ELSE HiddenOf(l)
      BY <1>5, <2>2, <2>6 DEF OnDecks
    <3>2. hiddenGrid' = HiddenOf(List)
      BY <2>3, <3>1, NoneHiddenFromStaff DEF NoSection
    <3>3. QED
      BY <2>1, <2>4, <3>2 DEF Knows, HiddenOf
  <2>7. QED
    BY <2>5, <2>6
<1>6. ASSUME NEW i \in DOMAIN told, OnHidden(i) PROVE Unread' \/ Knows'
  <2>1. CASE told[i].result = "done"
    BY <1>6, <2>1 DEF OnHidden, Unread
  <2>2. CASE told[i].result # "done"
    <3>1. causes' = causes /\ asked' = asked /\ told[i].result # "lost"
      BY <1>6, <2>2 DEF OnHidden, Cause
    <3>2. told[i].req.op # "list" /\ told[i].result = "refused"
      <4>1. told[i] \in HomeAnswer
        BY <1>0
      <4>2. told[i].result \in {"done", "refused", "lost"}
        BY <4>1 DEF HomeAnswer
      <4>3. told[i].req.op \in {"hide", "show"}
        BY <1>6 DEF OnHidden, Hear
      <4>4. QED
        BY <2>2, <3>1, <4>2, <4>3
    <3>3. \A k \in DOMAIN told \ {i} : \E j \in DOMAIN told' : told'[j] = told[k]
      BY <1>0, <1>6, WithoutKeeps DEF OnHidden, Hear
    <3>4. Unread => Unread'
      BY <3>1, <3>2, <3>3 DEF Unread
    <3>5. Knows => Knows'
      BY <1>6, ListSame DEF OnHidden, Hear, Knows, HiddenOf, serverVars
    <3>6. QED
      BY <1>6, <3>1, <3>4, <3>5 DEF OnHidden, Hear, Known, inputVars
  <2>3. QED
    BY <2>1, <2>2
<1>7. ASSUME NEW d \in Decks, NEW k \in Movable PROVE ~ MoveDeck(d, k)
  BY DEF MoveDeck, Cause, inputVars
<1>8. ASSUME HomeNext PROVE Unread' \/ Knows'
  <2>1. ~ Leave
    BY DEF Leave
  <2>2. QED
    BY <1>1, <1>2, <1>3, <1>4, <1>5, <1>6, <1>7, <1>8, <2>1
    DEF HomeNext, PressHide, PressShow, Apply, Type, serverVars, gridVars, inputVars
<1>9. CASE UNCHANGED homeVars
  BY <1>1, <1>9 DEF homeVars, serverVars, gridVars, inputVars
<1>10. QED
  BY <1>8, <1>9

LEMMA ShowInvariant == HomeSpec => []ShowInv
<1>1. HomeInit => ShowInv
  BY HomeTypeInit, PlaceInit, ShowInit DEF ShowInv, PlaceInv
<1>2. ShowInv /\ [HomeNext]_homeVars => ShowInv'
  BY HomeTypeStep, PlaceStep, FreshStep, KnownStep, SearchedStep DEF ShowInv, PlaceInv
<1>3. QED
  BY <1>1, <1>2, PTL DEF HomeSpec

\* When nothing is on its way and none of the causes holds, the grid and the
\* hidden section are as the server would list them now.
THEOREM ShowsTheServer == HomeSpec => []HomeShowsServer
<1>1. ShowInv => HomeShowsServer
  <2> SUFFICES ASSUME ShowInv, HomeQuiet, ~frozen, causes = {}
               PROVE  grid = Filtered(List, query) /\ hiddenGrid = HiddenOf(List)
    BY DEF HomeShowsServer
  <2>1. ~ Unread
    BY DEF HomeQuiet, Unread
  <2>2. QED
    BY <2>1 DEF ShowInv, Known, Knows, Searched, HomeQuiet
<1>2. QED
  BY <1>1, ShowInvariant, PTL

-----------------------------------------------------------------------------
(* A student hides only what a list called general: in a request, in an    *)
(* answer, in what the page knows or in the grid, a deck that is said to   *)
(* be general is general, or staff have moved it.                          *)

General(d) == kind[d] = "general" \/ d \in moved

SaidGeneral ==
  viewer = "student" =>
    /\ \A r \in asked : r.op = "hide" => \A d \in r.deck : General(d)
    /\ \A i \in DOMAIN told, d \in Decks : told[i].seen[d] = "general" => General(d)
    /\ \A d \in Decks : decks[d] = "general" \/ grid[d] = "general" => General(d)

GeneralInv == HomeTypeOK /\ SaidGeneral

LEMMA GeneralInit == HomeInit => SaidGeneral
BY DEF HomeInit, SaidGeneral, AskList, NoDecks

LEMMA GeneralStep == GeneralInv /\ [HomeNext]_homeVars => SaidGeneral'
<1> SUFFICES ASSUME GeneralInv, [HomeNext]_homeVars, viewer = "student" PROVE SaidGeneral'
  BY DEF SaidGeneral, HomeNext, PressHide, PressShow, Type, Search, Leave, PageShow, ServeHome,
         OnDecks, OnHidden, Hear, MoveDeck, homeVars
<1> USE DEF GeneralInv
<1>0. told \in Seq(HomeAnswer)
  BY DEF HomeTypeOK
<1>1. ASSUME UNCHANGED <<viewer, kind, moved, told, decks, grid>>,
             \A r \in asked' : r \in asked \/ r.op # "hide"
      PROVE  SaidGeneral'
  BY <1>1 DEF SaidGeneral, General
<1>2. ASSUME NEW d \in Decks, PressHide(d) PROVE SaidGeneral'
  <2>1. General(d)
    BY <1>2 DEF PressHide, HideButtons, SaidGeneral
  <2>2. asked' = asked \union {[op |-> "hide", deck |-> {d}]}
    BY <1>2 DEF PressHide, Apply
  <2>3. UNCHANGED <<viewer, kind, moved, told, decks, grid>>
    BY <1>2 DEF PressHide, serverVars
  <2>4. QED
    BY <2>1, <2>2, <2>3 DEF SaidGeneral, General
<1>3. ASSUME NEW d \in Decks, PressShow(d) PROVE SaidGeneral'
  BY <1>1, <1>3 DEF PressShow, Apply, serverVars
<1>4. CASE Search
  <2>1. \A d \in Decks : grid'[d] = "general" => decks[d] = "general"
    BY <1>4 DEF Search, Filtered, Shown
  <2>2. UNCHANGED <<viewer, kind, moved, told, decks, asked>>
    BY <1>4 DEF Search, serverVars
  <2>3. QED
    BY <2>1, <2>2 DEF SaidGeneral, General
<1>5. CASE PageShow
  BY <1>1, <1>5 DEF PageShow, AskList, serverVars, gridVars
<1>6. ASSUME NEW r \in asked, ServeHome(r) PROVE SaidGeneral'
  <2>1. PICK old \in {told, Aged}, result \in {"done", "refused", "lost"} :
          told' = Append(old, HomeReply(r, result))
    BY <1>6 DEF ServeHome
  <2>2. old \in Seq(HomeAnswer) /\ HomeReply(r, result) \in HomeAnswer
    BY <1>0, AgedType, ReplyType DEF HomeTypeOK, HomeRequest
  <2>3. \A d \in Decks : HomeReply(r, result).seen[d] = "general" => kind[d] = "general"
    BY DEF HomeReply, List, NoDecks
  <2>4. \A j \in DOMAIN told' : \/ j \in DOMAIN told /\ told'[j].seen = told[j].seen
                                \/ told'[j] = HomeReply(r, result)
    BY <1>0, <2>1, <2>2, AppendFrom, AgedType
  <2>5. UNCHANGED <<viewer, kind, moved, decks, grid>> /\ asked' \subseteq asked
    BY <1>6 DEF ServeHome, gridVars
  <2>6. QED
    BY <2>3, <2>4, <2>5 DEF SaidGeneral, General
<1>7. ASSUME NEW i \in DOMAIN told, OnDecks(i) PROVE SaidGeneral'
  <2>1. \A j \in DOMAIN told' : \E k \in DOMAIN told : told'[j] = told[k]
    BY <1>0, <1>7, WithoutFrom DEF OnDecks, Hear
  <2>2. UNCHANGED <<viewer, kind, moved, asked>>
    BY <1>7 DEF OnDecks, Hear, serverVars
  <2>3. \A d \in Decks : decks'[d] = "general" => decks[d] = "general" \/ told[i].seen[d] = "general"
    BY <1>7 DEF OnDecks
  <2>4. \A d \in Decks : grid'[d] = "general" => grid[d] = "general" \/ told[i].seen[d] = "general"
    BY <1>7 DEF OnDecks, NoDecks, Shown
  <2>5. QED
    BY <2>1, <2>2, <2>3, <2>4 DEF SaidGeneral, General
<1>8. ASSUME NEW i \in DOMAIN told, OnHidden(i) PROVE SaidGeneral'
  <2>1. \A j \in DOMAIN told' : \E k \in DOMAIN told : told'[j] = told[k]
    BY <1>0, <1>8, WithoutFrom DEF OnHidden, Hear
  <2>2. UNCHANGED <<viewer, kind, moved, decks, grid>> /\ asked' \subseteq asked \union {AskList}
    BY <1>8 DEF OnHidden, Hear, serverVars
  <2>3. QED
    BY <2>1, <2>2 DEF SaidGeneral, General, AskList
<1>9. ASSUME NEW d \in Decks, NEW k \in Movable, MoveDeck(d, k) PROVE SaidGeneral'
  <2>1. \A e \in Decks : General(e) => General(e)'
    BY <1>9 DEF MoveDeck, General, HomeTypeOK
  <2>2. DOMAIN told' = DOMAIN told /\ \A i \in DOMAIN told : told'[i].seen = told[i].seen
    BY <1>9, AgedType DEF MoveDeck
  <2>3. UNCHANGED <<viewer, decks, grid, asked>>
    BY <1>9 DEF MoveDeck, gridVars
  <2>4. \A r \in asked : r.deck \subseteq Decks
    BY DEF HomeTypeOK
  <2>5. QED
    BY <2>1, <2>2, <2>3, <2>4 DEF SaidGeneral
<1>10. CASE UNCHANGED homeVars
  BY <1>1, <1>10 DEF homeVars, serverVars, gridVars
<1>11. QED
  BY <1>1, <1>2, <1>3, <1>4, <1>5, <1>6, <1>7, <1>8, <1>9, <1>10
  DEF HomeNext, Type, Leave, serverVars, gridVars

\* Where a row comes into user_deck_hidden for a student, the deck is general or
\* staff have moved it.
THEOREM OnlyGeneralHidden == HomeSpec => HidesOnlyGeneral
<1>1. HomeInit => GeneralInv
  BY HomeTypeInit, GeneralInit DEF GeneralInv
<1>2. GeneralInv /\ [HomeNext]_homeVars => GeneralInv'
  BY HomeTypeStep, GeneralStep DEF GeneralInv
<1>3. ASSUME GeneralInv, HomeNext, viewer = "student", NEW d \in hiddenRows' \ hiddenRows
      PROVE  kind[d] = "general" \/ d \in moved
  <2>1. PICK r \in asked : ServeHome(r)
    BY <1>3 DEF HomeNext, PressHide, PressShow, Type, Search, Leave, PageShow, OnDecks, OnHidden,
                Hear, MoveDeck, serverVars
  <2>2. r.op \in HomeOps /\ r.op = "hide" /\ d \in r.deck
    BY <1>3, <2>1 DEF ServeHome, GeneralInv, HomeTypeOK, HomeOps
  <2>3. QED
    BY <1>3, <2>1, <2>2 DEF GeneralInv, SaidGeneral, General
<1>4. GeneralInv /\ [HomeNext]_homeVars =>
        [viewer = "student" =>
           \A d \in hiddenRows' \ hiddenRows : kind[d] = "general" \/ d \in moved]_homeVars
  BY <1>3
<1>5. QED
  BY <1>1, <1>2, <1>4, PTL DEF HomeSpec, HidesOnlyGeneral

-----------------------------------------------------------------------------
(* The bar and the offer of a reminder: types.                             *)

\* Where a subscription is about to be posted there is one.
Posting == reminder = "post" => subscription \in Endpoints

LEMMA RenderType ==
  ASSUME roles \in [Users -> SUBSET Staff], NEW u \in Users \union {NoUser},
         NEW student \in BOOLEAN, NEW professor \in BOOLEAN, NEW off \in BOOLEAN
  PROVE  Render(u, student, professor, off) \in Bars
<1>1. RolesOf(u) \in SUBSET Staff
  BY ShellAssumption DEF RolesOf
<1>2. QED
  BY <1>1 DEF Render, Bars

LEMMA ShellTypeInit == ShellInit => ShellTypeOK
<1> SUFFICES ASSUME ShellInit PROVE ShellTypeOK
  OBVIOUS
<1>1. bar \in Bars
  BY RenderType DEF ShellInit
<1>2. QED
  BY <1>1 DEF ShellInit, ShellTypeOK, Changes

\* Loading a page leaves a rendered bar, and the old one in the cache.
LEMMA LoadType ==
  ASSUME ShellTypeOK, Load, roles' = roles,
         session' \in Users \union {NoUser}, studentKey' \in BOOLEAN,
         professorKey' \in BOOLEAN, bannerOff' \in BOOLEAN
  PROVE  bar' \in Bars /\ cachedBar' \in Bars /\ reminder' = "registered"
<1>1. Render(session', studentKey', professorKey', bannerOff') \in Bars
  BY RenderType DEF ShellTypeOK
<1>2. bar' \in Bars
  BY <1>1 DEF Load, Render, RolesOf
<1>3. QED
  BY <1>2 DEF Load, ShellTypeOK

LEMMA PostingStep == ShellTypeOK /\ Posting /\ [ShellNext]_shellVars => Posting'
<1> SUFFICES ASSUME ShellTypeOK, Posting, [ShellNext]_shellVars PROVE Posting'
  OBVIOUS
<1>1. ASSUME reminder' # "post" \/ UNCHANGED <<reminder, subscription>> PROVE Posting'
  BY <1>1 DEF Posting
<1>2. CASE Subscribe
  BY <1>2 DEF Subscribe, Posting, ShellTypeOK
<1>3. ASSUME NEW p, Expire(p) PROVE Posting'
  BY <1>3 DEF Expire, Posting
<1>4. CASE UNCHANGED shellVars
  BY <1>1, <1>4 DEF shellVars, deviceVars
<1>5. ASSUME NEW u \in Users, Login(u) PROVE Posting'
  BY <1>1, <1>5 DEF Login, Load, deviceVars
<1>6. QED
  BY <1>1, <1>2, <1>3, <1>4, <1>5
  DEF ShellNext, Visit, Back, Logout, DismissBanner, SwitchMode, ChangeRoles, Load, Offer, Refuse,
      PostSubscription, Accept, DeleteGone, deviceVars

LEMMA ShellTypeStep == ShellTypeOK /\ Posting /\ [ShellNext]_shellVars => ShellTypeOK'
<1> SUFFICES ASSUME ShellTypeOK, Posting, [ShellNext]_shellVars PROVE ShellTypeOK'
  OBVIOUS
<1> USE DEF Changed, Changes
<1>1. CASE Visit
  BY <1>1, LoadType DEF Visit, ShellTypeOK, tabVars, deviceVars
<1>2. CASE Back
  BY <1>2 DEF Back, ShellTypeOK, tabVars, deviceVars
<1>3. CASE Logout
  BY <1>3, LoadType DEF Logout, ShellTypeOK, tabVars, deviceVars
<1>4. CASE DismissBanner
  <2>1. bar' = [bar EXCEPT !.banner = FALSE] /\ bar \in Bars
    BY <1>4 DEF DismissBanner, ShellTypeOK
  <2>2. bar' \in Bars
    BY <2>1 DEF Bars
  <2>3. QED
    BY <1>4, <2>2 DEF DismissBanner, ShellTypeOK, deviceVars
<1>5. ASSUME NEW u \in Users, Login(u) PROVE ShellTypeOK'
  <2>1. /\ UNCHANGED <<roles, tabVars, deviceVars, rows>> /\ session' = u
        /\ Load \/ UNCHANGED <<bar, cachedBar, reminder>>
    BY <1>5 DEF Login
  <2>2. bar' \in Bars /\ cachedBar' \in Bars
        /\ reminder' \in {"none", "registered", "prompt", "key", "post"}
    BY <2>1, LoadType DEF ShellTypeOK, tabVars
  <2>3. changes' \subseteq Changes
    BY <1>5 DEF Login, Foreign, ShellTypeOK
  <2>4. QED
    BY <2>1, <2>2, <2>3 DEF ShellTypeOK, tabVars, deviceVars
<1>6. ASSUME NEW item, SwitchMode(item) PROVE ShellTypeOK'
  <2>1. studentKey' \in BOOLEAN /\ professorKey' \in BOOLEAN /\ bannerOff' = FALSE
    BY <1>6 DEF SwitchMode, ShellTypeOK
  <2>2. enteredBy' \in Users \union {NoUser}
    BY <1>6 DEF SwitchMode, ShellTypeOK, Bars
  <2>3. changes' \subseteq Changes
    BY <1>6 DEF SwitchMode, Foreign, ShellTypeOK
  <2>4. UNCHANGED <<roles, session, deviceVars, rows>> /\ Load
    BY <1>6 DEF SwitchMode
  <2>5. bar' \in Bars /\ cachedBar' \in Bars /\ reminder' = "registered"
    BY <2>1, <2>4, LoadType DEF ShellTypeOK
  <2>6. QED
    BY <2>1, <2>2, <2>3, <2>4, <2>5 DEF ShellTypeOK, deviceVars
<1>7. ASSUME NEW u \in Users, NEW R \in SUBSET Staff, ChangeRoles(u, R) PROVE ShellTypeOK'
  BY <1>7 DEF ChangeRoles, ShellTypeOK, tabVars, deviceVars
<1>8. CASE Offer
  BY <1>8 DEF Offer, ShellTypeOK, tabVars, deviceVars
<1>9. CASE Refuse
  BY <1>9 DEF Refuse, ShellTypeOK, tabVars
<1>10. CASE Subscribe
  BY <1>10 DEF Subscribe, ShellTypeOK, tabVars
<1>11. CASE PostSubscription(subscription)
  <2>1. subscription \in Endpoints
    BY <1>11 DEF PostSubscription, Posting
  <2>2. rows' \subseteq Users \X Endpoints
    <3>1. \/ rows' = rows
          \/ session \in Users /\ rows' = rows \union {<<session, subscription>>}
      BY <1>11 DEF PostSubscription, ShellTypeOK
    <3>2. rows \subseteq Users \X Endpoints
      BY DEF ShellTypeOK
    <3>3. session \in Users => <<session, subscription>> \in Users \X Endpoints
      BY <2>1
    <3>4. QED
      BY <3>1, <3>2, <3>3
  <2>3. subscribed' \in BOOLEAN /\ reminder' = "none"
    BY <1>11 DEF PostSubscription, ShellTypeOK
  <2>4. QED
    BY <1>11, <2>2, <2>3 DEF PostSubscription, ShellTypeOK, tabVars
<1>12. ASSUME NEW p \in {"default", "granted", "denied"}, Accept(p) PROVE ShellTypeOK'
  BY <1>12 DEF Accept, ShellTypeOK, tabVars
<1>13. ASSUME NEW p \in {"default", "denied"}, Expire(p) PROVE ShellTypeOK'
  BY <1>13 DEF Expire, ShellTypeOK, tabVars
<1>14. ASSUME NEW e \in Endpoints, DeleteGone(e) PROVE ShellTypeOK'
  BY <1>14 DEF DeleteGone, ShellTypeOK, tabVars, deviceVars
<1>15. CASE UNCHANGED shellVars
  BY <1>15 DEF shellVars, tabVars, deviceVars, ShellTypeOK
<1>16. QED
  BY <1>1, <1>2, <1>3, <1>4, <1>5, <1>6, <1>7, <1>8, <1>9, <1>10, <1>11, <1>12, <1>13, <1>14, <1>15
  DEF ShellNext

ShellInv == ShellTypeOK /\ Posting

LEMMA ShellInvariant == ShellSpec => []ShellInv
<1>1. ShellInit => ShellInv
  BY ShellTypeInit DEF ShellInv, ShellInit, Posting
<1>2. ShellInv /\ [ShellNext]_shellVars => ShellInv'
  BY PostingStep, ShellTypeStep DEF ShellInv
<1>3. QED
  BY <1>1, <1>2, PTL DEF ShellSpec

\* The bar, the keys, the flags and the table keep their types.
THEOREM ShellTypeCorrect == ShellSpec => []ShellTypeOK
<1>1. ShellInv => ShellTypeOK
  BY DEF ShellInv
<1>2. QED
  BY <1>1, ShellInvariant, PTL

-----------------------------------------------------------------------------
(* The mode of the tab. What must be known besides is that whoever has a   *)
(* bar with a mode in its menu is somebody, and that he who entered the    *)
(* mode is whoever is logged in, unless it was inherited.                  *)

BarsMean == \A b \in {bar, cachedBar} : b.user = NoUser => b.roles = {}
Keys == /\ ~(studentKey /\ professorKey)
        /\ studentKey \/ professorKey => enteredBy # NoUser
        /\ session # NoUser /\ enteredBy # NoUser /\ "inherited" \notin changes
             => enteredBy = session

ModeInv == ShellTypeOK /\ BarsMean /\ Keys

LEMMA LoadMeans ==
  ASSUME BarsMean, Load
  PROVE  BarsMean'
<1>1. bar'.user = NoUser => bar'.roles = {}
  BY DEF Load, Render, RolesOf
<1>2. cachedBar' = bar
  BY DEF Load
<1>3. QED
  BY <1>1, <1>2 DEF BarsMean

LEMMA ModeStep == ModeInv /\ [ShellNext]_shellVars => BarsMean' /\ Keys'
<1> SUFFICES ASSUME ModeInv, [ShellNext]_shellVars PROVE BarsMean' /\ Keys'
  OBVIOUS
<1> USE DEF ModeInv
<1>1. ASSUME UNCHANGED <<session, tabVars, bar, cachedBar>>, changes \subseteq changes'
      PROVE  BarsMean' /\ Keys'
  BY <1>1 DEF BarsMean, Keys, tabVars
<1>2. CASE Visit \/ Logout
  BY <1>2, LoadMeans DEF Visit, Logout, Keys, tabVars
<1>3. CASE Back
  BY <1>3 DEF Back, BarsMean, Keys, tabVars
<1>4. CASE DismissBanner
  <2>1. bar'.user = bar.user /\ bar'.roles = bar.roles
    BY <1>4 DEF DismissBanner, ShellTypeOK, Bars
  <2>2. QED
    BY <1>4, <2>1 DEF DismissBanner, BarsMean, Keys
<1>5. ASSUME NEW u \in Users, Login(u) PROVE BarsMean' /\ Keys'
  <2>1. Load \/ UNCHANGED <<bar, cachedBar>>
    BY <1>5 DEF Login
  <2>2. session' = u /\ UNCHANGED tabVars /\ Foreign(u) \subseteq changes'
    BY <1>5 DEF Login, Changed
  <2>3. Keys'
    BY <2>2 DEF Keys, Foreign, tabVars
  <2>4. QED
    BY <2>1, <2>3, LoadMeans DEF BarsMean
<1>6. ASSUME NEW item \in {"enterStudent", "exitStudent", "enterProfessor", "exitProfessor"},
             SwitchMode(item)
      PROVE  BarsMean' /\ Keys'
  <2>1. bar.user # NoUser
    BY <1>6 DEF SwitchMode, ModeItems, BarsMean
  <2>2. ~(studentKey' /\ professorKey')
    BY <1>6 DEF SwitchMode, Keys
  <2>3. studentKey' \/ professorKey' => enteredBy' # NoUser
    BY <1>6, <2>1 DEF SwitchMode, Keys
  <2>4. session' = session /\ (session # NoUser => Foreign(session) \subseteq changes')
    BY <1>6 DEF SwitchMode, Changed
  <2>5. Keys'
    BY <2>2, <2>3, <2>4 DEF Keys, Foreign
  <2>6. QED
    BY <1>6, <2>5, LoadMeans DEF SwitchMode
<1>7. CASE UNCHANGED shellVars
  BY <1>1, <1>7 DEF shellVars
<1>8. QED
  BY <1>1, <1>2, <1>3, <1>4, <1>5, <1>6, <1>7
  DEF ShellNext, ChangeRoles, Changed, Offer, Refuse, Subscribe, PostSubscription, Accept, Expire,
      DeleteGone

\* The modes exclude each other, and nobody is in one that he has not entered,
\* unless the tab was in one when another account was logged in.
THEOREM ModesChosen == ShellSpec => []ModesAreChosen
<1>1. ShellInit => BarsMean /\ Keys
  <2> SUFFICES ASSUME ShellInit PROVE BarsMean /\ Keys
    OBVIOUS
  <2>1. bar.roles = {}
    BY DEF ShellInit, Render, RolesOf
  <2>2. QED
    BY <2>1 DEF ShellInit, BarsMean, Keys
<1>2. ShellTypeOK /\ BarsMean /\ Keys /\ [ShellNext]_shellVars => (BarsMean /\ Keys)'
  BY ModeStep DEF ModeInv
<1>3. ShellTypeOK /\ BarsMean /\ Keys => ModesAreChosen
  <2> SUFFICES ASSUME ShellTypeOK, Keys PROVE ModesAreChosen
    OBVIOUS
  <2>1. ASSUME Render(session, studentKey, professorKey, bannerOff).mode # "none"
        PROVE  session # NoUser /\ (studentKey \/ professorKey)
    BY <2>1 DEF Render, RolesOf
  <2>2. QED
    BY <2>1 DEF Keys, ModesAreChosen
<1>4. QED
  BY <1>1, <1>2, <1>3, ShellTypeCorrect, PTL DEF ShellSpec

-----------------------------------------------------------------------------
(* The mark of the device. It stands for a row as long as the browser      *)
(* keeps the subscription and the account stays the same.                  *)

\* What the mark means is kept by a step that takes no row of the subscription.
LEMMA MarkKept ==
  ASSUME MarkMeansRow, UNCHANGED <<subscribed, subscription>>, changes \subseteq changes',
         session' = session \/ session' = NoUser \/ (subscribed => "switched" \in changes'),
         \A r \in rows : r[2] = subscription => r \in rows'
  PROVE  MarkMeansRow'
<1>1. \A u \in Users \union {NoUser} :
        <<u, subscription>> \in rows => <<u, subscription'>> \in rows'
  OBVIOUS
<1>2. subscribed' /\ "expired" \notin changes' => \E u \in Users : <<u, subscription'>> \in rows'
  BY <1>1 DEF MarkMeansRow
<1>3. subscribed' /\ session' # NoUser /\ changes' \intersect {"expired", "switched"} = {}
        => <<session', subscription'>> \in rows'
  <2>1. ASSUME subscribed, session' # NoUser, changes' \intersect {"expired", "switched"} = {}
        PROVE  session' = session /\ <<session, subscription>> \in rows
    BY <2>1 DEF MarkMeansRow
  <2>2. QED
    BY <2>1
<1>4. QED
  BY <1>2, <1>3 DEF MarkMeansRow

LEMMA MarkStep == ShellInv /\ MarkMeansRow /\ [ShellNext]_shellVars => MarkMeansRow'
<1> SUFFICES ASSUME ShellInv, MarkMeansRow, [ShellNext]_shellVars PROVE MarkMeansRow'
  OBVIOUS
<1>1. ASSUME UNCHANGED <<session, subscribed, subscription, rows>>, changes \subseteq changes'
      PROVE  MarkMeansRow'
  BY <1>1, MarkKept
<1>2. CASE Logout
  BY <1>2, MarkKept DEF Logout, deviceVars
<1>3. ASSUME NEW u \in Users, Login(u) PROVE MarkMeansRow'
  <2>1. changes \subseteq changes' /\ (subscribed => "switched" \in changes')
    BY <1>3 DEF Login, Changed
  <2>2. QED
    BY <1>3, <2>1, MarkKept DEF Login, deviceVars
<1>4. CASE Subscribe
  <2>1. CASE subscription' = subscription
    BY <1>1, <1>4, <2>1 DEF Subscribe
  <2>2. CASE subscription' # subscription
    <3>1. subscription = NoEndpoint /\ UNCHANGED <<subscribed, changes, session>>
      BY <1>4, <2>2 DEF Subscribe
    <3>2. \A u : <<u, subscription>> \notin rows
      BY <3>1, ShellAssumption DEF ShellInv, ShellTypeOK
    <3>3. subscribed => "expired" \in changes
      BY <3>2 DEF MarkMeansRow
    <3>4. QED
      BY <3>1, <3>3 DEF MarkMeansRow
  <2>3. QED
    BY <2>1, <2>2
<1>5. CASE PostSubscription(subscription)
  <2>1. CASE UNCHANGED <<rows, subscribed>>
    BY <1>1, <1>5, <2>1 DEF PostSubscription
  <2>2. CASE session # NoUser /\ rows' = rows \union {<<session, subscription>>}
    <3>1. session \in Users /\ <<session', subscription'>> \in rows'
      BY <1>5, <2>2 DEF PostSubscription, ShellInv, ShellTypeOK
    <3>2. session' = session
      BY <1>5 DEF PostSubscription
    <3>3. QED
      BY <3>1, <3>2 DEF MarkMeansRow
  <2>3. QED
    BY <1>5, <2>1, <2>2 DEF PostSubscription
<1>6. ASSUME NEW p, Expire(p) PROVE MarkMeansRow'
  BY <1>6 DEF Expire, Changed, MarkMeansRow
<1>7. ASSUME NEW e \in Endpoints, DeleteGone(e) PROVE MarkMeansRow'
  <2>1. \A r \in rows : r[2] = subscription => r \in rows'
    BY <1>7 DEF DeleteGone
  <2>2. QED
    BY <1>7, <2>1, MarkKept DEF DeleteGone, deviceVars
<1>8. CASE UNCHANGED shellVars
  BY <1>1, <1>8 DEF shellVars, deviceVars
<1>9. QED
  BY <1>1, <1>2, <1>3, <1>4, <1>5, <1>6, <1>7, <1>8
  DEF ShellNext, Visit, Back, DismissBanner, SwitchMode, ChangeRoles, Changed, Offer, Refuse,
      Accept, deviceVars

\* The mark stands for a row of the table, and for one of whoever is logged in.
THEOREM MarkStands == ShellSpec => []MarkMeansRow
<1>1. ShellInit => MarkMeansRow
  BY DEF ShellInit, MarkMeansRow
<1>2. QED
  BY <1>1, MarkStep, ShellInvariant, PTL DEF ShellSpec

-----------------------------------------------------------------------------
(* Who is subscribed. From the offer to the row, the page does not look at *)
(* the account again.                                                      *)

Offered ==
  reminder \in {"prompt", "key", "post"} =>
    RolesOf(session) = {} \/ changes \intersect {"preview", "roles", "switched"} # {}

LEMMA OfferedStep == Offered /\ [ShellNext]_shellVars => Offered'
<1> SUFFICES ASSUME Offered, [ShellNext]_shellVars PROVE Offered'
  OBVIOUS
<1>1. ASSUME reminder' \in {"none", "registered"} PROVE Offered'
  BY <1>1 DEF Offered
<1>2. ASSUME UNCHANGED <<roles, session>>, changes \subseteq changes',
             reminder' \in {"prompt", "key", "post"} => reminder \in {"prompt", "key", "post"}
      PROVE  Offered'
  BY <1>2 DEF Offered, RolesOf
<1>3. ASSUME NEW u \in Users, Login(u) PROVE Offered'
  <2>1. CASE Load
    BY <1>1, <2>1 DEF Load
  <2>2. CASE ~Load
    BY <1>3, <2>2 DEF Login, Changed, Offered
  <2>3. QED
    BY <2>1, <2>2
<1>4. CASE Offer
  <2>1. UNCHANGED <<roles, session>> /\ RolesOf(session)' = RolesOf(session)
    BY <1>4 DEF Offer, RolesOf
  <2>2. reminder' # "none" /\ RolesOf(session) # {} => "preview" \in changes'
    BY <1>4 DEF Offer, Changed
  <2>3. QED
    BY <2>1, <2>2 DEF Offered
<1>5. ASSUME NEW u, NEW R, ChangeRoles(u, R) PROVE Offered'
  BY <1>5 DEF ChangeRoles, Changed, Offered
<1>6. CASE UNCHANGED shellVars
  BY <1>2, <1>6 DEF shellVars
<1>7. ASSUME NEW p, Expire(p) PROVE Offered'
  BY <1>2, <1>7 DEF Expire, Changed
<1>8. QED
  BY <1>1, <1>2, <1>3, <1>4, <1>5, <1>6, <1>7
  DEF ShellNext, Visit, Back, Logout, DismissBanner, SwitchMode, Load, Refuse, Subscribe,
      PostSubscription, Accept, DeleteGone

\* Nobody of the staff is subscribed but in student mode, or through a change of
\* roles or of the session between the offer and the row.
THEOREM OnlyStudentsSubscribed == ShellSpec => SubscribesOnlyStudents
<1>1. ShellInit => Offered
  BY DEF ShellInit, Offered
<1>2. ASSUME Offered, ShellNext, NEW r \in rows' \ rows
      PROVE  roles[r[1]] = {} \/ changes \intersect {"preview", "roles", "switched"} # {}
  <2>1. PostSubscription(subscription)
    BY <1>2 DEF ShellNext, Visit, Back, Logout, DismissBanner, Login, SwitchMode, ChangeRoles,
                Offer, Refuse, Subscribe, Accept, Expire, DeleteGone
  <2>2. r = <<session, subscription>> /\ session # NoUser /\ reminder = "post"
    BY <1>2, <2>1 DEF PostSubscription
  <2>3. QED
    BY <1>2, <2>2 DEF Offered, RolesOf
<1>3. Offered /\ [ShellNext]_shellVars =>
        [\A r \in rows' \ rows :
           roles[r[1]] = {} \/ changes \intersect {"preview", "roles", "switched"} # {}]_shellVars
  BY <1>2
<1>4. QED
  BY <1>1, <1>3, OfferedStep, PTL DEF ShellSpec, SubscribesOnlyStudents

-----------------------------------------------------------------------------
(* The daily reminder: hours and days.                                     *)

LEMMA Products ==
  ASSUME NEW k \in Nat, NEW a \in Int, NEW b \in Int, a < b
  PROVE  a * k + k <= b * k /\ a * k \in Int /\ b * k \in Int
<1>1. PICK e \in Nat : b = a + 1 + e
  <2>1. b - a - 1 \in Nat /\ b = a + 1 + (b - a - 1)
    OBVIOUS
  <2> QED
    BY <2>1
<1>2. b * k = a * k + k + e * k /\ e * k \in Nat
  BY <1>1
<1> QED
  BY <1>2

\* Division is what its remainder says.
LEMMA Quotient ==
  ASSUME NEW k \in Nat \ {0}, NEW q \in Int, NEW r \in 0 .. k - 1
  PROVE  (q * k + r) \div k = q /\ (q * k + r) % k = r
<1> DEFINE n == q * k + r
           p == n \div k
<1>1. n \in Int /\ p \in Int /\ n % k \in 0 .. k - 1 /\ n = k * p + (n % k)
  OBVIOUS
<1>2. k * p = p * k
  BY <1>1
<1>3. p = q
  <2>1. ~ (p < q)
    <3> SUFFICES ASSUME p < q PROVE FALSE
      OBVIOUS
    <3>1. p * k + k <= q * k
      BY <1>1, Products
    <3> QED
      BY <1>1, <1>2, <3>1
  <2>2. ~ (q < p)
    <3> SUFFICES ASSUME q < p PROVE FALSE
      OBVIOUS
    <3>1. q * k + k <= p * k
      BY <1>1, Products
    <3> QED
      BY <1>1, <1>2, <3>1
  <2> QED
    BY <1>1, <2>1, <2>2
<1>4. n % k = r
  BY <1>1, <1>2, <1>3
<1> QED
  BY <1>3, <1>4

\* Any half hour lies in a day, an hour of it, and a half of that.
LEMMA HalfHour ==
  ASSUME NEW t \in Nat
  PROVE  \E h \in 0 .. HoursADay - 1, b \in 0 .. 1 :
           t = 2 * (Day(t) * HoursADay + h) + b /\ Hour(t) = h /\ Day(t) \in Nat
<1> DEFINE m == t \div 2
           b == t % 2
           q == m \div HoursADay
           h == m % HoursADay
<1>1. HoursADay \in Nat \ {0}
  BY RemindersAssumption
<1>2. m \in Nat /\ b \in 0 .. 1 /\ t = 2 * m + b
  OBVIOUS
<1> HIDE DEF m, b
<1>3. q \in Int /\ h \in 0 .. HoursADay - 1 /\ m = HoursADay * q + h
  BY <1>1, <1>2
<1>4. q \in Nat
  <2> SUFFICES ASSUME q < 0 PROVE FALSE
    BY <1>3
  <2>1. PICK e \in Nat : q = 0 - 1 - e
    <3>1. 0 - 1 - q \in Nat /\ q = 0 - 1 - (0 - 1 - q)
      BY <1>3
    <3> QED
      BY <3>1
  <2>2. HoursADay * q = 0 - HoursADay - HoursADay * e /\ HoursADay * e \in Nat
    BY <1>1, <2>1
  <2> QED
    BY <1>1, <1>2, <1>3, <2>2
<1> HIDE DEF q
<1>5. m = q * HoursADay + h
  BY <1>1, <1>3, <1>4
<1>6. Hour(t) = h
  BY DEF Hour, m
<1> HIDE DEF h
<1>7. Day(t) = q
  <2> DEFINE k == 2 * HoursADay
             r == 2 * h + b
  <2>1. k \in Nat \ {0} /\ r \in 0 .. k - 1
    BY <1>1, <1>2, <1>3
  <2>2. t = q * k + r
    BY <1>1, <1>2, <1>3, <1>4, <1>5
  <2> HIDE DEF k, r
  <2>3. t \div k = q
    BY <1>4, <2>1, <2>2, Quotient
  <2> QED
    BY <2>3 DEF Day, k
<1> QED
  BY <1>1, <1>2, <1>3, <1>4, <1>5, <1>6, <1>7

LEMMA WindowType ==
  ASSUME NEW d \in Nat
  PROVE  Window(d) \in Nat
BY RemindersAssumption DEF Window

\* The target hour of a day is its window of two half hours.
LEMMA HourInWindow ==
  ASSUME NEW t \in Nat, Hour(t) = TargetHour
  PROVE  t \in {Window(Day(t)), Window(Day(t)) + 1}
<1>1. PICK h \in 0 .. HoursADay - 1, b \in 0 .. 1 :
        t = 2 * (Day(t) * HoursADay + h) + b /\ Hour(t) = h /\ Day(t) \in Nat
  BY HalfHour
<1>2. Window(Day(t)) = 2 * (Day(t) * HoursADay + h) /\ Window(Day(t)) \in Nat
  BY <1>1, WindowType DEF Window
<1> QED
  BY <1>1, <1>2

LEMMA WindowIsHour ==
  ASSUME NEW d \in Nat, NEW t \in {Window(d), Window(d) + 1}
  PROVE  t \in Nat /\ Day(t) = d /\ Hour(t) = TargetHour
<1>1. /\ HoursADay \in Nat \ {0} /\ TargetHour \in 0 .. HoursADay - 1
      /\ 2 * HoursADay \in Nat \ {0}
  BY RemindersAssumption
<1>2. PICK b \in 0 .. 1 : t = Window(d) + b
  <2>1. Window(d) = Window(d) + 0
    BY WindowType
  <2> QED
    BY <2>1
<1>3. d * HoursADay \in Nat
  BY <1>1
<1>4. t \div 2 = d * HoursADay + TargetHour /\ t \in Nat
  <2> DEFINE m == d * HoursADay
  <2>1. m \in Nat /\ t = 2 * (m + TargetHour) + b
    BY <1>2, <1>3 DEF Window
  <2> HIDE DEF m
  <2>2. t \div 2 = m + TargetHour /\ t \in Nat
    BY <1>1, <2>1
  <2> QED
    BY <2>2 DEF m
<1>5. Hour(t) = TargetHour
  <2>1. (d * HoursADay + TargetHour) % HoursADay = TargetHour
    BY <1>1, Quotient
  <2> QED
    BY <1>4, <2>1 DEF Hour
<1>6. Day(t) = d
  <2> DEFINE k == 2 * HoursADay
             r == 2 * TargetHour + b
  <2>1. k \in Nat \ {0} /\ r \in 0 .. k - 1
    BY <1>1
  <2>2. t = d * k + r
    BY <1>1, <1>2, <1>3 DEF Window
  <2> HIDE DEF k, r
  <2>3. t \div k = d
    BY <2>1, <2>2, Quotient
  <2> QED
    BY <2>3 DEF Day, k
<1> QED
  BY <1>4, <1>5, <1>6

\* From one window to the next it is at least a day.
LEMMA WindowOrder ==
  ASSUME NEW d \in Nat, NEW e \in Nat, d < e
  PROVE  Window(d) + 2 * HoursADay <= Window(e)
<1>1. HoursADay \in Nat /\ TargetHour \in Int
  BY RemindersAssumption
<1>2. d * HoursADay + HoursADay <= e * HoursADay /\ d * HoursADay \in Int /\ e * HoursADay \in Int
  BY <1>1, Products
<1> QED
  BY <1>1, <1>2 DEF Window

LEMMA DayType ==
  ASSUME NEW t \in Nat
  PROVE  Day(t) \in Nat
BY HalfHour

LEMMA DayOrder ==
  ASSUME NEW s \in Nat, NEW t \in Nat, s <= t
  PROVE  Day(s) <= Day(t)
<1> SUFFICES ASSUME Day(t) < Day(s) PROVE FALSE
  BY DayType
<1>1. HoursADay \in Nat \ {0}
  BY RemindersAssumption
<1>2. PICK h \in 0 .. HoursADay - 1, b \in 0 .. 1 : t = 2 * (Day(t) * HoursADay + h) + b
  BY HalfHour
<1>3. PICK g \in 0 .. HoursADay - 1, a \in 0 .. 1 : s = 2 * (Day(s) * HoursADay + g) + a
  BY HalfHour
<1>4. /\ Day(t) * HoursADay + HoursADay <= Day(s) * HoursADay
      /\ Day(t) * HoursADay \in Int /\ Day(s) * HoursADay \in Int
  BY <1>1, DayType, Products
<1> QED
  BY <1>1, <1>2, <1>3, <1>4

\* The days of the model.
LEMMA DaysFacts ==
  /\ MaxClock \in Nat /\ MaxSending \in Nat /\ HoursADay \in Nat \ {0} /\ NoTick \notin Nat
  /\ \A d \in Days : d \in Nat
  /\ \A t \in 0 .. MaxClock : t \in Nat /\ Day(t) \in Days /\ Day(t) \in Nat
<1>1. /\ MaxClock \in Nat /\ MaxSending \in Nat /\ HoursADay \in Nat \ {0} /\ NoTick \notin Nat
  BY RemindersAssumption
<1>2. Day(MaxClock) \in Nat
  BY <1>1, DayType
<1>3. ASSUME NEW t \in 0 .. MaxClock
      PROVE  t \in Nat /\ Day(t) \in 0 .. Day(MaxClock) /\ Day(t) \in Nat
  <2>1. t \in Nat /\ t <= MaxClock
    BY <1>1
  <2> QED
    BY <1>1, <1>2, <2>1, DayType, DayOrder
<1> QED
  BY <1>1, <1>2, <1>3 DEF Days

-----------------------------------------------------------------------------
(* The daily reminder: nobody twice a day. RemindedOnceADay is not          *)
(* inductive: that a new process does not fire a day again rests on when it *)
(* started and on the ticks being an hour apart.                            *)

\* A tick comes an hour or more after the start, at whole hours from it, and is
\* not of a day before the last firing.
TickInv ==
  /\ since <= clock
  /\ ~up => tick = NoTick /\ lastFired = -1 /\ sending = {}
  /\ tick # NoTick => tick <= clock /\ since + 2 <= tick /\ (tick - since) % 2 = 0
  /\ lastFired <= Day(clock) /\ (tick # NoTick => lastFired <= Day(tick))

\* A day that was fired is past for the process that runs, or its window had
\* begun when it started.
FiredInv ==
  /\ lastFired # -1 => lastFired \in fired
  /\ \A d \in fired : Window(d) <= clock /\ (up => d <= lastFired \/ Window(d) <= since)

\* Only days that were fired have reminders, and whoever is still to be sent one
\* has none of the day.
ReachedInv ==
  /\ \A s \in Subs, d \in Days :
       (reached[s][d] = 0 \/ reached[s][d] = 1) /\ (d \in fired \/ reached[s][d] = 0)
  /\ \A s \in sending : lastFired \in Days /\ reached[s][lastFired] = 0

DailyInv == RemindersTypeOK /\ TickInv /\ FiredInv /\ ReachedInv

LEMMA DailyTypes ==
  ASSUME RemindersTypeOK
  PROVE  /\ clock \in Nat /\ clock <= MaxClock /\ Day(clock) \in Days /\ Day(clock) \in Nat
         /\ since \in Int /\ lastFired \in Int /\ firedAt \in Nat
         /\ tick # NoTick => tick \in Nat /\ tick \in 0 .. MaxClock /\ Day(tick) \in Days
                             /\ Day(tick) \in Nat
         /\ \A d \in fired \cup steady : d \in Nat /\ Window(d) \in Nat
         /\ \A d \in Days : d \in Nat /\ Window(d) \in Nat
         /\ fired \subseteq Days
<1>1. /\ clock \in 0 .. MaxClock /\ since \in -1 .. MaxClock /\ firedAt \in 0 .. MaxClock
      /\ lastFired \in Days \cup {-1} /\ fired \subseteq Days /\ steady \subseteq Days
      /\ tick \in 0 .. MaxClock \cup {NoTick}
  BY DEF RemindersTypeOK
<1>2. \A d \in Days : d \in Nat /\ Window(d) \in Nat
  BY DaysFacts, WindowType
<1> QED
  BY <1>1, <1>2, DaysFacts

LEMMA DailyInit == RemindersInit => DailyInv
<1> SUFFICES ASSUME RemindersInit PROVE DailyInv
  OBVIOUS
<1>1. 0 \in 0 .. MaxClock /\ MaxClock \in Nat /\ Day(0) \in Nat
  BY DaysFacts
<1>2. since \in {-1, 0} /\ since \in -1 .. MaxClock
  BY <1>1 DEF RemindersInit
<1>3. reached \in [Subs -> [Days -> Nat]] /\ \A s \in Subs, d \in Days : reached[s][d] = 0
  BY DEF RemindersInit
<1>4. RemindersTypeOK
  BY <1>1, <1>2, <1>3 DEF RemindersInit, RemindersTypeOK
<1>5. TickInv /\ FiredInv /\ ReachedInv
  BY <1>1, <1>2, <1>3 DEF RemindersInit, TickInv, FiredInv, ReachedInv
<1> QED
  BY <1>4, <1>5 DEF DailyInv

LEMMA PassDaily ==
  ASSUME DailyInv, Pass
  PROVE  DailyInv'
<1>1. /\ clock \in Nat /\ clock <= MaxClock /\ Day(clock) \in Nat /\ since \in Int
      /\ lastFired \in Int
      /\ tick # NoTick => tick \in Nat /\ tick \in 0 .. MaxClock
      /\ \A d \in fired : Window(d) \in Nat
      /\ MaxClock \in Nat /\ NoTick \notin Nat
  BY DailyTypes, DaysFacts DEF DailyInv
<1>2. /\ clock < MaxClock /\ clock' = clock + 1
      /\ tick' = IF up /\ (clock' - since) % 2 = 0 /\ tick = NoTick THEN clock' ELSE tick
      /\ steady' \subseteq steady \cup Days
      /\ UNCHANGED <<up, since, lastFired, firedAt, sending, deleting, subs, dead, due,
                     reached, fired>>
  BY DEF Pass, processVars, tableVars
<1>3. clock' \in 0 .. MaxClock /\ Day(clock) <= Day(clock') /\ Day(clock') \in Nat
  <2>1. clock + 1 \in Nat /\ clock + 1 <= MaxClock
    BY <1>1, <1>2
  <2> QED
    BY <1>1, <1>2, <2>1, DayOrder, DaysFacts
<1>4. RemindersTypeOK'
  BY <1>1, <1>2, <1>3 DEF DailyInv, RemindersTypeOK
<1>5. TickInv'
  <2>1. /\ since <= clock /\ lastFired <= Day(clock)
        /\ ~up => tick = NoTick /\ lastFired = -1 /\ sending = {}
        /\ tick # NoTick => /\ tick <= clock /\ since + 2 <= tick /\ (tick - since) % 2 = 0
                            /\ lastFired <= Day(tick)
    BY DEF DailyInv, TickInv
  <2>2. since <= clock' /\ lastFired <= Day(clock')
    BY <1>1, <1>2, <1>3, <2>1
  <2>3. CASE tick' = tick
    BY <1>1, <1>2, <2>1, <2>2, <2>3 DEF TickInv
  <2>4. CASE up /\ tick' = clock' /\ (clock' - since) % 2 = 0
    <3>1. since + 2 <= clock'
      BY <1>1, <1>2, <2>1, <2>4
    <3>2. UNCHANGED <<up, since, lastFired>>
      BY <1>2
    <3>3. up'
      BY <2>4, <3>2
    <3>4. tick' <= clock'
      <4>1. clock' \in Nat
        BY <1>1, <1>2
      <4>2. tick' = clock'
        BY <2>4
      <4> QED
        BY <4>1, <4>2
    <3> QED
      BY <2>2, <2>4, <3>1, <3>2, <3>3, <3>4 DEF TickInv
  <2> QED
    BY <1>2, <2>3, <2>4
<1>6. FiredInv'
  BY <1>1, <1>2 DEF DailyInv, FiredInv
<1>7. ReachedInv'
  BY <1>2 DEF DailyInv, ReachedInv
<1> QED
  BY <1>4, <1>5, <1>6, <1>7 DEF DailyInv

\* The day that a tick fires has not been fired.
LEMMA FreshDay ==
  ASSUME DailyInv, up, tick # NoTick, Hour(tick) = TargetHour, Day(tick) # lastFired
  PROVE  Day(tick) \notin fired /\ Window(Day(tick)) <= tick /\ tick <= Window(Day(tick)) + 1
<1>1. /\ tick \in Nat /\ since \in Int /\ lastFired \in Int /\ Day(tick) \in Nat
      /\ Window(Day(tick)) \in Nat
  BY DailyTypes, WindowType DEF DailyInv
<1>2. Window(Day(tick)) <= tick /\ tick <= Window(Day(tick)) + 1
  BY <1>1, HourInWindow
<1>3. since + 2 <= tick /\ lastFired <= Day(tick)
  BY DEF DailyInv, TickInv
<1>4. ASSUME Day(tick) \in fired
      PROVE  FALSE
  <2>1. Day(tick) <= lastFired \/ Window(Day(tick)) <= since
    BY <1>4 DEF DailyInv, FiredInv
  <2> QED
    BY <1>1, <1>2, <1>3, <2>1
<1> QED
  BY <1>2, <1>4

LEMMA FireDaily ==
  ASSUME DailyInv, Fire
  PROVE  DailyInv'
<1>1. /\ clock \in Nat /\ clock \in 0 .. MaxClock /\ since \in Int /\ lastFired \in Int
      /\ tick \in Nat /\ Day(tick) \in Days /\ Day(tick) \in Nat /\ Day(clock) \in Nat
      /\ tick <= clock /\ Day(tick) <= Day(clock) /\ lastFired <= Day(tick)
      /\ \A d \in Days : d \in Nat /\ Window(d) \in Nat
      /\ fired \subseteq Days
  <2>1. /\ clock \in Nat /\ clock \in 0 .. MaxClock /\ since \in Int /\ lastFired \in Int
        /\ tick \in Nat /\ Day(tick) \in Days /\ Day(tick) \in Nat /\ Day(clock) \in Nat
        /\ \A d \in Days : d \in Nat /\ Window(d) \in Nat
        /\ fired \subseteq Days
    BY DailyTypes DEF DailyInv, Fire, RemindersTypeOK
  <2>2. tick <= clock /\ lastFired <= Day(tick)
    BY DEF DailyInv, TickInv, Fire
  <2> QED
    BY <2>1, <2>2, DayOrder
<1>2. /\ up /\ tick # NoTick /\ sending = {} /\ tick' = NoTick
      /\ UNCHANGED <<clock, up, since, deleting, subs, dead, due, reached, steady>>
  BY DEF Fire, tableVars
<1>3. CASE Hour(tick) = TargetHour /\ Day(tick) # lastFired
  <2>1. /\ lastFired' = Day(tick) /\ firedAt' = clock /\ sending' \subseteq subs \intersect due
        /\ fired' = fired \cup {Day(tick)}
    BY <1>3 DEF Fire, Listed
  <2>2. Day(tick) \notin fired /\ Window(Day(tick)) <= tick
    BY <1>2, <1>3, FreshDay
  <2>3. RemindersTypeOK'
    BY <1>1, <1>2, <2>1 DEF DailyInv, RemindersTypeOK
  <2>4. TickInv'
    BY <1>1, <1>2, <2>1 DEF DailyInv, TickInv
  <2>5. FiredInv'
    <3> SUFFICES ASSUME NEW d \in fired'
                 PROVE  Window(d) <= clock /\ (d <= Day(tick) \/ Window(d) <= since)
      BY <1>2, <2>1 DEF FiredInv
    <3>1. CASE d = Day(tick)
      BY <1>1, <2>2, <3>1
    <3>2. CASE d \in fired
      <4>1. Window(d) <= clock /\ (d <= lastFired \/ Window(d) <= since) /\ d \in Nat
        BY <1>1, <1>2, <3>2 DEF DailyInv, FiredInv
      <4> QED
        BY <1>1, <4>1
    <3> QED
      BY <2>1, <3>1, <3>2
  <2>6. ReachedInv'
    BY <1>1, <1>2, <2>1, <2>2 DEF DailyInv, ReachedInv, RemindersTypeOK
  <2> QED
    BY <2>3, <2>4, <2>5, <2>6 DEF DailyInv
<1>4. CASE ~ (Hour(tick) = TargetHour /\ Day(tick) # lastFired)
  <2>1. UNCHANGED <<lastFired, firedAt, sending, fired>>
    BY <1>4 DEF Fire
  <2> QED
    BY <1>2, <2>1 DEF DailyInv, RemindersTypeOK, TickInv, FiredInv, ReachedInv
<1> QED
  BY <1>3, <1>4

LEMMA SendDaily ==
  ASSUME DailyInv, NEW s \in Subs, Send(s)
  PROVE  DailyInv'
<1>1. /\ s \in sending /\ sending' = sending \ {s}
      /\ reached' = [reached EXCEPT ![s][lastFired] = @ + 1] \/ reached' = reached
      /\ deleting' = deleting \cup {s} \/ deleting' = deleting
      /\ UNCHANGED <<clock, up, since, lastFired, firedAt, tick, subs, dead, due, steady, fired>>
  BY DEF Send, processVars, tableVars
<1>2. /\ lastFired \in Days /\ reached[s][lastFired] = 0
      /\ lastFired \in fired /\ -1 \notin Days
  BY <1>1, DaysFacts DEF DailyInv, ReachedInv, FiredInv
<1>3. reached \in [Subs -> [Days -> Nat]]
  BY DEF DailyInv, RemindersTypeOK
<1>4. /\ reached' \in [Subs -> [Days -> Nat]]
      /\ \A x \in Subs, d \in Days :
           reached'[x][d] = reached[x][d] \/ (x = s /\ d = lastFired /\ reached'[x][d] = 1)
  <2>1. CASE reached' = [reached EXCEPT ![s][lastFired] = @ + 1]
    BY <1>2, <1>3, <2>1
  <2>2. CASE reached' = reached
    BY <1>3, <2>2
  <2> QED
    BY <1>1, <2>1, <2>2
<1>5. RemindersTypeOK'
  BY <1>1, <1>4 DEF DailyInv, RemindersTypeOK
<1>6. TickInv' /\ FiredInv'
  BY <1>1 DEF DailyInv, TickInv, FiredInv
<1>7. ReachedInv'
  <2>1. \A x \in Subs, d \in Days :
          (reached'[x][d] = 0 \/ reached'[x][d] = 1) /\ (d \in fired \/ reached'[x][d] = 0)
    BY <1>2, <1>4 DEF DailyInv, ReachedInv
  <2>2. \A x \in sending' : reached'[x][lastFired] = 0
    BY <1>1, <1>2, <1>4 DEF DailyInv, ReachedInv, RemindersTypeOK
  <2> QED
    BY <1>1, <1>2, <2>1, <2>2 DEF ReachedInv
<1> QED
  BY <1>5, <1>6, <1>7 DEF DailyInv

LEMMA StopDaily ==
  ASSUME DailyInv, Stop
  PROVE  DailyInv'
<1>1. /\ up' = FALSE /\ tick' = NoTick /\ lastFired' = -1 /\ sending' = {} /\ deleting' = {}
      /\ UNCHANGED <<clock, since, firedAt, subs, dead, due, reached, steady, fired>>
  BY DEF Stop, tableVars
<1>2. Day(clock) \in Nat
  BY DailyTypes DEF DailyInv
<1>3. RemindersTypeOK'
  BY <1>1 DEF DailyInv, RemindersTypeOK
<1>4. TickInv' /\ FiredInv' /\ ReachedInv'
  BY <1>1, <1>2 DEF DailyInv, TickInv, FiredInv, ReachedInv
<1> QED
  BY <1>3, <1>4 DEF DailyInv

LEMMA StartDaily ==
  ASSUME DailyInv, Start
  PROVE  DailyInv'
<1>1. /\ ~up /\ up' = TRUE /\ since' = clock
      /\ UNCHANGED <<clock, tick, lastFired, firedAt, sending, deleting, subs, dead, due,
                     reached, steady, fired>>
  BY DEF Start, tableVars
<1>2. clock \in Nat /\ clock \in -1 .. MaxClock
  BY DailyTypes, DaysFacts DEF DailyInv
<1>3. RemindersTypeOK'
  BY <1>1, <1>2 DEF DailyInv, RemindersTypeOK
<1>4. TickInv' /\ FiredInv' /\ ReachedInv'
  BY <1>1, <1>2 DEF DailyInv, TickInv, FiredInv, ReachedInv
<1> QED
  BY <1>3, <1>4 DEF DailyInv

\* Rows go, endpoints expire and cards become due without the scheduler.
LEMMA TableDaily ==
  ASSUME DailyInv, NEW s \in Subs, DeleteRow(s) \/ Environment(s)
  PROVE  DailyInv'
<1>1. /\ deleting' \subseteq Subs /\ subs' \subseteq Subs /\ dead' \subseteq Subs
      /\ due' \subseteq Subs
      /\ UNCHANGED <<clock, up, since, lastFired, firedAt, tick, sending, reached, steady, fired>>
  BY DEF DailyInv, RemindersTypeOK, DeleteRow, Environment, processVars
<1>2. RemindersTypeOK'
  BY <1>1 DEF DailyInv, RemindersTypeOK
<1>3. TickInv' /\ FiredInv' /\ ReachedInv'
  BY <1>1 DEF DailyInv, TickInv, FiredInv, ReachedInv
<1> QED
  BY <1>2, <1>3 DEF DailyInv

LEMMA DailyStutter == DailyInv /\ UNCHANGED reminderVars => DailyInv'
BY DEF DailyInv, reminderVars, processVars, tableVars, RemindersTypeOK, TickInv, FiredInv,
       ReachedInv

LEMMA DailyInvariant == RemindersSpec => []DailyInv
<1>1. DailyInv /\ [RemindersNext]_reminderVars => DailyInv'
  BY PassDaily, FireDaily, SendDaily, StopDaily, StartDaily, TableDaily, DailyStutter
     DEF RemindersNext
<1> QED
  BY <1>1, DailyInit, PTL DEF RemindersSpec

\* What the scheduler, its ticker and the table of subscriptions hold.
THEOREM RemindersTypeCorrect == RemindersSpec => []RemindersTypeOK
<1>1. DailyInv => RemindersTypeOK
  BY DEF DailyInv
<1> QED
  BY <1>1, DailyInvariant, PTL

\* Nobody is reminded twice on a day, however often the process stops and starts
\* (runDailyScheduler, SendDueReminders).
THEOREM OnceADay == RemindersSpec => []RemindedOnceADay
<1>1. DailyInv => RemindedOnceADay
  BY DEF DailyInv, ReachedInv, RemindedOnceADay
<1> QED
  BY <1>1, DailyInvariant, PTL

-----------------------------------------------------------------------------
(* The daily reminder: every day. The process takes a tick of the target    *)
(* hour at once, because what it sent the day before is done by then, so    *)
(* that no tick of that hour is dropped or taken late.                      *)

OnTimeInv ==
  /\ sending # {} => /\ firedAt \in {Window(lastFired), Window(lastFired) + 1}
                     /\ (firedAt - since) % 2 = 0
                     /\ firedAt <= clock /\ clock <= firedAt + MaxSending
  /\ tick # NoTick /\ Hour(tick) = TargetHour => tick = clock /\ sending = {}

\* A tick of the target hour that the process saw has fired the day, or waits.
\* Who saw the hour whole started before it; a successor, after it.
SteadyInv ==
  /\ up => \A d \in Days : \A t \in {Window(d), Window(d) + 1} :
             since < Window(d) /\ (t - since) % 2 = 0 /\ t <= clock => d \in fired \/ tick = t
  /\ \A d \in steady :
       Window(d) + 2 <= clock /\ (since < Window(d) \/ Window(d) + 2 <= since)

HourInv == OnTimeInv /\ SteadyInv

\* No tick of a target hour comes during the sending.
LEMMA QuietSending ==
  ASSUME MaxSending < 2 * HoursADay, DailyInv, OnTimeInv, sending # {},
         NEW t \in Nat, firedAt < t, t <= firedAt + MaxSending, (t - since) % 2 = 0,
         NEW d \in Days
  PROVE  t \notin {Window(d), Window(d) + 1}
<1>1. lastFired \in Days
  BY DEF DailyInv, ReachedInv
<1>2. /\ d \in Nat /\ lastFired \in Nat /\ Window(d) \in Nat /\ Window(lastFired) \in Nat
      /\ since \in Int /\ firedAt \in Nat /\ MaxSending \in Nat /\ HoursADay \in Nat \ {0}
  BY <1>1, DailyTypes, DaysFacts DEF DailyInv
<1>3. firedAt \in {Window(lastFired), Window(lastFired) + 1} /\ (firedAt - since) % 2 = 0
  BY DEF OnTimeInv
<1>4. CASE d < lastFired
  <2>1. Window(d) + 2 * HoursADay <= Window(lastFired)
    BY <1>2, <1>4, WindowOrder
  <2> QED
    BY <1>2, <1>3, <2>1
<1>5. CASE d = lastFired
  BY <1>2, <1>3, <1>5
<1>6. CASE lastFired < d
  <2>1. Window(lastFired) + 2 * HoursADay <= Window(d)
    BY <1>2, <1>6, WindowOrder
  <2> QED
    BY <1>2, <1>3, <2>1
<1> QED
  BY <1>2, <1>4, <1>5, <1>6

LEMMA HourInit == RemindersInit => HourInv
<1> SUFFICES ASSUME RemindersInit PROVE HourInv
  OBVIOUS
<1>1. OnTimeInv
  BY DEF RemindersInit, OnTimeInv
<1>2. ASSUME NEW d \in Days, NEW t \in {Window(d), Window(d) + 1},
             since < Window(d), (t - since) % 2 = 0, t <= 0
      PROVE  FALSE
  <2>1. Window(d) \in Nat /\ since \in {-1, 0}
    BY DaysFacts, WindowType DEF RemindersInit
  <2> QED
    BY <1>2, <2>1
<1>3. SteadyInv
  BY <1>2 DEF RemindersInit, SteadyInv
<1> QED
  BY <1>1, <1>3 DEF HourInv

LEMMA PassHour ==
  ASSUME MaxSending < 2 * HoursADay, DailyInv, HourInv, Pass
  PROVE  HourInv'
<1>1. /\ clock \in Nat /\ since \in Int /\ firedAt \in Nat /\ MaxSending \in Nat
      /\ tick # NoTick => tick \in Nat
      /\ NoTick \notin Nat
      /\ \A d \in Days \cup steady : d \in Nat /\ Window(d) \in Nat
  BY DailyTypes, DaysFacts DEF DailyInv
<1>2. /\ tick = NoTick \/ sending # {}
      /\ sending # {} => clock < firedAt + MaxSending
      /\ clock' = clock + 1
      /\ tick' = IF up /\ (clock' - since) % 2 = 0 /\ tick = NoTick THEN clock' ELSE tick
      /\ UNCHANGED <<up, since, lastFired, firedAt, sending, fired>>
  BY DEF Pass, processVars
<1>3. steady' = steady \cup {d \in Days : clock' = Window(d) + 2 /\ up /\ since < Window(d)}
  BY DEF Pass
<1>4. clock' \in Nat
  BY <1>1, <1>2
\* Nobody is being sent to when the target hour ticks.
<1>5. ASSUME NEW d \in Days, clock' \in {Window(d), Window(d) + 1}, (clock' - since) % 2 = 0
      PROVE  sending = {} /\ tick = NoTick
  <2> SUFFICES ASSUME sending # {} PROVE FALSE
    BY <1>2
  <2>1. firedAt <= clock /\ OnTimeInv
    BY DEF HourInv, OnTimeInv
  <2>2. firedAt < clock' /\ clock' <= firedAt + MaxSending
    BY <1>1, <1>2, <2>1
  <2> QED
    BY <1>4, <1>5, <2>1, <2>2, QuietSending
\* A tick that waits is not of the target hour.
<1>6. tick # NoTick => Hour(tick) # TargetHour
  BY <1>2 DEF HourInv, OnTimeInv
<1>7. OnTimeInv'
  <2>1. ASSUME sending # {}
        PROVE  /\ firedAt \in {Window(lastFired), Window(lastFired) + 1}
               /\ (firedAt - since) % 2 = 0
               /\ firedAt <= clock' /\ clock' <= firedAt + MaxSending
    BY <1>1, <1>2, <2>1 DEF HourInv, OnTimeInv
  <2>2. ASSUME tick' # NoTick, Hour(tick') = TargetHour
        PROVE  tick' = clock' /\ sending = {}
    <3>1. tick' # tick
      BY <1>6, <2>2
    <3>2. tick' = clock' /\ (clock' - since) % 2 = 0
      BY <1>2, <3>1
    <3>3. clock' \in {Window(Day(clock')), Window(Day(clock')) + 1}
      BY <1>4, <2>2, <3>2, HourInWindow
    <3>4. Day(clock') \in Days
      <4>1. clock' \in 0 .. MaxClock
        <5>1. clock < MaxClock /\ MaxClock \in Nat
          BY DaysFacts DEF Pass
        <5> QED
          BY <1>1, <1>2, <5>1
      <4> QED
        BY <4>1, DaysFacts
    <3> QED
      BY <1>5, <3>2, <3>3, <3>4
  <2> QED
    BY <1>2, <2>1, <2>2 DEF OnTimeInv
<1>8. ASSUME up, NEW d \in Days, NEW t \in {Window(d), Window(d) + 1},
             since < Window(d), (t - since) % 2 = 0, t <= clock'
      PROVE  d \in fired \/ tick' = t
  <2>1. t \in Nat /\ Hour(t) = TargetHour
    BY <1>1, WindowIsHour
  <2>2. CASE t <= clock
    <3>1. d \in fired \/ tick = t
      BY <1>8, <2>2 DEF HourInv, SteadyInv
    <3>2. tick # t
      BY <1>1, <1>6, <2>1
    <3> QED
      BY <3>1, <3>2
  <2>3. CASE ~ (t <= clock)
    <3>1. t = clock'
      BY <1>1, <1>2, <1>8, <2>1, <2>3
    <3>2. tick = NoTick
      BY <1>5, <1>8, <3>1
    <3>3. tick' = clock'
      BY <1>2, <1>8, <3>1, <3>2
    <3> QED
      BY <3>1, <3>3
  <2> QED
    BY <2>2, <2>3
<1>9. ASSUME NEW d \in steady'
      PROVE  Window(d) + 2 <= clock' /\ (since < Window(d) \/ Window(d) + 2 <= since)
  <2>1. CASE d \in steady
    <3>1. Window(d) + 2 <= clock /\ (since < Window(d) \/ Window(d) + 2 <= since)
      BY <2>1 DEF HourInv, SteadyInv
    <3> QED
      BY <1>1, <1>2, <2>1, <3>1
  <2>2. CASE d \in Days /\ clock' = Window(d) + 2 /\ since < Window(d)
    BY <1>1, <1>4, <2>2
  <2> QED
    BY <1>3, <1>9, <2>1, <2>2
<1>10. SteadyInv'
  BY <1>2, <1>8, <1>9 DEF SteadyInv
<1> QED
  BY <1>7, <1>10 DEF HourInv

LEMMA FireHour ==
  ASSUME DailyInv, HourInv, Fire
  PROVE  HourInv'
<1>1. /\ clock \in Nat /\ tick \in Nat /\ MaxSending \in Nat /\ lastFired \in Int
      /\ \A d \in Days : d \in Nat
  BY DailyTypes, DaysFacts DEF DailyInv, Fire
<1>2. /\ up /\ tick # NoTick /\ sending = {} /\ tick' = NoTick
      /\ UNCHANGED <<clock, up, since, steady>>
  BY DEF Fire
<1>3. (tick - since) % 2 = 0 /\ (lastFired # -1 => lastFired \in fired)
  BY <1>2 DEF DailyInv, TickInv, FiredInv
<1>4. CASE Hour(tick) = TargetHour /\ Day(tick) # lastFired
  <2>1. lastFired' = Day(tick) /\ firedAt' = clock /\ fired' = fired \cup {Day(tick)}
    BY <1>4 DEF Fire
  <2>2. tick = clock /\ tick \in {Window(Day(tick)), Window(Day(tick)) + 1}
    BY <1>1, <1>2, <1>4, HourInWindow DEF HourInv, OnTimeInv
  <2>3. firedAt' \in {Window(lastFired'), Window(lastFired') + 1}
    BY <2>1, <2>2
  <2>4. (firedAt' - since') % 2 = 0 /\ firedAt' <= clock' /\ clock' <= firedAt' + MaxSending
    BY <1>1, <1>2, <1>3, <2>1, <2>2
  <2>5. OnTimeInv'
    BY <1>2, <2>3, <2>4 DEF OnTimeInv
  <2>6. ASSUME NEW d \in Days, NEW t \in {Window(d), Window(d) + 1}, d \in fired \/ tick = t
        PROVE  d \in fired'
    <3>1. Day(t) = d
      BY <1>1, WindowIsHour
    <3> QED
      BY <2>1, <2>6, <3>1
  <2>7. SteadyInv'
    BY <1>2, <2>6 DEF HourInv, SteadyInv
  <2> QED
    BY <2>5, <2>7 DEF HourInv
<1>5. CASE ~ (Hour(tick) = TargetHour /\ Day(tick) # lastFired)
  <2>1. UNCHANGED <<lastFired, firedAt, sending, fired>>
    BY <1>5 DEF Fire
  <2>2. OnTimeInv'
    BY <1>2, <2>1 DEF OnTimeInv
  <2>3. ASSUME NEW d \in Days, NEW t \in {Window(d), Window(d) + 1}, d \in fired \/ tick = t
        PROVE  d \in fired
    <3>1. d \in Nat /\ Day(t) = d /\ Hour(t) = TargetHour
      BY <1>1, WindowIsHour
    <3>2. tick = t => lastFired = d
      BY <1>5, <3>1
    <3> QED
      BY <1>3, <2>3, <3>1, <3>2
  <2>4. SteadyInv'
    BY <1>2, <2>1, <2>3 DEF HourInv, SteadyInv
  <2> QED
    BY <2>2, <2>4 DEF HourInv
<1> QED
  BY <1>4, <1>5

LEMMA StartHour ==
  ASSUME DailyInv, HourInv, Start
  PROVE  HourInv'
<1>1. /\ ~up /\ since' = clock
      /\ UNCHANGED <<clock, tick, lastFired, firedAt, sending, steady, fired>>
  BY DEF Start
<1>2. clock \in Nat /\ \A d \in Days \cup steady : Window(d) \in Nat
  BY DailyTypes DEF DailyInv
<1>3. tick = NoTick /\ sending = {}
  BY <1>1 DEF DailyInv, TickInv
<1>4. OnTimeInv'
  BY <1>1, <1>3 DEF OnTimeInv
<1>5. ASSUME NEW d \in Days, NEW t \in {Window(d), Window(d) + 1}, clock < Window(d), t <= clock
      PROVE  FALSE
  BY <1>2, <1>5
<1>6. \A d \in steady : Window(d) + 2 <= clock
  BY DEF HourInv, SteadyInv
<1>7. SteadyInv'
  BY <1>1, <1>5, <1>6 DEF SteadyInv
<1> QED
  BY <1>4, <1>7 DEF HourInv

\* The other steps touch neither the clock nor the ticks of the target hour.
LEMMA OtherHour ==
  ASSUME DailyInv, HourInv,
         \/ \E s \in Subs : Send(s) \/ DeleteRow(s) \/ Environment(s)
         \/ Stop \/ UNCHANGED reminderVars
  PROVE  HourInv'
<1>1. CASE Stop
  BY <1>1 DEF Stop, HourInv, OnTimeInv, SteadyInv
<1>2. ASSUME NEW s \in Subs, Send(s)
      PROVE  HourInv'
  BY <1>2 DEF Send, processVars, HourInv, OnTimeInv, SteadyInv
<1>3. ASSUME NEW s \in Subs, DeleteRow(s) \/ Environment(s)
      PROVE  HourInv'
  BY <1>3 DEF DeleteRow, Environment, processVars, HourInv, OnTimeInv, SteadyInv
<1>4. CASE UNCHANGED reminderVars
  BY <1>4 DEF reminderVars, processVars, HourInv, OnTimeInv, SteadyInv
<1> QED
  BY <1>1, <1>2, <1>3, <1>4

\* On every day of which one process saw the whole target hour runDailyScheduler
\* calls SendDueReminders, if a round of sending takes less than a day: of a tick
\* that comes while the loop is busy nothing may be left. Nothing is said of whom
\* the call reaches, nor of days on which the process started within the hour.
THEOREM EverySteadyDay ==
  ASSUME MaxSending < 2 * HoursADay
  PROVE  RemindersSpec => []FiresEverySteadyDay
<1>1. DailyInv /\ HourInv /\ [RemindersNext]_reminderVars => HourInv'
  BY PassHour, FireHour, StartHour, OtherHour DEF RemindersNext
<1>2. DailyInv /\ HourInv => FiresEverySteadyDay
  <2> SUFFICES ASSUME DailyInv, HourInv, NEW d \in steady, up, ~ (since > Window(d))
               PROVE  d \in fired \/ tick # NoTick
    BY DEF FiresEverySteadyDay
  <2>1. /\ d \in Days /\ Window(d) \in Nat /\ since \in Int /\ clock \in Nat
        /\ NoTick \notin Nat
    BY DailyTypes, DaysFacts DEF DailyInv, RemindersTypeOK
  <2>2. Window(d) + 2 <= clock /\ since < Window(d)
    BY <2>1 DEF HourInv, SteadyInv
  <2>3. PICK t \in {Window(d), Window(d) + 1} : (t - since) % 2 = 0
    BY <2>1
  <2>4. d \in fired \/ tick = t
    BY <2>1, <2>2, <2>3 DEF HourInv, SteadyInv
  <2> QED
    BY <2>1, <2>4
<1> QED
  BY <1>1, <1>2, HourInit, DailyInvariant, PTL DEF RemindersSpec

==============================================================================
