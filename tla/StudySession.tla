---------------------------- MODULE StudySession ----------------------------
(***************************************************************************)
(* What a student is asked, and what becomes of the SM-2 state of the      *)
(* cards, when study sessions run with and without the network.            *)
(*                                                                         *)
(* There are two copies of the reviews of a deck: the server's table, and  *)
(* the one in IndexedDB that recordAnswer updates and that saveBundle      *)
(* overwrites when a session is opened online (study.js, offline.js). The  *)
(* copy is refreshed only when that save succeeds, and what it computes of *)
(* an answer may be a day off (Scheduler). A session is built once, from   *)
(* the copy at hand, by buildQueue. Answers                                *)
(* that could not be posted wait in answer_queue; the server schedules     *)
(* them when they arrive, not when they were given. How they are sent is   *)
(* the subject of AnswerSync, replies lost after the write included; here  *)
(* one of them arrives in one step.                                        *)
(***************************************************************************)
EXTENDS Scheduler, SequencesExt

CONSTANTS
  Cards,        \* the cards of the deck
  Earlier,      \* the reviews that the answers of the day left before the first session
  MaxAnswers,   \* bound: how many answers the student gives
  MaxDay        \* bound: the last day

ASSUME CardsAssumption == IsFiniteSet(Cards)
ASSUME BoundsAssumption == MaxAnswers \in Nat /\ MaxDay \in Nat \ {0}

VARIABLES
  day,       \* today
  review,    \* table reviews of this student, by card; no row for a card never answered
  local,     \* IndexedDB "reviews"
  cached,    \* IndexedDB has the cards of the deck
  pending,   \* IndexedDB "answer_queue", oldest first
  session,   \* the open study page: mode, bundle, and the cards left, the current one first
  given,     \* answers given so far
  ideal,     \* history: the reviews if every answer had reached the server when given
  overtaken, \* history: cards of which an older answer waited when a newer one arrived
  behind     \* history: cards of which the local copy misses an answer, or rounded one
             \* the other way

vars == <<day, review, local, cached, pending, session, given, ideal, overtaken, behind>>

Modes == {"due", "random", "wrong"}
NoTime == 0          \* recordAnswer stores no updated_at
RecentDays == 7
Closed == [open |-> FALSE, mode |-> "due", bundle |-> <<>>, left |-> <<>>]

\* Nothing bounds an interval, and with it a due date: Days wraps.
Row == [streak : Nat, interval : Nat \ {0}, ease : MinEase .. MaxEase,
        last : Results, due : Int, updated : {NoTime} \cup (1 .. MaxDay)]

IsReviews(r) == DOMAIN r \subseteq Cards /\ \A c \in DOMAIN r : r[c] \in Row

ASSUME EarlierAssumption ==
  /\ IsReviews(Earlier)
  /\ \A c \in DOMAIN Earlier :
       Earlier[c].updated = 1 /\ Earlier[c].due = 1 + Days(Earlier[c].interval)

TypeOK ==
  /\ day \in 1 .. MaxDay /\ given \in 0 .. MaxAnswers /\ cached \in BOOLEAN
  /\ IsReviews(review) /\ IsReviews(local) /\ IsReviews(ideal)
  /\ pending \in Seq([card : Cards, result : Results])
  /\ session.open \in BOOLEAN /\ session.mode \in Modes /\ IsReviews(session.bundle)
  /\ session.left \in Seq(Cards)
  /\ overtaken \subseteq Cards /\ behind \subseteq Cards

Init ==
  /\ day = 1
  /\ review = Earlier /\ local = <<>> /\ ideal = Earlier
  /\ cached = FALSE
  /\ pending = <<>>
  /\ session = Closed
  /\ given = 0
  /\ overtaken = {} /\ behind = DOMAIN Earlier

-----------------------------------------------------------------------------
(* Reviews.                                                                *)

\* Cards without a row come first.
DueDay(reviews, c) == IF c \in DOMAIN reviews THEN reviews[c].due ELSE 0

\* put: the rows of new replace those of old.
Merge(old, new) ==
  [c \in DOMAIN old \cup DOMAIN new |-> IF c \in DOMAIN new THEN new[c] ELSE old[c]]

Put(reviews, c, r) == Merge(reviews, [x \in {c} |-> r])

\* SubmitAnswer and Upsert: a card without a row starts from the defaults.
Scheduled(reviews, c, result) ==
  LET s == IF c \in DOMAIN reviews
             THEN Schedule(result, reviews[c].streak, reviews[c].interval, reviews[c].ease)
             ELSE Schedule(result, 0, 1, InitialEase)
  IN  Put(reviews, c, [streak |-> s.streak, interval |-> s.interval, ease |-> s.ease,
                       last |-> s.last, due |-> day + s.ahead, updated |-> day])

\* Mutant: recordAnswer leaves the old due date.
RecordedKeepsDue(reviews, c, result, low) ==
  LET s == IF c \in DOMAIN reviews
             THEN Sm2Schedule(result, reviews[c].streak, reviews[c].interval, reviews[c].ease, low)
             ELSE Sm2Schedule(result, 0, 1, InitialEase, low)
  IN  Put(reviews, c, [streak |-> s.streak, interval |-> s.interval, ease |-> s.ease,
                       last |-> s.last, due |-> DueDay(reviews, c), updated |-> NoTime])

\* recordAnswer, first half: the same in the browser, without updated_at.
Recorded(reviews, c, result, low) ==
  LET s == IF c \in DOMAIN reviews
             THEN Sm2Schedule(result, reviews[c].streak, reviews[c].interval, reviews[c].ease, low)
             ELSE Sm2Schedule(result, 0, 1, InitialEase, low)
  IN  Put(reviews, c, [streak |-> s.streak, interval |-> s.interval, ease |-> s.ease,
                       last |-> s.last, due |-> day + s.ahead, updated |-> NoTime])

Pending(c) == \E n \in DOMAIN pending : pending[n].card = c

-----------------------------------------------------------------------------
(* buildQueue.                                                             *)

IsDue(reviews, c) == c \in DOMAIN reviews => reviews[c].due <= day

\* new Date(undefined) is not a number, and no comparison with it holds.
\* A row of exactly RecentDays ago is taken as recent at any time of the day.
RecentlyWrong(reviews, c) ==
  /\ c \in DOMAIN reviews
  /\ reviews[c].last = "wrong"
  /\ reviews[c].updated # NoTime /\ day - reviews[c].updated <= RecentDays

\* The orders that sorting by day and shuffling within a day may produce.
SortedBy(S, Key(_)) ==
  {s \in SetToSeqs(S) : \A m, n \in DOMAIN s : m < n => Key(s[m]) <= Key(s[n])}

\* Mutant: the cards to repeat are those answered wrong last and due.
BuildQueueWrongDue(reviews, mode) ==
  LET wrong == {c \in Cards : RecentlyWrong(reviews, c) /\ IsDue(reviews, c)}
      due == {c \in Cards : IsDue(reviews, c)}
      ByDue(c) == DueDay(reviews, c)
      ByRecency(c) == 0 - reviews[c].updated
  IN  IF mode = "random" THEN SetToSeqs(Cards)
      ELSE IF mode = "wrong" /\ wrong # {} THEN SortedBy(wrong, ByRecency)
      ELSE SortedBy(due, ByDue)

BuildQueue(reviews, mode) ==
  LET wrong == {c \in Cards : RecentlyWrong(reviews, c)}
      due == {c \in Cards : IsDue(reviews, c)}
      ByDue(c) == DueDay(reviews, c)
      ByRecency(c) == 0 - reviews[c].updated
  IN  IF mode = "random" THEN SetToSeqs(Cards)
      ELSE IF mode = "wrong" /\ wrong # {} THEN SortedBy(wrong, ByRecency)
      ELSE SortedBy(due, ByDue)

Start(reviews, mode) ==
  \E left \in BuildQueue(reviews, mode) :
    session' = [open |-> TRUE, mode |-> mode, bundle |-> reviews, left |-> left]

-----------------------------------------------------------------------------
(* The study page.                                                         *)

\* saveBundle, and the catch that swallows its failure. It is one transaction:
\* whatever reads or writes the stores later waits for its end, so that nothing
\* tells a late save from one at once, nor a save that the page did not live to
\* see from one that failed.
SaveBundle ==
  \/ /\ local' = Merge(local, review)
     /\ cached' = TRUE
     /\ behind' = {c \in Cards : Pending(c) \/ c \in overtaken}
  \/ UNCHANGED <<local, cached, behind>>

\* initSession(false): fetch the bundle, save it over the local copy.
OpenOnline(mode) ==
  /\ ~ session.open
  /\ Start(review, mode)
  /\ SaveBundle
  /\ UNCHANGED <<day, review, pending, given, ideal, overtaken>>

\* initSession(true): the deck as it is in IndexedDB.
OpenOffline(mode) ==
  /\ ~ session.open /\ cached
  /\ Start(local, mode)
  /\ UNCHANGED <<day, review, local, cached, pending, given, ideal, overtaken, behind>>

Leave ==
  /\ session.open
  /\ session' = Closed
  /\ UNCHANGED <<day, review, local, cached, pending, given, ideal, overtaken, behind>>

\* The current card is answered, and the next one is shown.
Give(c, result) ==
  /\ session.open /\ session.left # <<>> /\ given < MaxAnswers
  /\ c = Head(session.left)
  /\ session' = [session EXCEPT !.left = Tail(@)]
  /\ given' = given + 1
  /\ ideal' = Scheduled(ideal, c, result)

\* The post succeeds. The local copy is not told.
AnswerOnline(c, result) ==
  /\ Give(c, result)
  /\ review' = Scheduled(review, c, result)
  /\ overtaken' = IF Pending(c) THEN overtaken \cup {c} ELSE overtaken
  /\ behind' = behind \cup {c}
  /\ UNCHANGED <<day, local, cached, pending>>

\* The post fails or gets 401: recordAnswer.
AnswerStored(c, result) ==
  /\ Give(c, result)
  /\ \E low \in BOOLEAN :
       /\ local' = Recorded(local, c, result, low)
       /\ behind' = IF local'[c].interval = Scheduled(local, c, result)[c].interval
                      THEN behind ELSE behind \cup {c}
  /\ pending' = Append(pending, [card |-> c, result |-> result])
  /\ UNCHANGED <<day, review, cached, overtaken>>

\* A random round is over: the next one is built from the same bundle.
NextRound ==
  /\ session.open /\ session.left = <<>> /\ session.mode = "random"
  /\ Start(session.bundle, "random")
  /\ UNCHANGED <<day, review, local, cached, pending, given, ideal, overtaken, behind>>

-----------------------------------------------------------------------------
(* The queue and the calendar.                                             *)

\* Mutant: an item that the server refused is deleted like one that arrived.
FlushItemDropped ==
  \E n \in DOMAIN pending :
    LET item == pending[n] IN
      /\ review' \in {Scheduled(review, item.card, item.result), review}
      /\ pending' = RemoveAt(pending, n)
      /\ overtaken' = IF \E m \in 1 .. n - 1 : pending[m].card = item.card
                        THEN overtaken \cup {item.card} ELSE overtaken
      /\ UNCHANGED <<day, local, cached, session, given, ideal, behind>>

\* One item of a pass arrives. Those before it, if any, were refused or lost and
\* are still queued.
FlushItem ==
  \E n \in DOMAIN pending :
    LET item == pending[n] IN
      /\ review' = Scheduled(review, item.card, item.result)
      /\ pending' = RemoveAt(pending, n)
      /\ overtaken' = IF \E m \in 1 .. n - 1 : pending[m].card = item.card
                        THEN overtaken \cup {item.card} ELSE overtaken
      /\ UNCHANGED <<day, local, cached, session, given, ideal, behind>>

NextDay ==
  /\ day < MaxDay
  /\ day' = day + 1
  /\ UNCHANGED <<review, local, cached, pending, session, given, ideal, overtaken, behind>>

Next ==
  \/ \E mode \in Modes : OpenOnline(mode) \/ OpenOffline(mode)
  \/ Leave \/ NextRound
  \/ \E c \in Cards, result \in Results : AnswerOnline(c, result) \/ AnswerStored(c, result)
  \/ FlushItem \/ NextDay

Spec == Init /\ [][Next]_vars

-----------------------------------------------------------------------------
(* Properties.                                                             *)

\* r is what the answers make of a card when they arrive late: the same state,
\* due no earlier.
Agrees(r, i) ==
  /\ r.streak = i.streak /\ r.interval = i.interval /\ r.ease = i.ease /\ r.last = i.last
  /\ r.due >= i.due

\* However sessions with and without the network alternate, once the answers
\* about a card have all arrived its review is what it would have been online,
\* unless a newer answer overtook an older one (SubmitAnswer folds answers in
\* the order of arrival; flushQueue sends them in the order they were given).
LateAnswersFold ==
  \A c \in DOMAIN ideal \ overtaken :
    ~ Pending(c) => c \in DOMAIN review /\ Agrees(review[c], ideal[c])

\* A session opened without the network never asks again for a card that the
\* student has just passed on this device (recordAnswer, isDue, buildQueue).
OfflineOffersOnlyDue ==
  [][session'.open /\ ~ session.open /\ session'.mode = "due" /\ session'.bundle = local =>
       \A c \in ToSet(session'.left) \ behind : IsDue(ideal, c)]_vars

\* Cards whose last answer, of this week, was wrong.
WrongThisWeek ==
  {c \in DOMAIN ideal : ideal[c].last = "wrong" /\ day - ideal[c].updated < RecentDays}

\* Opened with the network, "wrong" mode asks for every card the student
\* answered wrong this week whose answers have all arrived in order.
OnlineOffersWrong ==
  [][session'.open /\ ~ session.open /\ session'.mode = "wrong" /\ session'.bundle = review =>
       {c \in WrongThisWeek \ overtaken : ~ Pending(c)} \subseteq ToSet(session'.left)]_vars
=============================================================================
