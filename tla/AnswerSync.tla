----------------------------- MODULE AnswerSync -----------------------------
(***************************************************************************)
(* How an answer given on the study page reaches the reviews table.        *)
(*                                                                         *)
(* The actors are the study page (study.js, flyAndAnswer), the answer      *)
(* queue it keeps in IndexedDB (offline.js), the chains that flush the     *)
(* queue (offline.js flushQueue, started by every "online" event of the    *)
(* page, and sw.js flushAnswerQueue, started by a Background Sync), the    *)
(* network, and the server's POST /api/study/answer, whose read of the     *)
(* review and write of the new one are separate statements outside any     *)
(* transaction (service/study.go, SubmitAnswer).                           *)
(*                                                                         *)
(* The SM-2 state of a card is the fold of Schedule over the answers given *)
(* so far, so a review is the sequence of answers folded into it: a        *)
(* repeated, missing or misplaced answer is visible in the sequence.       *)
(***************************************************************************)
EXTENDS Naturals, Sequences

CONSTANTS
  Users, NoUser,      \* accounts that may log in on this browser; no valid session
  Cards,              \* the cards studied
  MaxAnswers,         \* bound: how many answers the student gives
  CardOf,             \* the card each answer is about
  PageChains,         \* bound: flushQueue chains alive at once in the page
  Workers,            \* service workers that flush on Background Sync
  Slots, NoSlot,      \* bound: requests in flight at once; none
  MaxFaults,          \* bound: failures of network, server, storage and browser
  MaxOutages          \* bound: times the device goes offline

Answers == 1 .. MaxAnswers
Chains == PageChains \cup Workers

ASSUME BoundsAssumption == {MaxAnswers, MaxFaults, MaxOutages} \subseteq Nat
ASSUME CardOfAssumption == CardOf \in [Answers -> Cards]
ASSUME NamesAssumption == NoUser \notin Users /\ NoSlot \notin Slots
ASSUME ChainsAssumption == PageChains \cap Workers = {}

VARIABLES
  user, valid,   \* account of the session cookie, and whether it is still accepted
  open,          \* cards whose deck the server lets the student study
  online,        \* connectivity of the device
  page,          \* the study page
  chain,         \* the flush chains
  queue,         \* IndexedDB "answer_queue"; _id grows, so the answers are its keys
  tag,           \* Background Sync tag registered and not fired yet
  request,       \* POST /api/study/answer requests in flight
  review,        \* table reviews, by account and card
  given,         \* answers given so far: the current one is given itself
  accepted,      \* answers the page has confirmed to the student (onAnswerSuccess)
  delivered,     \* <<answer, account>> written to the table at least once
  faults,        \* failures so far
  outages        \* times the device went offline

device == <<page, queue, tag>>
server == <<open, review, delivered>>
session == <<user, valid>>
network == <<online, outages>>
vars == <<user, valid, open, online, outages, page, chain, queue, tag,
          request, review, given, accepted, delivered, faults>>

History == Seq(Answers)
Reviews == [Cards -> History]
NoReviews == [c \in Cards |-> <<>>]
FreeRequest == [pc |-> "free", ans |-> 0, user |-> NoUser, seen |-> <<>>, status |-> "none"]
Closed == [pc |-> "closed", slot |-> NoSlot, sync |-> FALSE]
Idle == [pc |-> "off", todo |-> {}, cur |-> 0, slot |-> NoSlot]

Delivered(a) == \E u \in Users : <<a, u>> \in delivered

\* Whose cookie a request sent now carries.
Sender == IF valid THEN user ELSE NoUser

Fault == faults < MaxFaults /\ faults' = faults + 1

SessionType ==
  user \in Users /\ valid \in BOOLEAN /\ online \in BOOLEAN /\ tag \in BOOLEAN

PageType ==
  page \in [pc : {"closed", "ready", "posting", "record", "stored"},
            slot : Slots \cup {NoSlot}, sync : BOOLEAN]

ChainType ==
  chain \in [Chains -> [pc : {"off", "start", "next", "wait", "delete"},
                        todo : SUBSET Answers, cur : Answers \cup {0},
                        slot : Slots \cup {NoSlot}]]

RequestType ==
  request \in [Slots -> [pc : {"free", "sent", "read", "done"},
                         ans : Answers \cup {0}, user : Users \cup {NoUser},
                         seen : History, status : {"none", "ok", "unauthorized", "error"}]]

TableType ==
  /\ open \in SUBSET Cards
  /\ review \in [Users -> Reviews]
  /\ delivered \in SUBSET (Answers \X Users)

AnswerType == queue \in SUBSET Answers /\ accepted \in SUBSET Answers

CounterType ==
  given \in 0 .. MaxAnswers /\ faults \in 0 .. MaxFaults /\ outages \in 0 .. MaxOutages

TypeOK ==
  /\ SessionType /\ PageType /\ ChainType /\ RequestType /\ TableType
  /\ AnswerType /\ CounterType

Init ==
  /\ user \in Users /\ valid = TRUE
  /\ open = Cards
  /\ online = TRUE
  /\ page = Closed
  /\ chain = [f \in Chains |-> Idle]
  /\ queue = {}
  /\ tag = FALSE
  /\ request = [i \in Slots |-> FreeRequest]
  /\ review = [u \in Users |-> NoReviews]
  /\ given = 0
  /\ accepted = {}
  /\ delivered = {}
  /\ faults = 0
  /\ outages = 0

-----------------------------------------------------------------------------
(* Requests in flight, seen from the browser.                              *)

Send(i, a) ==
  /\ request[i].pc = "free"
  /\ request' = [request EXCEPT ![i] = [FreeRequest EXCEPT !.pc = "sent", !.ans = a,
                                                          !.user = Sender]]

Replied(i, status) == request[i].pc = "done" /\ request[i].status = status

Free(i) == request' = [request EXCEPT ![i] = FreeRequest]

\* The fetch rejects. Either the request or its reply was lost, or the server
\* goes on processing a request whose reply nobody waits for any more.
Lost(i) ==
  /\ Fault
  /\ \/ request[i].pc # "read" /\ Free(i)
     \/ request[i].pc # "done" /\ UNCHANGED request

Awaited(i) ==
  \/ page.pc = "posting" /\ page.slot = i
  \/ \E f \in Chains : chain[f].pc = "wait" /\ chain[f].slot = i

\* The reply of an abandoned request reaches nobody; the request may also
\* have been lost on the way.
Discard(i) ==
  /\ request[i].pc \in {"sent", "done"}
  /\ ~ Awaited(i)
  /\ Free(i)
  /\ UNCHANGED <<session, server, network, device, chain, given, accepted, faults>>

-----------------------------------------------------------------------------
(* The session, the connectivity and the life of the study page.           *)

\* Mutant: the account is forgotten together with the session.
ExpireSessionForgetsUser ==
  /\ valid
  /\ valid' = FALSE /\ user' = NoUser
  /\ UNCHANGED <<server, network, device, chain, request, given, accepted, faults>>

\* The JWT expires or the user logs out; requests then get 401.
ExpireSession ==
  /\ valid
  /\ valid' = FALSE
  /\ UNCHANGED <<user, server, network, device, chain, request, given, accepted, faults>>

\* Google login navigates away from the study page. It lands on the home page,
\* whose flushPendingAnswers returns at once: index.html does not load offline.js.
Login(u) ==
  /\ ~ valid /\ page.pc = "closed" /\ online
  /\ user' = u /\ valid' = TRUE
  /\ UNCHANGED <<server, network, device, chain, request, given, accepted, faults>>

GoOffline ==
  /\ online /\ outages < MaxOutages
  /\ online' = FALSE
  /\ outages' = outages + 1
  /\ UNCHANGED <<session, server, device, chain, request, given, accepted, faults>>

\* The "online" event: a study page that is open starts one more flushQueue,
\* whether or not an earlier one is still running.
GoOnline ==
  /\ ~ online
  /\ online' = TRUE
  /\ IF page.pc = "closed"
       THEN UNCHANGED chain
       ELSE \E f \in PageChains :
              /\ chain[f].pc = "off"
              /\ chain' = [chain EXCEPT ![f].pc = "start"]
  /\ UNCHANGED <<session, server, outages, device, request, given, accepted, faults>>

\* Online the page needs a valid session; offline it reads the deck from IndexedDB.
\* In neither case does opening it flush the queue.
OpenPage ==
  /\ page.pc = "closed"
  /\ online => valid
  /\ page' = [page EXCEPT !.pc = "ready"]
  /\ UNCHANGED <<session, server, network, chain, queue, tag, request, given, accepted, faults>>

\* Closing or leaving the page, at any moment, ends everything it was running.
ClosePage ==
  /\ page.pc # "closed"
  /\ page' = Closed
  /\ chain' = [f \in Chains |-> IF f \in PageChains THEN Idle ELSE chain[f]]
  /\ UNCHANGED <<session, server, network, queue, tag, request, given,
                 accepted, faults>>

-----------------------------------------------------------------------------
(* The study page: flyAndAnswer and recordAnswer.                          *)

Answer(i) ==
  /\ page.pc = "ready" /\ given < MaxAnswers /\ online
  /\ given' = given + 1
  /\ Send(i, given + 1)
  /\ page' = [page EXCEPT !.pc = "posting", !.slot = i]
  /\ UNCHANGED <<session, server, network, chain, queue, tag,
                 accepted, faults>>

\* Without connectivity the fetch rejects at once.
AnswerOffline ==
  /\ page.pc = "ready" /\ given < MaxAnswers /\ ~ online
  /\ given' = given + 1
  /\ page' = [page EXCEPT !.pc = "record", !.sync = TRUE]
  /\ UNCHANGED <<session, server, network, chain, queue, tag, request,
                 accepted, faults>>

Confirm ==
  /\ page.pc = "posting" /\ Replied(page.slot, "ok")
  /\ accepted' = accepted \cup {given}
  /\ page' = [Closed EXCEPT !.pc = "ready"]
  /\ Free(page.slot)
  /\ UNCHANGED <<session, server, network, chain, queue, tag, given, faults>>

\* Mutant: the next card is shown before the answer is stored.
SessionExpiredConfirmed ==
  /\ page.pc = "posting" /\ Replied(page.slot, "unauthorized")
  /\ page' = [Closed EXCEPT !.pc = "record", !.sync = FALSE]
  /\ accepted' = accepted \cup {given}
  /\ Free(page.slot)
  /\ UNCHANGED <<session, server, network, chain, queue, tag, given, faults>>

\* 401: record the answer, without registering a Background Sync.
SessionExpired ==
  /\ page.pc = "posting" /\ Replied(page.slot, "unauthorized")
  /\ page' = [Closed EXCEPT !.pc = "record", !.sync = FALSE]
  /\ Free(page.slot)
  /\ UNCHANGED <<session, server, network, chain, queue, tag, given,
                 accepted, faults>>

\* Any other status throws "answer failed" and is handled as a network error.
AnswerFailed ==
  /\ page.pc = "posting" /\ Replied(page.slot, "error")
  /\ page' = [Closed EXCEPT !.pc = "record", !.sync = TRUE]
  /\ Free(page.slot)
  /\ UNCHANGED <<session, server, network, chain, queue, tag, given,
                 accepted, faults>>

AnswerLost ==
  /\ page.pc = "posting"
  /\ Lost(page.slot)
  /\ page' = [Closed EXCEPT !.pc = "record", !.sync = TRUE]
  /\ UNCHANGED <<session, server, network, chain, queue, tag, given, accepted>>

\* recordAnswer, once the local copy of the review has been updated in
\* transactions of its own: the put that stores the answer in the queue.
PutQueue ==
  /\ page.pc = "record"
  /\ queue' = queue \cup {given}
  /\ page' = [page EXCEPT !.pc = "stored"]
  /\ UNCHANGED <<session, server, network, chain, tag, request, given, accepted, faults>>

\* The promise of recordAnswer resolves: onAnswerSuccess.
ConfirmStored ==
  /\ page.pc = "stored"
  /\ accepted' = accepted \cup {given}
  /\ tag' = (tag \/ page.sync)
  /\ page' = [Closed EXCEPT !.pc = "ready"]
  /\ UNCHANGED <<session, server, network, chain, queue, request, given, faults>>

\* One of the transactions of recordAnswer fails (quota, private mode):
\* onAnswerError gives the card back, unconfirmed.
RecordFails ==
  /\ page.pc = "record"
  /\ Fault
  /\ page' = [Closed EXCEPT !.pc = "ready"]
  /\ UNCHANGED <<session, server, network, chain, queue, tag, request,
                 given, accepted>>

-----------------------------------------------------------------------------
(* The flush chains: flushQueue in the page, flushAnswerQueue in the worker. *)

\* The browser fires "sync" once there is connectivity. flushAnswerQueue always
\* resolves, so for the browser the tag is done whatever becomes of the answers.
WorkerSync(f) ==
  /\ tag /\ online /\ chain[f].pc = "off"
  /\ tag' = FALSE
  /\ chain' = [chain EXCEPT ![f].pc = "start"]
  /\ UNCHANGED <<session, server, network, page, queue, request, given,
                 accepted, faults>>

\* getAll: the items of this pass are those in the queue now.
Snapshot(f) ==
  /\ chain[f].pc = "start"
  /\ chain' = [chain EXCEPT ![f].pc = "next", ![f].todo = queue]
  /\ UNCHANGED <<session, server, network, device, request, given, accepted, faults>>

\* Items go in key order, one at a time.
IsFirst(a, s) == a \in s /\ \A b \in s : a <= b

SendNext(f, i) ==
  /\ chain[f].pc = "next" /\ online
  /\ \E a \in Answers :
       /\ IsFirst(a, chain[f].todo)
       /\ Send(i, a)
       /\ chain' = [chain EXCEPT ![f] = [pc |-> "wait", todo |-> @.todo \ {a}, cur |-> a, slot |-> i]]
  /\ UNCHANGED <<session, server, network, device, given, accepted, faults>>

\* Offline again: this fetch rejects at once, and the chain goes to the next.
SkipNext(f) ==
  /\ chain[f].pc = "next" /\ ~ online
  /\ \E a \in Answers :
       /\ IsFirst(a, chain[f].todo)
       /\ chain' = [chain EXCEPT ![f].todo = @ \ {a}]
  /\ UNCHANGED <<session, server, network, device, request, given, accepted, faults>>

Flushed(f) ==
  /\ chain[f].pc = "wait" /\ Replied(chain[f].slot, "ok")
  /\ chain' = [chain EXCEPT ![f].pc = "delete", ![f].slot = NoSlot]
  /\ Free(chain[f].slot)
  /\ UNCHANGED <<session, server, network, device, given, accepted, faults>>

DeleteItem(f) ==
  /\ chain[f].pc = "delete"
  /\ queue' = queue \ {chain[f].cur}
  /\ chain' = [chain EXCEPT ![f].pc = "next", ![f].cur = 0]
  /\ UNCHANGED <<session, server, network, page, tag, request, given,
                 accepted, faults>>

\* The browser cannot remove it: the catch that is meant for the network swallows
\* the failure, and an item that was written stays queued.
DeleteFails(f) ==
  /\ chain[f].pc = "delete"
  /\ Fault
  /\ chain' = [chain EXCEPT ![f].pc = "next", ![f].cur = 0]
  /\ UNCHANGED <<session, server, network, device, request, given, accepted>>

\* A 401 ends the page's pass; the worker has no such case and goes on.
FlushUnauthorized(f) ==
  /\ chain[f].pc = "wait" /\ Replied(chain[f].slot, "unauthorized")
  /\ chain' = [chain EXCEPT ![f] =
                 IF f \in PageChains THEN Idle
                 ELSE [@ EXCEPT !.pc = "next", !.cur = 0, !.slot = NoSlot]]
  /\ Free(chain[f].slot)
  /\ UNCHANGED <<session, server, network, device, given, accepted, faults>>

\* Mutant: a refused item is removed from the queue.
FlushRefusedDeletes(f) ==
  /\ chain[f].pc = "wait" /\ Replied(chain[f].slot, "error")
  /\ chain' = [chain EXCEPT ![f].pc = "delete", ![f].slot = NoSlot]
  /\ Free(chain[f].slot)
  /\ UNCHANGED <<session, server, network, device, given, accepted, faults>>

\* Mutant: a refused item ends the pass, as a 401 does.
FlushRefusedAborts(f) ==
  /\ chain[f].pc = "wait" /\ Replied(chain[f].slot, "error")
  /\ chain' = [chain EXCEPT ![f] = Idle]
  /\ Free(chain[f].slot)
  /\ UNCHANGED <<session, server, network, device, given, accepted, faults>>

\* Any other status: keep the item and go on with the next one.
FlushRefused(f) ==
  /\ chain[f].pc = "wait" /\ Replied(chain[f].slot, "error")
  /\ chain' = [chain EXCEPT ![f] = [@ EXCEPT !.pc = "next", !.cur = 0, !.slot = NoSlot]]
  /\ Free(chain[f].slot)
  /\ UNCHANGED <<session, server, network, device, given, accepted, faults>>

FlushLost(f) ==
  /\ chain[f].pc = "wait"
  /\ Lost(chain[f].slot)
  /\ chain' = [chain EXCEPT ![f] = [@ EXCEPT !.pc = "next", !.cur = 0, !.slot = NoSlot]]
  /\ UNCHANGED <<session, server, network, device, given, accepted>>

EndFlush(f) ==
  /\ chain[f].pc = "next" /\ chain[f].todo = {}
  /\ chain' = [chain EXCEPT ![f] = Idle]
  /\ UNCHANGED <<session, server, network, device, request, given, accepted, faults>>

\* The browser may stop a service worker between any two steps.
KillWorker(f) ==
  /\ chain[f].pc # "off"
  /\ Fault
  /\ chain' = [chain EXCEPT ![f] = Idle]
  /\ UNCHANGED <<session, server, network, device, request, given, accepted>>

-----------------------------------------------------------------------------
(* The server: one goroutine per request.                                  *)

Reply(i, status) ==
  request' = [request EXCEPT ![i].pc = "done", ![i].status = status, ![i].seen = <<>>]

Refuse(i) ==
  /\ request[i].pc = "sent" /\ request[i].user = NoUser
  /\ Reply(i, "unauthorized")
  /\ UNCHANGED <<session, server, network, device, chain, given, accepted, faults>>

\* checkDeckAccess (403) or a card that is gone (404).
Deny(i) ==
  /\ request[i].pc = "sent" /\ request[i].user \in Users
  /\ CardOf[request[i].ans] \notin open
  /\ Reply(i, "error")
  /\ UNCHANGED <<session, server, network, device, chain, given, accepted, faults>>

ReadReview(i) ==
  /\ request[i].pc = "sent" /\ request[i].user \in Users
  /\ CardOf[request[i].ans] \in open
  /\ request' = [request EXCEPT ![i].pc = "read",
                   ![i].seen = review[request[i].user][CardOf[request[i].ans]]]
  /\ UNCHANGED <<session, server, network, device, chain, given, accepted, faults>>

\* Schedule on what was read, then the upsert: the last writer wins.
WriteReview(i) ==
  LET r == request[i] IN
  /\ r.pc = "read"
  /\ review' = [review EXCEPT ![r.user][CardOf[r.ans]] = Append(r.seen, r.ans)]
  /\ delivered' = delivered \cup {<<r.ans, r.user>>}
  /\ Reply(i, "ok")
  /\ UNCHANGED <<session, open, network, device, chain, given, accepted, faults>>

\* 500 from the database, 429 from the rate limiter.
ServerError(i) ==
  /\ request[i].pc \in {"sent", "read"}
  /\ Fault
  /\ Reply(i, "error")
  /\ UNCHANGED <<session, server, network, device, chain, given, accepted>>

\* A professor deactivates or reactivates a deck, or a class loses it.
SetAccess(c) ==
  /\ open' = IF c \in open THEN open \ {c} ELSE open \cup {c}
  /\ UNCHANGED <<session, review, delivered, network, device, chain, request, given,
                 accepted, faults>>

-----------------------------------------------------------------------------
SessionNext == ExpireSession \/ (\E u \in Users : Login(u)) \/ GoOffline \/ GoOnline

PageNext ==
  \/ OpenPage \/ ClosePage
  \/ (\E i \in Slots : Answer(i)) \/ AnswerOffline
  \/ Confirm \/ SessionExpired \/ AnswerFailed \/ AnswerLost
  \/ PutQueue \/ ConfirmStored \/ RecordFails

\* The steps of a chain that its own code takes, once started.
ChainStep(f) ==
  \/ Snapshot(f) \/ (\E i \in Slots : SendNext(f, i)) \/ SkipNext(f)
  \/ Flushed(f) \/ DeleteItem(f) \/ FlushUnauthorized(f) \/ FlushRefused(f)
  \/ EndFlush(f)

ChainNext ==
  \/ \E f \in Chains : ChainStep(f) \/ FlushLost(f) \/ DeleteFails(f)
  \/ \E f \in Workers : WorkerSync(f) \/ KillWorker(f)

ServerStep(i) == Refuse(i) \/ Deny(i) \/ ReadReview(i) \/ WriteReview(i)

ServerNext ==
  \/ \E i \in Slots : ServerStep(i) \/ ServerError(i) \/ Discard(i)
  \/ \E c \in Cards : SetAccess(c)

Next == SessionNext \/ PageNext \/ ChainNext \/ ServerNext

Spec == Init /\ [][Next]_vars

(***************************************************************************)
(* Fairness. A chain or a page callback that is ready runs, the server     *)
(* handles what it receives, an abandoned request ends, and the browser    *)
(* fires a registered sync. Nothing is assumed of the student, of the      *)
(* session, of the connectivity or of the professor.                       *)
(***************************************************************************)
Fairness ==
  /\ \A f \in Chains : WF_vars(ChainStep(f))
  /\ \A f \in Workers : WF_vars(WorkerSync(f))
  /\ \A i \in Slots : WF_vars(ServerStep(i)) /\ WF_vars(Discard(i))
  /\ WF_vars(Confirm \/ SessionExpired \/ AnswerFailed
               \/ PutQueue \/ ConfirmStored)

FairSpec == Spec /\ Fairness

-----------------------------------------------------------------------------
(* Properties.                                                             *)

\* An answer the student saw accepted is in the database or still queued:
\* no failure, session end or closed page between the steps loses it.
AnswerNotLost == \A a \in accepted : a \in queue \/ Delivered(a)

Delivery == INSTANCE AnswerDelivery WITH
  asked <- 1 .. given, kept <- queue, delivered <- {a \in Answers : Delivered(a)}

\* Every step is one the at-least-once delivery specification allows: an answer
\* is stored before it is confirmed, a confirmed one never re-enters the queue,
\* and it leaves the queue only after a write of it.
ImplementsDelivery == Delivery!Spec

\* Nothing left to fail: the budgets are spent, the session is good and the
\* server accepts answers about the card of a.
Calm(a) ==
  /\ online /\ outages = MaxOutages /\ faults = MaxFaults
  /\ valid /\ CardOf[a] \in open

\* One pass of a chain is enough: every queued answer that the server accepts
\* leaves the queue, even when others before it in the queue are refused
\* (flushQueue goes on after any status but 401).
FlushCompletes ==
  \A a \in Answers, f \in Chains :
    (a \in queue /\ chain[f].pc = "start" /\ Calm(a))
      ~> (a \notin queue \/ ~ Calm(a) \/ page.pc = "closed")

\* The banner of an expired session promises that the stored answers will be
\* synchronised after the login (study.js:111). While the server accepts every
\* card, a good session and connectivity for ever after should be enough for a
\* stored answer to be sent.
SyncedAfterLogin ==
  \A a \in Answers :
    [](open = Cards) /\ <>[](valid /\ online)
      => [](a \in accepted \cap queue => <>(a \notin queue))

\* "Safe to call repeatedly; idempotent on already-processed answers"
\* (offline.js:416): however often and wherever the queue is flushed, no answer
\* is folded twice into a review.
AppliedAtMostOnce ==
  \A u \in Users, c \in Cards :
    \A m, n \in DOMAIN review[u][c] : review[u][c][m] = review[u][c][n] => m = n

\* "Send sequentially to avoid race conditions on the server" (offline.js:422):
\* an answer written to the table stays folded into the review of its card.
UpdateNotLost ==
  \A a \in Answers, u \in Users :
    <<a, u>> \in delivered => \E n \in DOMAIN review[u][CardOf[a]] : review[u][CardOf[a]][n] = a

=============================================================================
