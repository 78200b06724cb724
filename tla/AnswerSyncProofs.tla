-------------------------- MODULE AnswerSyncProofs --------------------------
(***************************************************************************)
(* Proofs about AnswerSync, for any number of accounts, cards, answers,    *)
(* flush chains, requests in flight and failures: type correctness, that   *)
(* no accepted answer is lost, and that AnswerSync implements              *)
(* AnswerDelivery.                                                         *)
(***************************************************************************)
EXTENDS AnswerSync, TLAPS

Record == [pc : {"off", "start", "next", "wait", "delete"},
           todo : SUBSET Answers, cur : Answers \cup {0}, slot : Slots \cup {NoSlot}]

USE BoundsAssumption, CardOfAssumption, NamesAssumption, ChainsAssumption
    DEF BoundsAssumption, CardOfAssumption, NamesAssumption, ChainsAssumption

(***************************************************************************)
(* The inductive invariant. AnswerNotLost is not inductive: that a "delete" *)
(* step of a chain is harmless rests on what the reply it saw said, which   *)
(* rests on who waits for which request.                                    *)
(***************************************************************************)
Asked == 1 .. given

\* The answer being handled exists and has not been confirmed.
PageInv == page.pc \in {"posting", "record", "stored"} => given \in Answers \ accepted

\* Only answers that were given circulate.
AskedInv ==
  /\ queue \subseteq Asked /\ accepted \subseteq Asked
  /\ \A f \in Chains : chain[f].todo \subseteq Asked
  /\ \A p \in delivered : p[1] \in Asked

\* A request in flight carries a given answer; "ok" says the answer is written.
RequestInv ==
  \A i \in Slots :
    /\ request[i].pc # "free" => request[i].ans \in Asked
    /\ request[i].pc = "read" => request[i].user \in Users
    /\ request[i].status = "ok" => Delivered(request[i].ans)

\* Whoever waits for a reply waits for that of its own request.
WaitInv ==
  /\ page.pc = "posting" =>
       /\ page.slot \in Slots /\ request[page.slot].pc # "free"
       /\ request[page.slot].ans = given
  /\ \A f \in Chains : chain[f].pc = "wait" =>
       /\ chain[f].slot \in Slots /\ request[chain[f].slot].pc # "free"
       /\ request[chain[f].slot].ans = chain[f].cur

\* Nobody else waits for it.
ExclusiveInv ==
  /\ \A f \in Chains : chain[f].pc = "wait" /\ page.pc = "posting" => chain[f].slot # page.slot
  /\ \A f, g \in Chains :
       chain[f].pc = "wait" /\ chain[g].pc = "wait" /\ chain[f].slot = chain[g].slot => f = g

\* What is about to be confirmed is stored or written; what is about to be
\* deleted from the queue is written.
StoredInv ==
  /\ page.pc = "stored" => given \in queue \/ Delivered(given)
  /\ \A f \in Chains : chain[f].pc = "delete" => Delivered(chain[f].cur)

CoreInv ==
  /\ PageInv /\ AskedInv /\ RequestInv /\ WaitInv /\ ExclusiveInv /\ StoredInv
  /\ AnswerNotLost

IInv == TypeOK /\ CoreInv

USE DEF session, server, network, device, Asked

-----------------------------------------------------------------------------
(* What the operators on requests and chains do, slot by slot and chain by *)
(* chain.                                                                  *)

LEMMA EmptyHistory == <<>> \in History
BY DEF History

LEMMA SendFacts ==
  ASSUME SessionType, RequestType, NEW i \in Slots, NEW a \in Answers, Send(i, a)
  PROVE  /\ RequestType'
         /\ request[i].pc = "free"
         /\ request'[i].pc = "sent" /\ request'[i].ans = a /\ request'[i].status = "none"
         /\ \A j \in Slots : j # i => request'[j] = request[j]
<1>1. Sender \in Users \cup {NoUser}
  BY DEF SessionType, Sender
<1> QED
  BY <1>1, EmptyHistory DEF RequestType, Send, FreeRequest

LEMMA FreeFacts ==
  ASSUME RequestType, NEW i, Free(i)
  PROVE  /\ RequestType'
         /\ \A j \in Slots : j # i => request'[j] = request[j]
         /\ i \in Slots => request'[i].pc = "free" /\ request'[i].status = "none"
<1>1. FreeRequest \in [pc : {"free", "sent", "read", "done"},
                       ans : Answers \cup {0}, user : Users \cup {NoUser},
                       seen : History, status : {"none", "ok", "unauthorized", "error"}]
  BY EmptyHistory DEF FreeRequest
<1> QED
  BY <1>1 DEF RequestType, Free, FreeRequest

LEMMA LostFacts ==
  ASSUME RequestType, CounterType, NEW i, Lost(i)
  PROVE  /\ RequestType'
         /\ faults' \in 0 .. MaxFaults
         /\ \A j \in Slots : j # i => request'[j] = request[j]
         /\ i \in Slots => \/ request'[i].pc = "free" /\ request'[i].status = "none"
                          \/ request'[i] = request[i]
<1>1. faults' \in 0 .. MaxFaults
  BY DEF CounterType, Lost, Fault
<1>2. CASE Free(i)
  BY <1>1, <1>2, FreeFacts
<1>3. CASE request' = request
  BY <1>1, <1>3 DEF RequestType
<1> QED
  BY <1>2, <1>3 DEF Lost

LEMMA ReplyFacts ==
  ASSUME RequestType, NEW i \in Slots, NEW status \in {"ok", "unauthorized", "error"},
         Reply(i, status)
  PROVE  /\ RequestType'
         /\ request'[i].pc = "done" /\ request'[i].ans = request[i].ans
         /\ request'[i].status = status
         /\ \A j \in Slots : j # i => request'[j] = request[j]
<1>1. request[i] \in [pc : {"free", "sent", "read", "done"},
                       ans : Answers \cup {0}, user : Users \cup {NoUser},
                       seen : History, status : {"none", "ok", "unauthorized", "error"}]
  BY DEF RequestType
<1>2. request' = [request EXCEPT ![i] = [@ EXCEPT !.pc = "done", !.status = status, !.seen = <<>>]]
  BY DEF Reply
<1>3. [request[i] EXCEPT !.pc = "done", !.status = status, !.seen = <<>>]
        \in [pc : {"free", "sent", "read", "done"},
             ans : Answers \cup {0}, user : Users \cup {NoUser},
             seen : History, status : {"none", "ok", "unauthorized", "error"}]
  BY <1>1, EmptyHistory
<1> QED
  BY <1>1, <1>2, <1>3 DEF RequestType

LEMMA ChainFacts ==
  ASSUME ChainType, NEW f \in Chains, NEW r \in Record, chain' = [chain EXCEPT ![f] = r]
  PROVE  /\ ChainType'
         /\ chain'[f] = r
         /\ \A g \in Chains : g # f => chain'[g] = chain[g]
BY DEF ChainType, Record

LEMMA ChainOf ==
  ASSUME ChainType, NEW f \in Chains
  PROVE  /\ chain[f].pc \in {"off", "start", "next", "wait", "delete"}
         /\ chain[f].todo \in SUBSET Answers
         /\ chain[f].cur \in Answers \cup {0} /\ chain[f].slot \in Slots \cup {NoSlot}
         /\ chain[f] = [pc |-> chain[f].pc, todo |-> chain[f].todo,
                        cur |-> chain[f].cur, slot |-> chain[f].slot]
BY DEF ChainType

-----------------------------------------------------------------------------
(* Three kinds of steps keep the invariant: of a chain that does not send, *)
(* of the page when it does not send, and of the server.                   *)

\* Only the request in slot i may have ended.
EndsOnly(i) ==
  /\ RequestType'
  /\ \A j \in Slots : j # i => request'[j] = request[j]
  /\ i \in Slots => \/ request'[i].pc = "free" /\ request'[i].status = "none"
                    \/ request'[i] = request[i]

LEMMA ChainMoves ==
  ASSUME IInv, NEW f \in Chains, NEW r \in Record, chain' = [chain EXCEPT ![f] = r],
         r.pc # "wait", r.todo \subseteq Asked, r.pc = "delete" => Delivered(r.cur),
         \/ request' = request
         \/ chain[f].pc = "wait" /\ EndsOnly(chain[f].slot),
         page' = page, accepted' = accepted, delivered' = delivered, given' = given,
         queue' \subseteq queue, \A a \in queue \ queue' : Delivered(a)
  PROVE  ChainType' /\ RequestType' /\ CoreInv'
<1> USE DEF IInv, TypeOK, CoreInv
<1>1. /\ ChainType'
      /\ chain'[f] = r
      /\ \A g \in Chains : g # f => chain'[g] = chain[g]
  BY ChainFacts
<1>2. RequestType' /\ RequestInv'
  <2>1. CASE request' = request
    BY <2>1 DEF RequestType, RequestInv, Delivered
  <2>2. CASE chain[f].pc = "wait" /\ EndsOnly(chain[f].slot)
    BY <2>2 DEF EndsOnly, RequestInv, Delivered, WaitInv
  <2> QED
    BY <2>1, <2>2
<1>3. PageInv' /\ AskedInv'
  BY <1>1 DEF PageInv, AskedInv
<1>4. WaitInv'
  BY <1>1 DEF WaitInv, ExclusiveInv, EndsOnly
<1>5. ExclusiveInv'
  BY <1>1 DEF ExclusiveInv
<1>6. \A a : Delivered(a)' <=> Delivered(a)
  BY DEF Delivered
<1>7. StoredInv'
  BY <1>1, <1>6 DEF StoredInv
<1>8. AnswerNotLost'
  BY <1>6 DEF AnswerNotLost
<1> QED
  BY <1>1, <1>2, <1>3, <1>4, <1>5, <1>7, <1>8

LEMMA PageMoves ==
  ASSUME IInv, page'.pc # "posting",
         \/ request' = request
         \/ page.pc = "posting" /\ EndsOnly(page.slot),
         chain' = chain, delivered' = delivered,
         given' \in Nat, given <= given', queue \subseteq queue',
         queue' \subseteq 1 .. given', accepted' \subseteq 1 .. given',
         page'.pc \in {"record", "stored"} => given' \in Answers \ accepted',
         page'.pc = "stored" => given' \in queue',
         \A a \in accepted' : a \in queue' \/ Delivered(a)
  PROVE  ChainType' /\ RequestType' /\ CoreInv'
<1> USE DEF IInv, TypeOK, CoreInv
<1>1. Asked \subseteq Asked'
  BY DEF CounterType
<1>2. RequestType' /\ RequestInv'
  <2>1. CASE request' = request
    BY <1>1, <2>1 DEF RequestType, RequestInv, Delivered
  <2>2. CASE page.pc = "posting" /\ EndsOnly(page.slot)
    BY <1>1, <2>2 DEF EndsOnly, RequestInv, Delivered, WaitInv
  <2> QED
    BY <2>1, <2>2
<1>3. ChainType' /\ PageInv' /\ AskedInv'
  BY <1>1 DEF ChainType, PageInv, AskedInv
<1>4. WaitInv' /\ ExclusiveInv'
  BY DEF WaitInv, ExclusiveInv, EndsOnly
<1>5. StoredInv' /\ AnswerNotLost'
  BY DEF StoredInv, AnswerNotLost, Delivered
<1> QED
  BY <1>2, <1>3, <1>4, <1>5

LEMMA ServerMoves ==
  ASSUME IInv, NEW i \in Slots, RequestType',
         \A j \in Slots : j # i => request'[j] = request[j],
         \/ request[i].pc # "free" /\ request'[i].pc # "free" /\ request'[i].ans = request[i].ans
         \/ ~ Awaited(i) /\ request'[i].pc = "free",
         request'[i].pc = "read" => request'[i].user \in Users,
         request'[i].status = "ok" => Delivered(request[i].ans)',
         delivered \subseteq delivered', \A p \in delivered' : p[1] \in Asked,
         page' = page, chain' = chain, queue' = queue, accepted' = accepted, given' = given
  PROVE  CoreInv'
<1> USE DEF IInv, TypeOK, CoreInv
<1>1. \A a : Delivered(a) => Delivered(a)'
  BY DEF Delivered
<1>2. RequestInv'
  <2> SUFFICES ASSUME NEW j \in Slots
               PROVE  /\ request'[j].pc # "free" => request'[j].ans \in Asked
                      /\ request'[j].pc = "read" => request'[j].user \in Users
                      /\ request'[j].status = "ok" => Delivered(request[j].ans)'
    BY DEF RequestInv
  <2>1. CASE j = i
    BY <2>1 DEF RequestInv
  <2>2. CASE j # i
    BY <2>2, <1>1 DEF RequestInv
  <2> QED
    BY <2>1, <2>2
<1>3. PageInv' /\ AskedInv'
  BY DEF PageInv, AskedInv
<1>4. WaitInv' /\ ExclusiveInv'
  BY DEF WaitInv, ExclusiveInv, Awaited
<1>5. StoredInv' /\ AnswerNotLost'
  BY DEF StoredInv, AnswerNotLost, Delivered
<1> QED
  BY <1>2, <1>3, <1>4, <1>5

-----------------------------------------------------------------------------
(* The invariant holds initially and every action preserves it.            *)

LEMMA InitInv == Init => IInv
<1> SUFFICES ASSUME Init PROVE IInv
  OBVIOUS
<1>1. SessionType /\ AnswerType
  BY DEF Init, SessionType, AnswerType
<1>8. CounterType
  BY DEF Init, CounterType
<1>2. PageType
  BY DEF Init, PageType, Closed
<1>3. ChainType
  BY DEF Init, ChainType, Idle
<1>4. RequestType
  BY EmptyHistory DEF Init, RequestType, FreeRequest
<1>5. NoReviews \in Reviews
  BY EmptyHistory DEF NoReviews, Reviews
<1>6. TableType
  BY <1>5 DEF Init, TableType
<1>7. CoreInv
  BY DEF Init, CoreInv, PageInv, AskedInv, RequestInv, WaitInv, ExclusiveInv, StoredInv,
     AnswerNotLost, Closed, Idle, FreeRequest
<1> QED
  BY <1>1, <1>2, <1>3, <1>4, <1>6, <1>7, <1>8 DEF IInv, TypeOK

\* Steps that leave the page, the chains, the requests and the answers alone.
LEMMA QuietMoves ==
  ASSUME IInv, SessionType', CounterType', TableType',
         page' = page, chain' = chain, queue' = queue, request' = request,
         given' = given, accepted' = accepted, delivered' = delivered
  PROVE  IInv'
<1>1. PageType' /\ ChainType' /\ RequestType' /\ AnswerType'
  BY DEF IInv, TypeOK, PageType, ChainType, RequestType, AnswerType
<1>2. PageInv' /\ AskedInv' /\ RequestInv'
  BY DEF IInv, CoreInv, PageInv, AskedInv, RequestInv, Delivered
<1>3. WaitInv' /\ ExclusiveInv' /\ StoredInv' /\ AnswerNotLost'
  BY DEF IInv, CoreInv, WaitInv, ExclusiveInv, StoredInv, AnswerNotLost, Delivered
<1> QED
  BY <1>1, <1>2, <1>3 DEF IInv, TypeOK, CoreInv

\* A chain that only moves on to another state of its loop.
LEMMA PcFacts ==
  ASSUME IInv, NEW f \in Chains, NEW pc \in {"off", "start", "next", "wait", "delete"}
  PROVE  LET r == [chain[f] EXCEPT !.pc = pc] IN
         /\ r \in Record
         /\ r.pc = pc /\ r.cur = chain[f].cur /\ r.slot = chain[f].slot
         /\ r.todo = chain[f].todo /\ r.todo \subseteq Asked
<1>1. chain[f].todo \subseteq Asked
  BY DEF IInv, CoreInv, AskedInv
<1>2. chain[f] \in Record
  BY DEF IInv, TypeOK, ChainType, Record
<1>3. [chain[f] EXCEPT !.pc = pc] \in Record
  BY <1>2 DEF Record
<1>4. /\ [chain[f] EXCEPT !.pc = pc].pc = pc
      /\ [chain[f] EXCEPT !.pc = pc].cur = chain[f].cur
      /\ [chain[f] EXCEPT !.pc = pc].slot = chain[f].slot
      /\ [chain[f] EXCEPT !.pc = pc].todo = chain[f].todo
  BY <1>2 DEF Record
<1> QED
  BY <1>1, <1>3, <1>4

LEMMA InvSession == ASSUME IInv, SessionNext PROVE IInv'
<1> USE DEF IInv, TypeOK
<1>1. CASE ExpireSession
  <2>1. SessionType' /\ CounterType' /\ TableType'
    BY <1>1 DEF ExpireSession, SessionType, CounterType, TableType
  <2> QED
    BY <1>1, <2>1, QuietMoves DEF ExpireSession
<1>2. CASE \E u \in Users : Login(u)
  <2>1. SessionType' /\ CounterType' /\ TableType'
    BY <1>2 DEF Login, SessionType, CounterType, TableType
  <2> QED
    BY <1>2, <2>1, QuietMoves DEF Login
<1>3. CASE GoOffline
  <2>1. SessionType' /\ TableType'
    BY <1>3 DEF GoOffline, SessionType, TableType
  <2>2. CounterType'
    BY <1>3 DEF GoOffline, CounterType
  <2> QED
    BY <1>3, <2>1, <2>2, QuietMoves DEF GoOffline
<1>4. CASE GoOnline
  <2>1. SessionType' /\ CounterType' /\ TableType'
    BY <1>4 DEF GoOnline, SessionType, CounterType, TableType
  <2>2. CASE chain' = chain
    BY <1>4, <2>1, <2>2, QuietMoves DEF GoOnline
  <2>3. CASE \E f \in PageChains : /\ chain[f].pc = "off"
                                   /\ chain' = [chain EXCEPT ![f].pc = "start"]
    <3>1. PICK f \in Chains : /\ chain[f].pc = "off"
                              /\ chain' = [chain EXCEPT ![f].pc = "start"]
      BY <2>3 DEF Chains
    <3>2. chain' = [chain EXCEPT ![f] = [chain[f] EXCEPT !.pc = "start"]]
      BY <3>1
    <3>3. ChainType' /\ RequestType' /\ CoreInv'
      BY <1>4, <3>2, PcFacts, ChainMoves DEF GoOnline
    <3>4. PageType' /\ AnswerType'
      BY <1>4 DEF GoOnline, PageType, AnswerType
    <3> QED
      BY <2>1, <3>3, <3>4
  <2> QED
    BY <1>4, <2>2, <2>3 DEF GoOnline
<1> QED
  BY <1>1, <1>2, <1>3, <1>4 DEF SessionNext

\* What the invariant says of the answer the page is handling.
LEMMA PageFacts ==
  ASSUME IInv
  PROVE  /\ given \in Nat /\ queue \subseteq Asked /\ accepted \subseteq Asked
         /\ page.pc \in {"posting", "record", "stored"} =>
              given \in Answers \ accepted /\ given \in Asked
         /\ page.pc = "stored" => given \in queue \/ Delivered(given)
         /\ page.pc = "posting" /\ request[page.slot].status = "ok" => Delivered(given)
         /\ \A a \in accepted : a \in queue \/ Delivered(a)
<1> USE DEF IInv, TypeOK, CoreInv
<1>1. given \in Nat /\ queue \subseteq Asked /\ accepted \subseteq Asked
  BY DEF CounterType, AskedInv
<1>2. page.pc \in {"posting", "record", "stored"} => given \in Answers \ accepted /\ given \in Asked
  BY <1>1 DEF PageInv, Answers
<1>3. page.pc = "stored" => given \in queue \/ Delivered(given)
  BY DEF StoredInv
<1>4. page.pc = "posting" /\ request[page.slot].status = "ok" => Delivered(given)
  BY DEF WaitInv, RequestInv
<1> QED
  BY <1>1, <1>2, <1>3, <1>4 DEF AnswerNotLost

LEMMA InvPage == ASSUME IInv, PageNext PROVE IInv'
<1> USE DEF IInv, TypeOK
<1>1. CASE OpenPage
  <2>2. ChainType' /\ RequestType' /\ CoreInv'
    BY <1>1, PageFacts, PageMoves DEF OpenPage, Closed, CounterType
  <2>3. SessionType' /\ TableType'
    BY <1>1 DEF OpenPage, SessionType, TableType
  <2>4. PageType'
    BY <1>1 DEF OpenPage, PageType, Closed
  <2>5. AnswerType' /\ CounterType'
    BY <1>1, PageFacts DEF OpenPage, AnswerType, CounterType, Answers
  <2> QED
    BY <2>2, <2>3, <2>4, <2>5
<1>2. CASE AnswerOffline
  <2>1. /\ given + 1 \in Answers \ accepted /\ given' = given + 1
        /\ accepted \subseteq 1 .. given' /\ queue \subseteq 1 .. given'
    BY <1>2, PageFacts DEF AnswerOffline, Answers, CounterType
  <2>2. ChainType' /\ RequestType' /\ CoreInv'
    BY <1>2, <2>1, PageFacts, PageMoves DEF AnswerOffline, Closed, CounterType
  <2>3. SessionType' /\ TableType'
    BY <1>2 DEF AnswerOffline, SessionType, TableType
  <2>4. PageType'
    BY <1>2 DEF AnswerOffline, PageType, Closed
  <2>5. AnswerType' /\ CounterType'
    BY <1>2, <2>1, PageFacts DEF AnswerOffline, AnswerType, CounterType, Answers
  <2> QED
    BY <2>2, <2>3, <2>4, <2>5
<1>3. CASE Confirm
  <2>1. EndsOnly(page.slot)
    BY <1>3, FreeFacts DEF Confirm, EndsOnly
  <2>2. ChainType' /\ RequestType' /\ CoreInv'
    BY <1>3, <2>1, PageFacts, PageMoves DEF Confirm, Closed, CounterType, Replied
  <2>3. SessionType' /\ TableType'
    BY <1>3 DEF Confirm, SessionType, TableType
  <2>4. PageType'
    BY <1>3 DEF Confirm, PageType, Closed
  <2>5. AnswerType' /\ CounterType'
    BY <1>3, <2>1, PageFacts DEF Confirm, AnswerType, CounterType, Answers
  <2> QED
    BY <2>2, <2>3, <2>4, <2>5
<1>4. CASE SessionExpired
  <2>1. EndsOnly(page.slot)
    BY <1>4, FreeFacts DEF SessionExpired, EndsOnly
  <2>2. ChainType' /\ RequestType' /\ CoreInv'
    BY <1>4, <2>1, PageFacts, PageMoves DEF SessionExpired, Closed, CounterType
  <2>3. SessionType' /\ TableType'
    BY <1>4 DEF SessionExpired, SessionType, TableType
  <2>4. PageType'
    BY <1>4 DEF SessionExpired, PageType, Closed
  <2>5. AnswerType' /\ CounterType'
    BY <1>4, <2>1, PageFacts DEF SessionExpired, AnswerType, CounterType, Answers
  <2> QED
    BY <2>2, <2>3, <2>4, <2>5
<1>5. CASE AnswerFailed
  <2>1. EndsOnly(page.slot)
    BY <1>5, FreeFacts DEF AnswerFailed, EndsOnly
  <2>2. ChainType' /\ RequestType' /\ CoreInv'
    BY <1>5, <2>1, PageFacts, PageMoves DEF AnswerFailed, Closed, CounterType
  <2>3. SessionType' /\ TableType'
    BY <1>5 DEF AnswerFailed, SessionType, TableType
  <2>4. PageType'
    BY <1>5 DEF AnswerFailed, PageType, Closed
  <2>5. AnswerType' /\ CounterType'
    BY <1>5, <2>1, PageFacts DEF AnswerFailed, AnswerType, CounterType, Answers
  <2> QED
    BY <2>2, <2>3, <2>4, <2>5
<1>6. CASE AnswerLost
  <2>1. EndsOnly(page.slot) /\ faults' \in 0 .. MaxFaults
    BY <1>6, LostFacts DEF AnswerLost, EndsOnly
  <2>2. ChainType' /\ RequestType' /\ CoreInv'
    BY <1>6, <2>1, PageFacts, PageMoves DEF AnswerLost, Closed, CounterType
  <2>3. SessionType' /\ TableType'
    BY <1>6 DEF AnswerLost, SessionType, TableType
  <2>4. PageType'
    BY <1>6 DEF AnswerLost, PageType, Closed
  <2>5. AnswerType' /\ CounterType'
    BY <1>6, <2>1, PageFacts DEF AnswerLost, AnswerType, CounterType, Answers
  <2> QED
    BY <2>2, <2>3, <2>4, <2>5
<1>7. CASE PutQueue
  <2>2. ChainType' /\ RequestType' /\ CoreInv'
    BY <1>7, PageFacts, PageMoves DEF PutQueue, Closed, CounterType
  <2>3. SessionType' /\ TableType'
    BY <1>7 DEF PutQueue, SessionType, TableType
  <2>4. PageType'
    BY <1>7 DEF PutQueue, PageType, Closed
  <2>5. AnswerType' /\ CounterType'
    BY <1>7, PageFacts DEF PutQueue, AnswerType, CounterType, Answers
  <2> QED
    BY <2>2, <2>3, <2>4, <2>5
<1>8. CASE ConfirmStored
  <2>2. ChainType' /\ RequestType' /\ CoreInv'
    BY <1>8, PageFacts, PageMoves DEF ConfirmStored, Closed, CounterType
  <2>3. SessionType' /\ TableType'
    BY <1>8 DEF ConfirmStored, SessionType, TableType
  <2>4. PageType'
    BY <1>8 DEF ConfirmStored, PageType, Closed
  <2>5. AnswerType' /\ CounterType'
    BY <1>8, PageFacts DEF ConfirmStored, AnswerType, CounterType, Answers
  <2> QED
    BY <2>2, <2>3, <2>4, <2>5
<1>9. CASE RecordFails
  <2>2. ChainType' /\ RequestType' /\ CoreInv'
    BY <1>9, PageFacts, PageMoves DEF RecordFails, Closed, CounterType
  <2>3. SessionType' /\ TableType'
    BY <1>9 DEF RecordFails, SessionType, TableType
  <2>4. PageType'
    BY <1>9 DEF RecordFails, PageType, Closed
  <2>5. AnswerType' /\ CounterType'
    BY <1>9, PageFacts DEF RecordFails, AnswerType, CounterType, Answers, Fault
  <2> QED
    BY <2>2, <2>3, <2>4, <2>5
<1>10. CASE ClosePage
  <2>1. \A f \in Chains : chain'[f] = Idle \/ chain'[f] = chain[f]
    BY <1>10 DEF ClosePage
  <2>2. ChainType'
    BY <1>10 DEF ClosePage, ChainType, Idle
  <2>3. RequestType' /\ RequestInv'
    BY <1>10 DEF ClosePage, CoreInv, RequestType, RequestInv, Delivered
  <2>4. page'.pc = "closed"
    BY <1>10 DEF ClosePage, Closed
  <2>5. Idle.pc = "off" /\ Idle.todo = {}
    BY DEF Idle
  <2>6. PageInv' /\ AskedInv'
    BY <1>10, <2>1, <2>4, <2>5 DEF ClosePage, CoreInv, PageInv, AskedInv
  <2>7. WaitInv'
    BY <1>10, <2>1, <2>4, <2>5 DEF ClosePage, CoreInv, WaitInv
  <2>8. ExclusiveInv'
    BY <1>10, <2>1, <2>4, <2>5 DEF ClosePage, CoreInv, ExclusiveInv
  <2>9. StoredInv' /\ AnswerNotLost'
    BY <1>10, <2>1, <2>4, <2>5 DEF ClosePage, CoreInv, StoredInv, AnswerNotLost, Delivered
  <2>10. SessionType' /\ PageType' /\ TableType' /\ AnswerType' /\ CounterType'
    BY <1>10 DEF ClosePage, SessionType, PageType, TableType, AnswerType, CounterType, Closed
  <2> QED
    BY <2>2, <2>3, <2>6, <2>7, <2>8, <2>9, <2>10 DEF CoreInv
<1>11. CASE \E i \in Slots : Answer(i)
  <2>1. PICK i \in Slots : Answer(i)
    BY <1>11
  <2>2. given + 1 \in Answers /\ given \in Nat /\ Asked \subseteq Asked' /\ given' = given + 1
        /\ given + 1 \notin Asked
    BY <2>1 DEF Answer, Answers, CounterType
  <2>3. /\ RequestType'
        /\ request[i].pc = "free"
        /\ request'[i].pc = "sent" /\ request'[i].ans = given' /\ request'[i].status = "none"
        /\ \A j \in Slots : j # i => request'[j] = request[j]
    BY <2>1, <2>2, SendFacts DEF Answer
  <2>4. page'.pc = "posting" /\ page'.slot = i /\ page.pc = "ready"
    BY <2>1 DEF Answer, PageType
  <2>5. PageInv' /\ AskedInv'
    BY <2>1, <2>2, <2>4 DEF Answer, CoreInv, PageInv, AskedInv
  <2>6. RequestInv'
    <3>1. \A a : Delivered(a)' <=> Delivered(a)
      BY <2>1 DEF Answer, Delivered
    <3> QED
      BY <2>2, <2>3, <3>1 DEF CoreInv, RequestInv
  <2>7. WaitInv' /\ ExclusiveInv'
    BY <2>1, <2>3, <2>4 DEF Answer, CoreInv, WaitInv, ExclusiveInv
  <2>8. StoredInv' /\ AnswerNotLost'
    BY <2>1, <2>4 DEF Answer, CoreInv, StoredInv, AnswerNotLost, Delivered
  <2>9. SessionType' /\ ChainType' /\ TableType' /\ AnswerType'
    BY <2>1 DEF Answer, SessionType, ChainType, TableType, AnswerType
  <2>10. PageType'
    BY <2>1 DEF Answer, PageType
  <2>11. CounterType'
    BY <2>1, <2>2 DEF Answer, CounterType, Answers
  <2> QED
    BY <2>3, <2>5, <2>6, <2>7, <2>8, <2>9, <2>10, <2>11 DEF CoreInv
<1> QED
  BY <1>1, <1>2, <1>3, <1>4, <1>5, <1>6, <1>7, <1>8, <1>9, <1>10, <1>11 DEF PageNext

LEMMA InvWorkerSync == ASSUME IInv, NEW f \in Chains, WorkerSync(f) PROVE IInv'
<1> USE DEF IInv, TypeOK
<1> DEFINE r == [chain[f] EXCEPT !.pc = "start"]
<1>1. chain' = [chain EXCEPT ![f] = r]
  BY DEF WorkerSync
<1>2. chain[f] \in Record /\ chain[f].todo \subseteq Asked /\ queue \subseteq Asked
  BY DEF ChainType, Record, CoreInv, AskedInv
<1>3. r \in Record
  BY <1>2 DEF Record, AnswerType, Idle
<1>4. r.pc = "start" /\ r.todo \subseteq Asked
  BY <1>2 DEF Record, Idle
<1> HIDE DEF r
<1>5. request' = request
  BY DEF WorkerSync
<1>6. queue' = queue
  BY DEF WorkerSync
<1>7. ChainType' /\ RequestType' /\ CoreInv'
  BY <1>1, <1>3, <1>4, <1>5, <1>6, ChainMoves DEF WorkerSync
<1>8. SessionType' /\ PageType' /\ TableType' /\ AnswerType'
  BY DEF WorkerSync, SessionType, PageType, TableType, AnswerType
<1>9. CounterType'
  BY DEF WorkerSync, CounterType
<1> QED
  BY <1>7, <1>8, <1>9

LEMMA InvSnapshot == ASSUME IInv, NEW f \in Chains, Snapshot(f) PROVE IInv'
<1> USE DEF IInv, TypeOK
<1> DEFINE r == [chain[f] EXCEPT !.pc = "next", !.todo = queue]
<1>1. chain' = [chain EXCEPT ![f] = r]
  BY DEF Snapshot
<1>2. chain[f] \in Record /\ chain[f].todo \subseteq Asked /\ queue \subseteq Asked
  BY DEF ChainType, Record, CoreInv, AskedInv
<1>3. r \in Record
  BY <1>2 DEF Record, AnswerType, Idle
<1>4. r.pc = "next" /\ r.todo \subseteq Asked
  BY <1>2 DEF Record, Idle
<1> HIDE DEF r
<1>5. request' = request
  BY DEF Snapshot
<1>6. queue' = queue
  BY DEF Snapshot
<1>7. ChainType' /\ RequestType' /\ CoreInv'
  BY <1>1, <1>3, <1>4, <1>5, <1>6, ChainMoves DEF Snapshot
<1>8. SessionType' /\ PageType' /\ TableType' /\ AnswerType'
  BY DEF Snapshot, SessionType, PageType, TableType, AnswerType
<1>9. CounterType'
  BY DEF Snapshot, CounterType
<1> QED
  BY <1>7, <1>8, <1>9

LEMMA InvSkipNext == ASSUME IInv, NEW f \in Chains, SkipNext(f) PROVE IInv'
<1> USE DEF IInv, TypeOK
<1>0. PICK a \in Answers : chain' = [chain EXCEPT ![f].todo = @ \ {a}]
  BY DEF SkipNext
<1> DEFINE r == [chain[f] EXCEPT !.todo = @ \ {a}]
<1>1. chain' = [chain EXCEPT ![f] = r]
  BY <1>0 DEF SkipNext
<1>2. chain[f] \in Record /\ chain[f].todo \subseteq Asked /\ queue \subseteq Asked
  BY DEF ChainType, Record, CoreInv, AskedInv
<1>3. r \in Record
  BY <1>2 DEF Record, AnswerType, Idle
<1>4. r.pc = "next" /\ r.todo \subseteq Asked
  BY <1>2 DEF Record, Idle, SkipNext
<1> HIDE DEF r
<1>5. request' = request
  BY DEF SkipNext
<1>6. queue' = queue
  BY DEF SkipNext
<1>7. ChainType' /\ RequestType' /\ CoreInv'
  BY <1>1, <1>3, <1>4, <1>5, <1>6, ChainMoves DEF SkipNext
<1>8. SessionType' /\ PageType' /\ TableType' /\ AnswerType'
  BY DEF SkipNext, SessionType, PageType, TableType, AnswerType
<1>9. CounterType'
  BY DEF SkipNext, CounterType
<1> QED
  BY <1>7, <1>8, <1>9

LEMMA InvFlushed == ASSUME IInv, NEW f \in Chains, Flushed(f) PROVE IInv'
<1> USE DEF IInv, TypeOK
<1> DEFINE r == [chain[f] EXCEPT !.pc = "delete", !.slot = NoSlot]
<1>1. chain' = [chain EXCEPT ![f] = r]
  BY DEF Flushed
<1>2. chain[f] \in Record /\ chain[f].todo \subseteq Asked /\ queue \subseteq Asked
  BY DEF ChainType, Record, CoreInv, AskedInv
<1>3. r \in Record
  BY <1>2 DEF Record, AnswerType, Idle
<1>4. r.pc = "delete" /\ r.todo \subseteq Asked /\ r.cur = chain[f].cur
  BY <1>2 DEF Record, Idle
<1> HIDE DEF r
<1>5. chain[f].pc = "wait" /\ EndsOnly(chain[f].slot)
  BY FreeFacts DEF Flushed, EndsOnly
<1>6. Delivered(r.cur)
  BY <1>4 DEF Flushed, Replied, CoreInv, WaitInv, RequestInv
<1>7. ChainType' /\ RequestType' /\ CoreInv'
  BY <1>1, <1>3, <1>4, <1>5, <1>6, ChainMoves DEF Flushed
<1>8. SessionType' /\ PageType' /\ TableType' /\ AnswerType'
  BY DEF Flushed, SessionType, PageType, TableType, AnswerType
<1>9. CounterType'
  BY DEF Flushed, CounterType
<1> QED
  BY <1>7, <1>8, <1>9

LEMMA InvDeleteItem == ASSUME IInv, NEW f \in Chains, DeleteItem(f) PROVE IInv'
<1> USE DEF IInv, TypeOK
<1> DEFINE r == [chain[f] EXCEPT !.pc = "next", !.cur = 0]
<1>1. chain' = [chain EXCEPT ![f] = r]
  BY DEF DeleteItem
<1>2. chain[f] \in Record /\ chain[f].todo \subseteq Asked /\ queue \subseteq Asked
  BY DEF ChainType, Record, CoreInv, AskedInv
<1>3. r \in Record
  BY <1>2 DEF Record, AnswerType, Idle
<1>4. r.pc = "next" /\ r.todo \subseteq Asked
  BY <1>2 DEF Record, Idle
<1> HIDE DEF r
<1>5. request' = request
  BY DEF DeleteItem
<1>6. queue' \subseteq queue /\ \A a \in queue \ queue' : Delivered(a)
  BY DEF DeleteItem, CoreInv, StoredInv
<1>7. ChainType' /\ RequestType' /\ CoreInv'
  BY <1>1, <1>3, <1>4, <1>5, <1>6, ChainMoves DEF DeleteItem
<1>8. SessionType' /\ PageType' /\ TableType' /\ AnswerType'
  BY DEF DeleteItem, SessionType, PageType, TableType, AnswerType
<1>9. CounterType'
  BY DEF DeleteItem, CounterType
<1> QED
  BY <1>7, <1>8, <1>9

LEMMA InvDeleteFails == ASSUME IInv, NEW f \in Chains, DeleteFails(f) PROVE IInv'
<1> USE DEF IInv, TypeOK
<1> DEFINE r == [chain[f] EXCEPT !.pc = "next", !.cur = 0]
<1>1. chain' = [chain EXCEPT ![f] = r]
  BY DEF DeleteFails
<1>2. chain[f] \in Record /\ chain[f].todo \subseteq Asked /\ queue \subseteq Asked
  BY DEF ChainType, Record, CoreInv, AskedInv
<1>3. r \in Record
  BY <1>2 DEF Record, AnswerType, Idle
<1>4. r.pc = "next" /\ r.todo \subseteq Asked
  BY <1>2 DEF Record, Idle
<1> HIDE DEF r
<1>5. request' = request
  BY DEF DeleteFails
<1>6. queue' = queue /\ faults' \in 0 .. MaxFaults
  BY DEF DeleteFails, Fault, CounterType
<1>7. ChainType' /\ RequestType' /\ CoreInv'
  BY <1>1, <1>3, <1>4, <1>5, <1>6, ChainMoves DEF DeleteFails
<1>8. SessionType' /\ PageType' /\ TableType' /\ AnswerType'
  BY DEF DeleteFails, SessionType, PageType, TableType, AnswerType
<1>9. CounterType'
  BY <1>6 DEF DeleteFails, CounterType
<1> QED
  BY <1>7, <1>8, <1>9

LEMMA InvFlushRefused == ASSUME IInv, NEW f \in Chains, FlushRefused(f) PROVE IInv'
<1> USE DEF IInv, TypeOK
<1> DEFINE r == [chain[f] EXCEPT !.pc = "next", !.cur = 0, !.slot = NoSlot]
<1>1. chain' = [chain EXCEPT ![f] = r]
  BY DEF FlushRefused
<1>2. chain[f] \in Record /\ chain[f].todo \subseteq Asked /\ queue \subseteq Asked
  BY DEF ChainType, Record, CoreInv, AskedInv
<1>3. r \in Record
  BY <1>2 DEF Record, AnswerType, Idle
<1>4. r.pc = "next" /\ r.todo \subseteq Asked
  BY <1>2 DEF Record, Idle
<1> HIDE DEF r
<1>5. chain[f].pc = "wait" /\ EndsOnly(chain[f].slot)
  BY FreeFacts DEF FlushRefused, EndsOnly
<1>6. queue' = queue
  BY DEF FlushRefused
<1>7. ChainType' /\ RequestType' /\ CoreInv'
  BY <1>1, <1>3, <1>4, <1>5, <1>6, ChainMoves DEF FlushRefused
<1>8. SessionType' /\ PageType' /\ TableType' /\ AnswerType'
  BY DEF FlushRefused, SessionType, PageType, TableType, AnswerType
<1>9. CounterType'
  BY DEF FlushRefused, CounterType
<1> QED
  BY <1>7, <1>8, <1>9

LEMMA InvFlushLost == ASSUME IInv, NEW f \in Chains, FlushLost(f) PROVE IInv'
<1> USE DEF IInv, TypeOK
<1> DEFINE r == [chain[f] EXCEPT !.pc = "next", !.cur = 0, !.slot = NoSlot]
<1>1. chain' = [chain EXCEPT ![f] = r]
  BY DEF FlushLost
<1>2. chain[f] \in Record /\ chain[f].todo \subseteq Asked /\ queue \subseteq Asked
  BY DEF ChainType, Record, CoreInv, AskedInv
<1>3. r \in Record
  BY <1>2 DEF Record, AnswerType, Idle
<1>4. r.pc = "next" /\ r.todo \subseteq Asked
  BY <1>2 DEF Record, Idle
<1> HIDE DEF r
<1>5. chain[f].pc = "wait" /\ EndsOnly(chain[f].slot) /\ faults' \in 0 .. MaxFaults
  BY LostFacts DEF FlushLost, EndsOnly
<1>6. queue' = queue
  BY DEF FlushLost
<1>7. ChainType' /\ RequestType' /\ CoreInv'
  BY <1>1, <1>3, <1>4, <1>5, <1>6, ChainMoves DEF FlushLost
<1>8. SessionType' /\ PageType' /\ TableType' /\ AnswerType'
  BY DEF FlushLost, SessionType, PageType, TableType, AnswerType
<1>9. CounterType'
  BY <1>5 DEF FlushLost, CounterType
<1> QED
  BY <1>7, <1>8, <1>9

LEMMA InvEndFlush == ASSUME IInv, NEW f \in Chains, EndFlush(f) PROVE IInv'
<1> USE DEF IInv, TypeOK
<1> DEFINE r == Idle
<1>1. chain' = [chain EXCEPT ![f] = r]
  BY DEF EndFlush
<1>2. chain[f] \in Record /\ chain[f].todo \subseteq Asked /\ queue \subseteq Asked
  BY DEF ChainType, Record, CoreInv, AskedInv
<1>3. r \in Record
  BY <1>2 DEF Record, AnswerType, Idle
<1>4. r.pc = "off" /\ r.todo \subseteq Asked
  BY <1>2 DEF Record, Idle
<1> HIDE DEF r
<1>5. request' = request
  BY DEF EndFlush
<1>6. queue' = queue
  BY DEF EndFlush
<1>7. ChainType' /\ RequestType' /\ CoreInv'
  BY <1>1, <1>3, <1>4, <1>5, <1>6, ChainMoves DEF EndFlush
<1>8. SessionType' /\ PageType' /\ TableType' /\ AnswerType'
  BY DEF EndFlush, SessionType, PageType, TableType, AnswerType
<1>9. CounterType'
  BY DEF EndFlush, CounterType
<1> QED
  BY <1>7, <1>8, <1>9

LEMMA InvKillWorker == ASSUME IInv, NEW f \in Chains, KillWorker(f) PROVE IInv'
<1> USE DEF IInv, TypeOK
<1> DEFINE r == Idle
<1>1. chain' = [chain EXCEPT ![f] = r]
  BY DEF KillWorker
<1>2. chain[f] \in Record /\ chain[f].todo \subseteq Asked /\ queue \subseteq Asked
  BY DEF ChainType, Record, CoreInv, AskedInv
<1>3. r \in Record
  BY <1>2 DEF Record, AnswerType, Idle
<1>4. r.pc = "off" /\ r.todo \subseteq Asked
  BY <1>2 DEF Record, Idle
<1> HIDE DEF r
<1>5. request' = request
  BY DEF KillWorker
<1>6. queue' = queue
  BY DEF KillWorker
<1>7. ChainType' /\ RequestType' /\ CoreInv'
  BY <1>1, <1>3, <1>4, <1>5, <1>6, ChainMoves DEF KillWorker
<1>8. SessionType' /\ PageType' /\ TableType' /\ AnswerType'
  BY DEF KillWorker, SessionType, PageType, TableType, AnswerType
<1>9. CounterType'
  BY DEF KillWorker, CounterType, Fault
<1> QED
  BY <1>7, <1>8, <1>9

LEMMA InvFlushUnauthorized == ASSUME IInv, NEW f \in Chains, FlushUnauthorized(f) PROVE IInv'
<1> USE DEF IInv, TypeOK
<1> DEFINE r == IF f \in PageChains THEN Idle
                ELSE [chain[f] EXCEPT !.pc = "next", !.cur = 0, !.slot = NoSlot]
<1>1. chain' = [chain EXCEPT ![f] = r]
  BY DEF FlushUnauthorized
<1>2. chain[f] \in Record /\ chain[f].todo \subseteq Asked
  BY DEF ChainType, Record, CoreInv, AskedInv
<1>3. r \in Record
  BY <1>2 DEF Record, Idle
<1>4. r.pc \in {"off", "next"} /\ r.todo \subseteq Asked
  BY <1>2 DEF Record, Idle
<1> HIDE DEF r
<1>5. chain[f].pc = "wait" /\ EndsOnly(chain[f].slot)
  BY FreeFacts DEF FlushUnauthorized, EndsOnly
<1>6. ChainType' /\ RequestType' /\ CoreInv'
  BY <1>1, <1>3, <1>4, <1>5, ChainMoves DEF FlushUnauthorized
<1>7. SessionType' /\ PageType' /\ TableType' /\ AnswerType' /\ CounterType'
  BY DEF FlushUnauthorized, SessionType, PageType, TableType, AnswerType, CounterType
<1> QED
  BY <1>6, <1>7

LEMMA InvSendNext ==
  ASSUME IInv, NEW f \in Chains, NEW i \in Slots, SendNext(f, i)
  PROVE  IInv'
<1> USE DEF IInv, TypeOK
<1>1. PICK a \in Answers :
        /\ a \in chain[f].todo
        /\ Send(i, a)
        /\ chain' = [chain EXCEPT ![f] = [pc |-> "wait", todo |-> @.todo \ {a}, cur |-> a, slot |-> i]]
  BY DEF SendNext, IsFirst
<1> DEFINE r == [pc |-> "wait", todo |-> chain[f].todo \ {a}, cur |-> a, slot |-> i]
<1>2. chain[f] \in Record /\ chain[f].todo \subseteq Asked /\ a \in Asked
  BY <1>1 DEF ChainType, Record, CoreInv, AskedInv
<1>3. r \in Record
  BY <1>2 DEF Record
<1>4. chain' = [chain EXCEPT ![f] = r]
  BY <1>1
<1>5. /\ ChainType'
      /\ chain'[f] = r
      /\ \A g \in Chains : g # f => chain'[g] = chain[g]
  BY <1>3, <1>4, ChainFacts
<1>6. r.pc = "wait" /\ r.cur = a /\ r.slot = i /\ r.todo \subseteq Asked
  BY <1>2
<1> HIDE DEF r
<1>7. /\ RequestType'
      /\ request[i].pc = "free"
      /\ request'[i].pc = "sent" /\ request'[i].ans = a /\ request'[i].status = "none"
      /\ \A j \in Slots : j # i => request'[j] = request[j]
  BY <1>1, SendFacts
<1>8. /\ page' = page /\ queue' = queue /\ given' = given /\ accepted' = accepted
      /\ delivered' = delivered
  BY DEF SendNext
<1>9. PageInv' /\ AskedInv'
  BY <1>5, <1>6, <1>8 DEF CoreInv, PageInv, AskedInv
<1>10. RequestInv'
  <2>1. \A b : Delivered(b)' <=> Delivered(b)
    BY <1>8 DEF Delivered
  <2> QED
    BY <1>2, <1>7, <1>8, <2>1 DEF CoreInv, RequestInv
<1>11. WaitInv' /\ ExclusiveInv'
  BY <1>5, <1>6, <1>7, <1>8 DEF CoreInv, WaitInv, ExclusiveInv
<1>12. StoredInv' /\ AnswerNotLost'
  BY <1>5, <1>6, <1>8 DEF CoreInv, StoredInv, AnswerNotLost, Delivered
<1>13. SessionType' /\ PageType' /\ TableType' /\ AnswerType' /\ CounterType'
  BY DEF SendNext, SessionType, PageType, TableType, AnswerType, CounterType
<1> QED
  BY <1>5, <1>7, <1>9, <1>10, <1>11, <1>12, <1>13 DEF CoreInv

LEMMA InvChain == ASSUME IInv, ChainNext PROVE IInv'
<1>1. ASSUME NEW f \in Chains, ChainStep(f) \/ FlushLost(f) \/ DeleteFails(f) PROVE IInv'
  BY <1>1, InvSnapshot, InvSendNext, InvSkipNext, InvFlushed, InvDeleteItem,
     InvFlushUnauthorized, InvFlushRefused, InvEndFlush, InvFlushLost, InvDeleteFails DEF ChainStep
<1>2. ASSUME NEW f \in Workers, WorkerSync(f) \/ KillWorker(f) PROVE IInv'
  BY <1>2, InvWorkerSync, InvKillWorker DEF Chains
<1> QED
  BY <1>1, <1>2 DEF ChainNext

-----------------------------------------------------------------------------
(* The server.                                                             *)

\* A reply that is not "ok": nothing is written.
LEMMA InvReply ==
  ASSUME IInv, NEW i \in Slots, NEW status \in {"unauthorized", "error"}, Reply(i, status),
         request[i].pc # "free", faults' \in 0 .. MaxFaults,
         UNCHANGED <<session, server, network, device, chain, given, accepted>>
  PROVE  IInv'
<1> USE DEF IInv, TypeOK
<1>1. /\ RequestType'
      /\ request'[i].pc = "done" /\ request'[i].ans = request[i].ans
      /\ request'[i].status = status
      /\ \A j \in Slots : j # i => request'[j] = request[j]
  BY ReplyFacts
<1>2. /\ page' = page /\ chain' = chain /\ queue' = queue /\ given' = given
      /\ accepted' = accepted /\ delivered' = delivered
  OBVIOUS
<1>3. CoreInv'
  <2>1. delivered \subseteq delivered' /\ \A p \in delivered' : p[1] \in Asked
    BY <1>2 DEF CoreInv, AskedInv
  <2> QED
    BY <1>1, <1>2, <2>1, ServerMoves
<1>4. SessionType' /\ PageType' /\ ChainType' /\ TableType' /\ AnswerType'
  BY DEF SessionType, PageType, ChainType, TableType, AnswerType
<1>5. CounterType'
  BY DEF CounterType
<1> QED
  BY <1>1, <1>3, <1>4, <1>5

LEMMA InvRefuseDeny ==
  ASSUME IInv, NEW i \in Slots, Refuse(i) \/ Deny(i)
  PROVE  IInv'
<1>1. faults' \in 0 .. MaxFaults
  BY DEF Refuse, Deny, IInv, TypeOK, CounterType
<1>2. CASE Refuse(i)
  BY <1>1, <1>2, InvReply DEF Refuse
<1>3. CASE Deny(i)
  BY <1>1, <1>3, InvReply DEF Deny
<1> QED
  BY <1>2, <1>3

LEMMA InvServerError == ASSUME IInv, NEW i \in Slots, ServerError(i) PROVE IInv'
<1>1. faults' \in 0 .. MaxFaults
  BY DEF ServerError, Fault, IInv, TypeOK, CounterType
<1> QED
  BY <1>1, InvReply DEF ServerError

LEMMA InvReadReview == ASSUME IInv, NEW i \in Slots, ReadReview(i) PROVE IInv'
<1> USE DEF IInv, TypeOK
<1> DEFINE h == review[request[i].user][CardOf[request[i].ans]]
<1>1. request[i].pc = "sent" /\ request[i].user \in Users /\ request[i].ans \in Answers
  BY DEF ReadReview, RequestType, CoreInv, RequestInv, CounterType
<1>2. h \in History
  BY <1>1 DEF TableType, Reviews
<1>3. request' = [request EXCEPT ![i].pc = "read", ![i].seen = h]
  BY DEF ReadReview
<1> HIDE DEF h
<1>4. request[i] \in [pc : {"free", "sent", "read", "done"},
                      ans : Answers \cup {0}, user : Users \cup {NoUser},
                      seen : History, status : {"none", "ok", "unauthorized", "error"}]
  BY DEF RequestType
<1>5. [request[i] EXCEPT !.pc = "read", !.seen = h]
        \in [pc : {"free", "sent", "read", "done"},
             ans : Answers \cup {0}, user : Users \cup {NoUser},
             seen : History, status : {"none", "ok", "unauthorized", "error"}]
  BY <1>2, <1>4
<1>6. /\ RequestType'
      /\ request'[i].pc = "read" /\ request'[i].ans = request[i].ans
      /\ request'[i].user = request[i].user /\ request'[i].status = request[i].status
      /\ \A j \in Slots : j # i => request'[j] = request[j]
  BY <1>3, <1>4, <1>5 DEF RequestType
<1>7. /\ page' = page /\ chain' = chain /\ queue' = queue /\ given' = given
      /\ accepted' = accepted /\ delivered' = delivered
  BY DEF ReadReview
<1>8. CoreInv'
  <2>1. delivered \subseteq delivered' /\ \A p \in delivered' : p[1] \in Asked
    BY <1>7 DEF CoreInv, AskedInv
  <2>2. request'[i].status = "ok" => Delivered(request[i].ans)'
    BY <1>6, <1>7 DEF CoreInv, RequestInv, Delivered
  <2> QED
    BY <1>1, <1>6, <1>7, <2>1, <2>2, ServerMoves
<1>9. SessionType' /\ PageType' /\ ChainType' /\ TableType' /\ AnswerType'
  BY DEF ReadReview, SessionType, PageType, ChainType, TableType, AnswerType
<1>10. CounterType'
  BY DEF ReadReview, CounterType
<1> QED
  BY <1>6, <1>8, <1>9, <1>10

\* The request that is read names an account, a given answer and its card.
LEMMA ReadFacts ==
  ASSUME IInv, NEW i \in Slots, request[i].pc = "read"
  PROVE  /\ request[i].user \in Users /\ request[i].ans \in Asked
         /\ request[i].ans \in Answers /\ CardOf[request[i].ans] \in Cards
         /\ Append(request[i].seen, request[i].ans) \in History
<1>1. request[i].user \in Users /\ request[i].ans \in Asked
  BY DEF IInv, CoreInv, RequestInv
<1>2. request[i].ans \in Answers
  BY <1>1 DEF IInv, TypeOK, CounterType, Answers
<1>3. request[i].seen \in Seq(Answers)
  BY DEF IInv, TypeOK, RequestType, History
<1>4. Append(request[i].seen, request[i].ans) \in Seq(Answers)
  BY <1>2, <1>3
<1> QED
  BY <1>1, <1>2, <1>4 DEF History

LEMMA InvWriteReview == ASSUME IInv, NEW i \in Slots, WriteReview(i) PROVE IInv'
<1> USE DEF IInv, TypeOK
<1> DEFINE u == request[i].user
           a == request[i].ans
           h == Append(request[i].seen, request[i].ans)
<1>1. /\ request[i].pc = "read" /\ Reply(i, "ok")
      /\ delivered' = delivered \cup {<<a, u>>}
      /\ review' = [review EXCEPT ![u][CardOf[a]] = h]
  BY DEF WriteReview
<1>2. /\ page' = page /\ chain' = chain /\ queue' = queue /\ given' = given
      /\ accepted' = accepted /\ open' = open
  BY DEF WriteReview
<1>3. u \in Users /\ a \in Asked /\ a \in Answers /\ CardOf[a] \in Cards /\ h \in History
  BY <1>1, ReadFacts
<1>4. /\ RequestType'
      /\ request'[i].pc = "done" /\ request'[i].ans = a
      /\ request'[i].status = "ok"
      /\ \A j \in Slots : j # i => request'[j] = request[j]
  BY <1>1, ReplyFacts
<1> HIDE DEF u, h
<1>5. TableType'
  <2>1. review[u] \in Reviews
    BY <1>3 DEF TableType
  <2>2. [review[u] EXCEPT ![CardOf[a]] = h] \in Reviews
    BY <1>3, <2>1 DEF Reviews
  <2>3. review' = [review EXCEPT ![u] = [review[u] EXCEPT ![CardOf[a]] = h]]
    BY <1>1
  <2>4. review' \in [Users -> Reviews]
    BY <2>2, <2>3 DEF TableType
  <2>5. delivered' \in SUBSET (Answers \X Users)
    BY <1>1, <1>3 DEF TableType
  <2> QED
    BY <1>2, <2>4, <2>5 DEF TableType
<1>6. CoreInv'
  <2>1. delivered \subseteq delivered' /\ \A p \in delivered' : p[1] \in Asked
    BY <1>1, <1>3 DEF CoreInv, AskedInv
  <2>2. Delivered(a)'
    BY <1>1, <1>3, <1>4 DEF Delivered
  <2> QED
    BY <1>1, <1>2, <1>4, <2>1, <2>2, ServerMoves
<1>7. SessionType' /\ PageType' /\ ChainType' /\ AnswerType'
  BY <1>2 DEF WriteReview, SessionType, PageType, ChainType, AnswerType
<1>8. CounterType'
  BY DEF WriteReview, CounterType
<1> QED
  BY <1>4, <1>5, <1>6, <1>7, <1>8

LEMMA InvDiscard == ASSUME IInv, NEW i \in Slots, Discard(i) PROVE IInv'
<1> USE DEF IInv, TypeOK
<1>1. /\ RequestType'
      /\ request'[i].pc = "free" /\ request'[i].status = "none"
      /\ \A j \in Slots : j # i => request'[j] = request[j]
  BY FreeFacts DEF Discard
<1>2. /\ page' = page /\ chain' = chain /\ queue' = queue /\ given' = given
      /\ accepted' = accepted /\ delivered' = delivered /\ ~ Awaited(i)
  BY DEF Discard
<1>3. CoreInv'
  <2>1. delivered \subseteq delivered' /\ \A p \in delivered' : p[1] \in Asked
    BY <1>2 DEF CoreInv, AskedInv
  <2> QED
    BY <1>1, <1>2, <2>1, ServerMoves
<1>4. SessionType' /\ PageType' /\ ChainType' /\ TableType' /\ AnswerType'
  BY DEF Discard, SessionType, PageType, ChainType, TableType, AnswerType
<1>5. CounterType'
  BY DEF Discard, CounterType
<1> QED
  BY <1>1, <1>3, <1>4, <1>5

LEMMA InvSetAccess == ASSUME IInv, NEW c \in Cards, SetAccess(c) PROVE IInv'
<1>1. SessionType' /\ TableType'
  BY DEF SetAccess, IInv, TypeOK, SessionType, TableType
<1>2. CounterType'
  BY DEF SetAccess, IInv, TypeOK, CounterType
<1>3. /\ page' = page /\ chain' = chain /\ queue' = queue /\ given' = given
      /\ accepted' = accepted /\ delivered' = delivered /\ request' = request
  BY DEF SetAccess
<1> QED
  BY <1>1, <1>2, <1>3, QuietMoves

LEMMA InvServer == ASSUME IInv, ServerNext PROVE IInv'
<1>1. ASSUME NEW i \in Slots, ServerStep(i) \/ ServerError(i) \/ Discard(i) PROVE IInv'
  BY <1>1, InvRefuseDeny, InvReadReview, InvWriteReview, InvServerError, InvDiscard
     DEF ServerStep
<1>2. ASSUME NEW c \in Cards, SetAccess(c) PROVE IInv'
  BY <1>2, InvSetAccess
<1> QED
  BY <1>1, <1>2 DEF ServerNext

LEMMA Inductive == IInv /\ [Next]_vars => IInv'
<1> SUFFICES ASSUME IInv, [Next]_vars PROVE IInv'
  OBVIOUS
<1>1. CASE Next
  BY <1>1, InvSession, InvPage, InvChain, InvServer DEF Next
<1>2. CASE UNCHANGED vars
  <2>1. SessionType' /\ TableType'
    BY <1>2 DEF vars, IInv, TypeOK, SessionType, TableType
  <2>2. CounterType'
    BY <1>2 DEF vars, IInv, TypeOK, CounterType
  <2> QED
    BY <1>2, <2>1, <2>2, QuietMoves DEF vars
<1> QED
  BY <1>1, <1>2

LEMMA Invariant == Spec => []IInv
BY InitInv, Inductive, PTL DEF Spec

-----------------------------------------------------------------------------
(* The results.                                                            *)

\* Every variable keeps its type, for any number of accounts, cards, answers,
\* chains, slots, failures and outages (study.js, offline.js, sw.js, service/study.go).
THEOREM TypeCorrect == Spec => []TypeOK
BY Invariant, PTL DEF IInv

\* What flyAndAnswer has confirmed is in the queue or written on the server,
\* whatever fails, closes, logs out or flushes concurrently.
THEOREM NoAnswerLost == Spec => []AnswerNotLost
BY Invariant, PTL DEF IInv, CoreInv

-----------------------------------------------------------------------------
(* The implementation of AnswerDelivery.                                   *)

\* The answers delivered, as AnswerDelivery sees them.
Sent == {a \in Answers : Delivered(a)}

LEMMA Stutters ==
  ASSUME given' = given, queue' = queue, delivered' = delivered, accepted' = accepted
  PROVE  UNCHANGED Delivery!vars
<1>1. Sent' = Sent
  BY DEF Sent, Delivered
<1> QED
  BY <1>1 DEF Delivery!vars, Sent

LEMMA AskStep ==
  ASSUME CounterType, given' = given + 1, given < MaxAnswers,
         queue' = queue, delivered' = delivered, accepted' = accepted
  PROVE  Delivery!Next
<1>1. given + 1 \in Answers /\ given + 1 \notin 1 .. given
  BY DEF CounterType, Answers
<1>2. 1 .. given' = (1 .. given) \cup {given + 1}
  BY DEF CounterType
<1>3. Sent' = Sent
  BY DEF Sent, Delivered
<1> QED
  BY <1>1, <1>2, <1>3 DEF Delivery!Next, Delivery!Ask, Sent

LEMMA AcceptStep ==
  ASSUME PageInv, page.pc \in {"posting", "stored"}, given \in queue \/ Delivered(given), CounterType,
         given' = given, queue' = queue, delivered' = delivered,
         accepted' = accepted \cup {given}
  PROVE  Delivery!Next
<1>1. given \in Answers /\ given \in 1 .. given
  BY DEF PageInv, CounterType, Answers
<1>2. Sent' = Sent
  BY DEF Sent, Delivered
<1>3. given \in queue \cup Sent
  BY <1>1 DEF Sent
<1> QED
  BY <1>1, <1>2, <1>3 DEF Delivery!Next, Delivery!Accept, Sent

LEMMA PageSteps == ASSUME IInv, PageNext PROVE [Delivery!Next]_(Delivery!vars)
<1> USE DEF IInv, TypeOK, CoreInv
<1>1. CASE (\E i \in Slots : Answer(i)) \/ AnswerOffline
  <2>1. /\ given' = given + 1 /\ given < MaxAnswers /\ queue' = queue
        /\ delivered' = delivered /\ accepted' = accepted
    BY <1>1 DEF Answer, AnswerOffline
  <2> QED
    BY <2>1, AskStep
<1>2. CASE Confirm
  <2>1. /\ given' = given /\ queue' = queue /\ delivered' = delivered
        /\ accepted' = accepted \cup {given}
    BY <1>2 DEF Confirm
  <2>2. page.pc = "posting" /\ Delivered(given)
    BY <1>2 DEF Confirm, Replied, WaitInv, RequestInv
  <2> QED
    BY <2>1, <2>2, AcceptStep
<1>3. CASE ConfirmStored
  <2>1. /\ given' = given /\ queue' = queue /\ delivered' = delivered
        /\ accepted' = accepted \cup {given}
    BY <1>3 DEF ConfirmStored
  <2>2. page.pc = "stored" /\ (given \in queue \/ Delivered(given))
    BY <1>3 DEF ConfirmStored, StoredInv
  <2> QED
    BY <2>1, <2>2, AcceptStep
<1>4. CASE PutQueue
  <2>1. /\ given' = given /\ queue' = queue \cup {given} /\ delivered' = delivered
        /\ accepted' = accepted
    BY <1>4 DEF PutQueue
  <2>2. given \in Answers /\ given \in (1 .. given) \ accepted
    BY <1>4 DEF PutQueue, PageInv, CounterType, Answers
  <2>3. Sent' = Sent
    BY <2>1 DEF Sent, Delivered
  <2> QED
    BY <2>1, <2>2, <2>3 DEF Delivery!Next, Delivery!Keep, Sent
<1>5. CASE OpenPage \/ ClosePage \/ SessionExpired \/ AnswerFailed \/ AnswerLost \/ RecordFails
  <2>1. given' = given /\ queue' = queue /\ delivered' = delivered /\ accepted' = accepted
    BY <1>5 DEF OpenPage, ClosePage, SessionExpired, AnswerFailed, AnswerLost, RecordFails
  <2> QED
    BY <2>1, Stutters
<1> QED
  BY <1>1, <1>2, <1>3, <1>4, <1>5 DEF PageNext

LEMMA DeleteStep ==
  ASSUME IInv, NEW f \in Chains, DeleteItem(f)
  PROVE  [Delivery!Next]_(Delivery!vars)
<1> USE DEF IInv, TypeOK, CoreInv
<1> DEFINE a == chain[f].cur
<1>1. /\ given' = given /\ queue' = queue \ {a} /\ delivered' = delivered
      /\ accepted' = accepted
  BY DEF DeleteItem
<1>2. Delivered(a)
  BY DEF DeleteItem, StoredInv
<1>3. Sent' = Sent
  BY <1>1 DEF Sent, Delivered
<1> HIDE DEF a
<1>4. CASE a \in queue
  <2>1. a \in Answers /\ a \in queue \cap Sent
    BY <1>2, <1>4 DEF AnswerType, Sent
  <2> QED
    BY <1>1, <1>3, <2>1 DEF Delivery!Next, Delivery!Forget, Sent
<1>5. CASE a \notin queue
  BY <1>1, <1>5, Stutters
<1> QED
  BY <1>4, <1>5

LEMMA WriteStep ==
  ASSUME IInv, NEW i \in Slots, WriteReview(i)
  PROVE  Delivery!Next
<1> DEFINE a == request[i].ans
           u == request[i].user
<1>1. /\ given' = given /\ queue' = queue /\ accepted' = accepted
      /\ delivered' = delivered \cup {<<a, u>>} /\ request[i].pc = "read"
  BY DEF WriteReview
<1>2. u \in Users /\ a \in Answers /\ a \in 1 .. given
  BY <1>1, ReadFacts
<1> HIDE DEF a, u
<1>3. Sent' = Sent \cup {a}
  BY <1>1, <1>2 DEF Sent, Delivered
<1> QED
  BY <1>1, <1>2, <1>3 DEF Delivery!Next, Delivery!Deliver, Sent

LEMMA ChainSteps == ASSUME IInv, ChainNext PROVE [Delivery!Next]_(Delivery!vars)
<1>1. ASSUME NEW f \in Chains, ChainStep(f) \/ FlushLost(f) \/ DeleteFails(f), ~ DeleteItem(f)
      PROVE  given' = given /\ queue' = queue /\ delivered' = delivered /\ accepted' = accepted
  BY <1>1 DEF ChainStep, Snapshot, SendNext, SkipNext, Flushed, FlushUnauthorized,
     FlushRefused, EndFlush, FlushLost, DeleteFails
<1>2. ASSUME NEW f \in Workers, WorkerSync(f) \/ KillWorker(f)
      PROVE  given' = given /\ queue' = queue /\ delivered' = delivered /\ accepted' = accepted
  BY <1>2 DEF WorkerSync, KillWorker
<1> QED
  BY <1>1, <1>2, DeleteStep, Stutters DEF ChainNext

LEMMA ServerSteps == ASSUME IInv, ServerNext PROVE [Delivery!Next]_(Delivery!vars)
<1>1. ASSUME NEW i \in Slots, ServerStep(i) \/ ServerError(i) \/ Discard(i), ~ WriteReview(i)
      PROVE  given' = given /\ queue' = queue /\ delivered' = delivered /\ accepted' = accepted
  BY <1>1 DEF ServerStep, Refuse, Deny, ReadReview, ServerError, Discard
<1>2. ASSUME NEW c \in Cards, SetAccess(c)
      PROVE  given' = given /\ queue' = queue /\ delivered' = delivered /\ accepted' = accepted
  BY <1>2 DEF SetAccess
<1> QED
  BY <1>1, <1>2, WriteStep, Stutters DEF ServerNext

LEMMA StepSimulation == IInv /\ [Next]_vars => [Delivery!Next]_(Delivery!vars)
<1> SUFFICES ASSUME IInv, [Next]_vars PROVE [Delivery!Next]_(Delivery!vars)
  OBVIOUS
<1>1. CASE SessionNext
  <2>1. given' = given /\ queue' = queue /\ delivered' = delivered /\ accepted' = accepted
    BY <1>1 DEF SessionNext, ExpireSession, Login, GoOffline, GoOnline
  <2> QED
    BY <2>1, Stutters
<1>2. CASE UNCHANGED vars
  BY <1>2, Stutters DEF vars
<1> QED
  BY <1>1, <1>2, PageSteps, ChainSteps, ServerSteps DEF Next

\* Every behaviour of the page, the chains and the server is one of the
\* at-least-once delivery specification (flyAndAnswer, recordAnswer, flushQueue,
\* flushAnswerQueue, SubmitAnswer).
THEOREM Implementation == Spec => ImplementsDelivery
<1>1. Init => Delivery!Init
  BY DEF Init, Delivery!Init, Delivered
<1> QED
  BY <1>1, Invariant, StepSimulation, PTL DEF Spec, ImplementsDelivery, Delivery!Spec

=============================================================================
