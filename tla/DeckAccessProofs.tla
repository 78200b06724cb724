-------------------------- MODULE DeckAccessProofs --------------------------
(* Proofs about DeckAccess, for any sets of users, decks, classes and calls. *)
EXTENDS DeckAccess, TLAPS

USE DEF tables

DeckOps == {"patch", "delete", "edit", "import"}
ClassOps == {"update class", "delete class", "assign", "unassign"}

\* What the check has found stays true until the write, except that the deck or
\* the class may have been deleted: owners and creators never change.
DeckChecked(k) ==
  call[k].op \in DeckOps =>
    LET r == call[k]
    IN  deck[r.deck] = Gone \/ (Live(deck[r.deck]) /\ OwnsDeck(r.actor, r.deck))

ClassChecked(k) ==
  call[k].op \in ClassOps =>
    LET r == call[k]
    IN  class[r.class] = Gone \/ (Live(class[r.class]) /\ OwnsClass(r.actor, r.class))

\* An import has passed contentMgmt.
ImportChecked(k) == call[k].op = "import" => call[k].actor \in Staff

CheckedInv == \A k \in Calls : DeckChecked(k) /\ ClassChecked(k) /\ ImportChecked(k)

\* A student's decks are private.
StudentDecksPrivate ==
  \A d \in Decks : Live(deck[d]) /\ deck[d].owner \in Students => deck[d].private = "yes"

IInv == TypeOK /\ NoOrphans /\ CheckedInv /\ StudentDecksPrivate

LEMMA InitInv == Init => IInv
<1> SUFFICES ASSUME Init PROVE IInv
  OBVIOUS
<1>1. TypeOK
  BY TimeAssumption DEF Init, TypeOK, CallRecords
<1>2. NoOrphans
  BY DEF Init, NoOrphans
<1>3. ASSUME NEW k \in Calls PROVE DeckChecked(k) /\ ClassChecked(k) /\ ImportChecked(k)
  <2>1. call[k].op = "none"
    BY DEF Init, NoCall
  <2> QED BY <2>1 DEF DeckChecked, ClassChecked, ImportChecked, DeckOps, ClassOps
<1>4. StudentDecksPrivate
  BY DEF Init, StudentDecksPrivate, Live, Unborn
<1> QED BY <1>1, <1>2, <1>3, <1>4 DEF IInv, CheckedInv

-----------------------------------------------------------------------------
\* The operation of a call tells its kind.
LEMMA CallKinds ==
  ASSUME TypeOK, NEW k \in Calls
  PROVE /\ call[k].op = "patch" /\ call[k].pc = "read" => call[k] \in PatchRequests
        /\ call[k].op = "patch" /\ call[k].pc = "write" => call[k] \in PatchWrites
        /\ call[k].op = "patch" => call[k] \in PatchRequests \cup PatchWrites
        /\ call[k].op = "delete" => call[k] \in DeleteCalls
        /\ call[k].op = "edit" => call[k] \in EditCalls
        /\ call[k].op = "import" => call[k] \in ImportCalls
        /\ call[k].op = "update class" => call[k] \in UpdateClassCalls
        /\ call[k].op = "delete class" => call[k] \in DeleteClassCalls
        /\ call[k].op \in {"assign", "unassign"} => call[k] \in AssignCalls
        /\ call[k].op = "join" => call[k] \in JoinCalls
        /\ call[k].op \in DeckOps \cup ClassOps \cup {"join", "none"}
<1>1. call[k] \in CallRecords
  BY DEF TypeOK
<1>2. CASE call[k] \in PatchRequests
  BY <1>2 DEF PatchRequests, DeckOps
<1>3. CASE call[k] \in PatchWrites
  BY <1>3 DEF PatchWrites, DeckOps
<1>4. CASE call[k] \in DeleteCalls
  BY <1>4 DEF DeleteCalls, DeckOps
<1>5. CASE call[k] \in UpdateClassCalls
  BY <1>5 DEF UpdateClassCalls, ClassOps
<1>6. CASE call[k] \in DeleteClassCalls
  BY <1>6 DEF DeleteClassCalls, ClassOps
<1>7. CASE call[k] \in AssignCalls
  BY <1>7 DEF AssignCalls, ClassOps
<1>8. CASE call[k] \in JoinCalls
  BY <1>8 DEF JoinCalls
<1>9. CASE call[k] = NoCall
  BY <1>9 DEF NoCall
<1>10. CASE call[k] \in EditCalls
  BY <1>10 DEF EditCalls, DeckOps
<1>11. CASE call[k] \in ImportCalls
  BY <1>11 DEF ImportCalls, DeckOps
<1> QED
  BY <1>2, <1>1, <1>3, <1>4, <1>5, <1>6, <1>7, <1>8, <1>9, <1>10, <1>11
     DEF CallRecords, DeckRequests, DeckCalls, ClassCalls

\* What the deck of a deck call and the class of a class call are.
LEMMA CallFields ==
  ASSUME TypeOK, NEW k \in Calls
  PROVE /\ call[k].op \in DeckOps \cup {"assign", "unassign"} => call[k].deck \in Decks
        /\ call[k].op \in ClassOps \cup {"join"} => call[k].class \in Classes
        /\ call[k].op # "none" => call[k].actor \in Users
<1>1. call[k] \in PatchRequests \cup PatchWrites =>
        call[k].deck \in Decks /\ call[k].actor \in Users
  BY DEF PatchRequests, PatchWrites
<1>2. call[k] \in DeleteCalls \cup EditCalls \cup ImportCalls =>
        call[k].deck \in Decks /\ call[k].actor \in Users
  BY DEF DeleteCalls, EditCalls, ImportCalls
<1>3. call[k] \in UpdateClassCalls => call[k].class \in Classes /\ call[k].actor \in Users
  BY DEF UpdateClassCalls
<1>4. call[k] \in DeleteClassCalls => call[k].class \in Classes /\ call[k].actor \in Users
  BY DEF DeleteClassCalls
<1>5. call[k] \in AssignCalls =>
        call[k].deck \in Decks /\ call[k].class \in Classes /\ call[k].actor \in Users
  BY DEF AssignCalls
<1>6. call[k] \in JoinCalls => call[k].class \in Classes /\ call[k].actor \in Users
  BY DEF JoinCalls
<1> QED
  BY <1>1, <1>2, <1>3, <1>4, <1>5, <1>6, CallKinds DEF DeckOps, ClassOps

\* A call that ends leaves a typed table of calls.
LEMMA FinishTyped ==
  ASSUME TypeOK, NEW k \in Calls, Finish(k)
  PROVE /\ call' \in [Calls -> CallRecords]
        /\ call'[k] = NoCall
        /\ \A j \in Calls \ {k} : call'[j] = call[j]
BY DEF Finish, TypeOK, CallRecords

\* And so does one that starts.
LEMMA StartTyped ==
  ASSUME TypeOK, NEW k \in Calls, NEW r \in CallRecords, Start(k, r)
  PROVE /\ call' \in [Calls -> CallRecords]
        /\ call'[k] = r
        /\ \A j \in Calls \ {k} : call'[j] = call[j]
BY DEF Start, TypeOK

\* What an import makes of a deck that is not gone: the row it was, written by the
\* importer, or a new one of the importer's.
LEMMA Found ==
  ASSUME TypeOK, NEW u \in Users, NEW d \in Decks, deck[d] # Gone
  PROVE /\ FindOrCreateByName(u, d) \in DeckRows
        /\ Live(deck[d]) =>
             /\ FindOrCreateByName(u, d) = [deck[d] EXCEPT !.editor = u]
             /\ FindOrCreateByName(u, d).owner = deck[d].owner
             /\ FindOrCreateByName(u, d).private = deck[d].private
        /\ ~ Live(deck[d]) =>
             /\ FindOrCreateByName(u, d).owner = u
             /\ FindOrCreateByName(u, d).active = "no"
<1>1. deck[d] \in DeckRows \cup {Unborn, Gone}
  BY DEF TypeOK
<1>2. CASE Live(deck[d])
  <2>1. deck[d] \in DeckRows
    BY <1>1, <1>2 DEF Live, Unborn, Gone
  <2> QED BY <1>2, <2>1 DEF FindOrCreateByName, DeckRows
<1>3. CASE ~ Live(deck[d])
  BY <1>3, TimeAssumption DEF FindOrCreateByName, NewDeck, DeckRows, Flags, Expiries, Never
<1> QED BY <1>2, <1>3

-----------------------------------------------------------------------------
\* TypeOK is preserved: the steps outside calls, the checks, the writes.
LEMMA OutsideTyped ==
  ASSUME TypeOK, DeckNext \/ ClassNext
  PROVE TypeOK'
<1> USE DEF TypeOK
<1>1. ASSUME NEW u \in Users, NEW d \in Decks, NEW private \in Flags, Create(u, d, private)
      PROVE TypeOK'
  BY <1>1, TimeAssumption DEF Create, NewDeck, DeckRows, Flags, Expiries, Never
<1>2. ASSUME NEW u \in Users, NEW D \in SUBSET Decks, ImportCSV(u, D) PROVE TypeOK'
  BY <1>2, Found DEF ImportCSV
<1>3. CASE Tick
  BY <1>3, TimeAssumption DEF Tick
<1>4. ASSUME NEW u \in Users, NEW c \in Classes, CreateClass(u, c) PROVE TypeOK'
  BY <1>4 DEF CreateClass, ClassRows, Flags
<1>5. ASSUME NEW u \in Users, NEW c \in Classes, LeaveClass(u, c) PROVE TypeOK'
  BY <1>5 DEF LeaveClass
<1> QED
  BY <1>1, <1>3, <1>4, <1>5, <1>2 DEF DeckNext, ClassNext, CreateDeck, CreateMyDeck, Flags

LEMMA CheckTyped ==
  ASSUME TypeOK, NEW k \in Calls, CheckNext(k)
  PROVE TypeOK'
<1>1. ASSUME NEW r \in DeckCalls \cup ClassCalls \cup JoinCalls, Start(k, r),
             UNCHANGED <<tables, now>>
      PROVE TypeOK'
  BY <1>1, StartTyped DEF TypeOK, CallRecords
<1>2. ASSUME NEW u \in Users, NEW c \in Classes, FindClass(k, u, c) PROVE TypeOK'
  <2>1. [pc |-> "check", op |-> "join", actor |-> u, class |-> c] \in JoinCalls
    BY DEF JoinCalls
  <2> QED BY <1>1, <1>2, <2>1 DEF FindClass
<1> QED
  BY <1>1, <1>2
     DEF CheckNext, CheckDeck, CheckMyDeck, CheckClass, DeckCalls, DeckRequests, MyDeckRequests

LEMMA WriteTyped ==
  ASSUME TypeOK, NEW k \in Calls, WriteNext(k)
  PROVE TypeOK'
<1> USE DEF TypeOK
<1>1. CASE ReadPatch(k)
  <2>1. call[k] \in PatchRequests /\ deck[call[k].deck] \in DeckRows \cup {Unborn, Gone}
    BY <1>1, CallKinds, CallFields DEF ReadPatch, DeckOps
  <2>2. CASE Live(deck[call[k].deck])
    <3> DEFINE r == call[k]
               cur == deck[r.deck]
               new == [r EXCEPT !.pc = "write",
                                !.active = IF @ = Keep THEN cur.active ELSE @,
                                !.expires = IF @ = KeepExpiry THEN cur.expires ELSE @]
    <3>1. cur \in DeckRows
      BY <2>1, <2>2 DEF Live, Unborn, Gone
    <3>2. new \in PatchWrites
      BY <2>1, <3>1 DEF PatchRequests, PatchWrites, DeckRows
    <3>3. call' = [call EXCEPT ![k] = new]
      BY <1>1, <2>2 DEF ReadPatch
    <3> HIDE DEF new
    <3> QED BY <1>1, <3>2, <3>3 DEF ReadPatch, CallRecords, DeckCalls
  <2>3. CASE ~ Live(deck[call[k].deck])
    BY <1>1, <2>3, FinishTyped DEF ReadPatch
  <2> QED BY <2>2, <2>3
<1>2. CASE WritePatch(k)
  <2> DEFINE r == call[k]
             new == [deck[r.deck] EXCEPT !.active = r.active, !.expires = r.expires]
  <2>1. r \in PatchWrites /\ r.deck \in Decks
    BY <1>2, CallKinds, CallFields DEF WritePatch, Writes, DeckOps
  <2>2. Live(deck[r.deck]) => new \in DeckRows
    <3>1. deck[r.deck] \in DeckRows \cup {Unborn, Gone}
      BY <2>1
    <3>2. Live(deck[r.deck]) => deck[r.deck] \in DeckRows
      BY <3>1 DEF Live, Unborn, Gone
    <3>3. r.active \in Flags /\ r.expires \in Expiries
      BY <2>1 DEF PatchWrites
    <3> HIDE DEF r
    <3> QED BY <3>2, <3>3 DEF DeckRows
  <2>3. deck' = IF Live(deck[r.deck]) THEN [deck EXCEPT ![r.deck] = new] ELSE deck
    BY <1>2 DEF WritePatch
  <2> HIDE DEF new
  <2> QED BY <1>2, <2>1, <2>2, <2>3, FinishTyped DEF WritePatch
<1>3. CASE WriteDelete(k)
  BY <1>3, FinishTyped DEF WriteDelete
<1>4. CASE WriteUpdateClass(k)
  <2> DEFINE r == call[k]
             new == [class[r.class] EXCEPT !.active = r.active]
  <2>1. r \in UpdateClassCalls /\ r.class \in Classes
    BY <1>4, CallKinds, CallFields DEF WriteUpdateClass, Writes, ClassOps
  <2>2. Live(class[r.class]) => new \in ClassRows
    <3>1. class[r.class] \in ClassRows \cup {Unborn, Gone}
      BY <2>1
    <3>2. Live(class[r.class]) => class[r.class] \in ClassRows
      BY <3>1 DEF Live, Unborn, Gone
    <3>3. r.active \in Flags
      BY <2>1 DEF UpdateClassCalls
    <3> HIDE DEF r
    <3> QED BY <3>2, <3>3 DEF ClassRows
  <2>3. class' = IF Live(class[r.class]) THEN [class EXCEPT ![r.class] = new] ELSE class
    BY <1>4 DEF WriteUpdateClass
  <2> HIDE DEF new
  <2> QED BY <1>4, <2>1, <2>2, <2>3, FinishTyped DEF WriteUpdateClass
<1>5. CASE WriteDeleteClass(k)
  BY <1>5, FinishTyped DEF WriteDeleteClass
<1>6. CASE AddDeck(k)
  <2>1. <<call[k].class, call[k].deck>> \in Classes \X Decks
    BY <1>6, CallFields DEF AddDeck, Writes, ClassOps
  <2> QED BY <1>6, <2>1, FinishTyped DEF AddDeck
<1>7. CASE RemoveDeck(k)
  BY <1>7, FinishTyped DEF RemoveDeck
<1>8. CASE CheckMember(k)
  <2>1. call[k] \in JoinCalls
    BY <1>8, CallKinds DEF CheckMember
  <2>2. [call[k] EXCEPT !.pc = "write"] \in CallRecords
    BY <2>1 DEF JoinCalls, CallRecords
  <2> QED BY <1>8, <2>2, FinishTyped DEF CheckMember
<1>9. CASE AddMember(k)
  <2>1. <<call[k].class, call[k].actor>> \in Classes \X Users
    BY <1>9, CallFields DEF AddMember, Writes
  <2> QED BY <1>9, <2>1, FinishTyped DEF AddMember
<1>10. CASE Fail(k)
  BY <1>10, FinishTyped DEF Fail
<1>11. CASE WriteEdit(k)
  <2> DEFINE r == call[k]
             new == [deck[r.deck] EXCEPT !.editor = r.actor]
  <2>1. r.deck \in Decks /\ r.actor \in Users
    BY <1>11, CallFields DEF WriteEdit, Writes, DeckOps
  <2>2. Live(deck[r.deck]) => new \in DeckRows
    <3>1. deck[r.deck] \in DeckRows \cup {Unborn, Gone}
      BY <2>1
    <3>2. Live(deck[r.deck]) => deck[r.deck] \in DeckRows
      BY <3>1 DEF Live, Unborn, Gone
    <3> HIDE DEF r
    <3> QED BY <2>1, <3>2 DEF DeckRows
  <2>3. deck' = IF Live(deck[r.deck]) THEN [deck EXCEPT ![r.deck] = new] ELSE deck
    BY <1>11 DEF WriteEdit
  <2> HIDE DEF new
  <2> QED BY <1>11, <2>1, <2>2, <2>3, FinishTyped DEF WriteEdit
<1>12. CASE WriteImport(k)
  <2>1. call[k].actor \in Users
    BY <1>12, CallFields DEF WriteImport, Writes, DeckOps
  <2>2. PICK d \in Decks : /\ deck[d] # Gone
                          /\ deck' = [deck EXCEPT ![d] = FindOrCreateByName(call[k].actor, d)]
    BY <1>12 DEF WriteImport
  <2> QED BY <1>12, <2>1, <2>2, Found, FinishTyped DEF WriteImport
<1> QED
  BY <1>1, <1>2, <1>3, <1>4, <1>5, <1>6, <1>7, <1>8, <1>9, <1>10, <1>11, <1>12 DEF WriteNext

-----------------------------------------------------------------------------
\* A deck's owner and a class's creator never change, and what is gone stays so.
LEMMA OwnersFixed ==
  ASSUME TypeOK, Next
  PROVE /\ \A d \in Decks : Live(deck[d]) =>
             deck'[d] = Gone \/ (Live(deck'[d]) /\ deck'[d].owner = deck[d].owner)
        /\ \A d \in Decks : deck[d] = Gone => deck'[d] = Gone
        /\ \A c \in Classes : Live(class[c]) =>
             class'[c] = Gone \/ (Live(class'[c]) /\ class'[c].creator = class[c].creator)
        /\ \A c \in Classes : class[c] = Gone => class'[c] = Gone
<1> USE DEF Live, Unborn, Gone
<1> DEFINE P == /\ \A d \in Decks : Live(deck[d]) =>
                     deck'[d] = Gone \/ (Live(deck'[d]) /\ deck'[d].owner = deck[d].owner)
                /\ \A d \in Decks : deck[d] = Gone => deck'[d] = Gone
                /\ \A c \in Classes : Live(class[c]) =>
                     class'[c] = Gone \/ (Live(class'[c]) /\ class'[c].creator = class[c].creator)
                /\ \A c \in Classes : class[c] = Gone => class'[c] = Gone
<1>1. CASE DeckNext \/ ClassNext
  <2>1. ASSUME NEW u \in Users, NEW d \in Decks, NEW private \in Flags, Create(u, d, private)
        PROVE P
    BY <2>1 DEF Create, TypeOK
  <2>5. ASSUME NEW u \in Users, NEW D \in SUBSET Decks, ImportCSV(u, D) PROVE P
    <3>1. \A d \in D : deck[d] # Gone /\ FindOrCreateByName(u, d) \in DeckRows
      BY <2>5, Found DEF ImportCSV
    <3>2. \A d \in D : Live(deck[d]) => FindOrCreateByName(u, d).owner = deck[d].owner
      BY <2>5, Found DEF ImportCSV
    <3>3. \A d \in D : Live(FindOrCreateByName(u, d))
      BY <3>1 DEF DeckRows
    <3> QED BY <2>5, <3>1, <3>2, <3>3 DEF ImportCSV
  <2>2. CASE Tick
    BY <2>2 DEF Tick
  <2>3. ASSUME NEW u \in Users, NEW c \in Classes, CreateClass(u, c) PROVE P
    BY <2>3 DEF CreateClass, TypeOK
  <2>4. ASSUME NEW u \in Users, NEW c \in Classes, LeaveClass(u, c) PROVE P
    BY <2>4 DEF LeaveClass
  <2> QED
    BY <1>1, <2>1, <2>2, <2>3, <2>4, <2>5
       DEF DeckNext, ClassNext, CreateDeck, CreateMyDeck, Flags
<1>2. ASSUME NEW k \in Calls, CheckNext(k) PROVE P
  BY <1>2 DEF CheckNext, CheckDeck, CheckMyDeck, CheckClass, FindClass
<1>3. ASSUME NEW k \in Calls, WriteNext(k) PROVE P
  <2>1. CASE WritePatch(k)
    BY <2>1 DEF WritePatch, TypeOK, DeckRows
  <2>2. CASE WriteDelete(k)
    BY <2>2 DEF WriteDelete, TypeOK
  <2>3. CASE WriteUpdateClass(k)
    <3> DEFINE r == call[k]
               new == [class[r.class] EXCEPT !.active = r.active]
    <3>1. Live(class[r.class]) => Live(new) /\ new.creator = class[r.class].creator
      <4>1. call[k] \in UpdateClassCalls
        BY <2>3, CallKinds DEF WriteUpdateClass, Writes
      <4>2. class[r.class] \in ClassRows \cup {Unborn, Gone}
        BY <4>1 DEF UpdateClassCalls, TypeOK
      <4>3. Live(class[r.class]) => class[r.class] \in ClassRows
        BY <4>2
      <4> QED BY <4>3 DEF ClassRows
    <3>2. class' = IF Live(class[r.class]) THEN [class EXCEPT ![r.class] = new] ELSE class
      BY <2>3 DEF WriteUpdateClass
    <3>3. deck' = deck
      BY <2>3 DEF WriteUpdateClass
    <3>4. class \in [Classes -> ClassRows \cup {Unborn, Gone}]
      BY DEF TypeOK
    <3> HIDE DEF new, r
    <3>5. \A c \in Classes : class'[c] = class[c] \/ (class'[c] = new /\ Live(class[r.class]) /\ c = r.class)
      BY <3>2, <3>4
    <3> QED BY <3>1, <3>3, <3>5
  <2>4. CASE WriteDeleteClass(k)
    BY <2>4 DEF WriteDeleteClass, TypeOK
  <2>5. CASE UNCHANGED <<deck, class>>
    BY <2>5
  <2>6. CASE WriteEdit(k)
    BY <2>6 DEF WriteEdit, TypeOK, DeckRows
  <2>7. CASE WriteImport(k)
    <3>1. call[k].actor \in Users
      BY <2>7, CallFields DEF WriteImport, Writes, DeckOps
    <3>2. PICK d \in Decks : /\ deck[d] # Gone
                            /\ deck' = [deck EXCEPT ![d] = FindOrCreateByName(call[k].actor, d)]
                            /\ class' = class
      BY <2>7 DEF WriteImport
    <3> DEFINE new == FindOrCreateByName(call[k].actor, d)
    <3>3. Live(new) /\ (Live(deck[d]) => new.owner = deck[d].owner)
      BY <3>1, <3>2, Found DEF DeckRows
    <3>4. \A e \in Decks : deck'[e] = deck[e] \/ (e = d /\ deck'[e] = new)
      BY <3>2 DEF TypeOK
    <3> HIDE DEF new
    <3>5. ASSUME NEW e \in Decks, Live(deck[e])
          PROVE Live(deck'[e]) /\ deck'[e].owner = deck[e].owner
      BY <3>3, <3>4, <3>5
    <3>6. ASSUME NEW e \in Decks, deck[e] = Gone PROVE deck'[e] = Gone
      BY <3>2, <3>4, <3>6
    <3> QED BY <3>2, <3>5, <3>6
  <2> HIDE DEF P
  <2> QED
    BY <1>3, <2>1, <2>2, <2>3, <2>4, <2>5, <2>6, <2>7
       DEF WriteNext, ReadPatch, AddDeck, RemoveDeck, CheckMember, AddMember, Fail
<1> QED
  BY <1>1, <1>2, <1>3 DEF Next

-----------------------------------------------------------------------------
\* The steps that may change a deck or a class that exists.
LEMMA WhoWrites ==
  ASSUME TypeOK, CheckedInv, Next
  PROVE /\ \A d \in Decks : Live(deck[d]) /\ deck'[d] # deck[d] =>
             \/ \E k \in Calls : /\ call[k].deck = d
                                 /\ WritePatch(k) \/ WriteDelete(k) \/ WriteEdit(k)
             \/ ImportStep(d) /\ UNCHANGED <<members, classDecks, now>>
        /\ \A c \in Classes : Live(class[c]) /\ class'[c] # class[c] =>
             \E k \in Calls : call[k].class = c /\ (WriteUpdateClass(k) \/ WriteDeleteClass(k))
<1>1. ASSUME NEW d \in Decks, Live(deck[d]), deck'[d] # deck[d], deck' # deck
      PROVE \/ \E k \in Calls : /\ call[k].deck = d
                                /\ WritePatch(k) \/ WriteDelete(k) \/ WriteEdit(k)
            \/ ImportStep(d) /\ UNCHANGED <<members, classDecks, now>>
  <2>1. CASE DeckNext
    <3>1. ASSUME NEW u \in Users, NEW e \in Decks, NEW private \in Flags, Create(u, e, private)
          PROVE FALSE
      BY <1>1, <3>1 DEF Create, TypeOK, Live, Unborn
    <3>2. ASSUME NEW u \in Users, NEW D \in SUBSET Decks, ImportCSV(u, D)
          PROVE ImportStep(d) /\ UNCHANGED <<members, classDecks, now>>
      <4>1. /\ deck'[d] = FindOrCreateByName(u, d) /\ u \in Staff /\ call' = call
            /\ UNCHANGED <<members, classDecks, now>>
        BY <1>1, <3>2 DEF ImportCSV
      <4> QED BY <1>1, <4>1 DEF ImportStep, FindOrCreateByName
    <3> QED BY <1>1, <2>1, <3>1, <3>2 DEF DeckNext, Tick, CreateDeck, CreateMyDeck, Flags
  <2>2. ASSUME NEW k \in Calls, CheckNext(k) PROVE FALSE
    BY <1>1, <2>2 DEF CheckNext, CheckDeck, CheckMyDeck, CheckClass, FindClass
  <2>3. ASSUME NEW k \in Calls, WritePatch(k) \/ WriteDelete(k) \/ WriteEdit(k)
        PROVE call[k].deck = d
    BY <1>1, <2>3 DEF WritePatch, WriteDelete, WriteEdit, TypeOK
  <2>4. ASSUME NEW k \in Calls, WriteImport(k)
        PROVE ImportStep(d) /\ UNCHANGED <<members, classDecks, now>>
    <3>1. call[k].actor \in Staff
      BY <2>4 DEF WriteImport, Writes, CheckedInv, ImportChecked
    <3>2. PICK e \in Decks : deck' = [deck EXCEPT ![e] = FindOrCreateByName(call[k].actor, e)]
      BY <2>4 DEF WriteImport
    <3>3. deck'[d] = FindOrCreateByName(call[k].actor, d)
      BY <1>1, <3>2 DEF TypeOK
    <3>4. deck'[d] = [deck[d] EXCEPT !.editor = call[k].actor]
      BY <1>1, <3>3 DEF FindOrCreateByName
    <3>5. Acts(k, "import")
      BY <2>4, FinishTyped DEF WriteImport, Acts
    <3> QED BY <2>4, <3>1, <3>4, <3>5 DEF ImportStep, WriteImport
  <2> QED
    BY <1>1, <2>1, <2>2, <2>3, <2>4
       DEF Next, ClassNext, CreateClass, LeaveClass, WriteNext, ReadPatch, WriteUpdateClass,
           WriteDeleteClass, AddDeck, RemoveDeck, CheckMember, AddMember, Fail
<1>2. ASSUME NEW c \in Classes, Live(class[c]), class'[c] # class[c], class' # class
      PROVE \E k \in Calls : call[k].class = c /\ (WriteUpdateClass(k) \/ WriteDeleteClass(k))
  <2>1. ASSUME NEW u \in Users, NEW e \in Classes, CreateClass(u, e) PROVE FALSE
    BY <1>2, <2>1 DEF CreateClass, TypeOK, Live, Unborn
  <2>2. ASSUME NEW k \in Calls, CheckNext(k) PROVE FALSE
    BY <1>2, <2>2 DEF CheckNext, CheckDeck, CheckMyDeck, CheckClass, FindClass
  <2>3. ASSUME NEW k \in Calls, WriteUpdateClass(k) \/ WriteDeleteClass(k)
        PROVE call[k].class = c
    BY <1>2, <2>3 DEF WriteUpdateClass, WriteDeleteClass, TypeOK
  <2> QED
    BY <1>2, <2>1, <2>2, <2>3
       DEF Next, DeckNext, ClassNext, CreateDeck, CreateMyDeck, Create, ImportCSV, Tick,
           LeaveClass, WriteNext, ReadPatch, WritePatch, WriteDelete, WriteEdit, WriteImport, AddDeck, RemoveDeck, CheckMember,
           AddMember, Fail
<1> QED BY <1>1, <1>2

\* The steps that may add a row to class_decks or class_members.
LEMMA RowsGained ==
  ASSUME Next
  PROVE /\ \A a \in classDecks' : a \in classDecks \/
             \E k \in Calls : /\ AddDeck(k) /\ a = <<call[k].class, call[k].deck>>
                             /\ Live(class[call[k].class]) /\ Live(deck[call[k].deck])
        /\ \A m \in members' : m \in members \/
             \E k \in Calls : /\ AddMember(k) /\ m = <<call[k].class, call[k].actor>>
                             /\ Live(class[call[k].class])
<1>1. CASE DeckNext \/ ClassNext
  BY <1>1 DEF DeckNext, ClassNext, CreateDeck, CreateMyDeck, Create, ImportCSV, Tick,
              CreateClass, LeaveClass
<1>2. CASE \E k \in Calls : CheckNext(k)
  BY <1>2 DEF CheckNext, CheckDeck, CheckMyDeck, CheckClass, FindClass
<1>3. ASSUME NEW k \in Calls, WriteNext(k)
      PROVE /\ classDecks' \subseteq classDecks \/ AddDeck(k)
            /\ members' \subseteq members \/ AddMember(k)
  BY <1>3 DEF WriteNext, ReadPatch, WritePatch, WriteDelete, WriteEdit, WriteImport, WriteUpdateClass,
              WriteDeleteClass, AddDeck, RemoveDeck, CheckMember, AddMember, Fail
<1>4. ASSUME NEW k \in Calls, AddDeck(k), NEW a \in classDecks', a \notin classDecks
      PROVE /\ a = <<call[k].class, call[k].deck>>
            /\ Live(class[call[k].class]) /\ Live(deck[call[k].deck])
  BY <1>4 DEF AddDeck
<1>5. ASSUME NEW k \in Calls, AddMember(k), NEW m \in members', m \notin members
      PROVE m = <<call[k].class, call[k].actor>> /\ Live(class[call[k].class])
  BY <1>5 DEF AddMember
<1> QED BY <1>1, <1>2, <1>3, <1>4, <1>5 DEF Next

\* The steps that may change a call: it ends, it passes a check of things as
\* they are, or it goes on about the same thing.
LEMMA CallSteps ==
  ASSUME TypeOK, Next, NEW j \in Calls, call'[j] # call[j]
  PROVE \/ call'[j] = NoCall
        \/ /\ UNCHANGED <<deck, class>>
           /\ \/ /\ call'[j].op \in DeckOps /\ Live(deck[call'[j].deck])
                 /\ OwnsDeck(call'[j].actor, call'[j].deck)
                 /\ call'[j].op = "import" => call'[j].actor \in Staff
              \/ /\ call'[j].op \in ClassOps /\ Live(class[call'[j].class])
                 /\ OwnsClass(call'[j].actor, call'[j].class)
              \/ call'[j].op = "join"
              \/ /\ call'[j].op = "patch" /\ call[j].op = "patch"
                 /\ call'[j].deck = call[j].deck /\ call'[j].actor = call[j].actor
<1>1. ASSUME NEW k \in Calls, Finish(k) PROVE call'[j] = NoCall
  BY <1>1, FinishTyped
<1>2. CASE DeckNext \/ ClassNext
  BY <1>2 DEF DeckNext, ClassNext, CreateDeck, CreateMyDeck, Create, ImportCSV, Tick,
              CreateClass, LeaveClass
<1>3. ASSUME NEW k \in Calls, NEW r \in DeckRequests, CheckDeck(k, r)
      PROVE /\ UNCHANGED <<deck, class>>
            /\ call'[j].op \in DeckOps /\ Live(deck[call'[j].deck])
            /\ OwnsDeck(call'[j].actor, call'[j].deck)
            /\ call'[j].op = "import" => call'[j].actor \in Staff
  <2>1. call'[j] = r
    BY <1>3, StartTyped DEF CheckDeck, CallRecords, DeckCalls
  <2>2. r.op \in DeckOps
    BY DEF DeckRequests, PatchRequests, DeleteCalls, EditCalls, ImportCalls, DeckOps
  <2> QED BY <1>3, <2>1, <2>2 DEF CheckDeck, CheckDeckOwnership, OwnsDeck
<1>4. ASSUME NEW k \in Calls, NEW r \in MyDeckRequests, CheckMyDeck(k, r)
      PROVE /\ UNCHANGED <<deck, class>>
            /\ call'[j].op \in DeckOps /\ Live(deck[call'[j].deck])
            /\ OwnsDeck(call'[j].actor, call'[j].deck)
            /\ call'[j].op = "import" => call'[j].actor \in Staff
  <2>1. call'[j] = r
    BY <1>4, StartTyped DEF CheckMyDeck, CallRecords, DeckCalls, DeckRequests, MyDeckRequests
  <2>2. r.op \in DeckOps /\ r.op # "import"
    BY DEF MyDeckRequests, DeleteCalls, EditCalls, DeckOps
  <2> QED BY <1>4, <2>1, <2>2 DEF CheckMyDeck, CheckMyDeckOwnership, OwnsDeck
<1>5. ASSUME NEW k \in Calls, NEW r \in ClassCalls, CheckClass(k, r)
      PROVE /\ UNCHANGED <<deck, class>>
            /\ call'[j].op \in ClassOps /\ Live(class[call'[j].class])
            /\ OwnsClass(call'[j].actor, call'[j].class)
  <2>1. call'[j] = r
    BY <1>5, StartTyped DEF CheckClass, CallRecords
  <2>2. r.op \in ClassOps
    BY DEF ClassCalls, UpdateClassCalls, DeleteClassCalls, AssignCalls, ClassOps
  <2> QED BY <1>5, <2>1, <2>2 DEF CheckClass, GetClass, OwnsClass
<1>6. ASSUME NEW k \in Calls, NEW u \in Users, NEW c \in Classes, FindClass(k, u, c)
      PROVE UNCHANGED <<deck, class>> /\ call'[j].op = "join"
  <2>1. [pc |-> "check", op |-> "join", actor |-> u, class |-> c] \in CallRecords
    BY DEF JoinCalls, CallRecords
  <2> QED BY <1>6, <2>1, StartTyped DEF FindClass
<1>7. ASSUME NEW k \in Calls, ReadPatch(k)
      PROVE \/ call'[j] = NoCall
            \/ /\ UNCHANGED <<deck, class>>
               /\ call'[j].op = "patch" /\ call[j].op = "patch"
               /\ call'[j].deck = call[j].deck /\ call'[j].actor = call[j].actor
  <2>1. call[k] \in PatchRequests
    BY <1>7, CallKinds DEF ReadPatch
  <2>2. CASE Finish(k)
    BY <2>2, <1>1
  <2>3. CASE ~ Finish(k)
    <3> DEFINE r == call[k]
               cur == deck[r.deck]
               new == [r EXCEPT !.pc = "write",
                                !.active = IF @ = Keep THEN cur.active ELSE @,
                                !.expires = IF @ = KeepExpiry THEN cur.expires ELSE @]
    <3>1. call' = [call EXCEPT ![k] = new] /\ UNCHANGED <<deck, class>>
      BY <1>7, <2>3 DEF ReadPatch
    <3>2. new.op = "patch" /\ r.op = "patch" /\ new.deck = r.deck /\ new.actor = r.actor
      BY <2>1 DEF PatchRequests
    <3> HIDE DEF new
    <3>3. j = k /\ call'[j] = new
      BY <3>1 DEF TypeOK
    <3> QED BY <3>1, <3>2, <3>3
  <2> QED BY <2>2, <2>3
<1>8. ASSUME NEW k \in Calls, CheckMember(k)
      PROVE call'[j] = NoCall \/ (UNCHANGED <<deck, class>> /\ call'[j].op = "join")
  <2>1. call[k] \in JoinCalls
    BY <1>8, CallKinds DEF CheckMember
  <2>2. CASE Finish(k)
    BY <2>2, <1>1
  <2>3. CASE ~ Finish(k)
    BY <1>8, <2>1, <2>3 DEF CheckMember, JoinCalls, TypeOK
  <2> QED BY <2>2, <2>3
<1> QED
  <2>3. ASSUME NEW k \in Calls, WriteNext(k)
        PROVE Finish(k) \/ ReadPatch(k) \/ CheckMember(k)
    <3>1. WritePatch(k) \/ WriteDelete(k) \/ WriteEdit(k) => Finish(k)
      BY DEF WritePatch, WriteDelete, WriteEdit
    <3>2. WriteImport(k) => Finish(k)
      BY DEF WriteImport
    <3>3. WriteUpdateClass(k) \/ WriteDeleteClass(k) \/ AddDeck(k) \/ RemoveDeck(k) => Finish(k)
      BY DEF WriteUpdateClass, WriteDeleteClass, AddDeck, RemoveDeck
    <3>4. AddMember(k) \/ Fail(k) => Finish(k)
      BY DEF AddMember, Fail
    <3> QED BY <2>3, <3>1, <3>2, <3>3, <3>4 DEF WriteNext
  <2> HIDE DEF DeckOps, ClassOps
  <2> QED BY <1>1, <1>2, <1>3, <1>5, <1>6, <1>7, <1>8, <1>4, <2>3 DEF Next, CheckNext

-----------------------------------------------------------------------------
\* The invariant is preserved.
LEMMA CheckedKept ==
  ASSUME TypeOK, CheckedInv, Next
  PROVE CheckedInv'
<1> SUFFICES ASSUME NEW j \in Calls PROVE DeckChecked(j)' /\ ClassChecked(j)' /\ ImportChecked(j)'
  BY DEF CheckedInv
<1>1. DeckChecked(j) /\ ClassChecked(j) /\ ImportChecked(j)
  BY DEF CheckedInv
<1>2. CASE call'[j] = call[j]
  <2>1. ASSUME call[j].op \in DeckOps PROVE DeckChecked(j)'
    <3>1. call[j].deck \in Decks
      BY <2>1, CallFields
    <3> QED BY <1>1, <1>2, <2>1, <3>1, OwnersFixed DEF DeckChecked, OwnsDeck
  <2>2. ASSUME call[j].op \in ClassOps PROVE ClassChecked(j)'
    <3>1. call[j].class \in Classes
      BY <2>2, CallFields
    <3> QED BY <1>1, <1>2, <2>2, <3>1, OwnersFixed DEF ClassChecked, OwnsClass
  <2> QED BY <1>1, <1>2, <2>1, <2>2 DEF DeckChecked, ClassChecked, ImportChecked
<1>3. CASE call'[j] = NoCall
  BY <1>3 DEF NoCall, DeckChecked, ClassChecked, ImportChecked, DeckOps, ClassOps
<1>4. CASE call'[j] # call[j] /\ call'[j] # NoCall
  <2>1. UNCHANGED <<deck, class>>
    BY <1>4, CallSteps
  <2>2. CASE call'[j].op \in DeckOps
    <3>1. call'[j].op \notin ClassOps
      BY <2>2 DEF DeckOps, ClassOps
    <3>2. \/ /\ Live(deck[call'[j].deck]) /\ OwnsDeck(call'[j].actor, call'[j].deck)
             /\ call'[j].op = "import" => call'[j].actor \in Staff
          \/ /\ call[j].op = "patch"
             /\ call'[j].deck = call[j].deck /\ call'[j].actor = call[j].actor
             /\ call'[j].op = "patch"
      BY <1>4, <2>2, <3>1, CallSteps DEF DeckOps
    <3> QED
      BY <1>1, <2>1, <3>1, <3>2
         DEF DeckChecked, ClassChecked, ImportChecked, DeckOps, OwnsDeck, Live
  <2>3. CASE call'[j].op \in ClassOps
    <3>1. call'[j].op \notin DeckOps /\ call'[j].op # "join" /\ call'[j].op # "patch"
      BY <2>3 DEF DeckOps, ClassOps
    <3>2. Live(class[call'[j].class]) /\ OwnsClass(call'[j].actor, call'[j].class)
      BY <1>4, <3>1, CallSteps
    <3> QED BY <2>1, <3>1, <3>2 DEF DeckChecked, ClassChecked, ImportChecked, DeckOps, OwnsClass, Live
  <2> QED BY <2>2, <2>3 DEF DeckChecked, ClassChecked, ImportChecked, DeckOps
<1> QED BY <1>2, <1>3, <1>4

LEMMA OrphansKept ==
  ASSUME TypeOK, CheckedInv, NoOrphans, Next
  PROVE NoOrphans'
<1>1. ASSUME NEW a \in classDecks' PROVE Live(class[a[1]]) /\ Live(deck[a[2]])
  BY <1>1, RowsGained DEF NoOrphans
<1>2. ASSUME NEW m \in members' PROVE Live(class[m[1]])
  BY <1>2, RowsGained DEF NoOrphans
<1>3. TypeOK'
  BY OutsideTyped, CheckTyped, WriteTyped DEF Next
<1>4. ASSUME NEW a \in classDecks' PROVE Live(deck'[a[2]])
  <2>1. a[2] \in Decks
    BY <1>3 DEF TypeOK
  <2>2. ASSUME NEW k \in Calls, WriteDelete(k) PROVE a[2] # call[k].deck
    BY <2>2 DEF WriteDelete
  <2>3. ASSUME NEW k \in Calls, WritePatch(k), call[k].deck = a[2] PROVE Live(deck'[a[2]])
    BY <1>1, <2>1, <2>3 DEF WritePatch, Live, TypeOK, DeckRows, Unborn, Gone
  <2>4. ASSUME NEW k \in Calls, WriteEdit(k), call[k].deck = a[2] PROVE Live(deck'[a[2]])
    BY <1>1, <2>1, <2>4 DEF WriteEdit, Live, TypeOK, DeckRows, Unborn, Gone
  <2>5. ASSUME ImportStep(a[2]) PROVE Live(deck'[a[2]])
    BY <1>1, <2>1, <2>5 DEF ImportStep, Live, TypeOK, DeckRows, Unborn, Gone
  <2> HIDE DEF ImportStep
  <2> QED BY <1>1, <2>1, <2>2, <2>3, <2>4, <2>5, WhoWrites DEF Live
<1>5. ASSUME NEW c \in Classes, Live(class[c]),
             (\E a \in classDecks' : a[1] = c) \/ (\E m \in members' : m[1] = c)
      PROVE Live(class'[c])
  <2>1. ASSUME NEW k \in Calls, WriteDeleteClass(k) PROVE c # call[k].class
    BY <1>5, <2>1 DEF WriteDeleteClass
  <2>2. ASSUME NEW k \in Calls, WriteUpdateClass(k), call[k].class = c PROVE Live(class'[c])
    <3> DEFINE new == [class[c] EXCEPT !.active = call[k].active]
    <3>1. class' = [class EXCEPT ![c] = new]
      BY <1>5, <2>2 DEF WriteUpdateClass
    <3>2. class[c] \in ClassRows
      BY <1>5 DEF TypeOK, Live, Unborn, Gone
    <3>3. Live(new)
      BY <3>2 DEF ClassRows, Live
    <3> HIDE DEF new
    <3> QED BY <3>1, <3>3 DEF TypeOK
  <2> QED BY <1>5, <2>1, <2>2, WhoWrites DEF Live
<1>6. \A a \in classDecks' : a[1] \in Classes
  BY <1>3 DEF TypeOK
<1>7. \A m \in members' : m[1] \in Classes
  BY <1>3 DEF TypeOK
<1> QED BY <1>1, <1>2, <1>4, <1>5, <1>6, <1>7 DEF NoOrphans, Live

\* Only staff create decks that are not private, and no write changes the kind of
\* a deck or its owner.
LEMMA StudentDecksKept ==
  ASSUME TypeOK, CheckedInv, StudentDecksPrivate, Next
  PROVE StudentDecksPrivate'
<1> SUFFICES ASSUME NEW d \in Decks, Live(deck'[d]), deck'[d].owner \in Students
             PROVE deck'[d].private = "yes"
  BY DEF StudentDecksPrivate, Live
<1>1. CASE deck'[d] = deck[d]
  BY <1>1 DEF StudentDecksPrivate, Live
<1>2. CASE deck'[d] # deck[d] /\ ~ Live(deck[d])
  <2>1. ASSUME NEW u \in Users, NEW e \in Decks, CreateDeck(u, e) PROVE FALSE
    BY <1>2, <2>1 DEF CreateDeck, Create, NewDeck, Students, TypeOK
  <2>2. ASSUME NEW u \in Users, NEW e \in Decks, CreateMyDeck(u, e)
        PROVE deck'[d].private = "yes"
    BY <1>2, <2>2 DEF CreateMyDeck, Create, NewDeck, TypeOK
  <2>4. ASSUME NEW k \in Calls, CheckNext(k) PROVE FALSE
    BY <1>2, <2>4 DEF CheckNext, CheckDeck, CheckMyDeck, CheckClass, FindClass
  <2>5. ASSUME NEW k \in Calls, WritePatch(k) PROVE FALSE
    BY <1>2, <2>5 DEF WritePatch, TypeOK
  <2>6. ASSUME NEW k \in Calls, WriteDelete(k) PROVE FALSE
    BY <1>2, <2>6 DEF WriteDelete, TypeOK, Live, Gone
  <2>7. ASSUME NEW u \in Users, NEW D \in SUBSET Decks, ImportCSV(u, D) PROVE FALSE
    <3>1. deck'[d] = FindOrCreateByName(u, d) /\ deck[d] # Gone
      BY <1>2, <2>7 DEF ImportCSV
    <3>2. deck'[d].owner = u
      BY <1>2, <3>1, Found
    <3> QED BY <2>7, <3>2 DEF ImportCSV, Students
  <2>8. ASSUME NEW k \in Calls, WriteEdit(k) PROVE FALSE
    BY <1>2, <2>8 DEF WriteEdit, TypeOK
  <2>9. ASSUME NEW k \in Calls, WriteImport(k) PROVE FALSE
    <3>1. call[k].actor \in Staff
      BY <2>9 DEF WriteImport, Writes, CheckedInv, ImportChecked
    <3>2. call[k].actor \in Users
      BY <3>1, StaffAssumption DEF Staff
    <3>3. deck'[d] = FindOrCreateByName(call[k].actor, d) /\ deck[d] # Gone
      BY <1>2, <2>9 DEF WriteImport, TypeOK
    <3>4. deck'[d].owner = call[k].actor
      BY <1>2, <3>2, <3>3, Found
    <3> QED BY <3>1, <3>4 DEF Students
  <2> QED
    BY <1>2, <2>1, <2>2, <2>4, <2>5, <2>6, <2>7, <2>8, <2>9
       DEF Next, DeckNext, Tick, ClassNext, CreateClass, LeaveClass, WriteNext, ReadPatch,
           WriteUpdateClass, WriteDeleteClass, AddDeck, RemoveDeck, CheckMember,
           AddMember, Fail
<1>3. CASE deck'[d] # deck[d] /\ Live(deck[d])
  <2>1. deck[d] \in DeckRows
    BY <1>3 DEF TypeOK, Live, Unborn, Gone
  <2>3. ASSUME NEW k \in Calls, call[k].deck = d, WritePatch(k)
        PROVE deck'[d].owner = deck[d].owner /\ deck'[d].private = deck[d].private
    BY <1>3, <2>1, <2>3 DEF WritePatch, TypeOK, DeckRows
  <2>4. ASSUME NEW k \in Calls, call[k].deck = d, WriteDelete(k) PROVE FALSE
    BY <2>4 DEF WriteDelete, TypeOK, Live, Gone
  <2>5. ASSUME NEW k \in Calls, call[k].deck = d, WriteEdit(k)
        PROVE deck'[d].owner = deck[d].owner /\ deck'[d].private = deck[d].private
    BY <1>3, <2>1, <2>5 DEF WriteEdit, TypeOK, DeckRows
  <2>6. ASSUME ImportStep(d)
        PROVE deck'[d].owner = deck[d].owner /\ deck'[d].private = deck[d].private
    BY <1>3, <2>1, <2>6 DEF ImportStep, DeckRows
  <2> HIDE DEF ImportStep
  <2> QED BY <1>3, <2>3, <2>4, <2>5, <2>6, WhoWrites DEF StudentDecksPrivate
<1> QED BY <1>1, <1>2, <1>3

LEMMA NextInv == IInv /\ [Next]_vars => IInv'
<1> SUFFICES ASSUME IInv, [Next]_vars PROVE IInv'
  OBVIOUS
<1>1. CASE Next
  <2>1. TypeOK'
    BY <1>1, OutsideTyped, CheckTyped, WriteTyped DEF IInv, Next
  <2> QED BY <1>1, <2>1, CheckedKept, OrphansKept, StudentDecksKept DEF IInv
<1>2. CASE UNCHANGED vars
  BY <1>2 DEF vars, IInv, TypeOK, NoOrphans, CheckedInv, DeckChecked, ClassChecked,
              ImportChecked, StudentDecksPrivate, Live, OwnsDeck, OwnsClass
<1> QED BY <1>1, <1>2

LEMMA SpecInv == Spec => []IInv
BY InitInv, NextInv, PTL DEF Spec

\* Types: in particular a patch at its write has no field left to fill in.
THEOREM TypeCorrect == Spec => []TypeOK
<1>1. IInv => TypeOK
  BY DEF IInv
<1> QED BY <1>1, SpecInv, PTL

\* No row of class_decks or class_members refers to what does not exist.
THEOREM ReferencesLive == Spec => []NoOrphans
<1>1. IInv => NoOrphans
  BY DEF IInv
<1> QED BY <1>1, SpecInv, PTL

\* The home page offers a student exactly the decks that the study handlers accept.
THEOREM HomeAgrees == Spec => []ListedIffStudyable
<1>1. IInv => ListedIffStudyable
  BY DEF IInv, StudentDecksPrivate, ListedIffStudyable, Listed, DeckAccessible, Open
<1> QED BY <1>1, SpecInv, PTL

-----------------------------------------------------------------------------
\* A write is the act of a call, and the check it once passed still holds.
LEMMA WriteActs ==
  ASSUME IInv, NEW k \in Calls
  PROVE /\ WritePatch(k) /\ Live(deck[call[k].deck]) =>
             Acts(k, "patch") /\ OwnsDeck(call[k].actor, call[k].deck)
        /\ WriteDelete(k) /\ Live(deck[call[k].deck]) =>
             Acts(k, "delete") /\ OwnsDeck(call[k].actor, call[k].deck)
        /\ WriteEdit(k) /\ Live(deck[call[k].deck]) =>
             Acts(k, "edit") /\ OwnsDeck(call[k].actor, call[k].deck)
        /\ WriteUpdateClass(k) /\ Live(class[call[k].class]) =>
             Acts(k, "update class") /\ OwnsClass(call[k].actor, call[k].class)
        /\ WriteDeleteClass(k) /\ Live(class[call[k].class]) =>
             Acts(k, "delete class") /\ OwnsClass(call[k].actor, call[k].class)
        /\ AddDeck(k) /\ Live(class[call[k].class]) =>
             Acts(k, "assign") /\ OwnsClass(call[k].actor, call[k].class)
        /\ RemoveDeck(k) /\ Live(class[call[k].class]) =>
             Acts(k, "unassign") /\ OwnsClass(call[k].actor, call[k].class)
        /\ AddMember(k) => Acts(k, "join")
<1>1. Finish(k) => call'[k] = NoCall
  BY FinishTyped DEF IInv
<1>2. DeckChecked(k) /\ ClassChecked(k)
  BY DEF IInv, CheckedInv
<1>3. call[k].op \in DeckOps /\ Live(deck[call[k].deck]) => OwnsDeck(call[k].actor, call[k].deck)
  BY <1>2 DEF DeckChecked, Live, Gone
<1>4. call[k].op \in ClassOps /\ Live(class[call[k].class]) =>
        OwnsClass(call[k].actor, call[k].class)
  BY <1>2 DEF ClassChecked, Live, Gone
<1>5. WritePatch(k) => Acts(k, "patch") /\ call[k].op \in DeckOps
  BY <1>1 DEF WritePatch, Acts, Writes, DeckOps
<1>6. WriteDelete(k) => Acts(k, "delete") /\ call[k].op \in DeckOps
  BY <1>1 DEF WriteDelete, Acts, Writes, DeckOps
<1>7. WriteUpdateClass(k) => Acts(k, "update class") /\ call[k].op \in ClassOps
  BY <1>1 DEF WriteUpdateClass, Acts, Writes, ClassOps
<1>8. WriteDeleteClass(k) => Acts(k, "delete class") /\ call[k].op \in ClassOps
  BY <1>1 DEF WriteDeleteClass, Acts, Writes, ClassOps
<1>9. AddDeck(k) => Acts(k, "assign") /\ call[k].op \in ClassOps
  BY <1>1 DEF AddDeck, Acts, Writes, ClassOps
<1>10. RemoveDeck(k) => Acts(k, "unassign") /\ call[k].op \in ClassOps
  BY <1>1 DEF RemoveDeck, Acts, Writes, ClassOps
<1>11. AddMember(k) => Acts(k, "join")
  BY <1>1 DEF AddMember, Acts, Writes
<1>12. WriteEdit(k) => Acts(k, "edit") /\ call[k].op \in DeckOps
  BY <1>1 DEF WriteEdit, Acts, Writes, DeckOps
<1> HIDE DEF Acts, OwnsDeck, OwnsClass
<1> QED BY <1>3, <1>4, <1>5, <1>6, <1>7, <1>8, <1>9, <1>10, <1>11, <1>12

\* Decks and classes are written by their owners only, however late the write,
\* except that an import by any member of staff may write a deck's contents: who
\* owns it, its kind, publication and expiry then stay as they are.
THEOREM OwnersWrite == Spec => OnlyOwnersWrite
<1>1. ASSUME IInv, Next, NEW d \in Decks PROVE DeckStep(d)
  BY <1>1, WhoWrites, WriteActs DEF IInv, DeckStep
<1>2. ASSUME IInv, Next, NEW c \in Classes PROVE ClassStep(c)
  BY <1>2, WhoWrites, WriteActs DEF IInv, ClassStep
<1>3. IInv /\ [Next]_vars => [\A d \in Decks, c \in Classes : DeckStep(d) /\ ClassStep(c)]_vars
  BY <1>1, <1>2
<1> QED BY <1>3, SpecInv, PTL DEF Spec, OnlyOwnersWrite

-----------------------------------------------------------------------------
\* The steps that may take a row out of class_decks.
LEMMA RowsLost ==
  ASSUME Next, NEW a \in classDecks, a \notin classDecks'
  PROVE \E k \in Calls :
          \/ WriteDelete(k) /\ call[k].deck = a[2]
          \/ WriteDeleteClass(k) /\ call[k].class = a[1]
          \/ RemoveDeck(k) /\ a = <<call[k].class, call[k].deck>>
<1>1. CASE DeckNext \/ ClassNext
  BY <1>1 DEF DeckNext, ClassNext, CreateDeck, CreateMyDeck, Create, ImportCSV, Tick,
              CreateClass, LeaveClass
<1>2. CASE \E k \in Calls : CheckNext(k)
  BY <1>2 DEF CheckNext, CheckDeck, CheckMyDeck, CheckClass, FindClass
<1>3. ASSUME NEW k \in Calls, WriteNext(k)
      PROVE \/ WriteDelete(k) /\ call[k].deck = a[2]
            \/ WriteDeleteClass(k) /\ call[k].class = a[1]
            \/ RemoveDeck(k) /\ a = <<call[k].class, call[k].deck>>
  <2>1. WriteDelete(k) => call[k].deck = a[2]
    BY DEF WriteDelete
  <2>2. WriteDeleteClass(k) => call[k].class = a[1]
    BY DEF WriteDeleteClass
  <2>3. RemoveDeck(k) => a = <<call[k].class, call[k].deck>>
    BY DEF RemoveDeck
  <2>4. AddDeck(k) => FALSE
    BY DEF AddDeck
  <2> QED
    BY <1>3, <2>1, <2>2, <2>3, <2>4
       DEF WriteNext, ReadPatch, WritePatch, WriteEdit, WriteImport, WriteUpdateClass,
           CheckMember, AddMember, Fail
<1> QED BY <1>1, <1>2, <1>3 DEF Next

\* A deck that does not exist yet is not open after one step.
LEMMA NewDeckClosed ==
  ASSUME TypeOK, Next, NEW d \in Decks, ~ Live(deck[d]), deck'[d] # deck[d]
  PROVE ~ Open(d)'
<1>1. ASSUME NEW u \in Users, NEW e \in Decks, NEW private \in Flags, Create(u, e, private)
      PROVE ~ Open(d)'
  BY <1>1 DEF Create, NewDeck, Open, TypeOK
<1>2. ASSUME NEW u \in Users, NEW D \in SUBSET Decks, ImportCSV(u, D) PROVE ~ Open(d)'
  <2>1. deck'[d] = FindOrCreateByName(u, d) /\ deck[d] # Gone
    BY <1>2 DEF ImportCSV
  <2> QED BY <2>1, Found DEF Open
<1>3. ASSUME NEW k \in Calls, CheckNext(k) PROVE FALSE
  BY <1>3 DEF CheckNext, CheckDeck, CheckMyDeck, CheckClass, FindClass
<1>4. ASSUME NEW k \in Calls, WritePatch(k) PROVE FALSE
  BY <1>4 DEF WritePatch, TypeOK
<1>5. ASSUME NEW k \in Calls, WriteDelete(k) PROVE ~ Open(d)'
  BY <1>5 DEF WriteDelete, TypeOK, Open, Live, Gone
<1>6. ASSUME NEW k \in Calls, WriteEdit(k) PROVE FALSE
  BY <1>6 DEF WriteEdit, TypeOK
<1>7. ASSUME NEW k \in Calls, WriteImport(k) PROVE ~ Open(d)'
  <2>1. call[k].actor \in Users
    BY <1>7, CallFields DEF WriteImport, Writes, DeckOps
  <2>2. deck'[d] = FindOrCreateByName(call[k].actor, d) /\ deck[d] # Gone
    BY <1>7 DEF WriteImport, TypeOK
  <2> QED BY <2>1, <2>2, Found DEF Open
<1> QED
  BY <1>1, <1>2, <1>3, <1>4, <1>5, <1>6, <1>7
     DEF Next, DeckNext, Tick, ClassNext, CreateDeck, CreateMyDeck, Flags, CreateClass,
         LeaveClass, WriteNext, ReadPatch, WriteUpdateClass, WriteDeleteClass, AddDeck,
         RemoveDeck, CheckMember, AddMember, Fail

\* No deck opens because time passes: a deck whose row has not changed and that
\* is open after a step was open before it.
LEMMA TimeOpensNothing ==
  ASSUME TypeOK, Next, NEW d \in Decks, deck'[d] = deck[d], Open(d)'
  PROVE Open(d)
<1>1. now' = now \/ (now < MaxTime /\ now' = now + 1)
  BY DEF Next, DeckNext, CreateDeck, CreateMyDeck, Create, ImportCSV, Tick, ClassNext, CreateClass,
         LeaveClass, CheckNext, CheckDeck, CheckMyDeck, CheckClass, FindClass, WriteNext,
         ReadPatch, WritePatch, WriteDelete, WriteEdit, WriteImport, WriteUpdateClass, WriteDeleteClass, AddDeck,
         RemoveDeck, CheckMember, AddMember, Fail
<1>2. deck[d] \in DeckRows
  BY DEF Open, Live, TypeOK, Unborn, Gone
<1>3. deck[d].expires \in Int /\ now \in Int
  BY <1>2, TimeAssumption DEF DeckRows, Expiries, TypeOK
<1> QED BY <1>1, <1>3 DEF Open, Expired, Live

\* Access comes from the owner of the deck, from the creator of a class, or from
\* the student's own joining.
LEMMA GainExplained ==
  ASSUME IInv, Next, NEW u \in Students, NEW d \in Decks
  PROVE GainStep(u, d)
<1> SUFFICES ASSUME ~ DeckAccessible(u, d), DeckAccessible(u, d)'
             PROVE \E k \in Calls :
                     \/ Acts(k, "join") /\ call[k].actor = u
                     \/ /\ Acts(k, "patch") /\ call[k].deck = d
                        /\ OwnsDeck(call[k].actor, d)
                     \/ /\ \/ /\ Acts(k, "assign") /\ call[k].deck = d
                              /\ <<call[k].class, u>> \in members
                           \/ Acts(k, "unassign") /\ call[k].deck = d
                           \/ Acts(k, "delete class") /\ <<call[k].class, d>> \in classDecks
                        /\ OwnsClass(call[k].actor, call[k].class)
  BY DEF GainStep
<1>1. TypeOK /\ NoOrphans
  BY DEF IInv
<1>2. Open(d)'
  BY DEF DeckAccessible
<1>3. CASE deck'[d] # deck[d]
  <2>1. Live(deck[d])
    BY <1>1, <1>2, <1>3, NewDeckClosed
  <2>3. ASSUME NEW k \in Calls, WriteDelete(k) PROVE call[k].deck # d
    BY <1>1, <1>2, <2>3 DEF WriteDelete, Open, Live, Gone, TypeOK
  <2>2. deck[d] \in DeckRows
    BY <1>1, <2>1 DEF TypeOK, Live, Unborn, Gone
  <2>4. ASSUME NEW v, deck'[d] = [deck[d] EXCEPT !.editor = v],
               UNCHANGED <<members, classDecks, now>>
        PROVE FALSE
    <3>1. /\ deck'[d].owner = deck[d].owner /\ deck'[d].private = deck[d].private
          /\ deck'[d].active = deck[d].active /\ deck'[d].expires = deck[d].expires
      BY <2>2, <2>4 DEF DeckRows
    <3> QED BY <2>1, <2>4, <3>1 DEF DeckAccessible, Open, Expired, General, Assigned, InClass
  <2>5. ASSUME NEW k \in Calls, WriteEdit(k), call[k].deck = d PROVE FALSE
    BY <1>1, <1>3, <2>1, <2>4, <2>5 DEF WriteEdit, TypeOK
  <2>6. ASSUME ImportStep(d), UNCHANGED <<members, classDecks, now>> PROVE FALSE
    BY <2>4, <2>6 DEF ImportStep
  <2>7. PICK k \in Calls : WritePatch(k) /\ call[k].deck = d
    BY <1>1, <1>3, <2>1, <2>3, <2>5, <2>6, WhoWrites DEF IInv
  <2> QED BY <2>1, <2>7, WriteActs
<1>4. CASE deck'[d] = deck[d]
  <2>1. Open(d) /\ deck[d].owner # u
    BY <1>1, <1>2, <1>4, TimeOpensNothing DEF DeckAccessible
  <2>2. ~ General(d) /\ ~ InClass(u, d)
    BY <2>1 DEF DeckAccessible
  <2>3. General(d)' \/ InClass(u, d)'
    BY <1>4, <2>1 DEF DeckAccessible
  <2>4. CASE InClass(u, d)'
    <3>1. PICK c \in Classes : <<c, d>> \in classDecks' /\ <<c, u>> \in members'
      BY <2>4 DEF InClass
    <3>2. CASE <<c, u>> \notin members
      <4>1. PICK k \in Calls : AddMember(k) /\ <<c, u>> = <<call[k].class, call[k].actor>>
        BY <3>1, <3>2, RowsGained
      <4> QED BY <4>1, WriteActs
    <3>3. CASE <<c, u>> \in members
      <4>1. <<c, d>> \notin classDecks
        BY <2>2, <3>3 DEF InClass
      <4>2. PICK k \in Calls : /\ AddDeck(k) /\ <<c, d>> = <<call[k].class, call[k].deck>>
                               /\ Live(class[call[k].class])
        BY <3>1, <4>1, RowsGained
      <4> QED BY <3>3, <4>2, WriteActs
    <3> QED BY <3>2, <3>3
  <2>5. CASE General(d)'
    <3>1. PICK c \in Classes : <<c, d>> \in classDecks
      BY <1>4, <2>2, <2>5 DEF General, Assigned
    <3>2. <<c, d>> \notin classDecks'
      BY <2>5 DEF General, Assigned
    <3>3. Live(class[c])
      BY <1>1, <3>1 DEF NoOrphans
    <3>4. ASSUME NEW k \in Calls, WriteDelete(k) PROVE call[k].deck # d
      BY <1>1, <1>2, <3>4 DEF WriteDelete, Open, Live, Gone, TypeOK
    <3>5. PICK k \in Calls : \/ WriteDeleteClass(k) /\ call[k].class = c
                             \/ RemoveDeck(k) /\ <<c, d>> = <<call[k].class, call[k].deck>>
      BY <3>1, <3>2, <3>4, RowsLost
    <3> QED BY <3>1, <3>3, <3>5, WriteActs
  <2> QED BY <2>3, <2>4, <2>5
<1> QED BY <1>3, <1>4

\* The theorem about access, for every step.
THEOREM AccessExplained == Spec => AccessGainedOnlyBy
<1>1. IInv /\ [Next]_vars => [\A u \in Students, d \in Decks : GainStep(u, d)]_vars
  BY GainExplained
<1> QED BY <1>1, SpecInv, PTL DEF Spec, AccessGainedOnlyBy
=============================================================================
