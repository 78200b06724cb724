----------------------------- MODULE DeckAccess -----------------------------
(***************************************************************************)
(* Who may study what: the decks' owners, publication and expiry, the      *)
(* classes with their members and assigned decks, and the condition under  *)
(* which DeckAccessible and the home page let a student see a deck.        *)
(*                                                                         *)
(* Every change is a handler that first reads and checks, and then writes  *)
(* in a statement of its own, without a transaction: a call that has       *)
(* passed its check is kept in call until its write.  Foreign keys and     *)
(* ON DELETE CASCADE are those of migrations/001 and 010.                  *)
(*                                                                         *)
(* Of a deck's contents (name, description, subject, cards) only who wrote *)
(* them last is kept.  Names are not told apart: an import finds any deck  *)
(* by its name, or makes a new one.  An invite code is an input that is    *)
(* either the code of an active class or useless.                          *)
(***************************************************************************)
EXTENDS Integers

CONSTANTS
  Users,       \* accounts
  Admins,      \* those whose token has the role admin
  Professors,  \* those whose token has the role professor
  Decks,       \* deck ids, each generated at most once
  Classes,     \* class ids
  Calls,       \* bound: the checked calls in progress at once
  MaxTime      \* bound: the last moment of the clock

ASSUME StaffAssumption == Admins \subseteq Users /\ Professors \subseteq Users
ASSUME TimeAssumption == MaxTime \in Nat

VARIABLES
  deck,        \* table decks
  class,       \* table classes
  members,     \* table class_members
  classDecks,  \* table class_decks
  call,        \* the handlers between their check and their write
  now          \* the clock

vars == <<deck, class, members, classDecks, call, now>>
tables == <<deck, class, members, classDecks>>

Staff == Admins \cup Professors
Students == Users \ Staff

Unborn == [state |-> "unborn"]
Gone == [state |-> "gone"]
Flags == {"yes", "no"}
Never == 0  \* expires_at IS NULL
Expiries == 0..MaxTime

DeckRows ==
  [state : {"live"}, owner : Users, private : Flags, active : Flags, expires : Expiries,
   editor : Users]
ClassRows == [state : {"live"}, creator : Users, active : Flags]

\* Stand for a field that the request does not have.
Keep == "keep"
KeepExpiry == -1

PatchRequests ==
  [pc : {"read"}, op : {"patch"}, actor : Users, deck : Decks,
   active : Flags \cup {Keep}, expires : Expiries \cup {KeepExpiry}]
PatchWrites ==
  [pc : {"write"}, op : {"patch"}, actor : Users, deck : Decks,
   active : Flags, expires : Expiries]
DeleteCalls == [pc : {"write"}, op : {"delete"}, actor : Users, deck : Decks]

\* The handlers that write a deck's contents: UpdateDeck, those of its cards, and
\* those of the cards of one's private deck.
EditCalls == [pc : {"write"}, op : {"edit"}, actor : Users, deck : Decks]

\* UploadCSV with a deckId.
ImportCalls == [pc : {"write"}, op : {"import"}, actor : Users, deck : Decks]
UpdateClassCalls ==
  [pc : {"write"}, op : {"update class"}, actor : Users, class : Classes, active : Flags]
DeleteClassCalls ==
  [pc : {"write"}, op : {"delete class"}, actor : Users, class : Classes]
AssignCalls ==
  [pc : {"write"}, op : {"assign", "unassign"}, actor : Users, class : Classes, deck : Decks]
JoinCalls ==
  [pc : {"check", "write"}, op : {"join"}, actor : Users, class : Classes]

DeckRequests == PatchRequests \cup DeleteCalls \cup EditCalls \cup ImportCalls
MyDeckRequests == DeleteCalls \cup EditCalls
DeckCalls == DeckRequests \cup PatchWrites
ClassCalls == UpdateClassCalls \cup DeleteClassCalls \cup AssignCalls
NoCall == [pc |-> "none", op |-> "none"]
CallRecords == DeckCalls \cup ClassCalls \cup JoinCalls \cup {NoCall}

\* Every variable has its type.
TypeOK ==
  /\ deck \in [Decks -> DeckRows \cup {Unborn, Gone}]
  /\ class \in [Classes -> ClassRows \cup {Unborn, Gone}]
  /\ members \in SUBSET (Classes \X Users)
  /\ classDecks \in SUBSET (Classes \X Decks)
  /\ call \in [Calls -> CallRecords]
  /\ now \in 0..MaxTime

Init ==
  /\ deck = [d \in Decks |-> Unborn]
  /\ class = [c \in Classes |-> Unborn]
  /\ members = {}
  /\ classDecks = {}
  /\ call = [k \in Calls |-> NoCall]
  /\ now = 0

Live(x) == x.state = "live"

Start(k, r) == call[k] = NoCall /\ call' = [call EXCEPT ![k] = r]

Writes(k, op) == call[k].op = op /\ call[k].pc = "write"

Finish(k) == call' = [call EXCEPT ![k] = NoCall]

\* A statement of a call fails, or its client goes away.
Fail(k) ==
  /\ call[k] # NoCall
  /\ Finish(k)
  /\ UNCHANGED <<tables, now>>

-----------------------------------------------------------------------------
(***************************************************************************)
(* Access.  DeckAccessible is the condition of the study handlers for a    *)
(* student, Listed the one of the home page; staff pass without it.        *)
(***************************************************************************)

Expired(d) == deck[d].expires # Never /\ deck[d].expires <= now

Open(d) == Live(deck[d]) /\ deck[d].active = "yes" /\ ~ Expired(d)

Assigned(d) == \E c \in Classes : <<c, d>> \in classDecks

InClass(u, d) == \E c \in Classes : <<c, d>> \in classDecks /\ <<c, u>> \in members

General(d) == deck[d].private = "no" /\ ~ Assigned(d)

\* Mutant: the join with class_members is forgotten.
DeckAccessibleWithoutClasses(u, d) == Open(d) /\ (General(d) \/ deck[d].owner = u)

DeckAccessible(u, d) ==
  Open(d) /\ (General(d) \/ deck[d].owner = u \/ InClass(u, d))

\* A deck of the student's home page (ListDecks; empty decks are left out there
\* and hidden ones marked).
Listed(u, d) ==
  /\ Open(d)
  /\ \/ deck[d].private = "yes" /\ deck[d].owner = u
     \/ InClass(u, d)
     \/ General(d)

-----------------------------------------------------------------------------
(***************************************************************************)
(* Decks.                                                                  *)
(***************************************************************************)

\* migrations/014: is_active is false unless the insert says otherwise, and the
\* inserts of DeckRepo do not say.
NewDeck(u, private) ==
  [state |-> "live", owner |-> u, private |-> private, active |-> "no",
   expires |-> Never, editor |-> u]

Create(u, d, private) ==
  /\ deck[d] = Unborn
  /\ deck' = [deck EXCEPT ![d] = NewDeck(u, private)]
  /\ UNCHANGED <<class, members, classDecks, call, now>>

CreateDeck(u, d) == u \in Staff /\ Create(u, d, "no")

CreateMyDeck(u, d) == Create(u, d, "yes")

\* FindOrCreateByName: a name that is taken, by whomever, stands for the deck
\* that has it, whose owner is kept and whose subject and cards are then written;
\* another one becomes a deck of the importer's.
FindOrCreateByName(u, d) ==
  IF Live(deck[d]) THEN [deck[d] EXCEPT !.editor = u] ELSE NewDeck(u, "no")

\* ImportCSV without a deckId, one transaction: D are the decks named in the file.
\* Nobody's ownership is looked at.
ImportCSV(u, D) ==
  /\ u \in Staff
  /\ \A d \in D : deck[d] # Gone
  /\ deck' = [d \in Decks |-> IF d \in D THEN FindOrCreateByName(u, d) ELSE deck[d]]
  /\ UNCHANGED <<class, members, classDecks, call, now>>

\* Time passes, and with it the expiry of some deck.
Tick ==
  /\ now < MaxTime
  /\ now' = now + 1
  /\ UNCHANGED <<tables, call>>

\* Mutant: any professor may change any deck.
CheckDeckOwnershipByRole(u, d) == Live(deck[d]) /\ u \in Staff

CheckDeckOwnership(u, d) ==
  u \in Staff /\ Live(deck[d]) /\ (u \in Admins \/ deck[d].owner = u)

CheckMyDeckOwnership(u, d) ==
  Live(deck[d]) /\ deck[d].owner = u /\ deck[d].private = "yes"

\* PatchDeck, DeleteDeck, UpdateDeck, the handlers of cards, and UploadCSV with a
\* deckId, up to their check.
CheckDeck(k, r) ==
  /\ CheckDeckOwnership(r.actor, r.deck)
  /\ Start(k, r)
  /\ UNCHANGED <<tables, now>>

\* DeleteMyDeck and the handlers of the cards of a private deck, up to their check.
CheckMyDeck(k, r) ==
  /\ CheckMyDeckOwnership(r.actor, r.deck)
  /\ Start(k, r)
  /\ UNCHANGED <<tables, now>>

\* Mutant: the fields that the request does not have are not filled in.
ReadPatchUnfilled(k) ==
  /\ call[k].op = "patch"
  /\ call[k].pc = "read"
  /\ call' = [call EXCEPT ![k].pc = "write"]
  /\ UNCHANGED <<tables, now>>

\* Patch reads the row again and fills in what the request leaves alone.
ReadPatch(k) ==
  /\ call[k].op = "patch"
  /\ call[k].pc = "read"
  /\ LET r == call[k]
         cur == deck[r.deck]
     IN  IF Live(cur)
           THEN call' = [call EXCEPT ![k] =
                  [r EXCEPT !.pc = "write",
                            !.active = IF @ = Keep THEN cur.active ELSE @,
                            !.expires = IF @ = KeepExpiry THEN cur.expires ELSE @]]
           ELSE Finish(k)
  /\ UNCHANGED <<tables, now>>

\* An UPDATE of a row deleted meanwhile changes nothing.
WritePatch(k) ==
  /\ Writes(k, "patch")
  /\ LET r == call[k]
     IN  deck' = IF Live(deck[r.deck])
                   THEN [deck EXCEPT ![r.deck].active = r.active,
                                     ![r.deck].expires = r.expires]
                   ELSE deck
  /\ Finish(k)
  /\ UNCHANGED <<class, members, classDecks, now>>

WriteDelete(k) ==
  /\ Writes(k, "delete")
  /\ deck' = [deck EXCEPT ![call[k].deck] = Gone]
  /\ classDecks' = {a \in classDecks : a[2] # call[k].deck}
  /\ Finish(k)
  /\ UNCHANGED <<class, members, now>>

\* The rows of a deck deleted meanwhile are gone with it, and its key refuses new
\* ones.
WriteEdit(k) ==
  /\ Writes(k, "edit")
  /\ LET r == call[k]
     IN  deck' = IF Live(deck[r.deck]) THEN [deck EXCEPT ![r.deck].editor = r.actor] ELSE deck
  /\ Finish(k)
  /\ UNCHANGED <<class, members, classDecks, now>>

\* ImportCSV reads the deck of the deckId again; when it was deleted or renamed
\* since the check, the rows go by the name they were given then.
WriteImport(k) ==
  /\ Writes(k, "import")
  /\ \E d \in Decks :
       /\ deck[d] # Gone
       /\ deck' = [deck EXCEPT ![d] = FindOrCreateByName(call[k].actor, d)]
  /\ Finish(k)
  /\ UNCHANGED <<class, members, classDecks, now>>

-----------------------------------------------------------------------------
(***************************************************************************)
(* Classes.                                                                *)
(***************************************************************************)

CreateClass(u, c) ==
  /\ u \in Staff
  /\ class[c] = Unborn
  /\ class' = [class EXCEPT ![c] = [state |-> "live", creator |-> u, active |-> "yes"]]
  /\ UNCHANGED <<deck, members, classDecks, call, now>>

GetClass(u, c) ==
  u \in Staff /\ Live(class[c]) /\ (u \in Admins \/ class[c].creator = u)

\* UpdateClass, DeleteClass, AssignDeck and UnassignDeck, up to their check.
CheckClass(k, r) ==
  /\ GetClass(r.actor, r.class)
  /\ Start(k, r)
  /\ UNCHANGED <<tables, now>>

WriteUpdateClass(k) ==
  /\ Writes(k, "update class")
  /\ LET r == call[k]
     IN  class' = IF Live(class[r.class])
                    THEN [class EXCEPT ![r.class].active = r.active]
                    ELSE class
  /\ Finish(k)
  /\ UNCHANGED <<deck, members, classDecks, now>>

WriteDeleteClass(k) ==
  /\ Writes(k, "delete class")
  /\ class' = [class EXCEPT ![call[k].class] = Gone]
  /\ members' = {m \in members : m[1] # call[k].class}
  /\ classDecks' = {a \in classDecks : a[1] # call[k].class}
  /\ Finish(k)
  /\ UNCHANGED <<deck, now>>

\* Mutant: class_decks without foreign keys.
AddDeckUnreferenced(k) ==
  /\ Writes(k, "assign")
  /\ classDecks' = classDecks \cup {<<call[k].class, call[k].deck>>}
  /\ Finish(k)
  /\ UNCHANGED <<deck, class, members, now>>

\* The foreign keys refuse a deck or a class that does not exist (any more).
AddDeck(k) ==
  /\ Writes(k, "assign")
  /\ LET r == call[k]
     IN  classDecks' = IF Live(class[r.class]) /\ Live(deck[r.deck])
                         THEN classDecks \cup {<<r.class, r.deck>>}
                         ELSE classDecks
  /\ Finish(k)
  /\ UNCHANGED <<deck, class, members, now>>

RemoveDeck(k) ==
  /\ Writes(k, "unassign")
  /\ classDecks' = classDecks \ {<<call[k].class, call[k].deck>>}
  /\ Finish(k)
  /\ UNCHANGED <<deck, class, members, now>>

\* JoinClass: FindByInviteCode, which sees active classes only.
FindClass(k, u, c) ==
  /\ Live(class[c]) /\ class[c].active = "yes"
  /\ Start(k, [pc |-> "check", op |-> "join", actor |-> u, class |-> c])
  /\ UNCHANGED <<tables, now>>

CheckMember(k) ==
  /\ call[k].op = "join"
  /\ call[k].pc = "check"
  /\ IF <<call[k].class, call[k].actor>> \in members
       THEN Finish(k)
       ELSE call' = [call EXCEPT ![k].pc = "write"]
  /\ UNCHANGED <<tables, now>>

AddMember(k) ==
  /\ Writes(k, "join")
  /\ LET r == call[k]
     IN  members' = IF Live(class[r.class])
                      THEN members \cup {<<r.class, r.actor>>}
                      ELSE members
  /\ Finish(k)
  /\ UNCHANGED <<deck, class, classDecks, now>>

\* Mutant: the student takes the class's decks along.
LeaveClassWithDecks(u, c) ==
  /\ <<c, u>> \in members
  /\ members' = members \ {<<c, u>>}
  /\ classDecks' = {a \in classDecks : a[1] # c}
  /\ UNCHANGED <<deck, class, call, now>>

LeaveClass(u, c) ==
  /\ <<c, u>> \in members
  /\ members' = members \ {<<c, u>>}
  /\ UNCHANGED <<deck, class, classDecks, call, now>>

-----------------------------------------------------------------------------
DeckNext ==
  \/ \E u \in Users, d \in Decks : CreateDeck(u, d) \/ CreateMyDeck(u, d)
  \/ \E u \in Users, D \in SUBSET Decks : ImportCSV(u, D)
  \/ Tick

ClassNext ==
  \E u \in Users, c \in Classes : CreateClass(u, c) \/ LeaveClass(u, c)

CheckNext(k) ==
  \/ \E r \in DeckRequests : CheckDeck(k, r)
  \/ \E r \in MyDeckRequests : CheckMyDeck(k, r)
  \/ \E r \in ClassCalls : CheckClass(k, r)
  \/ \E u \in Users, c \in Classes : FindClass(k, u, c)

WriteNext(k) ==
  \/ ReadPatch(k) \/ WritePatch(k) \/ WriteDelete(k) \/ WriteEdit(k) \/ WriteImport(k)
  \/ WriteUpdateClass(k) \/ WriteDeleteClass(k) \/ AddDeck(k) \/ RemoveDeck(k)
  \/ CheckMember(k) \/ AddMember(k)
  \/ Fail(k)

Next ==
  \/ DeckNext
  \/ ClassNext
  \/ \E k \in Calls : CheckNext(k) \/ WriteNext(k)

Spec == Init /\ [][Next]_vars

-----------------------------------------------------------------------------
(***************************************************************************)
(* Properties.                                                             *)
(***************************************************************************)

\* Whatever is deleted between a check and a write, no row is left that refers
\* to a class or a deck that does not exist (AddDeck and AddMember do not look
\* again, and AssignDeck never looks at the deck).
NoOrphans ==
  /\ \A a \in classDecks : Live(class[a[1]]) /\ Live(deck[a[2]])
  /\ \A m \in members : Live(class[m[1]])

\* The home page (repository/study.go:94-107) and the check of the study handlers
\* (repository/study.go:194-213) are two statements of who may see a deck, and
\* differ: any deck of one's own is studyable, but only a private one is listed.
\* For students they agree nevertheless, because whatever is created, patched
\* and assigned, no student ever owns a deck that is not private.
ListedIffStudyable ==
  \A u \in Students, d \in Decks : Listed(u, d) <=> DeckAccessible(u, d)

\* Call k writes op in this step.
Acts(k, op) == Writes(k, op) /\ call'[k] = NoCall

OwnsDeck(u, d) == u \in Admins \/ deck[d].owner = u
OwnsClass(u, c) == u \in Admins \/ class[c].creator = u

\* An import by a member of staff that found deck d by its name.
ImportStep(d) ==
  /\ \E u \in Staff : deck'[d] = [deck[d] EXCEPT !.editor = u]
  /\ \/ call' = call
     \/ \E k \in Calls : Acts(k, "import")

\* A deck that exists changes only by the write of somebody who owns it at that
\* moment (or an administrator), although the ownership was checked in an earlier
\* statement; and so with classes.  Its contents have one exception, against
\* service/content.go:46: any member of staff may write them by an import, and
\* then owner, kind, publication and expiry stay as they are.
DeckStep(d) ==
  Live(deck[d]) /\ deck'[d] # deck[d] =>
    \/ \E k \in Calls : /\ Acts(k, "patch") \/ Acts(k, "delete") \/ Acts(k, "edit")
                        /\ call[k].deck = d
                        /\ OwnsDeck(call[k].actor, d)
    \/ ImportStep(d)

ClassStep(c) ==
  Live(class[c]) /\ class'[c] # class[c] =>
    \E k \in Calls : /\ Acts(k, "update class") \/ Acts(k, "delete class")
                     /\ call[k].class = c
                     /\ OwnsClass(call[k].actor, c)

OnlyOwnersWrite == [][\A d \in Decks, c \in Classes : DeckStep(d) /\ ClassStep(c)]_vars

\* A student gains access to a deck only when its owner publishes it, when a
\* class's creator assigns it to a class of the student's, when the student
\* joins a class, or when it becomes general because the creator of the last
\* class it was assigned to takes it out or deletes the class (the administrator
\* may do all of these).  In particular nobody gains access because another
\* student joins or leaves, or because time passes.
GainStep(u, d) ==
  ~ DeckAccessible(u, d) /\ DeckAccessible(u, d)' =>
    \E k \in Calls :
      \/ Acts(k, "join") /\ call[k].actor = u
      \/ Acts(k, "patch") /\ call[k].deck = d /\ OwnsDeck(call[k].actor, d)
      \/ /\ \/ Acts(k, "assign") /\ call[k].deck = d /\ <<call[k].class, u>> \in members
            \/ Acts(k, "unassign") /\ call[k].deck = d
            \/ Acts(k, "delete class") /\ <<call[k].class, d>> \in classDecks
         /\ OwnsClass(call[k].actor, call[k].class)

AccessGainedOnlyBy == [][\A u \in Students, d \in Decks : GainStep(u, d)]_vars
=============================================================================
