# Formal models of Agronomia Flashcards

TLA+ specifications of the flashcards application of this repository: a Go
server with PostgreSQL (`cmd/`, `internal/`, `migrations/`) and a plain
JavaScript progressive web app that keeps working without the network
(`web/static/js`, `web/static/sw.js`). The modules are checked with TLC on small
instances and their main theorems are proved with TLAPS for every instance.

    tlc -workers 2 -config MCAnswerSync.cfg MCAnswerSync
    tlapm AnswerSyncProofs.tla

`PROJECT.json` lists the runs, the definitions with the source lines they stand
for, the mutants with which each property was shown able to fail, the findings
and the hazards.

## 1. The system

| Component | State | Operations | Talks to |
|---|---|---|---|
| Study page (`study.js`) | one session: mode, bundle, queue of cards left, the current card, its post | `initSession`, `buildQueue`, `flyAndAnswer`, `loadNext`, rounds | server over `fetch`; `offlineStudy`; the worker by a Background Sync tag |
| Offline module (`offline.js`) | IndexedDB: `cards`, `reviews`, `deck_meta`, `answer_queue` | `saveBundle`, `loadBundle`, `syncDeck`, `recordAnswer`, `flushQueue` (also on every `online` event) | server; shares IndexedDB with the worker |
| Service worker (`sw.js`) | none of its own | `flushAnswerQueue` on `sync`; shell cache; push | server; IndexedDB |
| Study service (`service/study.go`) | table `reviews` | `SubmitAnswer` (read, `Schedule`, upsert), `NextCard`, bundle, hide | called by page, chains and worker, each request a goroutine |
| Accounts (`service/admin.go`, `service/auth.go`, `middleware/auth.go`) | `users`, `user_roles`, the session cookie | `LoginWithGoogle`, `SetRoles`, renewal, logout, `RequireRole` | every route's middleware |
| Content (`service/content.go`) | `decks`, `cards`, `uploads` | deck and card CRUD, private decks, CSV import and export | decides what `SubmitAnswer` accepts |
| Classes (`service/class.go`) | `classes`, `class_members`, `class_decks` | create, join by code, leave, assign decks | `DeckAccessible` |
| Teach page (`teach.js`) | copy of the deck list, current deck, selection, file and preview | create, publish, delete decks, import CSV, write cards | server |
| Deck page (`deck_manage.js`) | copy of the cards, the dialog, selection, settings form, badge | edit and delete cards, rename, publish, expiry | server |
| Home page (`home.js`) | copies of the listed and hidden decks, grid, search box | load, search, hide, show again; the back/forward cache | server |
| Application shell (`app.js`) | the bar; keys of the tab and of the device; the browser's push subscription | preview modes, banner, offer of the reminder, subscribing | server; every page |
| Push (`service/push.go`, `runDailyScheduler`) | `push_subscriptions`, the last day fired (memory) | subscribe, daily reminders, removal of stale subscriptions | push services; the shell |
| Migrations (`migrate/runner.go`) | `schema_migrations` | apply what is pending at start | the schema |
| Rate limiter, CSRF, CORS, headers, reports | per-address buckets, or none | filters, read-only queries | all routes |

### What is hard here

* An answer takes one of four ways: posted; stored after a 401; stored after a
  network error, with a Background Sync; given back because storing failed. Each
  is a chain of callbacks that the page's closing can cut anywhere.
* The queue is emptied by several passes at once: one for each `online` event
  of the page, one for each sync of the worker. Each works on a snapshot and
  deletes an item in a transaction after the reply.
* `POST /api/study/answer` carries a card and a result and nothing that
  identifies the answer. SM-2 is neither idempotent nor commutative.
* The server reads a review and writes it back in two statements without a
  transaction. `SetRoles`, `DeckRepo.Patch` and `JoinClass` are built the same way.
* There are two copies of the reviews, the table and IndexedDB, scheduled by two
  implementations of SM-2, and answers from the queue are scheduled when they
  arrive.
* The session cookie carries a copy of the roles that renewal never refreshes.
* The pages hold copies of tables. A handler works, when its answer comes, on
  what the page holds by then (the current deck, the open dialog, the
  selection, the file), not on what was sent; answers come in any order or not
  at all, and a button may be enabled again by the handler of something else.
* Saving a deck's settings sends two requests at once, with every field of a
  form that may not have been filled yet.
* The shell's state has four lifetimes: page, tab, device and account. The keys
  survive a logout, the marks belong to no account, and a page may come back
  from the cache of the browser with the bar of another moment.
* The hourly tick of the reminder falls anywhere in the hour, and what the
  process remembers of the day is lost when it stops.

### What makes each component correct

* Delivery: an answer shown as accepted is in the table or still on the device;
  the queue drains; each answer is folded once, in order, into the right review.
* Scheduling: ranges hold whatever the history; a pass never brings a card
  closer; the two implementations agree.
* Sessions: the cards due, and in "wrong" mode the recent mistakes, are exactly
  those asked, with or without the network.
* Accounts: a user keeps a role; a session has one; every privilege has its
  origin in `ADMIN_EMAILS`.
* Content and classes: only owners change a deck, what is listed can be studied,
  access is gained only through an owner, a class's creator or one's own joining.
* Pages: a page at rest shows what the server has; what a button will do is what
  the screen shows (the previewed file, the card in the dialog, the fields
  touched); nothing is deleted that was not confirmed.
* Shell and reminders: a mode is one that its account entered; staff are not
  subscribed as themselves; a device that no longer asks is subscribed; one
  reminder a day, and every day that a process sees whole.
* Migrations, imports (not modelled): each migration applied once whatever
  crashes; an import is all or nothing.

## 2. Modules

    AnswerDelivery   <= implemented by =  AnswerSync      - MCAnswerSync, AnswerSyncProofs
    Scheduler  <- CardReview, StudySession - MCCardReview, MCStudySession, SchedulingProofs
    Accounts   - MCAccounts, AccountsProofs
    DeckAccess - MCDeckAccess, DeckAccessProofs
    Answers, AnswersProofs
      <- TeachPage                - MCTeachPage, TeachPageProofs
      <- DeckCards + DeckSettings - MCDeckPage, DeckPageProofs
      <- HomePage, and AppShell + Reminders - MCHome, HomeProofs

### AnswerSync, and AnswerDelivery which it implements

The page, the flush chains (`PageChains` and `Workers`), the request slots, the
queue, the sync tag, the session and the table. One action per callback or
statement: `Answer` posts, `Confirm`, `SessionExpired`, `AnswerFailed` and
`AnswerLost` are the branches of `flyAndAnswer`, `PutQueue`, `ConfirmStored` and
`RecordFails` those of `recordAnswer`; `Snapshot`, `SendNext`, `Flushed`,
`DeleteItem`, `DeleteFails`, `FlushUnauthorized`, `FlushRefused`, `FlushLost` and `EndFlush`
those of `flushQueue` and `flushAnswerQueue`; `ReadReview` and `WriteReview` the
two statements of `SubmitAnswer`. `ClosePage` and `KillWorker` may happen between
any two of them. A lost `fetch` is either a lost request, a lost reply, or one
that the server goes on processing.

What `Schedule` computes does not matter here, only to what it was applied: a
review is the sequence of answers folded into it, so that a repeated, a missing
and a misplaced answer are all visible. `recordAnswer`'s update of the local
review is left to StudySession.

`AnswerDelivery` is the promise: an answer is kept before it is accepted, and
forgotten only once delivered. `ImplementsDelivery` is the refinement, with
`asked` the answers given, `kept` the queue and `delivered` those written at
least once.

### Scheduler and CardReview

`Schedule` and `sm2Schedule` on integers (ease in hundredths, time in days,
`Days` wraps as `time.Duration` does). CardReview is one row under any sequence
of results.

Neither program multiplies by the hundredths: both use a double near them. The
server reads it from `NUMERIC(4,2)` before every answer, so that it is the nearest
one; the browser stores the ease as it comes out of the last answer and goes on
from there (2.3 - 0.2 is 2.0999999999999996, `offline.js:139-151` and `384-393`).
The error is some units in the last place for each answer given offline, and what
is rounded is the interval times the ease, a number of hundredths: the error
decides nothing but the side of an exact half day. So `Product` may be below the
exact product (`low`), which is the case for the server at the pairs of the constant
`LowHalves` (30 days times 2.05 is 61.49999999999999) and for the browser whenever
it may be so. `BrowserMirrorsServer` is then what is left of "mirrors Schedule()"
(`offline.js:122`): the same row from the same row, but for one day where the
product is an exact half day. The size of the double's error is taken from this
argument; floating-point numbers are not modelled.

### StudySession

The same answers, seen by what they make of the SM-2 state and of the next
session: table and local copy, the three modes of `buildQueue` (an order is any
that sorting by day and shuffling within a day may give), rounds, the queue. A
delivery is one step here; failures of delivery are the subject of AnswerSync.
The constant `Earlier` is what was answered before the first session. A bundle is
shown whether or not `saveBundle` stores it (`SaveBundle`), since its failure is
swallowed (`study.js:576`); it is one IndexedDB transaction, and whatever touches
the stores later waits for it, so that a late one cannot be told from one at once.
Three history variables serve the properties: `ideal`, the reviews had every
answer been posted when it was given; `overtaken`, cards for which a newer
answer arrived before an older one; `behind`, cards whose local copy the code is
known not to keep up to date (answered online after the copy was made, or
overwritten by a bundle while answers were queued). Sessions ask those cards
again, which `docs/regra-exibicao-cartas.md` does not mention; the properties
are stated for all other cards.

### Accounts

`SetRoles` and `LoginWithGoogle` with one action per SQL statement, any of which
may fail, and the session cookie: new, old enough to be renewed by any request,
expired. Role names in a request are arbitrary strings, as in the code, which
validates them.

### DeckAccess

The tables `decks`, `classes`, `class_members` and `class_decks` with their
foreign keys, and the clock that expiries are compared with. A handler that
checks before it writes (`PatchDeck`, `DeleteDeck`, `DeleteMyDeck`,
`UpdateDeck`, the handlers of cards, `UploadCSV` with a `deckId`, `UpdateClass`,
`DeleteClass`, `AssignDeck`, `UnassignDeck`, `JoinClass`) is an
entry of `call` from its check to its write, so that any other request may come
in between: `CheckDeck`, `CheckMyDeck`, `CheckClass` and `FindClass` start one,
`ReadPatch` and `CheckMember` are the second reads, and `WritePatch`,
`WriteDelete`, `WriteEdit`, `WriteImport`, `WriteUpdateClass`, `WriteDeleteClass`,
`AddDeck`, `RemoveDeck` and `AddMember` the statements that write. Creating and
leaving are single statements. What is in a deck (name, subject, cards) is
represented by `editor`, whoever wrote it last: `WriteEdit` stands for the handlers
that check the deck first. `ImportCSV` without a `deckId` checks nothing: a name
that is taken stands for the deck that has it, be it a colleague's or a student's
private one, and the import fills in its subject and upserts its cards. With a
`deckId` the deck is checked, then read again; the rows go to it, or by its old
name when it is gone (`WriteImport`). `OnlyOwnersWrite` therefore names the import
beside the owner's and the administrator's writes, and says that it touches neither
owner nor publication nor expiry. `DeckAccessible` and `Listed` are the conditions of the two SQL
queries, each translated from its own text.

A user's role is fixed here (Accounts has its changes). A former professor is
the case that this leaves out: `DeckAccessible` lets any owner study, `Listed`
offers private decks only, and `ListedIffStudyable` would fail for a general deck
of theirs that is assigned to a class. Ids are never used again. An invite code
is either that of an active class or useless. Hidden decks are left out.

### The pages: Answers, TeachPage, DeckCards, DeckSettings, HomePage

These follow one pattern. A click is an action that reads the page and adds a
request to the ones sent; the server carries out any of them, with or without
success, and adds an answer; a handler takes any answer, not only the oldest, or
learns that it was lost. `Answers` has what they share: taking an answer out of
the sequence, and whether it overtakes an older one. A button that the code
disables is a variable, since any handler may enable it again.

Some overlaps do leave a page wrong. A history variable (`mishaps`, `troubles`,
`causes`) names each kind when it happens, at the code that lets it happen, and
each property says from which of them it excludes itself, so that everything it
does not name is shown to be harmless. Together the names are the list of what a
slow network can do to these pages.

* TeachPage has the list, the current deck and the card form, the selection with
  its confirmation dialog, the file, the preview and the import: `CreateDeck`,
  `Publish`, `ConfirmDelete`, `ChooseFile`, `Import` and `SaveCard` send,
  `Answered` runs the handlers. Every reload of the list makes current again the deck that was so
  when it was called, be it deleted since; `SavesIntoOwn` shows that the form
  then cannot save into it.
* DeckCards has the card list, the dialog (`editingID`, the card whose text it
  really shows, and the radios of its type) and the bulk deletion, for which the
  server takes an empty list of ids for the whole deck. A text is its words and its
  type. The body of a save has the type that the radios showed at the click
  (`deck_manage.js:457`), the list takes what they show when the answer comes
  (472): an answer that finds another
  type there (`ChooseType`, or a card opened since) is the mishap `retyped`. The page asks for a hundred cards (121), so that
  `ListAssumption` bounds a deck by `ListLimit`.
* DeckSettings has the publish button and the form. `PUT` and `PATCH` of a save
  are in the server at once, each half at its own pace, and the patch reads the
  row and then writes both of its columns (`repository/deck.go:146-177`). The page
  is told once, as `Promise.all` does (605-631): when both are done, or of the
  first that is refused or lost, while the other goes on (`Progress`, `told`).
  Expiry dates pass (`DatePasses`), in any order; `past` are those gone by. A
  rendering leaves the publish button as it is when the date of the deck has passed
  (674), and a click sends what the button says.
* HomePage has the grid, the section of hidden decks, the debounced search, the
  viewer's kind (student, staff, staff in student mode), decks moved by staff,
  and `pageshow`.

### AppShell and Reminders

AppShell is the bar that `renderTopBar` leaves on a page, the keys of
`sessionStorage` and `localStorage`, the two preview modes and the banner, logins
and logouts in this tab or another, the page before (`Back`), and the offer of
the reminder up to the row in `push_subscriptions`, one action for each `await`.

Reminders is the server's side: the process starts and stops at any half hour,
the ticker wakes it hourly after its start and drops a tick that nobody takes,
and `SendDueReminders` lists at most `Limit` subscriptions (2000,
`repository/push.go:50`), or none when the query fails, which is only logged after
the day was marked as fired; it sends to one after the other while it removes those
whose endpoint is gone.

MCDeckPage and MCHome instantiate parts that share neither state nor requests; in
a behaviour one of them moves.

## 3. Runs

| Run | Instance | What it shows |
|---|---|---|
| `delivery` | 2 answers about one card, a page chain, a worker, 2 requests at once, 1 failure, 1 outage | types; `AnswerNotLost`; `ImplementsDelivery` |
| `flush` | 2 cards, access to each changing freely, fair | `FlushCompletes`: a refused item does not hold back those behind it |
| `card_review` | streaks to 12, intervals to 42700, the browser's ease exact or low | ranges, `BootstrapFromOneDay`, `PassNeverShortens`, `WorseAnswerIsSooner`, `BrowserMirrorsServer` |
| `study` | 2 cards, one of them perhaps answered earlier, 3 answers, 2 days | `LateAnswersFold`, `OfflineOffersOnlyDue`, `OnlineOffersWrong` |
| `accounts` | 2 users, one listed, 2 calls, 1 failed statement | `TokenHasRole`, `PrivilegeFromList`, `LastRoleOnlyRaced` |
| `access` | a professor, a student, 1 deck, 1 class, 2 handlers, imports, times 0 to 2 | types; `NoOrphans`, `ListedIffStudyable`, `OnlyOwnersWrite`, `AccessGainedOnlyBy` |
| `teach` | a deck of the professor's and a colleague's, 1 file, 2 requests, 1 kind of mishap | types; `ListIsServers`, `ImportWillBeAsPreviewed`, `SavesIntoOwnDecks` |
| `deck_page` | 2 cards, 1 text of 2 types; 2 names, a date that may pass or none, 1 field touched; 2 requests, 1 kind of mishap, `OneAtATime` | types; `DialogHoldsItsCard`, `ListShowsTable`, `OnlyConfirmedDeleted`; `WritesOnlyWhatWasMeant`, `BadgeShowsRow` |
| `home` | 2 decks, 1 search, 2 requests, 1 cause; 2 accounts, 2 endpoints, 1 change; 2 subscriptions, 1 listed at most, 5 and a half hours of 3-hour days | `HomeShowsServer`, `InOnePlace`, `HidesOnlyGeneral`; `ModesAreChosen`, `MarkMeansRow`, `SubscribesOnlyStudents`; `RemindedOnceADay`, `FiresEverySteadyDay` |
| `after_login` | 1 answer | violation of `SyncedAfterLogin` |
| `at_most_once` | 1 answer, page chain and worker | violation of `AppliedAtMostOnce` |
| `race` | 2 answers about one card | violation of `UpdateNotLost` |

The three violations are disagreements between the code and what its comments
and documents say of it; `PROJECT.json` quotes them under "findings".

**Bounds.** Two answers are the fewest that can be reordered or overwrite each
other; two slots let a stale request survive beside a fresh one; one page chain
and one worker are the two kinds of pass, and a second page chain behaves as the
worker does. One failure with a closing page (free, unbounded) reaches every
branch of the page and of a pass; the proofs remove all these bounds. In
`card_review` the bounds admit every state up to the interval from which one
more answer overflows, and no streak above 12 is needed to get there;
`LowHalves` has the pairs of at most 110 days there, and any in the proofs. In `study`
three answers allow wrong-then-pass-then-pass on one card or two cards
interleaved, and the second day lets a card come due again; longer intervals fall
outside, so that "due again" is exercised with one-day intervals only. The card
answered earlier stands at an interval and an ease whose product is an exact half
day, where the browser and the server may round apart. In `accounts` the two bodies promote-and-demote and remove-both suffice
for each interleaving of a check and a delete; an invalid name and an empty
body exercise the refusals. In `access`
two handlers are what it takes to put a write between another's check and write;
the properties speak of one deck, one class, one student and one staff member at
a time, and both users may create decks; three moments leave room for an expiry
to pass and another to be set. An import takes the deck by name, whoever owns it
and whichever handler is between its check and its write. The proofs remove these
bounds.

For the pages, two requests without an answer are what it takes for one to
overtake another, and for a handler to meet what the next click has changed. A
behaviour may have one kind of mishap, as often as it likes: a property that
excludes itself from one kind is thereby checked under each of the others.
Without that bound the properties hold vacuously in more and more states and
nothing new is reached. In `teach` the page begins empty, so that the deck is
created within the behaviour, and a colleague's deck is there to be listed; in
`deck_page` two values of each column tell a stale one from a fresh one, two
cards the dialog's from another, and two types of one text what was sent from what
the radios show; the user touches at most one field of the form
before it is saved (`MaxTouched`), since what matters is a touched field beside
untouched ones; and once something has gone wrong, a request waits until no other is
open (`OneAtATime`), so that the states after a mishap, of which most properties say
nothing, do not fill the run. In `home` one deck matches the search and the
other does not; two accounts share a browser; a day of three hours with the
target in the middle one has an hour before and after it, and eleven half hours
hold the whole second day up to its end, while sending may outlast the day. The
three runs have 2.9, 0.8 and 2.1 million states. The proofs remove the
bounds, except that `FiresEverySteadyDay` keeps one on the length of the sending.

**Symmetry.** Request slots, cards, calls, types and names are interchangeable where no
constant tells them apart (the card answered earlier in `study` does), and are used as
symmetry sets in runs without liveness properties.

**Fairness** (`FairSpec`, for `flush` and `after_login`). Weak fairness of each
chain's own steps and of the page's callbacks (an event loop runs what is
ready), of the server's handling of a request (a goroutine runs), of an abandoned
request's end, and of the browser's firing of a registered sync. The student,
the session, connectivity, professors and failures are not fair. `SyncedAfterLogin`
assumes connectivity, a good session and open decks for ever after, and still
fails.

**Deadlock** is allowed where the bounds stop the system: streak and interval in
CardReview, days and answers in StudySession, ids in DeckAccess, the kinds of
mishap on the pages (an answer whose handling would be a second kind stays
where it is), the clock in Reminders.

## 4. Theorems

| Theorem | Statement |
|---|---|
| `AnswerSyncProofs!TypeCorrect`, `NoAnswerLost`, `Implementation` | `Spec => []TypeOK`, `Spec => []AnswerNotLost`, `Spec => ImplementsDelivery` |
| `SchedulingProofs!RowTypeCorrect`, `Bootstrap`, `NeverShortens`, `WorseIsSooner`, `Mirror` | the five properties of `card_review` |
| `SchedulingProofs!StudyTypeCorrect`, `LateFold`, `OfflineDue`, `OnlineWrong` | the four properties of `study` |
| `AccountsProofs!TypeCorrect`, `SessionHasRole`, `PrivilegeOrigin`, `LastRole` | the four properties of `accounts` |
| `DeckAccessProofs!TypeCorrect`, `ReferencesLive`, `HomeAgrees`, `OwnersWrite`, `AccessExplained` | the five properties of `access` |
| `TeachPageProofs!TypeCorrect`, `ImportsWhatIsShown`, `SavesIntoOwn`, `ListIsTheServers` | the four properties of `teach` |
| `DeckPageProofs!CardsTypeCorrect`, `DialogIsOfItsCard`, `DeletesOnlyConfirmed`, `ListIsTheTable` | types, `DialogHoldsItsCard`, `OnlyConfirmedDeleted`, `ListShowsTable` |
| `DeckPageProofs!SettingsTypeCorrect`, `WritesOnlyWhatIsMeant`, `BadgeIsOfTheRow`, `PageTypeCorrect` | types, `WritesOnlyWhatWasMeant`, `BadgeShowsRow`, `PageTypeOK` of both halves |
| `HomeProofs!HomeTypeCorrect`, `NeverInTwoPlaces`, `ShowsTheServer`, `OnlyGeneralHidden` | types, `InOnePlace`, `HomeShowsServer`, `HidesOnlyGeneral` |
| `HomeProofs!ShellTypeCorrect`, `ModesChosen`, `MarkStands`, `OnlyStudentsSubscribed` | types, `ModesAreChosen`, `MarkMeansRow`, `SubscribesOnlyStudents` |
| `HomeProofs!RemindersTypeCorrect`, `OnceADay`, `EverySteadyDay` | types, `RemindedOnceADay`, `FiresEverySteadyDay` |

Every property that a passing run checks is one of these, except `FlushCompletes`.

*AnswerSync.* `AnswerNotLost` is not inductive: that a deletion is harmless
depends on what the deleting chain has been told. `IInv` adds what the steps
before must have established: `PageInv` and `AskedInv` (which answers the page
and the chains may hold, never one not yet given), `RequestInv` (a reply `ok`
means that the answer is in the table), `WaitInv` and `ExclusiveInv` (a waiting
page or chain owns the slot it waits for, and it carries its answer),
`StoredInv` (an answer about to be confirmed is in the queue or delivered, and a
chain that deletes an item has seen it delivered). The refinement is proved step
by step from `IInv`: each action is one of `AnswerDelivery` or leaves its
variables alone. Assumed: the named `ASSUME`s of AnswerSync, that names do not
clash and bounds are naturals.

*CardReview* (in SchedulingProofs). By arithmetic from the ranges, for any
`LowHalves`: a product that is a hundredth less rounds to the same day unless it was
an exact half (`BrowserMirrorsServer`), and rounds monotonically enough for the
others. `IntervalAssumption` (answers are
given from intervals of at most 42700 days) is what keeps `time.Duration` from
wrapping; the code enforces nothing of the kind.

*Accounts.* `IInv` adds that a call about to delete has read more than one role
(`CheckedInv`) and that a login about to sign holds one (`LoginInv`). For
`PrivilegeFromList` the argument is that the listed users, once known, stay
known, and before that nothing is privileged, so that no step has an
administrator's token to start from.

*DeckAccess.* `IInv` adds two facts. `CheckedInv`: what the check of a call has
found about its deck or class stays true until its write, except that the row
may be gone; it holds because owners and creators never change and ids are not
used again (`OwnersFixed`; an import keeps the owner of a deck it finds). `StudentDecksPrivate`: a student's decks are private,
which is why two different conditions come to the same for students.
`AccessExplained` then looks at what made the condition true (the row of the
deck, a membership, an assignment, or the last assignment's end) and names the
call that wrote it (`WhoWrites`, `RowsGained`, `RowsLost`); `TimeOpensNothing`
excludes the clock. Assumed: staff are users, the last moment is a natural.

*StudySession.* `LateAnswersFold` says nothing of a card of which answers still
wait, so that it is not inductive. `FoldInv` says what the waiting answers will
make of the card: there is a function from the places of the queue to SM-2 states
that starts at the server's state of the card, takes one step of
`After` for each answer about it and ends at the ideal one (`Folds`). A function is stated to exist, not
computed, so that posting the first answer, giving another and the overtaking of
one card by another are each a step on it, without induction over the queue.
`TimeInv` and `LateInv` bring in the dates: arriving late only delays the next
review, and a date that wraps does not become a later one, so that no bound on
intervals is needed. `LocalInv` says the same of the local copy, but for the
cards in `behind`. For the sessions, any order of a set of cards has the cards of
that set (`OrderOf`), whatever `buildQueue` shuffles. Assumed: finitely many
cards, and the bounds are naturals.

*AnswersProofs* has the lemmas about taking an answer out of a sequence: what is
left is a sequence of the same set, each of its elements was there before and
keeps its order; and what becomes of the last answer of some set before a place
(`LastTaken`, `LastAdded`), on which the pages at rest depend.

*TeachPage.* `ImportWillBeAsPreviewed` is inductive once the types are known,
which is what the three named mishaps are for: every handler that changes the
file or the deck under an enabled import button clears the file, disables the
button, or is one of them.

That a page at rest agrees with the server is not: while answers are on their way
the list is out of date. `ListInv` says, deck by deck, that a read of the list is
still to come (`ListWaits`), or the last answer on its way that tells about the
deck tells how it is, and if none tells the list shows it (`ListIs`,
`ListWillBe`). The same is needed a second time for the answers that can bring a
deck into the list (`FoundIs`, `FoundWillBe`), since publishing a deck edits the
list only where the deck is in it already. A handler that takes an answer before
an older one breaks this, which is the mishap `order`, and a lost answer never
tells.

For `SavesIntoOwnDecks` the danger is a read that no longer has the current deck
and comes without a deck to select: nothing would then disable the button.
`GoneParts` excludes it: whatever says that a deck is not there comes after
another answer that already did, so that by the time the read is handled the
deletion has been, and its handler has left the deck (`CurrentListed`). That a
reload makes a deck current that was left meanwhile is no danger: the proof does
not need it as a mishap, and the model does not have it as one.

*DeckCards.* `DialogHoldsItsCard` is inductive by itself. `ConfirmedInv`:
every deletion on its way names cards that were confirmed, and a deletion in
bulk names at least one, since its handler returns on an empty selection. The
button alone does not see to that. `CardsInv` is for the list of cards what
`ListInv` is for the decks; it needs that a card once gone does not come back
(`GoneInv`), and that after the first list every card in the table is in the list
(`Loaded`), or the handler of a save would not find it, and that a save on its way
has a card and a text (`AskedInv`). What the radios show needs no invariant: the
handler that finds another type than was sent is the mishap `retyped`.

*DeckSettings.* `WriteInv`: the form holds, field by field, what the user put
there or what the row holds (`FormInv`), and so does a save on its way
(`SaveInv`) and the expiry that a publish has read (`PublishInv`). They stay true
because in the absence of the four troubles there is one write at a time
(`OneWriter`) and no read of the row is open beside it (`ReadInv`). `ShowInv` is
again the last answer that tells, for the badge and for the title; `PartInv` ties
the half of a save that is done to the row, `ToldInv` says that a page told before
both halves are done was told of a loss or a refusal, and `ButtonInv` that the publish
button is that of the badge unless the badge's date has passed.

*HomePage.* `PlaceInv`: the page's copy has a deck in one place (`Apart`), and
without a section on the screen there is nothing in it (`NoSection`). `ShowInv`
adds what makes a page at rest right: the grid is made from the copy (`Fresh`,
`Searched`), and the copy is the server's, or a list that is still to be asked
for or read will make it so, or a cause is named (`Known`). `SaidGeneral`: a
deck that the page offers to hide was general when a list said so.

*AppShell.* `Posting`: a page about to store a subscription has one. `BarsMean`:
a bar rendered without a session, also the one in the cache, has no staff roles
and so cannot enter a mode. `Keys`: at most one key is set, and by the account of
the session, unless it was inherited. `Offered`: whoever is being offered the
reminder is a student, or one of three changes is named.

*Reminders.* `TickInv` and `FiredInv` place the ticks: whole hours from the
start, at least one after it, and a day that was fired is over for the process
that runs, or its window had begun when it started. With `ReachedInv` (whoever is
still to be sent a reminder has none of the day) this gives `RemindedOnceADay`,
with no assumption on how long the sending takes. `FiresEverySteadyDay` needs
one, `MaxSending < 2 * HoursADay` half hours: a round that lasts a whole day
swallows the tick of the next target hour. TLC finds that behaviour with
`MaxSending = 2 * HoursADay`, so that the hypothesis cannot be weakened. The code
justifies it: a round has at most 2000 messages (`repository/push.go:50`), each given
up after 15 s (`push/sender.go:38`), which is 8 h 20 min. It says that
`SendDueReminders` is called, not whom the call reaches: the query may fail, a
message may fail, and beyond the limit subscriptions go without.

*MCDeckPage.* `PageTypeCorrect` is about the two halves together.

*Only model-checked*: the liveness property `FlushCompletes`, since fairness and
ENABLED are outside the prover's reach; and the three violations, which are
counterexamples.

## 5. What is not modelled, and why

* Within StudySession: topics; the server-side `GET /api/study/next`, which the
  page has not called since it loads bundles; times of day, São Paulo dates
  against `timestamptz`.
* Floating-point numbers: what they can change of a rounding is a choice of the
  model (`Product`), not a computation.
* Intervals above 42700 days, from which the server's `next_due` wraps into the
  past and the column later overflows.
* The account to which queued answers belong: the queue is the browser's, and
  after another login they are posted as the new user's. AnswerSync has the
  accounts, but its runs use one.
* Imports on the server: the rows and their validation, the transaction (a
  statement that fails aborts it, and `ImportCSV` counts an invalid row and goes
  on, `service/content.go:343`, so that the commit fails as a whole), the deck
  cache and the counts. TeachPage and DeckAccess have an import as one step that may
  fail.
* The migrations runner, whose dirty mark is written inside the transaction it
  should outlive (`migrate/runner.go:118`), and the rate limiter's buckets.
* Of the teach page: the popup that assigns a deck to a class; a reload that the
  server refuses, after which `allDecks` is an error object and the next filter
  throws (`teach.js:658-666`).
* Of the deck page: deleting the deck, after which the page leaves; pagination, and
  the cards past the first hundred, which it never asks for (`deck_manage.js:121`);
  a colleague's read-only view. Of the home page: the streak.
* Unsubscribing (`app.js:695-719`), which no page calls; push encryption.
* Parsing of CSV, CSRF, CORS, headers, logging, configuration, read-only
  statistics, export, and the remaining pages, which are forms over the API:
  `my_deck.js` and `class_manage.js` are built like the deck page.
* The services behind the pages are modelled twice, at two grains: DeckAccess
  has the checks and writes of a deck as statements, the pages have a request as
  one step of the server (two for the patch, whose read matters to the form).

### Differences noted

Found while modelling, without a run of their own. Between the code and what is
written about it:

* The tests at `service/study_test.go:20-66` expect "hard" to reset the streak
  and an unknown result to be wrong, unlike `Schedule`;
  `docs/regra-exibicao-cartas.md` gives rounding and resets that differ from it;
  `hard` does not grow an interval of 1 or 2 days.
* Offline, the "wrong" mode misses mistakes made offline, which
  `docs/regra-exibicao-cartas.md:116` promises for seven days: `recordAnswer`
  writes no `updated_at`.
* "Professors may only mutate decks they created" (`service/content.go:46`), but an
  import goes by the deck's name, whoever owns it (`service/content.go:307-342`,
  `repository/deck.go:198-201`): it sets the subject of a colleague's deck that has
  none and inserts and overwrites its cards. `OnlyOwnersWrite` names this case.
* "mirrors service/study.go Schedule()" (`offline.js:122`): at an exact half day the
  two may differ by a day, by what is left of the ease in a double.
* Two role changes at once may leave a user without a role, against
  `service/admin.go:59`; `LastRoleOnlyRaced` says that nothing else does.
* A private deck starts as a draft (the default of migration 014), which its owner
  cannot study (`repository/study.go:203`) and has no route to publish
  (`main.go:170-180`), while `web/my_decks.html:49` offers it for studying.
* Two patches of a deck at once, one of each field, undo each other
  (`repository/deck.go:146-147`: "so we can do a full UPDATE without losing
  fields"); `WritesOnlyWhatWasMeant` names this as `overlap`.
* `HideDeck` (`service/study.go:330`) says "Only general (non-private, non-class)
  decks may be hidden" and checks only that the deck is accessible.
* `main.go:268` says that the reminder fires even if the server restarts within
  the target hour; the first tick comes an hour after the start, when it is over.
* `app.js:565` says "not staff in their real role", and staff in student mode are
  asked, and subscribed under their account.

Of the pages alone:

* An import that the server refuses is reported as done: `res.ok` is not looked
  at.
* Enter in the name of a new deck sends it again while the first request is under way,
  though the button is disabled (`teach.js:486`); the second is refused for its name.
* The deck page reads the type of a saved card from the radios when the answer comes
  (`deck_manage.js:472`), so that a radio touched meanwhile shows in the list and not
  in the table.
* The publish button is not rendered for a deck whose date has passed
  (`deck_manage.js:674`) but left as it was: a deck withdrawn with a past date shows
  "Rascunho" and keeps "Despublicar", whose click sends `is_active: false`.
* A save of the settings is reported, and its button enabled again, at the first
  refusal, while the other half may still be written (`deck_manage.js:605-631`).
* The teach page lists the first 50 decks only.
* On the home page a list without any deck leaves the grid of before
  (`home.js:138-141`), the text for an empty list is not hidden again, and a
  reload forgets the text in the search box (`home.js:145`).
* The home page does not load `offline.js`, so that a login there flushes nothing
  (the run `after_login`).
* `sw.js:170-187` compares the absolute URL of a window with a path when a
  notification is clicked, so that it always opens another window.
* The reminder goes by the rows due at that moment (`repository/push.go:47`), the
  pages by those due until midnight in São Paulo, and new cards.

## 6. What could come next

1. `ImportCSV` with its aborted transaction, two imports and a rename at once, an
   atomic import as its specification.
2. The migrations runner with a crash or a second server between its statements.
3. DeckAccess with hidden decks and with roles that change, and the refinement of
   the set `open` of AnswerSync by it.
4. The theorems of the pages for histories of every kind of mishap at once say
   what is right without them; what a page still guarantees after each (a reload
   repairs the list) is neither stated nor proved.
5. Runs of AnswerSync with two accounts, whose answers share the browser's queue.
