------------------------------- MODULE AppShell -------------------------------
(***************************************************************************)
(* What every page has around it (app.js): the top bar, which follows the  *)
(* roles of the account and the preview mode of the tab, and the offer of  *)
(* a daily reminder, with the subscription it leads to.                    *)
(*                                                                         *)
(* The state is spread over places of different lifetimes: the session of  *)
(* the browser, the keys of the tab (sessionStorage), which survive a      *)
(* logout, the flags of the device (localStorage), which belong to no      *)
(* account, the browser's push subscription, and the server's table. A     *)
(* page keeps the bar it was rendered with, and any page may come back     *)
(* from the cache of the browser; another tab may change the session.      *)
(***************************************************************************)
EXTENDS Naturals, FiniteSets

CONSTANTS
  Users, NoUser,
  Endpoints, NoEndpoint,   \* push subscriptions the browser may create
  MaxChanges               \* bound: kinds of change in one behaviour

ASSUME ShellAssumption ==
  NoUser \notin Users /\ NoEndpoint \notin Endpoints /\ MaxChanges \in Nat

VARIABLES
  roles,          \* the staff roles of each account
  session,        \* whose session cookie the browser has
  studentKey,     \* _agro_student_mode
  professorKey,   \* _agro_professor_mode
  bannerOff,      \* _agro_banner_dismissed
  bar,            \* the rendered top bar: for whom, with which roles, in which mode
  cachedBar,      \* that of the page before, which "back" brings back
  reminder,       \* how far the page is in offering the reminder and subscribing
  permission,     \* Notification.permission
  dismissed,      \* _agro_notif_dismissed
  subscribed,     \* _agro_notif_subscribed
  subscription,   \* the browser's push subscription
  issued,         \* endpoints there have been
  rows,           \* table push_subscriptions: user and endpoint
  enteredBy,      \* history: who has entered the mode of the tab
  changes         \* history: what has changed between a check and its use

tabVars    == <<studentKey, professorKey, bannerOff, enteredBy>>
deviceVars == <<permission, dismissed, subscribed, subscription, issued>>
shellVars  == <<roles, session, tabVars, bar, cachedBar, reminder, deviceVars, rows, changes>>

Staff      == {"professor", "admin"}
Bars       == [user : Users \union {NoUser}, roles : SUBSET Staff,
               mode : {"none", "student", "professor"}, banner : BOOLEAN]
Changes    == {"roles", "inherited", "preview", "switched", "expired"}

Changed(S) == changes' = changes \union S /\ Cardinality(changes') <= MaxChanges
RolesOf(u) == IF u = NoUser THEN {} ELSE roles[u]

\* renderTopbar: the bar for u, with these values of the keys
Render(u, student, professor, off) ==
  LET mode == CASE RolesOf(u) # {} /\ student -> "student"
                [] "admin" \in RolesOf(u) /\ ~student /\ professor -> "professor"
                [] OTHER -> "none"
  IN  [user |-> u, roles |-> RolesOf(u), mode |-> mode, banner |-> mode # "none" /\ ~off]

\* The entries of the menu that change the mode
ModeItems(b) ==
  IF b.roles = {} THEN {}
  ELSE CASE b.mode = "student"   -> {"exitStudent"}
         [] b.mode = "professor" -> {"exitProfessor"}
         [] OTHER -> {"enterStudent"} \union (IF "admin" \in b.roles THEN {"enterProfessor"} ELSE {})

ShellInit ==
  /\ roles \in [Users -> SUBSET Staff] /\ session = NoUser
  /\ studentKey = FALSE /\ professorKey = FALSE /\ bannerOff = FALSE
  /\ bar = Render(NoUser, FALSE, FALSE, FALSE) /\ cachedBar = bar /\ reminder = "none"
  /\ permission = "default" /\ dismissed = FALSE /\ subscribed = FALSE
  /\ subscription = NoEndpoint /\ issued = {} /\ rows = {}
  /\ enteredBy = NoUser /\ changes = {}

-----------------------------------------------------------------------------
(* Pages, sessions and modes.                                              *)

\* A page is loaded: a new bar, and whatever the last page was doing is over.
Load == /\ bar' = Render(session', studentKey', professorKey', bannerOff')
        /\ cachedBar' = bar /\ reminder' = "registered"

Visit ==
  /\ UNCHANGED <<roles, session, tabVars, deviceVars, rows, changes>>
  /\ Load

Back ==
  /\ bar' = cachedBar /\ cachedBar' = bar /\ reminder' = "none"
  /\ UNCHANGED <<roles, session, tabVars, deviceVars, rows, changes>>

\* The mode of the tab is one that another account has entered.
Foreign(u) == IF enteredBy' \notin {u, NoUser} THEN {"inherited"} ELSE {}

\* The login ends on the home page; the one of another tab leaves this one as it is.
Login(u) ==
  /\ session' = u /\ u # session
  /\ UNCHANGED <<roles, tabVars, deviceVars, rows>>
  /\ \/ Load
     \/ UNCHANGED <<bar, cachedBar, reminder>>
  /\ Changed(Foreign(u)
             \union (IF reminder' \in {"prompt", "key", "post"} \/ subscribed THEN {"switched"} ELSE {}))

Logout ==
  /\ session # NoUser /\ session' = NoUser
  /\ UNCHANGED <<roles, tabVars, deviceVars, rows, changes>>
  /\ Load

\* Mutant: entering student mode leaves the other key.
SwitchModeAdds(item) ==
  /\ item \in ModeItems(bar)
  /\ studentKey' = (item = "enterStudent" \/ (item \notin {"exitStudent", "enterProfessor"} /\ studentKey))
  /\ professorKey' = (item = "enterProfessor" \/ (item # "exitProfessor" /\ professorKey))
  /\ bannerOff' = FALSE /\ UNCHANGED enteredBy
  /\ UNCHANGED <<roles, session, deviceVars, rows, changes>>
  /\ Load

\* enterStudentMode, exitStudentMode, enterProfessorMode, exitProfessorMode
SwitchMode(item) ==
  /\ item \in ModeItems(bar)
  /\ studentKey' = CASE item = "enterStudent" -> TRUE
                     [] item \in {"exitStudent", "enterProfessor"} -> FALSE
                     [] OTHER -> studentKey
  /\ professorKey' = CASE item = "enterProfessor" -> TRUE
                       [] item \in {"exitProfessor", "enterStudent"} -> FALSE
                       [] OTHER -> professorKey
  /\ bannerOff' = FALSE
  /\ enteredBy' = IF item \in {"enterStudent", "enterProfessor"} THEN bar.user
                  ELSE IF studentKey' \/ professorKey' THEN enteredBy ELSE NoUser
  /\ Changed(IF session = NoUser THEN {} ELSE Foreign(session))
  /\ UNCHANGED <<roles, session, deviceVars, rows>>
  /\ Load

DismissBanner ==
  /\ bar.banner /\ bar' = [bar EXCEPT !.banner = FALSE] /\ bannerOff' = TRUE
  /\ UNCHANGED <<roles, session, studentKey, professorKey, enteredBy, cachedBar, reminder,
                 deviceVars, rows, changes>>

\* An administrator changes the roles of an account (SetRoles); bound: once.
ChangeRoles(u, R) ==
  /\ R # roles[u] /\ "roles" \notin changes
  /\ roles' = [roles EXCEPT ![u] = R] /\ Changed({"roles"})
  /\ UNCHANGED <<session, tabVars, bar, cachedBar, reminder, deviceVars, rows>>

-----------------------------------------------------------------------------
(* The reminder. The worker is registered, /api/me is asked once more, and *)
(* the student is offered the reminder, or subscribed at once where the    *)
(* browser already permits it.                                             *)

\* Mutant: the roles are not looked at.
OfferAnyone ==
  /\ reminder = "registered"
  /\ reminder' = IF session = NoUser \/ dismissed \/ subscribed \/ permission = "denied"
                 THEN "none"
                 ELSE IF permission = "granted" THEN "key" ELSE "prompt"
  /\ UNCHANGED <<roles, session, tabVars, bar, cachedBar, deviceVars, rows, changes>>

Offer ==
  /\ reminder = "registered"
  /\ reminder' = IF \/ session = NoUser \/ (~studentKey /\ RolesOf(session) # {})
                    \/ dismissed \/ subscribed \/ permission = "denied"
                 THEN "none"
                 ELSE IF permission = "granted" THEN "key" ELSE "prompt"
  /\ Changed(IF reminder' # "none" /\ RolesOf(session) # {} THEN {"preview"} ELSE {})
  /\ UNCHANGED <<roles, session, tabVars, bar, cachedBar, deviceVars, rows>>

\* "Ativar", and what the browser's dialog is answered.
Accept(p) ==
  /\ reminder = "prompt" /\ permission' = IF permission = "default" THEN p ELSE permission
  /\ reminder' = IF permission' = "granted" THEN "key" ELSE "none"
  /\ dismissed' = (dismissed \/ permission' # "granted")
  /\ UNCHANGED <<roles, session, tabVars, bar, cachedBar, subscribed, subscription, issued,
                 rows, changes>>

Refuse ==
  /\ reminder = "prompt" /\ reminder' = "none" /\ dismissed' = TRUE
  /\ UNCHANGED <<roles, session, tabVars, bar, cachedBar, permission, subscribed, subscription,
                 issued, rows, changes>>

\* ensureSubscribed: the key, the subscription of the browser, which may exist
Subscribe ==
  /\ reminder = "key"
  /\ \/ /\ permission = "granted"
        /\ \/ subscription # NoEndpoint /\ UNCHANGED <<subscription, issued>>
           \/ /\ subscription = NoEndpoint
              /\ \E e \in Endpoints \ issued : subscription' = e /\ issued' = issued \union {e}
        /\ reminder' = "post"
     \/ reminder' = "none" /\ UNCHANGED <<subscription, issued>>
  /\ UNCHANGED <<roles, session, tabVars, bar, cachedBar, permission, dismissed, subscribed,
                 rows, changes>>

\* Mutant: the device is marked before the server has answered.
PostSubscriptionMarked(e) ==
  /\ reminder = "post" /\ reminder' = "none" /\ subscribed' = TRUE
  /\ rows' \in {rows, IF session = NoUser THEN rows ELSE rows \union {<<session, e>>}}
  /\ UNCHANGED <<roles, session, tabVars, bar, cachedBar, permission, dismissed, subscription,
                 issued, changes>>

\* PushService.Subscribe: the row is the session's; the answer may be lost.
PostSubscription(e) ==
  /\ reminder = "post" /\ reminder' = "none"
  /\ \/ /\ session # NoUser /\ rows' = rows \union {<<session, e>>}
        /\ subscribed' \in {TRUE, subscribed}
     \/ UNCHANGED <<rows, subscribed>>
  /\ UNCHANGED <<roles, session, tabVars, bar, cachedBar, permission, dismissed, subscription,
                 issued, changes>>

\* The subscription expires, or the user takes the permission back.
Expire(p) ==
  /\ subscription # NoEndpoint /\ subscription' = NoEndpoint
  /\ permission' \in {permission, p}
  /\ reminder' = IF reminder = "post" THEN "none" ELSE reminder
  /\ Changed({"expired"})
  /\ UNCHANGED <<roles, session, tabVars, bar, cachedBar, dismissed, subscribed, issued, rows>>

\* DeleteGone, when the push service has said 410 to a reminder
DeleteGone(e) ==
  /\ e \in issued /\ e # subscription
  /\ rows' = {r \in rows : r[2] # e}
  /\ UNCHANGED <<roles, session, tabVars, bar, cachedBar, reminder, deviceVars, changes>>

ShellNext ==
  \/ Visit \/ Back \/ Logout \/ DismissBanner
  \/ \E u \in Users : Login(u)
  \/ \E item \in {"enterStudent", "exitStudent", "enterProfessor", "exitProfessor"} : SwitchMode(item)
  \/ \E u \in Users, R \in SUBSET Staff : ChangeRoles(u, R)
  \/ Offer \/ Refuse \/ Subscribe \/ PostSubscription(subscription)
  \/ \E p \in {"default", "granted", "denied"} : Accept(p)
  \/ \E p \in {"default", "denied"} : Expire(p)
  \/ \E e \in Endpoints : DeleteGone(e)

ShellSpec == ShellInit /\ [][ShellNext]_shellVars

-----------------------------------------------------------------------------
ShellTypeOK ==
  /\ roles \in [Users -> SUBSET Staff] /\ session \in Users \union {NoUser}
  /\ studentKey \in BOOLEAN /\ professorKey \in BOOLEAN /\ bannerOff \in BOOLEAN
  /\ bar \in Bars /\ cachedBar \in Bars
  /\ reminder \in {"none", "registered", "prompt", "key", "post"}
  /\ permission \in {"default", "granted", "denied"}
  /\ dismissed \in BOOLEAN /\ subscribed \in BOOLEAN
  /\ subscription \in Endpoints \union {NoEndpoint} /\ issued \subseteq Endpoints
  /\ rows \subseteq Users \X Endpoints
  /\ enteredBy \in Users \union {NoUser} /\ changes \subseteq Changes

\* "Modes are mutually exclusive: entering one always exits the other" (app.js:57),
\* from whatever page, also one that came back from the cache; and nobody is in a
\* mode he did not enter, unless the tab was in one that another account had entered,
\* since the keys survive a logout (app.js:48-52).
ModesAreChosen ==
  /\ ~(studentKey /\ professorKey)
  /\ "inherited" \notin changes /\ Render(session, studentKey, professorKey, bannerOff).mode # "none"
       => enteredBy = session

\* "Only prompt students (not staff in their real role)" (app.js:565): a member of
\* staff is subscribed only in student mode, with roles that changed, or because the
\* session became his while a student's page was subscribing (app.js:623-649).
SubscribesOnlyStudents ==
  [][\A r \in rows' \ rows :
       roles[r[1]] = {} \/ changes \intersect {"preview", "roles", "switched"} # {}]_shellVars

\* Where the device is marked as subscribed, and so never asks again (app.js:585),
\* the student who is logged in has a row for it, unless the browser dropped the
\* subscription, or it was another student's: the mark belongs to the device.
MarkMeansRow ==
  /\ subscribed /\ "expired" \notin changes => \E u \in Users : <<u, subscription>> \in rows
  /\ subscribed /\ session # NoUser /\ changes \intersect {"expired", "switched"} = {}
       => <<session, subscription>> \in rows
==============================================================================
