------------------------------ MODULE Accounts ------------------------------
(***************************************************************************)
(* Accounts, their roles and their sessions: the statements of             *)
(* AdminService.SetRoles and of AuthService.LoginWithGoogle as they        *)
(* interleave on the table user_roles, and the session cookie, which       *)
(* carries a copy of the roles for as long as it is renewed.               *)
(*                                                                         *)
(* Neither service opens a transaction: each AddRole, RemoveRole and       *)
(* RolesByUserID is a statement of its own, and any of them may fail (the  *)
(* database, or the request's context when its client goes away).          *)
(***************************************************************************)
EXTENDS Naturals

CONSTANTS
  Users,      \* Google accounts, each with one browser
  Listed,     \* those whose e-mail is in ADMIN_EMAILS
  Calls,      \* bound: the SetRoles requests in progress at once
  Requests,   \* their bodies: records of the names to add and to remove
  MaxFaults   \* bound: failed statements

Roles == {"student", "professor", "admin"}

ASSUME ListedAssumption == Listed \subseteq Users
ASSUME RequestsAssumption ==
  Requests \subseteq [add : SUBSET STRING, remove : SUBSET STRING]
ASSUME FaultsAssumption == MaxFaults \in Nat

VARIABLES
  known,   \* table users
  roles,   \* table user_roles
  token,   \* the session cookie of each browser
  login,   \* the OAuth callback in progress for each user
  call,    \* the SetRoles requests in progress
  faults   \* statements failed so far

vars == <<known, roles, token, login, call, faults>>

NoToken == [age |-> "none", roles |-> {}]
NoLogin == [pc |-> "none", roles |-> {}]
NoCall == [pc |-> "none"]

Tokens == {NoToken} \cup [age : {"new", "old"}, roles : SUBSET Roles]
Logins == {NoLogin} \cup [pc : {"promote", "read", "default", "sign"}, roles : SUBSET Roles]

\* A call still has to add the roles in add and to remove those in remove; at
\* "remove" it has read current and is about to delete one of them.
CallRecords ==
  {NoCall} \cup
  [pc : {"run", "remove"}, target : Users,
   add : SUBSET Roles, remove : SUBSET Roles, current : SUBSET Roles]

\* Every variable has its type; in particular only the three roles ever enter
\* user_roles, a cookie or a call, whatever names the requests carry.
TypeOK ==
  /\ known \in SUBSET Users
  /\ roles \in [Users -> SUBSET Roles]
  /\ token \in [Users -> Tokens]
  /\ login \in [Users -> Logins]
  /\ call \in [Calls -> CallRecords]
  /\ faults \in 0 .. MaxFaults

Init ==
  /\ known = {}
  /\ roles = [u \in Users |-> {}]
  /\ token = [u \in Users |-> NoToken]
  /\ login = [u \in Users |-> NoLogin]
  /\ call = [k \in Calls |-> NoCall]
  /\ faults = 0

Fault == faults < MaxFaults /\ faults' = faults + 1

\* len(roles) <= 1 is ~ Several(roles).
Several(S) == \E r, s \in S : r # s

AddRole(u, r) == roles' = [roles EXCEPT ![u] = @ \cup {r}]

RemoveRole(u, r) == roles' = [roles EXCEPT ![u] = @ \ {r}]

-----------------------------------------------------------------------------
(***************************************************************************)
(* Sessions.  A token is "new" in the first half of its lifetime and "old" *)
(* in the second; RequireAuth renews an old one with identical claims on   *)
(* any request, so the roles in it are those of the login.                 *)
(***************************************************************************)

Live(u) == token[u].age # "none"

Renew(u) == token' = [token EXCEPT ![u].age = "new"]

\* An authenticated request (its effect beyond the cookie is not of this module).
Request(u) ==
  /\ Live(u)
  /\ Renew(u)
  /\ UNCHANGED <<known, roles, login, call, faults>>

\* Half the lifetime passes without a request; then the other half.
Age(u) ==
  /\ token[u].age = "new"
  /\ token' = [token EXCEPT ![u].age = "old"]
  /\ UNCHANGED <<known, roles, login, call, faults>>

Expire(u) ==
  /\ token[u].age = "old"
  /\ token' = [token EXCEPT ![u] = NoToken]
  /\ UNCHANGED <<known, roles, login, call, faults>>

Logout(u) ==
  /\ Live(u)
  /\ token' = [token EXCEPT ![u] = NoToken]
  /\ UNCHANGED <<known, roles, login, call, faults>>

-----------------------------------------------------------------------------
(***************************************************************************)
(* LoginWithGoogle, a statement per action.                                *)
(***************************************************************************)

LoginAt(u, pc, read) == login' = [login EXCEPT ![u] = [pc |-> pc, roles |-> read]]

\* UpsertByGoogleSub.
StartLogin(u) ==
  /\ login[u].pc = "none"
  /\ known' = known \cup {u}
  /\ LoginAt(u, IF u \in Listed THEN "promote" ELSE "read", {})
  /\ UNCHANGED <<roles, token, call, faults>>

PromoteListed(u) ==
  /\ login[u].pc = "promote"
  /\ AddRole(u, "admin")
  /\ LoginAt(u, "read", {})
  /\ UNCHANGED <<known, token, call, faults>>

\* Mutant: the token is signed before the default is given.
ReadRolesSignsEmpty(u) ==
  /\ login[u].pc = "read"
  /\ LoginAt(u, "sign", roles[u])
  /\ UNCHANGED <<known, roles, token, call, faults>>

ReadRoles(u) ==
  /\ login[u].pc = "read"
  /\ LoginAt(u, IF roles[u] = {} THEN "default" ELSE "sign", roles[u])
  /\ UNCHANGED <<known, roles, token, call, faults>>

\* The roles are not read again: the token holds the default alone.
DefaultToStudent(u) ==
  /\ login[u].pc = "default"
  /\ AddRole(u, "student")
  /\ LoginAt(u, "sign", {"student"})
  /\ UNCHANGED <<known, token, call, faults>>

\* GoogleCallback sets the cookie.
SignToken(u) ==
  /\ login[u].pc = "sign"
  /\ token' = [token EXCEPT ![u] = [age |-> "new", roles |-> login[u].roles]]
  /\ login' = [login EXCEPT ![u] = NoLogin]
  /\ UNCHANGED <<known, roles, call, faults>>

\* A statement fails: the browser is sent back without a cookie.
LoginFails(u) ==
  /\ login[u].pc \in {"promote", "read", "default"}
  /\ Fault
  /\ login' = [login EXCEPT ![u] = NoLogin]
  /\ UNCHANGED <<known, roles, token, call>>

-----------------------------------------------------------------------------
(***************************************************************************)
(* SetRoles, a statement per action.  The lists of a request are sets here *)
(* and are taken in any order: the client orders them as it likes, and a   *)
(* repeated name adds or removes nothing.                                  *)
(***************************************************************************)

Adding(k) == call[k].pc = "run" /\ call[k].add # {}

Checking(k) == call[k].pc = "run" /\ call[k].add = {}

\* The call goes on, or ends when nothing is left to add or to remove.
Continue(k, add, remove) ==
  call' = [call EXCEPT ![k] =
             IF add = {} /\ remove = {}
             THEN NoCall
             ELSE [@ EXCEPT !.pc = "run", !.add = add, !.remove = remove, !.current = {}]]

EndCall(k) == call' = [call EXCEPT ![k] = NoCall]

\* Mutant: the names of the roles are not validated.
StartSetRolesUnchecked(k, actor, target, request) ==
  /\ call[k].pc = "none"
  /\ Live(actor)
  /\ Renew(actor)
  /\ "admin" \in token[actor].roles
  /\ request.add \cup request.remove # {}
  /\ target \in known
  /\ call' = [call EXCEPT ![k] =
                [pc |-> "run", target |-> target,
                 add |-> request.add, remove |-> request.remove, current |-> {}]]
  /\ UNCHANGED <<known, roles, login, faults>>

\* Mutant: the route asks for a session only.
StartSetRolesAnyRole(k, actor, target, request) ==
  /\ call[k].pc = "none"
  /\ Live(actor)
  /\ Renew(actor)
  /\ request.add \cup request.remove # {}
  /\ target \in known
  /\ request.add \cup request.remove \subseteq Roles
  /\ call' = [call EXCEPT ![k] =
                [pc |-> "run", target |-> target,
                 add |-> request.add, remove |-> request.remove, current |-> {}]]
  /\ UNCHANGED <<known, roles, login, faults>>

\* The middlewares admit an administrator's token, the handler a body that asks
\* for something, and the service a known target and valid names, all before
\* the first change.  What is refused leaves only the renewed cookie (Request).
StartSetRoles(k, actor, target, request) ==
  /\ call[k].pc = "none"
  /\ Live(actor)
  /\ Renew(actor)
  /\ "admin" \in token[actor].roles
  /\ request.add \cup request.remove # {}
  /\ target \in known
  /\ request.add \cup request.remove \subseteq Roles
  /\ call' = [call EXCEPT ![k] =
                [pc |-> "run", target |-> target,
                 add |-> request.add, remove |-> request.remove, current |-> {}]]
  /\ UNCHANGED <<known, roles, login, faults>>

AddOne(k) ==
  /\ Adding(k)
  /\ \E r \in call[k].add :
       /\ AddRole(call[k].target, r)
       /\ Continue(k, call[k].add \ {r}, call[k].remove)
  /\ UNCHANGED <<known, token, login, faults>>

\* Mutant: a role is removed without counting.
CheckRolesNever(k) ==
  /\ Checking(k)
  /\ call' = [call EXCEPT ![k].pc = "remove", ![k].current = roles[call[k].target]]
  /\ UNCHANGED <<known, roles, token, login, faults>>

\* RolesByUserID before each removal: the last role is not removed, and the
\* call ends there, its earlier changes kept.
CheckRoles(k) ==
  /\ Checking(k)
  /\ IF Several(roles[call[k].target])
     THEN call' = [call EXCEPT ![k].pc = "remove", ![k].current = roles[call[k].target]]
     ELSE EndCall(k)
  /\ UNCHANGED <<known, roles, token, login, faults>>

RemoveOne(k) ==
  /\ call[k].pc = "remove"
  /\ \E r \in call[k].remove :
       /\ RemoveRole(call[k].target, r)
       /\ Continue(k, {}, call[k].remove \ {r})
  /\ UNCHANGED <<known, token, login, faults>>

\* AddRole or RolesByUserID fails: the call ends, its earlier changes kept.
SetRolesFails(k) ==
  /\ call[k].pc = "run"
  /\ Fault
  /\ EndCall(k)
  /\ UNCHANGED <<known, roles, token, login>>

\* RemoveRole fails: the loop continues.
RemoveFails(k) ==
  /\ call[k].pc = "remove"
  /\ Fault
  /\ \E r \in call[k].remove : Continue(k, {}, call[k].remove \ {r})
  /\ UNCHANGED <<known, roles, token, login>>

-----------------------------------------------------------------------------
UserStep(u) ==
  \/ Request(u) \/ Age(u) \/ Expire(u) \/ Logout(u)
  \/ StartLogin(u) \/ PromoteListed(u) \/ ReadRoles(u) \/ DefaultToStudent(u)
  \/ SignToken(u) \/ LoginFails(u)

CallStep(k) ==
  \/ \E actor, target \in Users, request \in Requests :
       StartSetRoles(k, actor, target, request)
  \/ AddOne(k) \/ CheckRoles(k) \/ RemoveOne(k) \/ SetRolesFails(k) \/ RemoveFails(k)

Next ==
  \/ \E u \in Users : UserStep(u)
  \/ \E k \in Calls : CallStep(k)

Spec == Init /\ [][Next]_vars

-----------------------------------------------------------------------------
\* A session always carries a role, however the login's reads fell between the
\* statements of a SetRoles and however often the cookie was renewed.
TokenHasRole == \A u \in Users : Live(u) => token[u].roles # {}

\* Nobody holds or can use a role above student, and no role change is under
\* way, before someone of ADMIN_EMAILS has logged in: every privilege has its
\* origin in that list, through any chain of SetRoles by promoted
\* administrators, logins and renewed cookies.
Privileged ==
  \/ \E u \in Users : (roles[u] \cup token[u].roles \cup login[u].roles) \ {"student"} # {}
  \/ \E k \in Calls : call[k].pc # "none"

PrivilegeFromList == Privileged => known \cap Listed # {}

\* SetRoles takes a user's last role only when user_roles has changed since
\* that call's own check: a single call, with whatever failures, never does.
LastRoleOnlyRaced ==
  [][\A u \in Users :
       roles[u] # {} /\ roles'[u] = {} =>
         \E k \in Calls : /\ call[k].pc = "remove"
                          /\ call[k].target = u
                          /\ call[k].current # roles[u]]_vars
=============================================================================
