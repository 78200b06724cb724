--------------------------- MODULE AccountsProofs ---------------------------
(* Proofs about Accounts, for any sets of users, calls and requests.       *)
EXTENDS Accounts, TLAPS

\* A call about to remove a role has read several.
CheckedInv == \A k \in Calls : call[k].pc = "remove" => Several(call[k].current)

\* A login in progress is of a known user, it promotes only the listed, and it
\* signs a token with a role.
LoginInv ==
  \A u \in Users :
    /\ login[u].pc # "none" => u \in known
    /\ login[u].pc = "promote" => u \in Listed
    /\ login[u].pc = "sign" => login[u].roles # {}

IInv == TypeOK /\ CheckedInv /\ LoginInv /\ TokenHasRole /\ PrivilegeFromList

USE ListedAssumption, RequestsAssumption, FaultsAssumption

LEMMA InitInv == Init => IInv
BY DEF Init, IInv, TypeOK, CheckedInv, LoginInv, TokenHasRole, PrivilegeFromList, Privileged,
       Live, NoToken, NoLogin, NoCall, Tokens, Logins, CallRecords, Roles

-----------------------------------------------------------------------------
\* TypeOK is preserved: users' steps, then calls' steps.
LEMMA UserTyped ==
  ASSUME TypeOK, NEW u \in Users, UserStep(u)
  PROVE TypeOK'
<1> USE DEF TypeOK
<1>1. CASE Request(u)
  BY <1>1 DEF Request, Live, Renew, Tokens, NoToken
<1>2. CASE Age(u)
  BY <1>2 DEF Age, Tokens, NoToken
<1>3. CASE Expire(u)
  BY <1>3 DEF Expire, Tokens
<1>4. CASE Logout(u)
  BY <1>4 DEF Logout, Tokens
<1>5. CASE StartLogin(u)
  BY <1>5 DEF StartLogin, LoginAt, Logins
<1>6. CASE PromoteListed(u)
  BY <1>6 DEF PromoteListed, AddRole, LoginAt, Logins, Roles
<1>7. CASE ReadRoles(u)
  BY <1>7 DEF ReadRoles, LoginAt, Logins
<1>8. CASE DefaultToStudent(u)
  BY <1>8 DEF DefaultToStudent, AddRole, LoginAt, Logins, Roles
<1>9. CASE SignToken(u)
  <2>1. login[u].roles \in SUBSET Roles
    BY DEF Logins, NoLogin
  <2>2. token' \in [Users -> Tokens]
    BY <1>9, <2>1 DEF SignToken, Tokens
  <2> QED BY <1>9, <2>2 DEF SignToken, Logins
<1>10. CASE LoginFails(u)
  BY <1>10 DEF LoginFails, Fault, Logins
<1> QED
  BY <1>1, <1>2, <1>3, <1>4, <1>5, <1>6, <1>7, <1>8, <1>9, <1>10 DEF UserStep

\* What Continue and EndCall leave in call.
LEMMA ContinueTyped ==
  ASSUME TypeOK, NEW k \in Calls, call[k].pc # "none",
         NEW add \in SUBSET Roles, NEW remove \in SUBSET Roles, Continue(k, add, remove)
  PROVE /\ call' \in [Calls -> CallRecords]
        /\ call'[k].pc # "remove"
        /\ \A j \in Calls \ {k} : call'[j] = call[j]
<1> DEFINE c == IF add = {} /\ remove = {}
                THEN NoCall
                ELSE [call[k] EXCEPT !.pc = "run", !.add = add, !.remove = remove, !.current = {}]
<1>1. call[k] \in [pc : {"run", "remove"}, target : Users,
                   add : SUBSET Roles, remove : SUBSET Roles, current : SUBSET Roles]
  BY DEF TypeOK, CallRecords, NoCall
<1>2. c \in CallRecords /\ c.pc # "remove"
  BY <1>1 DEF CallRecords, NoCall
<1>3. call' = [call EXCEPT ![k] = c]
  BY DEF Continue
<1> HIDE DEF c
<1> QED BY <1>2, <1>3 DEF TypeOK

LEMMA EndCallTyped ==
  ASSUME TypeOK, NEW k \in Calls, EndCall(k)
  PROVE /\ call' \in [Calls -> CallRecords]
        /\ call'[k].pc # "remove"
        /\ \A j \in Calls \ {k} : call'[j] = call[j]
BY DEF EndCall, TypeOK, CallRecords, NoCall

LEMMA CallTyped ==
  ASSUME TypeOK, NEW k \in Calls, CallStep(k)
  PROVE TypeOK'
<1> USE DEF TypeOK
<1>0. call[k].pc # "none" => /\ call[k].target \in Users
                             /\ call[k].add \in SUBSET Roles
                             /\ call[k].remove \in SUBSET Roles
  BY DEF CallRecords, NoCall
<1>1. ASSUME NEW actor \in Users, NEW target \in Users, NEW request \in Requests,
             StartSetRoles(k, actor, target, request)
      PROVE TypeOK'
  <2>1. token' \in [Users -> Tokens]
    BY <1>1 DEF StartSetRoles, Live, Renew, Tokens, NoToken
  <2>2. call' \in [Calls -> CallRecords]
    BY <1>1 DEF StartSetRoles, CallRecords
  <2> QED BY <1>1, <2>1, <2>2 DEF StartSetRoles
<1>2. CASE AddOne(k)
  <2>1. call[k].pc # "none"
    BY <1>2 DEF AddOne, Adding
  <2>2. PICK r \in call[k].add : /\ AddRole(call[k].target, r)
                                 /\ Continue(k, call[k].add \ {r}, call[k].remove)
    BY <1>2 DEF AddOne
  <2>3. call' \in [Calls -> CallRecords]
    BY <1>0, <2>1, <2>2, ContinueTyped
  <2>4. roles' \in [Users -> SUBSET Roles]
    BY <1>0, <2>1, <2>2 DEF AddRole
  <2> QED BY <1>2, <2>3, <2>4 DEF AddOne
<1>3. CASE CheckRoles(k)
  <2>1. CASE Several(roles[call[k].target])
    <3>1. roles[call[k].target] \in SUBSET Roles
      BY <1>0, <1>3 DEF CheckRoles, Checking
    <3>2. call' \in [Calls -> CallRecords]
      BY <1>3, <2>1, <3>1 DEF CheckRoles, Checking, CallRecords, NoCall
    <3> QED BY <1>3, <3>2 DEF CheckRoles
  <2>2. CASE ~ Several(roles[call[k].target])
    BY <1>3, <2>2, EndCallTyped DEF CheckRoles
  <2> QED BY <2>1, <2>2
<1>4. CASE RemoveOne(k)
  <2>1. call[k].pc # "none"
    BY <1>4 DEF RemoveOne
  <2>2. PICK r \in call[k].remove : /\ RemoveRole(call[k].target, r)
                                    /\ Continue(k, {}, call[k].remove \ {r})
    BY <1>4 DEF RemoveOne
  <2>3. call' \in [Calls -> CallRecords]
    BY <1>0, <2>1, <2>2, ContinueTyped
  <2>4. roles' \in [Users -> SUBSET Roles]
    BY <1>0, <2>1, <2>2 DEF RemoveRole
  <2> QED BY <1>4, <2>3, <2>4 DEF RemoveOne
<1>5. CASE SetRolesFails(k)
  BY <1>5, EndCallTyped DEF SetRolesFails, Fault
<1>6. CASE RemoveFails(k)
  <2>1. call[k].pc # "none"
    BY <1>6 DEF RemoveFails
  <2>2. PICK r \in call[k].remove : Continue(k, {}, call[k].remove \ {r})
    BY <1>6 DEF RemoveFails
  <2>3. call' \in [Calls -> CallRecords]
    BY <1>0, <2>1, <2>2, ContinueTyped
  <2> QED BY <1>6, <2>3 DEF RemoveFails, Fault
<1> QED
  BY <1>1, <1>2, <1>3, <1>4, <1>5, <1>6 DEF CallStep

-----------------------------------------------------------------------------
\* CheckedInv is preserved.
LEMMA Checked ==
  ASSUME TypeOK, CheckedInv, NEW k \in Calls, CallStep(k)
  PROVE CheckedInv'
<1> USE DEF CheckedInv
<1>1. ASSUME NEW actor \in Users, NEW target \in Users, NEW request \in Requests,
             StartSetRoles(k, actor, target, request)
      PROVE CheckedInv'
  BY <1>1 DEF StartSetRoles, TypeOK
<1>2. CASE AddOne(k) \/ RemoveOne(k) \/ RemoveFails(k)
  <2>1. call[k].pc # "none" /\ call[k].add \in SUBSET Roles /\ call[k].remove \in SUBSET Roles
    BY <1>2 DEF AddOne, Adding, RemoveOne, RemoveFails, TypeOK, CallRecords, NoCall
  <2>2. \E add, remove \in SUBSET Roles : Continue(k, add, remove)
    BY <1>2, <2>1 DEF AddOne, RemoveOne, RemoveFails
  <2> QED BY <2>1, <2>2, ContinueTyped
<1>3. CASE CheckRoles(k)
  <2>1. CASE Several(roles[call[k].target])
    <3>1. call' = [call EXCEPT ![k].pc = "remove", ![k].current = roles[call[k].target]]
      BY <1>3, <2>1 DEF CheckRoles
    <3>2. call[k] \in [pc : {"run", "remove"}, target : Users,
                       add : SUBSET Roles, remove : SUBSET Roles, current : SUBSET Roles]
      BY <1>3 DEF CheckRoles, Checking, TypeOK, CallRecords, NoCall
    <3> QED BY <2>1, <3>1, <3>2 DEF TypeOK
  <2>2. CASE ~ Several(roles[call[k].target])
    BY <1>3, <2>2, EndCallTyped DEF CheckRoles
  <2> QED BY <2>1, <2>2
<1>4. CASE SetRolesFails(k)
  BY <1>4, EndCallTyped DEF SetRolesFails
<1> QED
  BY <1>1, <1>2, <1>3, <1>4 DEF CallStep

\* LoginInv and TokenHasRole are preserved: only users' steps write the two
\* variables, but for the renewal by SetRoles.
LEMMA UserSigned ==
  ASSUME TypeOK, LoginInv, TokenHasRole, NEW u \in Users, UserStep(u)
  PROVE LoginInv' /\ TokenHasRole'
<1> USE DEF LoginInv, TokenHasRole, TypeOK, Live
<1>1. CASE Request(u) \/ Age(u) \/ Expire(u) \/ Logout(u)
  <2>1. TokenHasRole'
    BY <1>1 DEF Request, Age, Expire, Logout, Renew, NoToken, Tokens
  <2>2. LoginInv'
    BY <1>1 DEF Request, Age, Expire, Logout
  <2> QED BY <2>1, <2>2
<1>2. CASE StartLogin(u)
  BY <1>2 DEF StartLogin, LoginAt
<1>3. CASE PromoteListed(u)
  BY <1>3 DEF PromoteListed, LoginAt
<1>4. CASE ReadRoles(u)
  BY <1>4 DEF ReadRoles, LoginAt
<1>5. CASE DefaultToStudent(u)
  BY <1>5 DEF DefaultToStudent, LoginAt
<1>6. CASE SignToken(u)
  BY <1>6 DEF SignToken, NoLogin
<1>7. CASE LoginFails(u)
  BY <1>7 DEF LoginFails, NoLogin
<1> QED
  BY <1>1, <1>2, <1>3, <1>4, <1>5, <1>6, <1>7 DEF UserStep

LEMMA CallSigned ==
  ASSUME TypeOK, LoginInv, TokenHasRole, NEW k \in Calls, CallStep(k)
  PROVE LoginInv' /\ TokenHasRole'
<1> USE DEF LoginInv, TokenHasRole, TypeOK, Live
<1>1. ASSUME NEW actor \in Users, NEW target \in Users, NEW request \in Requests,
             StartSetRoles(k, actor, target, request)
      PROVE LoginInv' /\ TokenHasRole'
  BY <1>1 DEF StartSetRoles, Renew, Tokens, NoToken
<1>2. CASE UNCHANGED <<known, token, login>>
  BY <1>2
<1> QED
  BY <1>1, <1>2 DEF CallStep, AddOne, CheckRoles, RemoveOne, SetRolesFails, RemoveFails

-----------------------------------------------------------------------------
\* PrivilegeFromList is preserved.  The list's users stay known, so only a step
\* taken before any of them has logged in can break it; then roles, tokens and
\* logins hold nothing above student and no call is in progress.
LEMMA UserPrivilege ==
  ASSUME TypeOK, LoginInv, PrivilegeFromList, NEW u \in Users, UserStep(u)
  PROVE PrivilegeFromList'
<1>1. known \subseteq known'
  BY DEF UserStep, Request, Age, Expire, Logout, StartLogin, PromoteListed, ReadRoles,
         DefaultToStudent, SignToken, LoginFails
<1>2. CASE known \cap Listed # {}
  BY <1>1, <1>2 DEF PrivilegeFromList
<1>3. CASE known \cap Listed = {}
  <2>1. /\ \A v \in Users : /\ roles[v] \subseteq {"student"}
                            /\ token[v].roles \subseteq {"student"}
                            /\ login[v].roles \subseteq {"student"}
        /\ \A k \in Calls : call[k].pc = "none"
    BY <1>3 DEF PrivilegeFromList, Privileged
  <2>2. ~ PromoteListed(u)
    BY <1>3 DEF PromoteListed, LoginInv
  <2>3. /\ \A v \in Users : /\ roles'[v] \subseteq {"student"}
                            /\ token'[v].roles \subseteq {"student"}
                            /\ login'[v].roles \subseteq {"student"}
        /\ call' = call
    <3> USE <2>1 DEF TypeOK
    <3>1. CASE Request(u)
      BY <3>1 DEF Request, Renew, Live, Tokens, NoToken
    <3>2. CASE Age(u)
      BY <3>2 DEF Age, Tokens, NoToken
    <3>3. CASE Expire(u) \/ Logout(u)
      BY <3>3 DEF Expire, Logout, NoToken
    <3>4. CASE StartLogin(u)
      BY <3>4 DEF StartLogin, LoginAt
    <3>5. CASE ReadRoles(u)
      BY <3>5 DEF ReadRoles, LoginAt
    <3>6. CASE DefaultToStudent(u)
      BY <3>6 DEF DefaultToStudent, LoginAt, AddRole
    <3>7. CASE SignToken(u)
      BY <3>7 DEF SignToken, NoLogin
    <3>8. CASE LoginFails(u)
      BY <3>8 DEF LoginFails, NoLogin
    <3> QED
      BY <2>2, <3>1, <3>2, <3>3, <3>4, <3>5, <3>6, <3>7, <3>8 DEF UserStep
  <2> QED BY <2>1, <2>3 DEF PrivilegeFromList, Privileged
<1> QED BY <1>2, <1>3

LEMMA CallPrivilege ==
  ASSUME TypeOK, PrivilegeFromList, NEW k \in Calls, CallStep(k)
  PROVE PrivilegeFromList'
<1>1. known' = known
  BY DEF CallStep, StartSetRoles, AddOne, CheckRoles, RemoveOne, SetRolesFails, RemoveFails
<1>2. Privileged
  <2>1. ASSUME NEW actor \in Users, NEW target \in Users, NEW request \in Requests,
               StartSetRoles(k, actor, target, request)
        PROVE Privileged
    BY <2>1 DEF StartSetRoles, Privileged
  <2>2. CASE call[k].pc # "none"
    BY <2>2 DEF Privileged
  <2> QED
    BY <2>1, <2>2 DEF CallStep, AddOne, Adding, CheckRoles, Checking, RemoveOne,
                      SetRolesFails, RemoveFails
<1> QED BY <1>1, <1>2 DEF PrivilegeFromList

-----------------------------------------------------------------------------
LEMMA Inductive == IInv /\ [Next]_vars => IInv'
<1> SUFFICES ASSUME IInv, [Next]_vars PROVE IInv'
  OBVIOUS
<1> USE DEF IInv
<1>1. ASSUME NEW u \in Users, UserStep(u) PROVE IInv'
  <2>1. CheckedInv'
    BY <1>1 DEF UserStep, Request, Age, Expire, Logout, StartLogin, PromoteListed, ReadRoles,
                DefaultToStudent, SignToken, LoginFails, CheckedInv
  <2> QED BY <1>1, <2>1, UserTyped, UserSigned, UserPrivilege
<1>2. ASSUME NEW k \in Calls, CallStep(k) PROVE IInv'
  BY <1>2, CallTyped, Checked, CallSigned, CallPrivilege
<1>3. CASE UNCHANGED vars
  BY <1>3 DEF vars, TypeOK, CheckedInv, LoginInv, TokenHasRole, Live, PrivilegeFromList, Privileged
<1> QED BY <1>1, <1>2, <1>3 DEF Next

LEMMA Invariant == Spec => []IInv
BY InitInv, Inductive, PTL DEF Spec

\* Only valid roles ever enter user_roles, a session cookie or a role change,
\* whatever names the requests carry.
THEOREM TypeCorrect == Spec => []TypeOK
<1>1. IInv => TypeOK
  BY DEF IInv
<1> QED BY <1>1, Invariant, PTL

\* Every session cookie carries a role, for any interleaving of logins and role
\* changes (LoginWithGoogle's default, RequireAuth's renewal).
THEOREM SessionHasRole == Spec => []TokenHasRole
<1>1. IInv => TokenHasRole
  BY DEF IInv
<1> QED BY <1>1, Invariant, PTL

\* Every privilege originates in ADMIN_EMAILS (RequireRole before SetRoles and
\* PromoteListed at login are its only sources).
THEOREM PrivilegeOrigin == Spec => []PrivilegeFromList
<1>1. IInv => PrivilegeFromList
  BY DEF IInv
<1> QED BY <1>1, Invariant, PTL

\* Only RemoveOne takes roles, and what it has read is more than what is left.
LEMMA StepRaced ==
  IInv /\ [Next]_vars =>
    [\A u \in Users :
       roles[u] # {} /\ roles'[u] = {} =>
         \E k \in Calls : /\ call[k].pc = "remove"
                          /\ call[k].target = u
                          /\ call[k].current # roles[u]]_vars
<1> SUFFICES ASSUME IInv, Next, NEW u \in Users, roles[u] # {}, roles'[u] = {}
             PROVE \E k \in Calls : /\ call[k].pc = "remove"
                                    /\ call[k].target = u
                                    /\ call[k].current # roles[u]
  OBVIOUS
<1> USE DEF IInv, TypeOK
<1>1. ASSUME NEW v \in Users, UserStep(v) PROVE FALSE
  BY <1>1 DEF UserStep, Request, Age, Expire, Logout, StartLogin, PromoteListed, ReadRoles,
              DefaultToStudent, SignToken, LoginFails, AddRole
<1>2. ASSUME NEW k \in Calls, CallStep(k), ~ RemoveOne(k) PROVE FALSE
  <2>1. CASE AddOne(k)
    BY <2>1 DEF AddOne, AddRole
  <2>2. CASE UNCHANGED roles
    BY <2>2
  <2> QED
    BY <1>2, <2>1, <2>2 DEF CallStep, StartSetRoles, CheckRoles, SetRolesFails, RemoveFails
<1>3. ASSUME NEW k \in Calls, RemoveOne(k)
      PROVE /\ call[k].pc = "remove"
            /\ call[k].target = u
            /\ call[k].current # roles[u]
  <2>1. PICK r \in call[k].remove : RemoveRole(call[k].target, r)
    BY <1>3 DEF RemoveOne
  <2>2. call[k].pc = "remove"
    BY <1>3 DEF RemoveOne
  <2>3. call[k].target = u /\ roles[u] \subseteq {r}
    BY <2>1 DEF RemoveRole
  <2>4. Several(call[k].current)
    BY <2>2 DEF CheckedInv
  <2>5. ~ Several(roles[u])
    BY <2>3 DEF Several
  <2> QED BY <2>2, <2>3, <2>4, <2>5
<1> QED BY <1>1, <1>2, <1>3 DEF Next

\* The step by which a user loses the last role is a SetRoles whose check has
\* been overtaken: with a single call in progress there is no such step.
THEOREM LastRole == Spec => LastRoleOnlyRaced
BY Invariant, StepRaced, PTL DEF Spec, LastRoleOnlyRaced

=============================================================================
