---------------------------- MODULE AccessProofs ----------------------------
(***************************************************************************)
(* Proofs about who may enter and who may see what, for every number of    *)
(* accounts, requests, servers, sockets and frames: the panel keeps one    *)
(* owner who can administer it and an invite makes one account (Accounts); *)
(* a socket is subscribed, and sent, only what its account may read since  *)
(* the last re-check (WsHub); a frame that is dropped is announced to the  *)
(* browser, which never takes a gap for a whole stream (WsStream).         *)
(***************************************************************************)
EXTENDS Accounts, WsHub, WsStream, FiniteSetTheorems,
        SequenceTheorems, TLAPS

-----------------------------------------------------------------------------
(* Accounts: the rows and the requests. *)

UserRow == [status : {"free", "live", "gone"}, name : Names \cup {Nobody}, role : Roles,
            disabled : BOOLEAN, owner : BOOLEAN, pw : Passwords \cup {Nobody}, weak : BOOLEAN,
            via : InviteIds \cup {Nobody}]

SessionRow == [status : {"free", "live"}, user : UserIds \cup {Nobody}]

InviteRow == [status : {"free", "live", "redeemed", "gone"}, by : UserIds \cup {Nobody},
              revoked : BOOLEAN, redeemedBy : UserIds \cup {Nobody}]

NamedRequest  == [op : {"setup", "setup_clear", "login"}, name : Names, pw : Passwords]
LoginOf       == [op : {"rehash", "open"}, user : UserIds, pw : Passwords \cup {Nobody}]
UpdateRequest == [op : {"update"}, user : UserIds, role : Roles, disabled : BOOLEAN, revoke : BOOLEAN]
DeleteRequest == [op : {"delete"}, user : UserIds]
NewPassword   == [op : {"password"}, user : UserIds, pw : Passwords, keep : SessionIds]
Redemption    == [op : {"redeem"}, invite : InviteIds, name : Names, pw : Passwords]

Request == {Idle} \cup NamedRequest \cup LoginOf \cup UpdateRequest \cup DeleteRequest
           \cup NewPassword \cup Redemption

\* The tables and what the requests remember of them have their types.
RowsOk ==
  /\ users \in [UserIds -> UserRow]
  /\ sessions \in [SessionIds -> SessionRow]
  /\ \A s \in SessionIds : sessions[s].status = "live" => sessions[s].user \in UserIds
  /\ invites \in [InviteIds -> InviteRow]
  /\ reqs \in [Requests -> Request]

\* An id CreateUser may take belongs to no account.
LEMMA FreeUserIsFree ==
  ASSUME NEW u \in FreeUsers
  PROVE  u \in UserIds /\ users[u].status = "free"
  BY DEF FreeUsers

\* Rows of an account that is written keep the table's type.
LEMMA NewUserIsRow ==
  ASSUME NEW name \in Names, NEW r \in Roles, NEW owner \in BOOLEAN, NEW pw \in Passwords,
         NEW via \in InviteIds \cup {Nobody}
  PROVE  NewUser(name, r, owner, pw, via) \in UserRow
  BY DEF NewUser, UserRow

\* So do the rows of an account that gets a password, or a role.
LEMMA RowIsEdited ==
  ASSUME RowsOk, NEW u \in UserIds
  PROVE  /\ \A pw \in Passwords \cup {Nobody} : users' = [users EXCEPT ![u].pw = pw, ![u].weak = FALSE] =>
              users' \in [UserIds -> UserRow]
         /\ \A r \in Roles, d \in BOOLEAN : users' = [users EXCEPT ![u].role = r, ![u].disabled = d] =>
              users' \in [UserIds -> UserRow]
<1>1. users \in [UserIds -> UserRow] /\ users[u] \in UserRow
  BY DEF RowsOk
<1>2. \A pw \in Passwords \cup {Nobody} : [users[u] EXCEPT !.pw = pw, !.weak = FALSE] \in UserRow
  BY <1>1 DEF UserRow
<1>3. \A r \in Roles, d \in BOOLEAN : [users[u] EXCEPT !.role = r, !.disabled = d] \in UserRow
  BY <1>1 DEF UserRow
<1> HIDE DEF UserRow
<1>4. ASSUME NEW x \in UserRow PROVE [users EXCEPT ![u] = x] \in [UserIds -> UserRow]
  BY <1>1
<1>5. ASSUME NEW pw \in Passwords \cup {Nobody}, users' = [users EXCEPT ![u].pw = pw, ![u].weak = FALSE]
      PROVE  users' \in [UserIds -> UserRow]
  <2>1. users' = [users EXCEPT ![u] = [users[u] EXCEPT !.pw = pw, !.weak = FALSE]]
    BY <1>1, <1>5
  <2> QED BY <1>2, <1>4, <2>1
<1>6. ASSUME NEW r \in Roles, NEW d \in BOOLEAN, users' = [users EXCEPT ![u].role = r, ![u].disabled = d]
      PROVE  users' \in [UserIds -> UserRow]
  <2>1. users' = [users EXCEPT ![u] = [users[u] EXCEPT !.role = r, !.disabled = d]]
    BY <1>1, <1>6
  <2> QED BY <1>3, <1>4, <2>1
<1> QED BY <1>5, <1>6

\* Removing sessions leaves a table of sessions.
LEMMA DropIsTyped ==
  ASSUME RowsOk, NEW S, DropSessions(S)
  PROVE  /\ sessions' \in [SessionIds -> SessionRow]
         /\ \A s \in SessionIds : sessions'[s] = sessions[s] \/ sessions'[s] = NoSession
<1>1. NoSession \in SessionRow
  BY DEF NoSession, SessionRow
<1> QED BY <1>1 DEF RowsOk, DropSessions

\* What a request of each kind remembers.
LEMMA RequestKinds ==
  ASSUME RowsOk, NEW r \in Requests
  PROVE  /\ reqs[r].op \in {"setup", "setup_clear", "login"} => reqs[r] \in NamedRequest
         /\ reqs[r].op \in {"rehash", "open"} => reqs[r] \in LoginOf
         /\ reqs[r].op = "update" => reqs[r] \in UpdateRequest
         /\ reqs[r].op = "delete" => reqs[r] \in DeleteRequest
         /\ reqs[r].op = "password" => reqs[r] \in NewPassword
         /\ reqs[r].op = "redeem" => reqs[r] \in Redemption
  BY DEF RowsOk, Request, Idle, NamedRequest, LoginOf, UpdateRequest, DeleteRequest, NewPassword, Redemption

\* Every request and every transaction of the store keeps the tables typed.
LEMMA RowsStep == RowsOk /\ [AccountsNext]_accountsVars => RowsOk'
<1> SUFFICES ASSUME RowsOk, [AccountsNext]_accountsVars PROVE RowsOk'
  OBVIOUS
<1>0. /\ Idle \in Request /\ NamedRequest \subseteq Request /\ LoginOf \subseteq Request
      /\ UpdateRequest \subseteq Request /\ DeleteRequest \subseteq Request
      /\ NewPassword \subseteq Request /\ Redemption \subseteq Request
  BY DEF Request
<1>a. ASSUME NEW r \in Requests, NEW q \in Request, reqs' = [reqs EXCEPT ![r] = q],
             UNCHANGED <<users, sessions, invites>>
      PROVE  RowsOk'
  BY <1>a DEF RowsOk
<1>b. ASSUME NEW r \in Requests, Answer(r) PROVE reqs' \in [Requests -> Request]
  BY <1>0, <1>b DEF Answer, RowsOk
<1>c. ASSUME users' \in [UserIds -> UserRow], UNCHANGED <<sessions, invites>>,
             reqs' \in [Requests -> Request]
      PROVE  RowsOk'
  BY <1>c DEF RowsOk
<1>d. ASSUME users' \in [UserIds -> UserRow], NEW S, DropSessions(S), UNCHANGED invites,
             reqs' \in [Requests -> Request]
      PROVE  RowsOk'
  BY <1>d, DropIsTyped DEF RowsOk, NoSession
<1>e. reqs \in [Requests -> Request] /\ users \in [UserIds -> UserRow]
  BY DEF RowsOk
<1>1. ASSUME NEW r \in Requests, Begin(r) PROVE RowsOk'
  <2>1. ASSUME NEW name \in Names, NEW pw \in Passwords, NEW t \in 1..MaxBoots, SetupAdmit(r, name, pw, t)
        PROVE  RowsOk'
    <3>1. [op |-> "setup", name |-> name, pw |-> pw] \in Request
      BY <1>0 DEF NamedRequest
    <3> QED BY <1>a, <2>1, <3>1 DEF SetupAdmit, Admit
  <2>2. ASSUME NEW name \in Names, NEW pw \in Passwords, LoginRequest(r, name, pw) PROVE RowsOk'
    <3>1. UNCHANGED <<users, sessions, invites>>
      BY <2>2 DEF LoginRequest, Login
    <3>2. CASE Answer(r)
      BY <1>a, <1>0, <3>1, <3>2 DEF Answer
    <3>3. ASSUME NEW u \in UserForLogin(name),
                 reqs' = [reqs EXCEPT ![r] = [op |-> IF users[u].weak THEN "rehash" ELSE "open", user |-> u, pw |-> pw]]
          PROVE  RowsOk'
      <4>1. [op |-> IF users[u].weak THEN "rehash" ELSE "open", user |-> u, pw |-> pw] \in Request
        BY <1>0 DEF LoginOf, UserForLogin
      <4> QED BY <1>a, <3>1, <3>3, <4>1
    <3> QED BY <2>2, <3>2, <3>3 DEF LoginRequest, Login
  <2>3. ASSUME NEW name \in Names, NEW pw \in Passwords, NEW i \in InviteIds, RedeemAdmit(r, i, name, pw)
        PROVE  RowsOk'
    <3>1. [op |-> "redeem", invite |-> i, name |-> name, pw |-> pw] \in Request
      BY <1>0 DEF Redemption
    <3> QED BY <1>a, <2>3, <3>1 DEF RedeemAdmit, Admit
  <2>4. ASSUME NEW name \in Names, LoginTrusted(r, name) PROVE RowsOk'
    <3>1. PICK u \in UserForLogin(name) : Admit(r, [op |-> "open", user |-> u, pw |-> users[u].pw])
      BY <2>4 DEF LoginTrusted
    <3>2. [op |-> "open", user |-> u, pw |-> users[u].pw] \in Request
      BY <1>0, <1>e DEF LoginOf, UserForLogin, UserRow
    <3> QED BY <1>a, <2>4, <3>1, <3>2 DEF LoginTrusted, Admit
  <2>5. ASSUME NEW x \in SessionIds, NEW u \in UserIds, NEW role1 \in Roles, NEW d \in BOOLEAN,
               UpdateUserAdmit(r, x, u, role1, d)
        PROVE  RowsOk'
    <3> DEFINE q == [op |-> "update", user |-> u, role |-> role1, disabled |-> d,
                     revoke |-> d \/ role1 # users[u].role]
    <3>1. q \in Request
      BY <1>0 DEF UpdateRequest
    <3>2. reqs' = [reqs EXCEPT ![r] = q] /\ UNCHANGED <<users, sessions, invites>>
      BY <2>5 DEF UpdateUserAdmit, Admit
    <3> QED BY <1>a, <3>1, <3>2
  <2>6. ASSUME NEW x \in SessionIds, NEW u \in UserIds, DeleteUserAdmit(r, x, u) PROVE RowsOk'
    <3>1. [op |-> "delete", user |-> u] \in Request
      BY <1>0 DEF DeleteRequest
    <3> QED BY <1>a, <2>6, <3>1 DEF DeleteUserAdmit, Admit
  <2>7. ASSUME NEW x \in SessionIds, NEW a \in Passwords, NEW b \in Passwords, ChangePasswordAdmit(r, x, a, b)
        PROVE  RowsOk'
    <3>1. sessions[x].user \in UserIds
      BY <2>7 DEF ChangePasswordAdmit, Authenticate, SessionAndUser, RowsOk
    <3>2. [op |-> "password", user |-> sessions[x].user, pw |-> b, keep |-> x] \in Request
      BY <1>0, <3>1 DEF NewPassword
    <3> QED BY <1>a, <2>7, <3>2 DEF ChangePasswordAdmit, Admit
  <2>8. ASSUME NEW x \in SessionIds, Logout(r, x) PROVE RowsOk'
    BY <1>d, <1>e, <2>8 DEF Logout
  <2> QED BY <1>1, <2>1, <2>2, <2>3, <2>4, <2>5, <2>6, <2>7, <2>8 DEF Begin
<1>2. ASSUME NEW r \in Requests, Proceed(r) PROVE RowsOk'
  <2>1. CASE SetupCreate(r)
    <3>1. reqs[r] \in NamedRequest /\ UNCHANGED <<sessions, invites>>
      BY <2>1, RequestKinds DEF SetupCreate
    <3>2. ASSUME NEW u \in FreeUsers, CreateFirstAdmin(u, reqs[r].name, reqs[r].pw),
                 reqs' = [reqs EXCEPT ![r].op = "setup_clear"]
          PROVE  RowsOk'
      <4>1. NewUser(reqs[r].name, "admin", TRUE, reqs[r].pw, Nobody) \in UserRow
        BY <3>1, NewUserIsRow DEF NamedRequest, Roles
      <4>2. users' \in [UserIds -> UserRow]
        BY <1>e, <3>2, <4>1 DEF CreateFirstAdmin
      <4>3. [reqs[r] EXCEPT !.op = "setup_clear"] \in Request
        BY <1>0, <3>1 DEF NamedRequest
      <4>4. reqs' \in [Requests -> Request]
        BY <1>e, <3>2, <4>3
      <4> QED BY <1>c, <3>1, <4>2, <4>4
    <3>3. CASE Answer(r) /\ UNCHANGED users
      BY <1>b, <1>c, <1>e, <3>1, <3>3
    <3> QED BY <2>1, <3>2, <3>3 DEF SetupCreate
  <2>2. CASE SetupFinish(r)
    <3>1. reqs[r] \in NamedRequest /\ UNCHANGED <<users, sessions, invites>>
      BY <2>2, RequestKinds DEF SetupFinish
    <3>2. [op |-> "login", name |-> reqs[r].name, pw |-> reqs[r].pw] \in Request
      BY <1>0, <3>1 DEF NamedRequest
    <3> QED BY <1>0, <1>a, <2>2, <3>1, <3>2 DEF SetupFinish, Answer
  <2>3. CASE FinishLogin(r)
    <3>1. reqs[r] \in NamedRequest /\ UNCHANGED <<users, sessions, invites>>
      BY <2>3, RequestKinds DEF FinishLogin, Login
    <3>2. CASE Answer(r)
      BY <1>a, <1>0, <3>1, <3>2 DEF Answer
    <3>3. ASSUME NEW u \in UserForLogin(reqs[r].name),
                 reqs' = [reqs EXCEPT ![r] = [op |-> IF users[u].weak THEN "rehash" ELSE "open",
                                              user |-> u, pw |-> reqs[r].pw]]
          PROVE  RowsOk'
      <4>1. [op |-> IF users[u].weak THEN "rehash" ELSE "open", user |-> u, pw |-> reqs[r].pw] \in Request
        BY <1>0, <3>1 DEF LoginOf, UserForLogin, NamedRequest
      <4> QED BY <1>a, <3>1, <3>3, <4>1
    <3> QED BY <2>3, <3>2, <3>3 DEF FinishLogin, Login
  <2>4. CASE RehashIfWeak(r)
    <3>1. reqs[r] \in LoginOf /\ UNCHANGED <<sessions, invites>> /\ reqs' = [reqs EXCEPT ![r].op = "open"]
      BY <2>4, RequestKinds DEF RehashIfWeak
    <3>2. [reqs[r] EXCEPT !.op = "open"] \in Request
      BY <1>0, <3>1 DEF LoginOf
    <3>3. reqs' \in [Requests -> Request]
      BY <1>e, <3>1, <3>2
    <3>4. users' \in [UserIds -> UserRow]
      <4>1. reqs[r].user \in UserIds /\ reqs[r].pw \in Passwords \cup {Nobody}
        BY <3>1 DEF LoginOf
      <4>2. users' = users \/ users' = [users EXCEPT ![reqs[r].user].pw = reqs[r].pw, ![reqs[r].user].weak = FALSE]
        BY <2>4 DEF RehashIfWeak
      <4> QED BY <1>e, <4>1, <4>2, RowIsEdited, SMTT(20)
    <3> QED BY <1>c, <3>1, <3>3, <3>4
  <2>5. CASE OpenSession(r)
    <3>1. reqs[r].user \in UserIds /\ UNCHANGED <<users, invites>> /\ reqs' \in [Requests -> Request]
      BY <1>b, <2>5, RequestKinds DEF OpenSession, LoginOf
    <3>2. \/ UNCHANGED sessions
          \/ \E x \in SessionIds : sessions' = [sessions EXCEPT ![x] = [status |-> "live", user |-> reqs[r].user]]
      BY <2>5 DEF OpenSession, CreateSession
    <3>3. /\ sessions' \in [SessionIds -> SessionRow]
          /\ \A y \in SessionIds : sessions'[y].status = "live" => sessions'[y].user \in UserIds
      BY <3>1, <3>2 DEF RowsOk, SessionRow
    <3> QED BY <3>1, <3>3 DEF RowsOk
  <2>6. CASE UpdateUser(r)
    <3>1. reqs[r] \in UpdateRequest /\ UNCHANGED invites /\ reqs' \in [Requests -> Request]
      BY <1>b, <2>6, RequestKinds DEF UpdateUser
    <3>2. CASE UNCHANGED <<users, sessions>>
      BY <3>1, <3>2 DEF RowsOk
    <3>3. CASE UpdateUserAudited(reqs[r].user, reqs[r].role, reqs[r].disabled, reqs[r].revoke)
      <4>1. reqs[r].user \in UserIds /\ reqs[r].role \in Roles /\ reqs[r].disabled \in BOOLEAN
        BY <3>1 DEF UpdateRequest
      <4>2. users' \in [UserIds -> UserRow]
        BY <3>3, <4>1, RowIsEdited DEF UpdateUserAudited
      <4> QED BY <1>d, <3>1, <3>3, <4>2 DEF UpdateUserAudited
    <3> QED BY <2>6, <3>2, <3>3 DEF UpdateUser
  <2>7. CASE DeleteUser(r)
    <3>1. reqs[r].user \in UserIds /\ reqs' \in [Requests -> Request]
      BY <1>b, <2>7, RequestKinds DEF DeleteUser, DeleteRequest
    <3>2. CASE UNCHANGED <<users, sessions, invites>>
      BY <3>1, <3>2 DEF RowsOk
    <3>3. CASE DeleteUserAudited(reqs[r].user)
      <4> DEFINE u == reqs[r].user
      <4>1. users' \in [UserIds -> UserRow]
        <5>1. [NoRow EXCEPT !.status = "gone", !.via = users[u].via] \in UserRow
          BY <1>e, <3>1 DEF NoRow, UserRow, Roles
        <5> QED BY <1>e, <3>3, <5>1 DEF DeleteUserAudited
      <4>2. invites' \in [InviteIds -> InviteRow]
        <5>1. [NoInvite EXCEPT !.status = "gone"] \in InviteRow
          BY DEF NoInvite, InviteRow
        <5>2. \A i \in InviteIds : invites[i] \in InviteRow /\ [invites[i] EXCEPT !.redeemedBy = Nobody] \in InviteRow
          BY DEF RowsOk, InviteRow
        <5> QED BY <3>3, <5>1, <5>2 DEF DeleteUserAudited
      <4>3. /\ sessions' \in [SessionIds -> SessionRow]
            /\ \A s \in SessionIds : sessions'[s] = sessions[s] \/ sessions'[s] = NoSession
        BY <3>3, DropIsTyped DEF DeleteUserAudited
      <4> QED BY <3>1, <4>1, <4>2, <4>3 DEF RowsOk, NoSession
    <3> QED BY <2>7, <3>2, <3>3 DEF DeleteUser
  <2>8. CASE ChangePassword(r)
    <3>1. reqs[r] \in NewPassword /\ UNCHANGED invites /\ reqs' \in [Requests -> Request]
      BY <1>b, <2>8, RequestKinds DEF ChangePassword
    <3>2. CASE UNCHANGED <<users, sessions>>
      BY <3>1, <3>2 DEF RowsOk
    <3>3. CASE SetUserPasswordKeepingSession(reqs[r].user, reqs[r].pw, reqs[r].keep, reqs[r].user)
      <4>1. users' \in [UserIds -> UserRow]
        BY <1>e, <3>1, <3>3 DEF SetUserPasswordKeepingSession, NewPassword, UserRow
      <4> QED BY <1>d, <3>1, <3>3, <4>1 DEF SetUserPasswordKeepingSession
    <3> QED BY <2>8, <3>2, <3>3 DEF ChangePassword
  <2>9. CASE Redeem(r)
    <3> DEFINE q == reqs[r]
    <3>1. q \in Redemption /\ UNCHANGED sessions
      BY <2>9, RequestKinds DEF Redeem
    <3>2. CASE Answer(r) /\ UNCHANGED <<users, invites>>
      BY <1>b, <1>c, <1>e, <3>1, <3>2
    <3>3. ASSUME NEW u \in FreeUsers, RedeemInviteToUser(q.invite, u, q.name, q.pw),
                 reqs' = [reqs EXCEPT ![r] = [op |-> "login", name |-> q.name, pw |-> q.pw]]
          PROVE  RowsOk'
      <4>1. u \in UserIds /\ NewUser(q.name, "member", FALSE, q.pw, q.invite) \in UserRow
        BY <3>1, NewUserIsRow, FreeUserIsFree DEF Redemption, Roles
      <4>2. users' \in [UserIds -> UserRow]
        BY <1>e, <3>3, <4>1 DEF RedeemInviteToUser, createUser
      <4>3. [op |-> "login", name |-> q.name, pw |-> q.pw] \in Request
        BY <1>0, <3>1 DEF NamedRequest, Redemption
      <4>4. reqs' \in [Requests -> Request]
        BY <1>e, <3>3, <4>3
      <4>5. invites' \in [InviteIds -> InviteRow]
        BY <3>1, <3>3, <4>1 DEF RedeemInviteToUser, Redemption, RowsOk, InviteRow
      <4> QED BY <3>1, <4>2, <4>4, <4>5 DEF RowsOk
    <3> QED BY <2>9, <3>2, <3>3 DEF Redeem
  <2> QED BY <1>2, <2>1, <2>2, <2>3, <2>4, <2>5, <2>6, <2>7, <2>8, <2>9 DEF Proceed
<1>3. ASSUME NEW s \in SessionIds, SessionExpires(s) PROVE RowsOk'
  BY <1>d, <1>e, <1>3 DEF SessionExpires
<1>4. ASSUME NEW s \in SessionIds, NEW i \in InviteIds, IssueInvite(s, i) PROVE RowsOk'
  <2>1. sessions[s].user \in UserIds
    BY <1>4 DEF IssueInvite, CanManage, Authenticate, SessionAndUser, RowsOk
  <2>2. invites' \in [InviteIds -> InviteRow]
    BY <1>4, <2>1 DEF IssueInvite, CreateInviteAudited, RowsOk, InviteRow
  <2> QED BY <1>4, <2>2 DEF IssueInvite, RowsOk
<1>5. ASSUME NEW s \in SessionIds, NEW i \in InviteIds, RevokeInvite(s, i) PROVE RowsOk'
  <2>0. invites[i] \in InviteRow /\ invites \in [InviteIds -> InviteRow]
    BY DEF RowsOk
  <2>9. [invites[i] EXCEPT !.revoked = TRUE] \in InviteRow
    BY <2>0 DEF InviteRow
  <2>1. invites' \in [InviteIds -> InviteRow]
    BY <1>5, <2>0, <2>9 DEF RevokeInvite, RevokeInviteAudited
  <2> QED BY <1>5, <2>1 DEF RevokeInvite, RowsOk
<1>6. ASSUME NEW s \in SessionIds, NEW pw \in Passwords, NEW name \in Names, NEW r \in Roles,
             CreateUser(s, name, r, pw)
      PROVE  RowsOk'
  <2>1. NewUser(name, r, FALSE, pw, Nobody) \in UserRow
    BY NewUserIsRow
  <2>2. users' \in [UserIds -> UserRow]
    BY <1>e, <1>6, <2>1 DEF CreateUser, createUser
  <2> QED BY <1>c, <1>e, <1>6, <2>2 DEF CreateUser
<1>7. ASSUME NEW s \in SessionIds, NEW pw \in Passwords, NEW u \in UserIds, ResetPassword(s, u, pw) PROVE RowsOk'
  <2>1. users' \in [UserIds -> UserRow]
    BY <1>7, RowIsEdited DEF ResetPassword, SetUserPasswordKeepingSession
  <2>2. PICK S : DropSessions(S)
    BY <1>7 DEF ResetPassword, SetUserPasswordKeepingSession
  <2>3. UNCHANGED invites /\ reqs' \in [Requests -> Request]
    BY <1>e, <1>7 DEF ResetPassword
  <2> QED BY <1>d, <2>1, <2>2, <2>3
<1>8. ASSUME NEW u \in UserIds, NEW pw \in Passwords, AdminReset(u, pw) PROVE RowsOk'
  <2>1. users' \in [UserIds -> UserRow]
    BY <1>8, RowIsEdited DEF AdminReset
  <2> QED BY <1>c, <1>d, <1>e, <1>8, <2>1 DEF AdminReset
<1>9. ASSUME NEW raised \in BOOLEAN, PanelRestart(raised) PROVE RowsOk'
  <2>1. users' \in [UserIds -> UserRow]
    <3>1. \A u \in UserIds : [users[u] EXCEPT !.weak = LiveUser(u)] \in UserRow
      BY <1>e, ZenonT(30) DEF UserRow, LiveUser
    <3> QED BY <1>9, <1>e, <3>1 DEF PanelRestart
  <2>2. reqs' \in [Requests -> Request]
    BY <1>0, <1>9 DEF PanelRestart
  <2> QED BY <1>c, <1>9, <2>1, <2>2 DEF PanelRestart
<1>10. CASE UNCHANGED accountsVars
  BY <1>10 DEF accountsVars, RowsOk
<1> QED
  BY <1>1, <1>2, <1>3, <1>4, <1>5, <1>6, <1>7, <1>8, <1>9, <1>10 DEF AccountsNext

-----------------------------------------------------------------------------
(* Accounts: the owner and the invites.  Whatever a request does, the      *)
(* accounts stand as they stood, or one is created or deleted.             *)

HasOwner == \E u \in UserIds : users[u].owner

\* Somebody has, or had, an account, a session or an invite.
Claimed ==
  \/ \E u \in UserIds : users[u].status # "free"
  \/ \E s \in SessionIds : sessions[s].status = "live"
  \/ \E i \in InviteIds : invites[i].status # "free"

OwnerOk ==
  /\ \A u \in UserIds : users[u].owner => LiveUser(u) /\ users[u].role = "admin" /\ ~users[u].disabled
  /\ \A u, v \in UserIds : users[u].owner /\ users[v].owner => u = v
  /\ Claimed => HasOwner

\* An account made by an invite: the invite is used up, and names it.
InviteOk ==
  \A u \in UserIds : users[u].via \in InviteIds =>
    /\ invites[users[u].via].status \in {"redeemed", "gone"}
    /\ LiveUser(u) /\ invites[users[u].via].status # "gone" => invites[users[u].via].redeemedBy = u
    /\ \A v \in UserIds : users[v].via = users[u].via => u = v

AccessInv == RowsOk /\ OwnerOk /\ InviteOk

SameStanding ==
  \A u \in UserIds :
    /\ users'[u].status = users[u].status /\ users'[u].owner = users[u].owner
    /\ users'[u].via = users[u].via
    /\ users[u].owner /\ users[u].role = "admin" /\ ~users[u].disabled
         => users'[u].role = "admin" /\ ~users'[u].disabled

SameInvites ==
  \A i \in InviteIds :
    \/ invites'[i].status = invites[i].status /\ invites'[i].redeemedBy = invites[i].redeemedBy
    \/ invites[i].status = "free" /\ invites'[i].status = "live" /\ Claimed

SameSessions == \A s \in SessionIds : sessions'[s].status = "live" => sessions[s].status = "live" \/ Claimed

Stand == SameStanding /\ SameInvites /\ SameSessions

\* A row that was free is an account now.
Added(u, name, r, owner, pw, via) ==
  users[u].status = "free" /\ users' = [users EXCEPT ![u] = NewUser(name, r, owner, pw, via)]

FirstAdmin ==
  /\ \A u \in UserIds : ~LiveUser(u)
  /\ \E u \in UserIds, name \in Names, pw \in Passwords : Added(u, name, "admin", TRUE, pw, Nobody)
  /\ UNCHANGED <<sessions, invites>>

AddedByAdmin ==
  /\ Claimed
  /\ \E u \in UserIds, name \in Names, r \in Roles, pw \in Passwords : Added(u, name, r, FALSE, pw, Nobody)
  /\ UNCHANGED <<sessions, invites>>

AddedByInvite ==
  \E i \in InviteIds, u \in UserIds, name \in Names, pw \in Passwords :
    /\ InviteLive(i)
    /\ Added(u, name, "member", FALSE, pw, i)
    /\ invites' = [invites EXCEPT ![i].status = "redeemed", ![i].redeemedBy = u]
    /\ UNCHANGED sessions

Deleted == \E u \in UserIds : DeleteUserAudited(u)

\* Removing sessions opens none.
LEMMA DropOpensNone ==
  ASSUME RowsOk, NEW S, DropSessions(S)
  PROVE  SameSessions
<1>1. NoSession.status # "live"
  BY DEF NoSession
<1> QED BY <1>1, DropIsTyped DEF SameSessions

\* No live account, when the count read inside the transaction is zero.
LEMMA NobodyIsNobody ==
  ASSUME CountUsers = 0
  PROVE  \A u \in UserIds : ~LiveUser(u)
<1> DEFINE L == {u \in UserIds : LiveUser(u)}
<1>1. IsFiniteSet(L)
  BY AccountsAssumption, FS_Subset
<1>2. L = {}
  BY <1>1, FS_EmptySet DEF CountUsers
<1> QED BY <1>2

\* Every step is one of five, as far as the standing of an account is concerned.
LEMMA StepKinds ==
  ASSUME RowsOk, [AccountsNext]_accountsVars
  PROVE  Stand \/ FirstAdmin \/ AddedByAdmin \/ AddedByInvite \/ Deleted
<1>a. ASSUME UNCHANGED <<users, sessions, invites>> PROVE Stand
  BY <1>a DEF Stand, SameStanding, SameInvites, SameSessions
<1>b. ASSUME UNCHANGED invites PROVE SameInvites
  BY <1>b DEF SameInvites
<1>c. ASSUME UNCHANGED sessions PROVE SameSessions
  BY <1>c DEF SameSessions
<1>d. ASSUME UNCHANGED users PROVE SameStanding
  BY <1>d DEF SameStanding
<1>e. ASSUME NEW u \in UserIds, NEW pw, users' = [users EXCEPT ![u].pw = pw, ![u].weak = FALSE]
      PROVE  SameStanding
  BY <1>e DEF SameStanding, RowsOk, UserRow
<1>f. ASSUME NEW s \in SessionIds, sessions[s].status = "live" PROVE Claimed
  BY <1>f DEF Claimed
<1>1. ASSUME NEW r \in Requests, Begin(r) PROVE Stand
  <2>1. CASE UNCHANGED <<users, sessions, invites>>
    BY <1>a, <2>1
  <2>2. ASSUME NEW s \in SessionIds, Logout(r, s) PROVE Stand
    BY <1>b, <1>d, <2>2, DropOpensNone DEF Logout, Stand
  <2> QED BY <1>1, <2>1, <2>2 DEF Begin, SetupAdmit, LoginRequest, Login, RedeemAdmit, LoginTrusted,
             UpdateUserAdmit, DeleteUserAdmit, ChangePasswordAdmit
<1>2. ASSUME NEW r \in Requests, Proceed(r)
      PROVE  Stand \/ FirstAdmin \/ AddedByInvite \/ Deleted
  <2>1. CASE SetupCreate(r)
    <3>1. reqs[r] \in NamedRequest /\ UNCHANGED <<sessions, invites>>
      BY <2>1, RequestKinds DEF SetupCreate
    <3>2. ASSUME NEW u \in FreeUsers, CreateFirstAdmin(u, reqs[r].name, reqs[r].pw) PROVE FirstAdmin
      <4>1. reqs[r].name \in Names /\ reqs[r].pw \in Passwords
        BY <3>1 DEF NamedRequest
      <4>2. Added(u, reqs[r].name, "admin", TRUE, reqs[r].pw, Nobody) /\ u \in UserIds
        BY <3>2, FreeUserIsFree DEF CreateFirstAdmin, Added
      <4>3. \A v \in UserIds : ~LiveUser(v)
        BY <3>2, NobodyIsNobody DEF CreateFirstAdmin
      <4> QED BY <3>1, <4>1, <4>2, <4>3 DEF FirstAdmin
    <3> QED BY <1>a, <2>1, <3>1, <3>2 DEF SetupCreate
  <2>2. CASE SetupFinish(r) \/ FinishLogin(r)
    BY <1>a, <2>2 DEF SetupFinish, FinishLogin, Login
  <2>3. CASE RehashIfWeak(r)
    <3>1. reqs[r] \in LoginOf
      BY <2>3, RequestKinds DEF RehashIfWeak
    <3>2. SameStanding
      BY <1>d, <1>e, <2>3, <3>1 DEF RehashIfWeak, LoginOf
    <3> QED BY <1>b, <1>c, <2>3, <3>2 DEF RehashIfWeak, Stand
  <2>4. CASE OpenSession(r)
    <3>1. reqs[r].user \in UserIds
      BY <2>4, RequestKinds DEF OpenSession, LoginOf
    <3>2. UNCHANGED sessions \/ Claimed
      BY <2>4, <3>1 DEF OpenSession, CreateSession, LiveUser, Claimed
    <3>3. SameSessions
      BY <1>c, <3>2 DEF SameSessions
    <3> QED BY <1>b, <1>d, <2>4, <3>3 DEF OpenSession, Stand
  <2>5. CASE UpdateUser(r)
    <3>1. reqs[r] \in UpdateRequest
      BY <2>5, RequestKinds DEF UpdateUser
    <3>2. CASE UNCHANGED <<users, sessions>>
      BY <1>a, <2>5, <3>2 DEF UpdateUser
    <3>3. CASE UpdateUserAudited(reqs[r].user, reqs[r].role, reqs[r].disabled, reqs[r].revoke)
      <4>1. SameStanding
        BY <3>1, <3>3 DEF UpdateUserAudited, UpdateRequest, SameStanding, RowsOk, UserRow
      <4>2. SameSessions
        BY <3>3, DropOpensNone DEF UpdateUserAudited
      <4> QED BY <1>b, <2>5, <4>1, <4>2 DEF UpdateUser, Stand
    <3> QED BY <2>5, <3>2, <3>3 DEF UpdateUser
  <2>6. CASE DeleteUser(r)
    <3>1. reqs[r].user \in UserIds
      BY <2>6, RequestKinds DEF DeleteUser, DeleteRequest
    <3> QED BY <1>a, <2>6, <3>1 DEF DeleteUser, Deleted
  <2>7. CASE ChangePassword(r)
    <3>1. reqs[r].user \in UserIds
      BY <2>7, RequestKinds DEF ChangePassword, NewPassword
    <3>2. SameStanding
      <4>1. UNCHANGED users \/ users' = [users EXCEPT ![reqs[r].user].pw = reqs[r].pw, ![reqs[r].user].weak = FALSE]
        BY <2>7 DEF ChangePassword, SetUserPasswordKeepingSession
      <4> QED BY <1>d, <1>e, <3>1, <4>1
    <3>3. SameSessions
      BY <1>c, <2>7, DropOpensNone DEF ChangePassword, SetUserPasswordKeepingSession
    <3> QED BY <1>b, <2>7, <3>2, <3>3 DEF ChangePassword, Stand
  <2>8. CASE Redeem(r)
    <3>1. reqs[r] \in Redemption
      BY <2>8, RequestKinds, SMTT(20) DEF Redeem
    <3>2. ASSUME NEW u \in FreeUsers, RedeemInviteToUser(reqs[r].invite, u, reqs[r].name, reqs[r].pw)
          PROVE  AddedByInvite
      <4>1. reqs[r].invite \in InviteIds /\ reqs[r].name \in Names /\ reqs[r].pw \in Passwords
        BY <3>1 DEF Redemption
      <4>2. u \in UserIds /\ Added(u, reqs[r].name, "member", FALSE, reqs[r].pw, reqs[r].invite)
        BY <3>2, FreeUserIsFree DEF RedeemInviteToUser, createUser, Added
      <4> QED BY <2>8, <3>2, <4>1, <4>2 DEF RedeemInviteToUser, AddedByInvite, Redeem
    <3> QED BY <1>a, <2>8, <3>2 DEF Redeem
  <2> QED BY <1>2, <2>1, <2>2, <2>3, <2>4, <2>5, <2>6, <2>7, <2>8 DEF Proceed
<1>3. ASSUME NEW s \in SessionIds, SessionExpires(s) PROVE Stand
  BY <1>b, <1>d, <1>3, DropOpensNone DEF SessionExpires, Stand
<1>4. ASSUME NEW s \in SessionIds, NEW i \in InviteIds, IssueInvite(s, i) PROVE Stand
  <2>1. Claimed
    BY <1>f, <1>4 DEF IssueInvite, CanManage, Authenticate, SessionAndUser
  <2>2. SameInvites
    BY <1>4, <2>1 DEF IssueInvite, CreateInviteAudited, SameInvites, RowsOk
  <2> QED BY <1>c, <1>d, <1>4, <2>2 DEF IssueInvite, Stand
<1>5. ASSUME NEW s \in SessionIds, NEW i \in InviteIds, RevokeInvite(s, i) PROVE Stand
  <2>2. SameInvites
    BY <1>5 DEF RevokeInvite, RevokeInviteAudited, SameInvites, RowsOk, InviteRow
  <2> QED BY <1>c, <1>d, <1>5, <2>2 DEF RevokeInvite, Stand
<1>6. ASSUME NEW s \in SessionIds, NEW pw \in Passwords, NEW name \in Names, NEW r \in Roles,
             CreateUser(s, name, r, pw)
      PROVE  AddedByAdmin
  <2>1. Claimed
    BY <1>f, <1>6 DEF CreateUser, CanManage, Authenticate, SessionAndUser
  <2>2. PICK u \in FreeUsers : createUser(u, name, r, pw, Nobody)
    BY <1>6 DEF CreateUser
  <2>3. u \in UserIds /\ Added(u, name, r, FALSE, pw, Nobody)
    BY <2>2, FreeUserIsFree DEF createUser, Added
  <2> QED BY <1>6, <2>1, <2>3 DEF AddedByAdmin, CreateUser
<1>7. ASSUME NEW s \in SessionIds, NEW pw \in Passwords, NEW u \in UserIds, ResetPassword(s, u, pw) PROVE Stand
  <2>1. SameStanding
    BY <1>e, <1>7 DEF ResetPassword, SetUserPasswordKeepingSession
  <2>2. SameSessions
    BY <1>7, DropOpensNone DEF ResetPassword, SetUserPasswordKeepingSession
  <2> QED BY <1>b, <1>7, <2>1, <2>2 DEF ResetPassword, Stand
<1>8. ASSUME NEW u \in UserIds, NEW pw \in Passwords, AdminReset(u, pw) PROVE Stand
  <2>1. SameStanding
    BY <1>e, <1>8 DEF AdminReset
  <2>2. SameSessions
    BY <1>c, <1>8, DropOpensNone DEF AdminReset
  <2> QED BY <1>b, <1>8, <2>1, <2>2 DEF AdminReset, Stand
<1>9. ASSUME NEW raised \in BOOLEAN, PanelRestart(raised) PROVE Stand
  <2>1. SameStanding
    BY <1>9 DEF PanelRestart, SameStanding, RowsOk, UserRow
  <2> QED BY <1>b, <1>c, <1>9, <2>1 DEF PanelRestart, Stand
<1>10. CASE UNCHANGED accountsVars
  BY <1>a, <1>10 DEF accountsVars
<1> QED
  BY <1>1, <1>2, <1>3, <1>4, <1>5, <1>6, <1>7, <1>8, <1>9, <1>10 DEF AccountsNext

\* One owner, who is live and an enabled administrator, once the panel is claimed.
LEMMA OwnerStep ==
  ASSUME RowsOk, RowsOk', OwnerOk, [AccountsNext]_accountsVars
  PROVE  OwnerOk'
<1>1. CASE Stand
  BY <1>1 DEF Stand, SameStanding, SameInvites, SameSessions, OwnerOk, Claimed, HasOwner, LiveUser
<1>2. CASE FirstAdmin
  <2>1. PICK u \in UserIds, name \in Names, pw \in Passwords : Added(u, name, "admin", TRUE, pw, Nobody)
    BY <1>2 DEF FirstAdmin
  <2>2. \A v \in UserIds : ~users[v].owner
    BY <1>2 DEF FirstAdmin, OwnerOk
  <2>3. \A v \in UserIds : v # u => users'[v] = users[v]
    BY <2>1 DEF Added, RowsOk
  <2>4. users'[u].owner /\ users'[u].status = "live" /\ users'[u].role = "admin" /\ ~users'[u].disabled
    BY <2>1 DEF Added, RowsOk, NewUser
  <2> QED BY <2>2, <2>3, <2>4 DEF OwnerOk, HasOwner, LiveUser
<1>3. CASE AddedByAdmin \/ AddedByInvite
  <2>1. PICK u \in UserIds, name \in Names, r \in Roles, pw \in Passwords, via \in InviteIds \cup {Nobody} :
          Added(u, name, r, FALSE, pw, via)
    BY <1>3 DEF AddedByAdmin, AddedByInvite, Roles
  <2>2. Claimed
    BY <1>3 DEF AddedByAdmin, AddedByInvite, InviteLive, Claimed
  <2>3. \A v \in UserIds : v # u => users'[v] = users[v]
    BY <2>1 DEF Added, RowsOk
  <2>4. ~users[u].owner /\ ~users'[u].owner
    BY <2>1 DEF Added, RowsOk, NewUser, OwnerOk, LiveUser
  <2> QED BY <2>2, <2>3, <2>4 DEF OwnerOk, HasOwner, LiveUser
<1>4. CASE Deleted
  <2>1. PICK u \in UserIds : DeleteUserAudited(u)
    BY <1>4 DEF Deleted
  <2>2. \A v \in UserIds : v # u => users'[v] = users[v]
    BY <2>1 DEF DeleteUserAudited, RowsOk
  <2>3. ~users[u].owner /\ ~users'[u].owner
    BY <2>1 DEF DeleteUserAudited, RowsOk, NoRow
  <2>4. Claimed
    BY <2>1 DEF DeleteUserAudited, Claimed, LiveUser
  <2> QED BY <2>2, <2>3, <2>4 DEF OwnerOk, HasOwner, LiveUser
<1> QED BY <1>1, <1>2, <1>3, <1>4, StepKinds

\* An invite makes one account and names it.
LEMMA InviteStep ==
  ASSUME RowsOk, RowsOk', InviteOk, [AccountsNext]_accountsVars
  PROVE  InviteOk'
<1>0. Nobody \notin InviteIds
  BY AccountsAssumption
<1>1. CASE Stand
  BY <1>1 DEF Stand, SameStanding, SameInvites, InviteOk, LiveUser
<1>2. CASE FirstAdmin \/ AddedByAdmin
  <2>1. PICK u \in UserIds, name \in Names, r \in Roles, pw \in Passwords, owner \in BOOLEAN :
          Added(u, name, r, owner, pw, Nobody)
    BY <1>2 DEF AddedByAdmin, FirstAdmin, Roles
  <2>2. \A v \in UserIds : v # u => users'[v] = users[v]
    BY <2>1 DEF Added, RowsOk
  <2>3. users'[u].via = Nobody /\ invites' = invites
    BY <1>2, <2>1 DEF Added, RowsOk, NewUser, AddedByAdmin, FirstAdmin
  <2> QED BY <1>0, <2>2, <2>3 DEF InviteOk, LiveUser
<1>3. CASE AddedByInvite
  <2>1. PICK i \in InviteIds, u \in UserIds, name \in Names, pw \in Passwords :
          /\ InviteLive(i) /\ Added(u, name, "member", FALSE, pw, i)
          /\ invites' = [invites EXCEPT ![i].status = "redeemed", ![i].redeemedBy = u]
    BY <1>3 DEF AddedByInvite
  <2>2. \A v \in UserIds : v # u => users'[v] = users[v]
    BY <2>1 DEF Added, RowsOk
  <2>3. users'[u].via = i
    BY <2>1 DEF Added, RowsOk, NewUser
  <2>4. \A v \in UserIds : users[v].via # i
    BY <2>1 DEF InviteOk, InviteLive
  <2>5. /\ \A j \in InviteIds : j # i => invites'[j] = invites[j]
        /\ invites'[i].status = "redeemed" /\ invites'[i].redeemedBy = u
    BY <2>1 DEF RowsOk, InviteRow
  <2> QED BY <2>2, <2>3, <2>4, <2>5 DEF InviteOk, LiveUser
<1>4. CASE Deleted
  <2>1. PICK u \in UserIds : DeleteUserAudited(u)
    BY <1>4 DEF Deleted
  <2>2. \A v \in UserIds : v # u => users'[v] = users[v]
    BY <2>1 DEF DeleteUserAudited, RowsOk
  <2>3. users'[u].via = users[u].via /\ ~LiveUser(u)'
    BY <2>1 DEF DeleteUserAudited, RowsOk, NoRow, LiveUser
  <2>4. \A i \in InviteIds :
          \/ invites'[i].status = "gone"
          \/ invites'[i].status = invites[i].status
             /\ (invites[i].redeemedBy # u => invites'[i].redeemedBy = invites[i].redeemedBy)
    BY <2>1 DEF DeleteUserAudited, RowsOk, InviteRow, NoInvite
  <2> QED BY <2>2, <2>3, <2>4 DEF InviteOk, LiveUser
<1> QED BY <1>1, <1>2, <1>3, <1>4, StepKinds

\* The invariant is what a reader of the tables relies on.
LEMMA AccessInvIsEnough ==
  ASSUME AccessInv
  PROVE  AccessKept
<1>1. OwnerStands
  <2> SUFFICES ASSUME CountUsers > 0
               PROVE  \E u \in UserIds :
                        /\ LiveUser(u) /\ users[u].role = "admin" /\ ~users[u].disabled
                        /\ {v \in UserIds : users[v].owner} = {u}
    BY DEF OwnerStands
  <2>1. {u \in UserIds : LiveUser(u)} # {}
    BY FS_EmptySet DEF CountUsers
  <2>2. PICK u \in UserIds : users[u].owner
    BY <2>1 DEF AccessInv, OwnerOk, Claimed, HasOwner, LiveUser
  <2> QED BY <2>2 DEF AccessInv, OwnerOk
<1>2. InviteOnce
  <2> SUFFICES ASSUME NEW i \in InviteIds
               PROVE  LET made == {u \in UserIds : users[u].via = i} IN
                      /\ Cardinality(made) <= 1
                      /\ \A u \in made : LiveUser(u) /\ invites[i].status # "gone" => invites[i].redeemedBy = u
    BY DEF InviteOnce
  <2> DEFINE made == {u \in UserIds : users[u].via = i}
  <2>1. \A u \in made : LiveUser(u) /\ invites[i].status # "gone" => invites[i].redeemedBy = u
    BY DEF AccessInv, InviteOk
  <2>2. CASE made = {}
    BY <2>1, <2>2, FS_EmptySet
  <2>3. ASSUME NEW u \in made PROVE Cardinality(made) <= 1
    <3>1. made = {u}
      BY DEF AccessInv, InviteOk
    <3> HIDE DEF made
    <3>2. Cardinality({u}) = 1
      BY FS_Singleton
    <3> QED BY <3>1, <3>2
  <2> QED BY <2>1, <2>2, <2>3
<1> QED BY <1>1, <1>2 DEF AccessKept

(* The panel keeps exactly one owner, a live and enabled administrator,    *)
(* from the first setup on, and an invite makes at most one account and    *)
(* names it: for any number of accounts and invites and any number of      *)
(* setups, redemptions, edits and restarts at once (CreateFirstAdmin,      *)
(* isOwner, RedeemInviteToUser).                                           *)
THEOREM AccessIsKept == AccountsSpec => []AccessKept
<1>1. AccountsInit => AccessInv
  <2> SUFFICES ASSUME AccountsInit PROVE AccessInv
    OBVIOUS
  <2>1. NoRow \in UserRow /\ NoSession \in SessionRow /\ NoInvite \in InviteRow /\ Idle \in Request
    BY DEF NoRow, UserRow, Roles, NoSession, SessionRow, NoInvite, InviteRow, Request
  <2>2. RowsOk
    BY <2>1 DEF AccountsInit, RowsOk, NoSession
  <2>3. OwnerOk
    BY DEF AccountsInit, OwnerOk, Claimed, NoRow, NoSession, NoInvite, LiveUser
  <2>4. InviteOk
    BY AccountsAssumption DEF AccountsInit, InviteOk, NoRow
  <2> QED BY <2>2, <2>3, <2>4 DEF AccessInv
<1>2. AccessInv /\ [AccountsNext]_accountsVars => AccessInv'
  BY RowsStep, OwnerStep, InviteStep DEF AccessInv
<1>3. AccessInv => AccessKept
  BY AccessInvIsEnough
<1> QED BY <1>1, <1>2, <1>3, PTL DEF AccountsSpec

-----------------------------------------------------------------------------
(* The hub: connections, and what is still to be told to them.             *)

Grant == [role : {"none", "viewer", "operator"}, perms : SUBSET byName, rev : Nat]

OnMaps == UNION {[T -> Servers \cup {""}] : T \in SUBSET AllTopics}

Asked   == [phase : {"asked"}, topic : AllTopics, moved : BOOLEAN]
Granted == [phase : {"allowed"}, topic : AllTopics, moved : BOOLEAN, instance : Servers \cup {""}]
Missed  == [phase : {"missed"}, topic : AllTopics]
Doing   == {Resting} \cup Asked \cup Granted \cup Missed

Conn == [state : {"upgraded", "added", "serving", "closed"}, user : Viewers,
         role : {"admin", "member", "disabled", "deleted"}, session : Viewers \X Nat,
         subs : SUBSET AllTopics, on : OnMaps, doing : Doing]

HubOk ==
  /\ role \in [Viewers -> {"admin", "member", "disabled", "deleted"}]
  /\ grants \in [Viewers -> [Servers -> Grant]] /\ exists \subseteq Servers
  /\ socks \in [Sockets -> {NoSocket} \cup Conn]
  /\ \A a \in announce : a.kind # "ask"

Open(c) == socks[c].state # "none"
Serving(c) == socks[c].state = "serving"

\* A connection reads for its own account, keeps nothing before it is served,
\* and a topic hangs on the instance it names unless an administrator asked.
SockOk(c) ==
  Open(c) =>
    /\ socks[c].session[1] = socks[c].user
    /\ socks[c].state \in {"upgraded", "added"} => socks[c].subs = {} /\ socks[c].doing = Resting
    /\ \A t \in socks[c].subs :
         /\ t \in DOMAIN socks[c].on
         /\ socks[c].on[t] = t.id \/ socks[c].role = "admin"
    /\ socks[c].doing.phase = "allowed" =>
         socks[c].doing.instance = socks[c].doing.topic.id \/ socks[c].role = "admin"

\* A call is made on a connection the hub still holds.
VisitOk ==
  \A v \in visits :
    /\ v.sock \in Sockets /\ Open(v.sock)
    /\ v.call.kind = "ask" => v.call.instance = v.call.topic.id \/ socks[v.sock].role = "admin"

\* A change that concerns the connection on instance i has still to reach it.
Pending(c, i) ==
  \/ i \notin exists
  \/ Told(c)
  \/ \E a \in announce : a.kind = "grant" /\ a.user = socks[c].user /\ a.instance = i
  \/ \E v \in visits : v.sock = c /\ v.call.kind = "grant" /\ v.call.instance = i

Allows(c, t, i) == Can(socks[c].user, socks[c].role, TopicAction(t), i)
Asking(c, t) == \E v \in visits : v.sock = c /\ v.call.kind = "ask" /\ v.call.topic = t
Noticed(c, t) == socks[c].doing.phase = "missed" /\ socks[c].doing.topic = t

\* What was allowed a moment ago is allowed now, or the change is on its way,
\* or it passed by and the subscriber noticed.
AllowedOk(c) ==
  Serving(c) /\ socks[c].doing.phase = "allowed" =>
    \/ Allows(c, socks[c].doing.topic, socks[c].doing.instance)
    \/ Pending(c, socks[c].doing.instance) \/ socks[c].doing.moved

SubsOk(c) ==
  Serving(c) => \A t \in socks[c].subs :
    Allows(c, t, socks[c].on[t]) \/ Pending(c, socks[c].on[t]) \/ Asking(c, t) \/ Noticed(c, t)

SessionOk(c) == Serving(c) => LiveSession(socks[c].session) \/ Told(c)

ConnOk(c) == SockOk(c) /\ AllowedOk(c) /\ SubsOk(c) /\ SessionOk(c)

HubInv == HubOk /\ VisitOk /\ \A c \in Sockets : ConnOk(c)

\* A connection that is open has all the fields of one.
LEMMA OpenIsConn ==
  ASSUME HubOk, NEW c \in Sockets, Open(c)
  PROVE  socks[c] \in Conn
  BY DEF HubOk, Open, NoSocket

\* What a read loop remembers in each phase of a subscribe.
LEMMA DoingKinds ==
  ASSUME NEW d \in Doing
  PROVE  /\ d.phase = "asked" => d \in Asked
         /\ d.phase = "allowed" => d \in Granted
         /\ d.phase = "missed" => d \in Missed
<1>1. d = Resting => d.phase = "rest"
  BY DEF Resting
<1>2. d \in Asked => d.phase = "asked"
  BY DEF Asked
<1>3. d \in Granted => d.phase = "allowed"
  BY DEF Granted
<1>4. d \in Missed => d.phase = "missed"
  BY DEF Missed
<1>5. d = Resting \/ d \in Asked \/ d \in Granted \/ d \in Missed
  BY DEF Doing
<1> QED BY <1>1, <1>2, <1>3, <1>4, <1>5

\* decide reads the grant of the account on the instance and nothing else.
LEMMA CanReadsGrant ==
  ASSUME NEW u, NEW r, NEW act, NEW i, grants'[u][i] = grants[u][i]
  PROVE  Can(u, r, act, i)' <=> Can(u, r, act, i)
  BY DEF Can, HasGrant, GrantFor

\* An administrator, by the reading the connection keeps, may see everything.
LEMMA AdminSees ==
  ASSUME NEW c, NEW t, NEW i, socks[c].role = "admin"
  PROVE  Allows(c, t, i)
  BY DEF Allows, Can

\* What is on its way to a connection stays on its way while no call is made.
LEMMA StillPending ==
  ASSUME NEW c, socks'[c].user = socks[c].user, socks'[c].session = socks[c].session,
         announce \subseteq announce', exists' \subseteq exists,
         \A v \in visits : v.sock = c => v \in visits'
  PROVE  /\ Told(c) => Told(c)'
         /\ \A i : Pending(c, i) => Pending(c, i)'
         /\ \A t : Asking(c, t) => Asking(c, t)'
<1>1. \A a \in announce : a.kind \in {"user", "session"} /\ Concerns(a, c) => Concerns(a, c)'
  BY DEF Concerns
<1>2. Told(c) => Told(c)'
  BY <1>1 DEF Told
<1>3. ASSUME NEW i, Pending(c, i) PROVE Pending(c, i)'
  BY <1>2, <1>3 DEF Pending
<1> QED BY <1>2, <1>3 DEF Asking

\* A step that leaves a connection, its grants and its session alone keeps
\* what holds of it.
LEMMA ConnSame ==
  ASSUME NEW c \in Sockets, ConnOk(c), socks'[c] = socks[c],
         UNCHANGED <<grants, exists, announce, logins>>,
         \A v \in visits : v.sock = c => v \in visits'
  PROVE  ConnOk(c)'
<1>1. /\ Told(c) => Told(c)'
      /\ \A i : Pending(c, i) => Pending(c, i)'
      /\ \A t : Asking(c, t) => Asking(c, t)'
  BY StillPending
<1>2. \A t, i : Allows(c, t, i) => Allows(c, t, i)'
  BY CanReadsGrant DEF Allows
<1>3. SockOk(c)'
  BY DEF ConnOk, SockOk, Open
<1>4. AllowedOk(c)'
  BY <1>1, <1>2 DEF ConnOk, AllowedOk, Serving
<1>5. SubsOk(c)'
  BY <1>1, <1>2 DEF ConnOk, SubsOk, Serving, Noticed
<1>6. SessionOk(c)'
  BY <1>1 DEF ConnOk, SessionOk, Serving, LiveSession
<1> QED BY <1>3, <1>4, <1>5, <1>6 DEF ConnOk

\* A handler that commits: what it takes from an account, an instance or a
\* session it owes to the hub.
LEMMA HandlerStep ==
  ASSUME HubInv, HubOk', UNCHANGED <<socks, visits>>, announce \subseteq announce', exists' \subseteq exists,
         \A u \in Viewers, i \in Servers :
           \/ grants'[u][i] = grants[u][i] \/ i \notin exists'
           \/ [kind |-> "user", user |-> u] \in announce'
           \/ [kind |-> "grant", user |-> u, instance |-> i] \in announce',
         \A s \in DOMAIN logins \ DOMAIN logins' :
           [kind |-> "user", user |-> s[1]] \in announce' \/ [kind |-> "session", session |-> s] \in announce'
  PROVE  HubInv'
<1>1. VisitOk'
  BY DEF HubInv, VisitOk, Open
<1>2. ASSUME NEW c \in Sockets PROVE ConnOk(c)'
  <2>0. ConnOk(c)
    BY DEF HubInv
  <2>1. /\ Told(c) => Told(c)'
        /\ \A i : Pending(c, i) => Pending(c, i)'
        /\ \A t : Asking(c, t) => Asking(c, t)'
    BY StillPending
  <2>2. ASSUME NEW t, NEW i, Serving(c), Allows(c, t, i) PROVE Allows(c, t, i)' \/ Pending(c, i)'
    <3>1. CASE socks[c].role = "admin"
      BY <3>1 DEF Allows, Can
    <3>2. CASE grants'[socks[c].user][i] = grants[socks[c].user][i]
      BY <2>2, <3>2, CanReadsGrant DEF Allows
    <3>3. CASE i \notin Servers
      BY <3>3 DEF HubOk, HubInv, Pending
    <3>4. CASE i \in Servers
      <4>1. socks[c].user \in Viewers
        BY <2>2, OpenIsConn DEF HubInv, Serving, Open, Conn
      <4>2. CASE [kind |-> "user", user |-> socks[c].user] \in announce'
        BY <4>2 DEF Pending, Told, Concerns
      <4> QED BY <3>2, <3>4, <4>1, <4>2 DEF Pending
    <3> QED BY <3>3, <3>4
  <2>3. SockOk(c)'
    BY <2>0 DEF ConnOk, SockOk, Open
  <2>4. AllowedOk(c)'
    BY <2>0, <2>1, <2>2 DEF ConnOk, AllowedOk, Serving
  <2>5. SubsOk(c)'
    BY <2>0, <2>1, <2>2 DEF ConnOk, SubsOk, Serving, Noticed
  <2>6. SessionOk(c)'
    <3> SUFFICES ASSUME Serving(c), LiveSession(socks[c].session), ~LiveSession(socks[c].session)'
                 PROVE  Told(c)'
      BY <2>0, <2>1 DEF ConnOk, SessionOk, Serving
    <3>1. socks[c].session \in DOMAIN logins \ DOMAIN logins'
      BY DEF LiveSession
    <3>2. socks[c].session[1] = socks[c].user
      BY <2>0 DEF ConnOk, SockOk, Serving, Open
    <3> QED BY <3>1, <3>2 DEF Told, Concerns
  <2> QED BY <2>3, <2>4, <2>5, <2>6 DEF ConnOk
<1> QED BY <1>1, <1>2 DEF HubInv

\* An instance is deleted, a grant is written or removed, an account changes,
\* sessions begin and end, the hub shuts down.
LEMMA Handlers ==
  ASSUME HubInv,
         \/ \E u \in Viewers :
              \/ OpenLogin(u)
              \/ \E r \in {"admin", "member", "disabled", "deleted"} : ChangeAccount(u, r)
              \/ \E i \in Servers :
                   \/ \E r \in {"viewer", "operator"}, p \in PermSets, n \in 0..MaxRevisions :
                        ReplaceGrant(u, i, r, p, n)
                   \/ \E n \in 0..MaxRevisions : DeleteGrant(u, i, n)
         \/ \E S \in SUBSET DOMAIN logins : EndSessions(S)
         \/ \E s \in DOMAIN logins : SessionPassesExpiry(s)
         \/ \E i \in Servers : DeleteInstance(i)
         \/ HubClose
  PROVE  HubInv'
<1>0. /\ HubOk /\ NoGrant \in Grant /\ grants \in [Viewers -> [Servers -> Grant]]
      /\ \A n \in 0..MaxRevisions : [NoGrant EXCEPT !.rev = n] \in Grant
  BY WsHubAssumption DEF HubInv, HubOk, NoGrant, Grant
<1>1. ASSUME NEW u \in Viewers, OpenLogin(u) PROVE HubInv'
  <2>1. HubOk' /\ UNCHANGED <<socks, visits>> /\ announce \subseteq announce' /\ exists' \subseteq exists
    BY <1>0, <1>1 DEF OpenLogin, HubOk
  <2>2. DOMAIN logins \ DOMAIN logins' = {} /\ grants' = grants
    BY <1>1 DEF OpenLogin
  <2> QED BY <2>1, <2>2, HandlerStep
<1>2. ASSUME NEW u \in Viewers, NEW r \in {"admin", "member", "disabled", "deleted"}, ChangeAccount(u, r)
      PROVE  HubInv'
  <2>0. grants' \in [Viewers -> [Servers -> Grant]] /\ \A w \in Viewers : w # u => grants'[w] = grants[w]
    BY <1>0, <1>2 DEF ChangeAccount
  <2>1. HubOk' /\ UNCHANGED <<socks, visits>> /\ announce \subseteq announce' /\ exists' \subseteq exists
    BY <1>0, <1>2, <2>0 DEF ChangeAccount, HubOk, Owes
  <2>2. [kind |-> "user", user |-> u] \in announce'
    BY <1>2 DEF ChangeAccount, Owes
  <2>3. \A s \in DOMAIN logins \ DOMAIN logins' : s[1] = u
    BY <1>2 DEF ChangeAccount, Drop
  <2> QED BY <2>0, <2>1, <2>2, <2>3, HandlerStep
<1>3. ASSUME NEW u \in Viewers, NEW i \in Servers, NEW r \in {"viewer", "operator"}, NEW p \in PermSets,
             NEW n \in 0..MaxRevisions, ReplaceGrant(u, i, r, p, n)
      PROVE  HubInv'
  <2>0. [role |-> r, perms |-> p, rev |-> n + 1] \in Grant
    BY <1>3, WsHubAssumption DEF ReplaceGrant, validPerms, Grant
  <2>1. grants' = [grants EXCEPT ![u][i] = [role |-> r, perms |-> p, rev |-> n + 1]]
    BY <1>3 DEF ReplaceGrant, writeGrant
  <2>2. grants' \in [Viewers -> [Servers -> Grant]]
    BY <1>0, <2>0, <2>1
  <2>3. \A w \in Viewers, j \in Servers : w # u \/ j # i => grants'[w][j] = grants[w][j]
    BY <1>0, <2>1
  <2>4. HubOk' /\ UNCHANGED <<socks, visits>> /\ announce \subseteq announce' /\ exists' \subseteq exists
    BY <1>0, <1>3, <2>2 DEF ReplaceGrant, HubOk, Owes
  <2>5. [kind |-> "grant", user |-> u, instance |-> i] \in announce' /\ DOMAIN logins \ DOMAIN logins' = {}
    BY <1>3 DEF ReplaceGrant, Owes
  <2> QED BY <2>3, <2>4, <2>5, HandlerStep
<1>4. ASSUME NEW u \in Viewers, NEW i \in Servers, NEW n \in 0..MaxRevisions, DeleteGrant(u, i, n)
      PROVE  HubInv'
  <2>1. grants' = [grants EXCEPT ![u][i] = [NoGrant EXCEPT !.rev = n]]
    BY <1>4 DEF DeleteGrant, removeGrant
  <2>2. grants' \in [Viewers -> [Servers -> Grant]]
    BY <1>0, <2>1
  <2>3. \A w \in Viewers, j \in Servers : w # u \/ j # i => grants'[w][j] = grants[w][j]
    BY <1>0, <2>1
  <2>4. HubOk' /\ UNCHANGED <<socks, visits>> /\ announce \subseteq announce' /\ exists' \subseteq exists
    BY <1>0, <1>4, <2>2 DEF DeleteGrant, HubOk, Owes
  <2>5. [kind |-> "grant", user |-> u, instance |-> i] \in announce' /\ DOMAIN logins \ DOMAIN logins' = {}
    BY <1>4 DEF DeleteGrant, Owes
  <2> QED BY <2>3, <2>4, <2>5, HandlerStep
<1>5. ASSUME NEW S \in SUBSET DOMAIN logins, EndSessions(S) PROVE HubInv'
  <2>1. HubOk' /\ UNCHANGED <<socks, visits>> /\ announce \subseteq announce' /\ exists' \subseteq exists
    BY <1>0, <1>5 DEF EndSessions, HubOk, Owes
  <2>2. grants' = grants /\ \A s \in DOMAIN logins \ DOMAIN logins' : [kind |-> "session", session |-> s] \in announce'
    BY <1>5 DEF EndSessions, Drop, Owes
  <2> QED BY <2>1, <2>2, HandlerStep
<1>6. ASSUME NEW s \in DOMAIN logins, SessionPassesExpiry(s) PROVE HubInv'
  <2>1. HubOk' /\ UNCHANGED <<socks, visits>> /\ announce \subseteq announce' /\ exists' \subseteq exists
    BY <1>0, <1>6 DEF SessionPassesExpiry, HubOk
  <2>2. grants' = grants /\ DOMAIN logins' = DOMAIN logins
    BY <1>6 DEF SessionPassesExpiry
  <2> QED BY <2>1, <2>2, HandlerStep
<1>7. ASSUME NEW i \in Servers, DeleteInstance(i) PROVE HubInv'
  <2>1. \A u \in Viewers : [grants[u] EXCEPT ![i] = NoGrant] \in [Servers -> Grant]
    BY <1>0
  <2>2. /\ grants' \in [Viewers -> [Servers -> Grant]]
        /\ \A u \in Viewers, j \in Servers : j # i => grants'[u][j] = grants[u][j]
    BY <1>0, <1>7, <2>1 DEF DeleteInstance
  <2>3. HubOk' /\ UNCHANGED <<socks, visits>> /\ announce \subseteq announce' /\ exists' \subseteq exists
    BY <1>0, <1>7, <2>2 DEF DeleteInstance, HubOk, Owes
  <2>4. i \notin exists' /\ DOMAIN logins \ DOMAIN logins' = {}
    BY <1>7 DEF DeleteInstance
  <2> QED BY <2>2, <2>3, <2>4, HandlerStep
<1>8. ASSUME HubClose PROVE HubInv'
  <2>1. HubOk' /\ UNCHANGED <<socks, visits>> /\ announce \subseteq announce' /\ exists' \subseteq exists
    BY <1>0, <1>8 DEF HubClose, HubOk, Owes
  <2>2. grants' = grants /\ DOMAIN logins \ DOMAIN logins' = {}
    BY <1>8 DEF HubClose
  <2> QED BY <2>1, <2>2, HandlerStep
<1> QED BY <1>1, <1>2, <1>3, <1>4, <1>5, <1>6, <1>7, <1>8

\* The hub copies its connections: what was owed is now a call on each one
\* it concerns.
LEMMA AnnounceStep ==
  ASSUME HubInv, NEW a \in announce, Announce(a)
  PROVE  HubInv'
<1>0. /\ HubOk' /\ UNCHANGED <<role, logins, grants, exists, socks>>
      /\ announce' = announce \ {a}
      /\ visits' = visits \cup {[call |-> a, sock |-> c] : c \in {d \in Registered : Concerns(a, d)}}
  BY DEF Announce, HubInv, HubOk

<1>1. VisitOk'
  <2>1. ASSUME NEW v \in visits PROVE /\ v.sock \in Sockets /\ Open(v.sock)'
                                      /\ v.call.kind = "ask" =>
                                           v.call.instance = v.call.topic.id \/ socks'[v.sock].role = "admin"
    BY <1>0 DEF HubInv, VisitOk, Open
  <2>2. ASSUME NEW c \in Registered PROVE c \in Sockets /\ Open(c)'
    BY <1>0 DEF Registered, Open
  <2>3. a.kind # "ask"
    BY DEF HubInv, HubOk
  <2> QED BY <1>0, <2>1, <2>2, <2>3 DEF VisitOk
<1>2. ASSUME NEW c \in Sockets PROVE ConnOk(c)'
  <2>0. ConnOk(c)
    BY DEF HubInv
  <2>1. ASSUME Serving(c), Concerns(a, c) PROVE [call |-> a, sock |-> c] \in visits'
    BY <1>0, <2>1 DEF Registered, Serving
  <2>2. ASSUME NEW b \in announce, b # a, Concerns(b, c) PROVE b \in announce' /\ Concerns(b, c)'
    BY <1>0, <2>2 DEF Concerns
  <2>3. Serving(c) /\ Told(c) => Told(c)'
    <3>1. ASSUME NEW v \in visits PROVE v \in visits'
      BY <1>0
    <3>2. ASSUME Serving(c), a.kind \in {"user", "session"}, Concerns(a, c) PROVE Told(c)'
      <4> DEFINE v == [call |-> a, sock |-> c]
      <4>1. v \in visits' /\ v.sock = c /\ v.call.kind \in {"user", "session", "shutdown"}
        BY <2>1, <3>2
      <4> QED BY <4>1 DEF Told
    <3> QED BY <2>2, <3>1, <3>2 DEF Told
  <2>4. ASSUME NEW i, Serving(c), Pending(c, i) PROVE Pending(c, i)'
    <3>1. CASE i \notin exists \/ Told(c)
      BY <1>0, <2>3, <2>4, <3>1 DEF Pending
    <3>2. CASE \E b \in announce : b.kind = "grant" /\ b.user = socks[c].user /\ b.instance = i
      <4>1. PICK b \in announce : b.kind = "grant" /\ b.user = socks[c].user /\ b.instance = i
        BY <3>2
      <4>2. CASE b # a
        BY <1>0, <4>1, <4>2 DEF Pending
      <4>3. CASE b = a
        <5> DEFINE v == [call |-> a, sock |-> c]
        <5>1. Concerns(a, c)
          BY <4>1, <4>3 DEF Concerns
        <5>2. v \in visits' /\ v.sock = c /\ v.call.kind = "grant" /\ v.call.instance = i
          BY <2>1, <2>4, <4>1, <4>3, <5>1
        <5> QED BY <5>2 DEF Pending
      <4> QED BY <4>2, <4>3
    <3>3. CASE \E v \in visits : v.sock = c /\ v.call.kind = "grant" /\ v.call.instance = i
      BY <1>0, <3>3 DEF Pending
    <3> QED BY <2>4, <3>1, <3>2, <3>3 DEF Pending
  <2>5. \A t, i : Allows(c, t, i) => Allows(c, t, i)'
    BY <1>0, CanReadsGrant DEF Allows
  <2>6. \A t : Asking(c, t) => Asking(c, t)'
    BY <1>0 DEF Asking
  <2>7. SockOk(c)'
    BY <1>0, <2>0 DEF ConnOk, SockOk, Open
  <2>8. AllowedOk(c)'
    BY <1>0, <2>0, <2>4, <2>5 DEF ConnOk, AllowedOk, Serving
  <2>9. SubsOk(c)'
    BY <1>0, <2>0, <2>4, <2>5, <2>6 DEF ConnOk, SubsOk, Serving, Noticed
  <2>10. SessionOk(c)'
    BY <1>0, <2>0, <2>3 DEF ConnOk, SessionOk, Serving, LiveSession
  <2> QED BY <2>7, <2>8, <2>9, <2>10 DEF ConnOk
<1> QED BY <1>0, <1>1, <1>2 DEF HubInv

\* The calls on the other connections stay as they are, and a new one asks
\* about a topic on the instance it names, or for an administrator.
CallsAt(c) ==
  /\ \A v \in visits : v.sock # c => v \in visits'
  /\ \A v \in visits' : v \notin visits =>
       v.sock = c /\ (v.call.kind = "ask" => v.call.instance = v.call.topic.id \/ socks[c].role = "admin")

\* A step of one connection, or a call on it, leaves the others alone.
LEMMA ConnStep ==
  ASSUME HubInv, NEW c \in Sockets, Open(c), NEW x \in Conn, x.role = socks[c].role,
         socks' = [socks EXCEPT ![c] = x], UNCHANGED <<role, logins, grants, exists, announce>>,
         CallsAt(c), ConnOk(c)'
  PROVE  HubInv'
<1>1. /\ HubOk /\ socks'[c] = x /\ x.state # "none"
      /\ \A d \in Sockets : d # c => socks'[d] = socks[d]
  BY DEF HubInv, HubOk, Conn
<1>2. HubOk'
  BY DEF HubInv, HubOk
<1>3. VisitOk'
  <2> SUFFICES ASSUME NEW v \in visits'
               PROVE  /\ v.sock \in Sockets /\ Open(v.sock)'
                      /\ v.call.kind = "ask" => v.call.instance = v.call.topic.id \/ socks'[v.sock].role = "admin"
    BY DEF VisitOk
  <2>1. CASE v \in visits
    BY <1>1, <2>1 DEF HubInv, VisitOk, Open
  <2>2. CASE v \notin visits
    BY <1>1, <2>2 DEF Open, CallsAt
  <2> QED BY <2>1, <2>2
<1>4. ASSUME NEW d \in Sockets, d # c PROVE ConnOk(d)'
  <2>1. ConnOk(d) /\ socks'[d] = socks[d]
    BY <1>1, <1>4 DEF HubInv
  <2> QED BY <1>4, <2>1, ConnSame DEF CallsAt
<1> QED BY <1>2, <1>3, <1>4 DEF HubInv

\* A connection that is not being served promises nothing but its shape.
LEMMA NotServing ==
  ASSUME NEW c, SockOk(c)', ~Serving(c)'
  PROVE  ConnOk(c)'
  BY DEF ConnOk, AllowedOk, SubsOk, SessionOk

\* conn.close reaches a connection that is served or about to be.
LEMMA CloseStep ==
  ASSUME HubInv, NEW v \in visits, VisitClose(v)
  PROVE  HubInv'
<1> DEFINE c == v.sock
           x == IF socks[c].state \in {"added", "serving"} THEN [socks[c] EXCEPT !.state = "closed"] ELSE socks[c]
<1>1. c \in Sockets /\ Open(c) /\ HubOk /\ SockOk(c)
  BY DEF HubInv, VisitOk, ConnOk
<1>2. socks[c] \in Conn
  BY <1>1, OpenIsConn
<1>3. x \in Conn /\ x.state # "serving"
  BY <1>2 DEF Conn
<1>4. /\ socks' = [socks EXCEPT ![c] = x] /\ socks'[c] = x /\ visits' = visits \ {v}
      /\ UNCHANGED <<role, logins, grants, exists, announce>>
  BY <1>1 DEF VisitClose, Closed, HubOk
<1>5. /\ x.user = socks[c].user /\ x.session = socks[c].session /\ x.role = socks[c].role /\ x.subs = socks[c].subs
      /\ x.on = socks[c].on /\ x.doing = socks[c].doing
      /\ x.state \in {"upgraded", "added"} => socks[c].state \in {"upgraded", "added"}
  BY <1>2 DEF Conn
<1> HIDE DEF x
<1>6. SockOk(c)'
  BY <1>1, <1>4, <1>5 DEF SockOk, Open
<1>7. ConnOk(c)'
  BY <1>3, <1>4, <1>6, NotServing DEF Serving
<1>8. CallsAt(c)
  BY <1>4 DEF CallsAt
<1> HIDE DEF c
<1> QED BY <1>1, <1>3, <1>4, <1>5, <1>7, <1>8, ConnStep

\* recheck: the subscriptions on the instance are listed and a subscribe
\* under way sees that the generation moved.
LEMMA RecheckStep ==
  ASSUME HubInv, NEW v \in visits, VisitRecheck(v)
  PROVE  HubInv'
<1> DEFINE c == v.sock
           moves == c \in Registered /\ socks[c].doing.phase \in {"asked", "allowed"}
           x == IF moves THEN [socks[c] EXCEPT !.doing.moved = TRUE] ELSE socks[c]
<1>1. c \in Sockets /\ Open(c) /\ HubOk /\ ConnOk(c)
  BY DEF HubInv, VisitOk
<1>2. socks[c] \in Conn /\ socks[c].doing \in Doing
  BY <1>1, OpenIsConn DEF Conn
<1>3. ASSUME moves PROVE /\ [socks[c].doing EXCEPT !.moved = TRUE] \in Doing
                         /\ LET d == [socks[c].doing EXCEPT !.moved = TRUE] IN
                            /\ d.phase = socks[c].doing.phase /\ d.topic = socks[c].doing.topic /\ d.moved = TRUE
                            /\ d.phase = "allowed" => d.instance = socks[c].doing.instance
  <2>1. socks[c].doing \in Asked \/ socks[c].doing \in Granted
    BY <1>2, <1>3, DoingKinds
  <2>2. CASE socks[c].doing \in Asked
    BY <2>2 DEF Doing, Asked
  <2>3. CASE socks[c].doing \in Granted
    BY <2>3 DEF Doing, Granted
  <2> QED BY <2>1, <2>2, <2>3
<1>4. x \in Conn
  BY <1>2, <1>3 DEF Conn
<1>5. /\ x.user = socks[c].user /\ x.session = socks[c].session /\ x.role = socks[c].role /\ x.subs = socks[c].subs
      /\ x.on = socks[c].on /\ x.state = socks[c].state
      /\ IF moves THEN x.doing = [socks[c].doing EXCEPT !.moved = TRUE] ELSE x.doing = socks[c].doing
  BY <1>2 DEF Conn
<1>6. /\ x.doing.phase = socks[c].doing.phase
      /\ x.doing.phase \in {"allowed", "missed"} => x.doing.topic = socks[c].doing.topic
      /\ x.doing.phase = "allowed" => x.doing.instance = socks[c].doing.instance
      /\ x.doing = Resting <=> socks[c].doing = Resting
      /\ moves /\ x.doing.phase = "allowed" => x.doing.moved
  BY <1>3, <1>5 DEF Resting
<1>7. /\ socks' = [socks EXCEPT ![c] = x] /\ socks'[c] = x
      /\ UNCHANGED <<role, logins, grants, exists, announce>>
  BY <1>1 DEF VisitRecheck, HubOk
<1> HIDE DEF x
<1>8. visits' = (visits \ {v}) \cup
        (IF c \in Registered
         THEN {[call |-> [kind |-> "ask", topic |-> t, instance |-> v.call.instance], sock |-> c] :
                 t \in Affected(c, v.call.instance)}
         ELSE {})
  BY DEF VisitRecheck
<1>9. v.call.kind = "grant"
  BY DEF VisitRecheck
<1>10. ASSUME NEW i, Pending(c, i), i # v.call.instance PROVE Pending(c, i)'
  <2>1. \A w \in visits : w # v => w \in visits'
    BY <1>8
  <2>2. \A a \in announce : a.kind \in {"user", "session"} /\ Concerns(a, c) => Concerns(a, c)'
    BY <1>5, <1>7 DEF Concerns
  <2>3. Told(c) => Told(c)'
    BY <1>7, <1>9, <2>1, <2>2 DEF Told
  <2> QED BY <1>5, <1>7, <1>10, <2>1, <2>3 DEF Pending
<1>11. Told(c) => Told(c)'
  <2>1. \A w \in visits : w # v => w \in visits'
    BY <1>8
  <2>2. \A a \in announce : a.kind \in {"user", "session"} /\ Concerns(a, c) => Concerns(a, c)'
    BY <1>5, <1>7 DEF Concerns
  <2> QED BY <1>7, <1>9, <2>1, <2>2 DEF Told
<1>12. \A t, i : Allows(c, t, i) => Allows(c, t, i)'
  BY <1>5, <1>7, CanReadsGrant DEF Allows
<1>13. ASSUME NEW t \in socks[c].subs, c \in Registered, socks[c].on[t] = v.call.instance PROVE Asking(c, t)'
  <2> DEFINE w == [call |-> [kind |-> "ask", topic |-> t, instance |-> v.call.instance], sock |-> c]
  <2>1. w \in visits' /\ w.sock = c /\ w.call.kind = "ask" /\ w.call.topic = t
    BY <1>8, <1>13 DEF Affected
  <2> QED BY <2>1 DEF Asking
<1>14. \A t : Asking(c, t) => Asking(c, t)'
  BY <1>8, <1>9 DEF Asking
<1>15. Serving(c) => c \in Registered
  BY <1>1 DEF Serving, Registered
<1>16. SockOk(c)'
  BY <1>1, <1>5, <1>6, <1>7 DEF ConnOk, SockOk, Open
<1>17. AllowedOk(c)'
  BY <1>1, <1>5, <1>6, <1>7, <1>10, <1>12, <1>15 DEF ConnOk, AllowedOk, Serving
<1>18. SubsOk(c)'
  BY <1>1, <1>5, <1>6, <1>7, <1>10, <1>12, <1>13, <1>14, <1>15 DEF ConnOk, SubsOk, Serving, Noticed
<1>19. SessionOk(c)'
  BY <1>1, <1>5, <1>7, <1>11 DEF ConnOk, SessionOk, Serving, LiveSession
<1>20. ASSUME NEW w \in visits', w \notin visits
       PROVE  w.sock = c /\ (w.call.kind = "ask" => w.call.instance = w.call.topic.id \/ socks[c].role = "admin")
  <2>1. PICK t \in Affected(c, v.call.instance) :
          w = [call |-> [kind |-> "ask", topic |-> t, instance |-> v.call.instance], sock |-> c]
    BY <1>8, <1>20
  <2>2. socks[c].on[t] = v.call.instance /\ t \in socks[c].subs
    BY <2>1 DEF Affected
  <2>3. v.call.instance = t.id \/ socks[c].role = "admin"
    BY <1>1, <2>2 DEF ConnOk, SockOk
  <2> QED BY <2>1, <2>3
<1>21. CallsAt(c)
  BY <1>8, <1>20 DEF CallsAt
<1>22. ConnOk(c)'
  BY <1>16, <1>17, <1>18, <1>19 DEF ConnOk
<1> HIDE DEF c
<1> QED BY <1>1, <1>4, <1>5, <1>7, <1>21, <1>22, ConnStep

\* A change of the fields that name no account, when nothing is announced:
\* what is on its way to the connection stays on its way.
LEMMA SameReader ==
  ASSUME HubInv, NEW c \in Sockets, socks'[c].user = socks[c].user, socks'[c].role = socks[c].role,
         socks'[c].session = socks[c].session, UNCHANGED <<logins, grants, exists, announce>>
  PROVE  /\ \A t, i : Allows(c, t, i) => Allows(c, t, i)'
         /\ LiveSession(socks[c].session) => LiveSession(socks[c].session)'
  BY CanReadsGrant DEF Allows, LiveSession

\* One subscription is asked about again, and dropped when it is not allowed.
LEMMA AskStep ==
  ASSUME HubInv, NEW v \in visits, VisitAsk(v)
  PROVE  HubInv'
<1> DEFINE c == v.sock
           topic == v.call.topic
           cut == c \in Registered /\ ~Allows(c, topic, v.call.instance)
           x == IF cut THEN [socks[c] EXCEPT !.subs = @ \ {topic}] ELSE socks[c]
<1>1. c \in Sockets /\ Open(c) /\ HubOk /\ ConnOk(c)
  BY DEF HubInv, VisitOk
<1>2. socks[c] \in Conn
  BY <1>1, OpenIsConn
<1>3. x \in Conn
  BY <1>2 DEF Conn
<1>4. /\ x.user = socks[c].user /\ x.session = socks[c].session /\ x.role = socks[c].role
      /\ x.on = socks[c].on /\ x.state = socks[c].state /\ x.doing = socks[c].doing
      /\ x.subs = IF cut THEN socks[c].subs \ {topic} ELSE socks[c].subs
  BY <1>2 DEF Conn
<1>5. /\ socks' = [socks EXCEPT ![c] = x] /\ socks'[c] = x
      /\ UNCHANGED <<role, logins, grants, exists, announce>>
  BY <1>1 DEF VisitAsk, HubOk, Unsub, Allows
<1>6. visits' = visits \ {v} /\ v.call.kind = "ask"
  BY DEF VisitAsk
<1>7. v.call.instance = topic.id \/ socks[c].role = "admin"
  BY <1>6 DEF HubInv, VisitOk
<1> HIDE DEF x
<1>8. \A a \in announce : a.kind \in {"user", "session"} /\ Concerns(a, c) => Concerns(a, c)'
  BY <1>4, <1>5 DEF Concerns
<1>9. Told(c) => Told(c)'
  BY <1>5, <1>6, <1>8 DEF Told
<1>10. \A i : Pending(c, i) => Pending(c, i)'
  BY <1>4, <1>5, <1>6, <1>9 DEF Pending
<1>11. /\ \A t, i : Allows(c, t, i) => Allows(c, t, i)'
       /\ LiveSession(socks[c].session) => LiveSession(socks[c].session)'
  BY <1>1, <1>4, <1>5, SameReader
<1>12. SockOk(c)'
  BY <1>1, <1>4, <1>5 DEF ConnOk, SockOk, Open
<1>13. AllowedOk(c)'
  BY <1>1, <1>4, <1>5, <1>10, <1>11 DEF ConnOk, AllowedOk, Serving
<1>14. SubsOk(c)'
  <2> SUFFICES ASSUME Serving(c)', NEW t \in socks'[c].subs
               PROVE  \/ Allows(c, t, socks[c].on[t])' \/ Pending(c, socks[c].on[t])'
                      \/ Asking(c, t)' \/ Noticed(c, t)'
    BY DEF SubsOk
  <2>1. Serving(c) /\ t \in socks[c].subs /\ c \in Registered /\ socks'[c].on[t] = socks[c].on[t]
    BY <1>1, <1>4, <1>5 DEF Serving, Registered
  <2>2. CASE t = topic
    <3>1. Allows(c, t, v.call.instance)
      BY <1>4, <1>5, <2>1, <2>2
    <3>2. Allows(c, t, socks[c].on[t])
      BY <1>1, <1>7, <2>1, <2>2, <3>1, AdminSees DEF ConnOk, SockOk
    <3> QED BY <1>11, <2>1, <3>2
  <2>3. CASE t # topic
    <3>1. Asking(c, t) => Asking(c, t)'
      BY <1>6, <2>3 DEF Asking
    <3>2. Noticed(c, t) => Noticed(c, t)'
      BY <1>4, <1>5 DEF Noticed
    <3>3. Allows(c, t, socks[c].on[t]) \/ Pending(c, socks[c].on[t]) \/ Asking(c, t) \/ Noticed(c, t)
      BY <1>1, <2>1 DEF ConnOk, SubsOk
    <3> QED BY <1>10, <1>11, <2>1, <3>1, <3>2, <3>3
  <2> QED BY <2>2, <2>3
<1>15. SessionOk(c)'
  BY <1>1, <1>4, <1>5, <1>9, <1>11 DEF ConnOk, SessionOk, Serving
<1>16. ConnOk(c)'
  BY <1>12, <1>13, <1>14, <1>15 DEF ConnOk
<1>17. CallsAt(c)
  BY <1>6 DEF CallsAt
<1> HIDE DEF c
<1> QED BY <1>1, <1>3, <1>4, <1>5, <1>16, <1>17, ConnStep

\* A connection keeps some of its subscriptions and everything else.
LEMMA FewerSubs ==
  ASSUME HubInv, NEW c \in Sockets, Open(c), NEW T, socks' = Unsub(c, T),
         UNCHANGED <<role, logins, grants, exists, announce>>, visits' \subseteq visits,
         \A v \in visits : v \in visits' \/ (v.sock = c /\ v.call.kind = "deleted")
  PROVE  HubInv'
<1> DEFINE x == [socks[c] EXCEPT !.subs = @ \ T]
<1>1. HubOk /\ ConnOk(c) /\ socks[c] \in Conn
  BY OpenIsConn DEF HubInv
<1>2. x \in Conn
  BY <1>1 DEF Conn
<1>3. /\ x.user = socks[c].user /\ x.session = socks[c].session /\ x.role = socks[c].role
      /\ x.on = socks[c].on /\ x.state = socks[c].state /\ x.doing = socks[c].doing
      /\ x.subs = socks[c].subs \ T
  BY <1>1 DEF Conn
<1>4. socks' = [socks EXCEPT ![c] = x] /\ socks'[c] = x
  BY <1>1 DEF HubOk, Unsub
<1> HIDE DEF x
<1>5. \A a \in announce : a.kind \in {"user", "session"} /\ Concerns(a, c) => Concerns(a, c)'
  BY <1>3, <1>4 DEF Concerns
<1>6. Told(c) => Told(c)'
  BY <1>5 DEF Told
<1>7. \A i : Pending(c, i) => Pending(c, i)'
  BY <1>3, <1>4, <1>6 DEF Pending
<1>8. \A t : Asking(c, t) => Asking(c, t)'
  BY DEF Asking
<1>9. /\ \A t, i : Allows(c, t, i) => Allows(c, t, i)'
      /\ LiveSession(socks[c].session) => LiveSession(socks[c].session)'
  BY <1>3, <1>4, SameReader
<1>10. SockOk(c)'
  BY <1>1, <1>3, <1>4 DEF ConnOk, SockOk, Open
<1>11. AllowedOk(c)'
  BY <1>1, <1>3, <1>4, <1>7, <1>9 DEF ConnOk, AllowedOk, Serving
<1>12. SubsOk(c)'
  BY <1>1, <1>3, <1>4, <1>7, <1>8, <1>9 DEF ConnOk, SubsOk, Serving, Noticed
<1>13. SessionOk(c)'
  BY <1>1, <1>3, <1>4, <1>6, <1>9 DEF ConnOk, SessionOk, Serving
<1>14. ConnOk(c)'
  BY <1>10, <1>11, <1>12, <1>13 DEF ConnOk
<1>15. CallsAt(c)
  BY DEF CallsAt
<1> QED BY <1>2, <1>3, <1>4, <1>14, <1>15, ConnStep

\* The topics of a deleted instance are dropped.
LEMMA DropInstanceStep ==
  ASSUME HubInv, NEW v \in visits, VisitDropInstance(v)
  PROVE  HubInv'
<1> DEFINE c == v.sock
           T == IF c \in Registered THEN Affected(c, v.call.instance) ELSE {}
<1>1. c \in Sockets /\ Open(c) /\ HubOk /\ socks[c] \in Conn
  BY OpenIsConn DEF HubInv, VisitOk
<1>2. socks' = Unsub(c, T)
  <2>1. CASE c \in Registered
    BY <2>1 DEF VisitDropInstance
  <2>2. CASE c \notin Registered
    <3>1. socks[c] = [socks[c] EXCEPT !.subs = @ \ {}]
      BY <1>1 DEF Conn
    <3>2. socks = Unsub(c, {})
      BY <1>1, <3>1 DEF Unsub, HubOk
    <3> QED BY <2>2, <3>2 DEF VisitDropInstance
  <2> QED BY <2>1, <2>2
<1>3. /\ visits' = visits \ {v} /\ v.call.kind = "deleted"
      /\ UNCHANGED <<role, logins, grants, exists, announce>>
  BY DEF VisitDropInstance
<1>4. visits' \subseteq visits /\ \A w \in visits : w \in visits' \/ w = v
  BY <1>3
<1>5. \A w \in visits : w \in visits' \/ (w.sock = c /\ w.call.kind = "deleted")
  BY <1>3, <1>4
<1> HIDE DEF c, T
<1> QED BY <1>1, <1>2, <1>3, <1>4, <1>5, FewerSubs

\* The upgrade, the registration, the first look at the session, and the end
\* of a connection.
LEMMA LifeSteps ==
  ASSUME HubInv, NEW c \in Sockets,
         \/ \E u \in Viewers, n \in 1..MaxLogins : Upgrade(c, u, n)
         \/ AddConn(c) \/ Serve(c) \/ CloseConn(c) \/ RemoveConn(c)
  PROVE  HubInv'
<1>0. HubOk /\ ConnOk(c)
  BY DEF HubInv
<1>1. ASSUME NEW u \in Viewers, NEW n \in 1..MaxLogins, Upgrade(c, u, n) PROVE HubInv'
  <2>1. NewSocket(u, n) \in Conn
    <3>1. [t \in {} |-> ""] \in OnMaps
      <4>1. [t \in {} |-> ""] \in [{} -> Servers \cup {""}] /\ {} \in SUBSET AllTopics
        OBVIOUS
      <4> QED BY <4>1 DEF OnMaps
    <3>2. Session(u, n) \in Viewers \X Nat
      BY WsHubAssumption DEF Session
    <3>3. role[u] \in {"admin", "member", "disabled", "deleted"} /\ Resting \in Doing
      BY <1>0 DEF HubOk, Doing
    <3> QED BY <3>1, <3>2, <3>3 DEF NewSocket, Conn
  <2>2. /\ socks' = [socks EXCEPT ![c] = NewSocket(u, n)] /\ socks'[c] = NewSocket(u, n) /\ ~Open(c)
        /\ UNCHANGED <<role, logins, grants, exists, announce, visits>>
        /\ \A d \in Sockets : d # c => socks'[d] = socks[d]
    BY <1>0, <1>1 DEF Upgrade, HubOk, Open
  <2>3. HubOk'
    BY <1>0, <2>1, <2>2 DEF HubOk
  <2>4. VisitOk'
    BY <2>2 DEF HubInv, VisitOk, Open
  <2>5. SockOk(c)' /\ ~Serving(c)'
    BY <2>2 DEF SockOk, Serving, NewSocket, Session, Resting
  <2>6. ConnOk(c)'
    BY <2>5, NotServing
  <2>7. ASSUME NEW d \in Sockets, d # c PROVE ConnOk(d)'
    <3>1. ConnOk(d) /\ socks'[d] = socks[d]
      BY <2>2, <2>7 DEF HubInv
    <3> QED BY <2>2, <3>1, ConnSame
  <2> QED BY <2>3, <2>4, <2>6, <2>7 DEF HubInv
<1>2. CASE AddConn(c) \/ Serve(c) \/ CloseConn(c)
  <2>1. socks[c].state \in {"upgraded", "added", "serving"} /\ Open(c)
    BY <1>2 DEF AddConn, Serve, CloseConn, Open
  <2>2. socks[c] \in Conn
    BY <1>0, <2>1, OpenIsConn
  <2>3. PICK st \in {"added", "serving", "closed"} :
          /\ socks' = [socks EXCEPT ![c].state = st]
          /\ st = "added" => AddConn(c)
          /\ st = "serving" => (Serve(c) /\ LiveSession(socks[c].session))
    BY <1>2 DEF AddConn, Serve, CloseConn, Closed
  <2> DEFINE x == [socks[c] EXCEPT !.state = st]
  <2>4. x \in Conn
    BY <2>2 DEF Conn
  <2>5. /\ x.user = socks[c].user /\ x.session = socks[c].session /\ x.role = socks[c].role
        /\ x.on = socks[c].on /\ x.state = st /\ x.doing = socks[c].doing /\ x.subs = socks[c].subs
    BY <2>2 DEF Conn
  <2>6. socks' = [socks EXCEPT ![c] = x] /\ socks'[c] = x
    BY <1>0, <2>3 DEF HubOk
  <2>7. UNCHANGED <<role, logins, grants, exists, announce, visits>>
    BY <1>2 DEF AddConn, Serve, CloseConn
  <2> HIDE DEF x
  <2>8. st = "added" => socks[c].state = "upgraded"
    BY <2>3 DEF AddConn
  <2>9. SockOk(c)'
    <3>1. SockOk(c)
      BY <1>0 DEF ConnOk
    <3>2. st \in {"upgraded", "added"} => socks[c].state \in {"upgraded", "added"}
      BY <2>8
    <3> QED BY <2>1, <2>5, <2>6, <3>1, <3>2 DEF SockOk, Open
  <2>10. ASSUME st # "serving" PROVE ConnOk(c)'
    BY <2>5, <2>6, <2>9, <2>10, NotServing DEF Serving
  <2>11. ASSUME st = "serving" PROVE ConnOk(c)'
    <3>1. socks[c].state = "added" /\ LiveSession(socks[c].session)
      BY <2>3, <2>11 DEF Serve
    <3>2. socks'[c].subs = {} /\ socks'[c].doing = Resting
      BY <1>0, <2>1, <2>5, <2>6, <3>1 DEF ConnOk, SockOk
    <3>3. LiveSession(socks[c].session)'
      BY <2>5, <2>6, <2>7, <3>1 DEF LiveSession
    <3> QED BY <2>9, <3>2, <3>3 DEF ConnOk, AllowedOk, SubsOk, SessionOk, Resting
  <2>12. ConnOk(c)'
    BY <2>10, <2>11
  <2>13. CallsAt(c)
    BY <2>7 DEF CallsAt
  <2> QED BY <2>1, <2>4, <2>5, <2>6, <2>7, <2>12, <2>13, ConnStep
<1>3. CASE RemoveConn(c)
  <2>1. /\ socks' = [socks EXCEPT ![c] = NoSocket] /\ socks'[c] = NoSocket
        /\ visits' = {v \in visits : v.sock # c}
        /\ UNCHANGED <<role, logins, grants, exists, announce>>
        /\ \A d \in Sockets : d # c => socks'[d] = socks[d]
    BY <1>0, <1>3 DEF RemoveConn, HubOk
  <2>2. HubOk'
    BY <1>0, <2>1 DEF HubOk
  <2>3. VisitOk'
    BY <2>1 DEF HubInv, VisitOk, Open
  <2>4. SockOk(c)' /\ ~Serving(c)'
    BY <2>1 DEF SockOk, Serving, Open, NoSocket
  <2>5. ConnOk(c)'
    BY <2>4, NotServing
  <2>6. ASSUME NEW d \in Sockets, d # c PROVE ConnOk(d)'
    <3>1. ConnOk(d) /\ socks'[d] = socks[d] /\ \A v \in visits : v.sock = d => v \in visits'
      BY <2>1, <2>6 DEF HubInv
    <3> QED BY <2>1, <3>1, ConnSame
  <2> QED BY <2>2, <2>3, <2>5, <2>6 DEF HubInv
<1> QED BY <1>1, <1>2, <1>3

\* The instance a topic hangs on is the one it names, unless it is gone and
\* an administrator asked.
LEMMA TopicHangsOn ==
  ASSUME NEW u, NEW r, NEW t, authorize(u, r, t)
  PROVE  TopicInstance(t) = t.id \/ r = "admin"
  BY DEF authorize, TopicInstance, Can

\* The read loop subscribes in four steps, and unsubscribes.
LEMMA SubscribeSteps ==
  ASSUME HubInv, NEW c \in Sockets, socks[c].state \in {"serving", "closed"},
         \/ \E t \in AllTopics : SubscribeAsk(c, t) \/ Unsubscribe(c, t)
         \/ SubscribeAuthorize(c) \/ SubscribeRegister(c) \/ SubscribeRecheck(c)
  PROVE  HubInv'
<1>0. HubOk /\ ConnOk(c) /\ Open(c)
  BY DEF HubInv, Open
<1>1. socks[c] \in Conn
  BY <1>0, OpenIsConn
<1>2. /\ socks[c].doing \in Doing /\ socks[c].subs \in SUBSET AllTopics /\ socks[c].on \in OnMaps
      /\ \A t \in socks[c].subs :
           t \in DOMAIN socks[c].on /\ (socks[c].on[t] = t.id \/ socks[c].role = "admin")
      /\ Serving(c) => \A t \in socks[c].subs :
           \/ Allows(c, t, socks[c].on[t]) \/ Pending(c, socks[c].on[t])
           \/ Asking(c, t) \/ Noticed(c, t)
  BY <1>0, <1>1 DEF Conn, ConnOk, SockOk, SubsOk
<1>3. ASSUME NEW d \in Doing, NEW S \in SUBSET AllTopics, NEW f \in OnMaps,
             socks' = [socks EXCEPT ![c].subs = S, ![c].on = f, ![c].doing = d],
             UNCHANGED <<role, logins, grants, exists, announce, visits>>,
             \A t \in S : t \in DOMAIN f /\ (f[t] = t.id \/ socks[c].role = "admin"),
             d.phase = "allowed" => d.instance = d.topic.id \/ socks[c].role = "admin",
             Serving(c) /\ d.phase = "allowed" =>
               Allows(c, d.topic, d.instance) \/ Pending(c, d.instance) \/ d.moved,
             Serving(c) => \A t \in S :
               \/ Allows(c, t, f[t]) \/ Pending(c, f[t]) \/ Asking(c, t)
               \/ d.phase = "missed" /\ d.topic = t
      PROVE  HubInv'
  <2> DEFINE x == [socks[c] EXCEPT !.subs = S, !.on = f, !.doing = d]
  <2>1. x \in Conn
    BY <1>1 DEF Conn
  <2>2. /\ x.user = socks[c].user /\ x.session = socks[c].session /\ x.role = socks[c].role
        /\ x.on = f /\ x.state = socks[c].state /\ x.doing = d /\ x.subs = S
    BY <1>1 DEF Conn
  <2>3. socks' = [socks EXCEPT ![c] = x] /\ socks'[c] = x
    BY <1>0, <1>3 DEF HubOk
  <2> HIDE DEF x
  <2>4. /\ Told(c) => Told(c)'
        /\ \A i : Pending(c, i) => Pending(c, i)'
        /\ \A t : Asking(c, t) => Asking(c, t)'
    BY <1>3, <2>2, <2>3, StillPending
  <2>5. /\ \A t, i : Allows(c, t, i) => Allows(c, t, i)'
        /\ LiveSession(socks[c].session) => LiveSession(socks[c].session)'
    BY <1>3, <2>2, <2>3, SameReader
  <2>6. SockOk(c)'
    BY <1>0, <1>3, <2>2, <2>3 DEF ConnOk, SockOk, Open
  <2>7. AllowedOk(c)'
    BY <1>3, <2>2, <2>3, <2>4, <2>5 DEF AllowedOk, Serving
  <2>8. SubsOk(c)'
    BY <1>3, <2>2, <2>3, <2>4, <2>5 DEF SubsOk, Serving, Noticed
  <2>9. SessionOk(c)'
    BY <1>0, <2>2, <2>3, <2>4, <2>5 DEF ConnOk, SessionOk, Serving
  <2>10. ConnOk(c)'
    BY <2>6, <2>7, <2>8, <2>9 DEF ConnOk
  <2>11. CallsAt(c)
    BY <1>3 DEF CallsAt
  <2> QED BY <1>0, <1>3, <2>1, <2>2, <2>3, <2>10, <2>11, ConnStep
<1>4. ASSUME NEW d \in Doing, socks' = [socks EXCEPT ![c].doing = d],
             UNCHANGED <<role, logins, grants, exists, announce, visits>>,
             socks[c].doing.phase # "missed",
             d.phase = "allowed" => d.instance = d.topic.id \/ socks[c].role = "admin",
             d.phase = "allowed" => Allows(c, d.topic, d.instance)
      PROVE  HubInv'
  <2>1. [socks[c] EXCEPT !.doing = d] = [socks[c] EXCEPT !.subs = socks[c].subs, !.on = socks[c].on, !.doing = d]
    BY <1>1 DEF Conn
  <2>2. socks' = [socks EXCEPT ![c].subs = socks[c].subs, ![c].on = socks[c].on, ![c].doing = d]
    BY <1>0, <1>4, <2>1 DEF HubOk
  <2>3. Serving(c) => \A t \in socks[c].subs :
          \/ Allows(c, t, socks[c].on[t]) \/ Pending(c, socks[c].on[t]) \/ Asking(c, t)
          \/ d.phase = "missed" /\ d.topic = t
    BY <1>2, <1>4 DEF Noticed
  <2> QED BY <1>2, <1>3, <1>4, <2>2, <2>3
<1>5. ASSUME NEW t \in AllTopics, SubscribeAsk(c, t) PROVE HubInv'
  <2> DEFINE d == [phase |-> "asked", topic |-> t, moved |-> FALSE]
  <2>1. d \in Doing /\ d.phase = "asked"
    BY DEF Doing, Asked
  <2>2. socks[c].doing.phase # "missed"
    BY <1>5 DEF SubscribeAsk, Resting
  <2>3. socks' = [socks EXCEPT ![c].doing = d] /\ UNCHANGED <<role, logins, grants, exists, announce, visits>>
    BY <1>5 DEF SubscribeAsk
  <2> HIDE DEF d
  <2> QED BY <1>4, <2>1, <2>2, <2>3
<1>6. ASSUME NEW t \in AllTopics, Unsubscribe(c, t) PROVE HubInv'
  <2>1. socks' = Unsub(c, {t}) /\ UNCHANGED <<role, logins, grants, exists, announce, visits>>
    BY <1>6 DEF Unsubscribe
  <2> QED BY <1>0, <2>1, FewerSubs
<1>7. CASE SubscribeAuthorize(c)
  <2> DEFINE t == socks[c].doing.topic
             d == [phase |-> "allowed", topic |-> t, moved |-> socks[c].doing.moved, instance |-> TopicInstance(t)]
  <2>1. socks[c].doing \in Asked /\ socks[c].doing.phase # "missed"
    BY <1>2, <1>7, DoingKinds DEF SubscribeAuthorize
  <2>2. UNCHANGED <<role, logins, grants, exists, announce, visits>>
    BY <1>7 DEF SubscribeAuthorize
  <2>3. CASE authorize(socks[c].user, socks[c].role, t)
    <3>1. t \in AllTopics /\ t.id \in Servers /\ socks[c].doing.moved \in BOOLEAN
      BY <2>1 DEF Asked, AllTopics
    <3>2. d \in Doing /\ d.phase = "allowed" /\ d.topic = t /\ d.instance = TopicInstance(t)
      BY <3>1 DEF Doing, Granted, TopicInstance
    <3>3. Allows(c, t, TopicInstance(t))
      BY <2>3 DEF authorize, Allows
    <3>4. TopicInstance(t) = t.id \/ socks[c].role = "admin"
      BY <2>3, TopicHangsOn
    <3>5. socks' = [socks EXCEPT ![c].doing = d]
      BY <1>7, <2>3 DEF SubscribeAuthorize
    <3> HIDE DEF d, t
    <3> QED BY <1>4, <2>1, <2>2, <3>2, <3>3, <3>4, <3>5
  <2>4. CASE ~authorize(socks[c].user, socks[c].role, t)
    <3>1. socks' = [socks EXCEPT ![c].doing = Resting]
      BY <1>7, <2>4 DEF SubscribeAuthorize
    <3>2. Resting \in Doing /\ Resting.phase = "rest"
      BY DEF Doing, Resting
    <3> QED BY <1>4, <2>1, <2>2, <3>1, <3>2
  <2> QED BY <2>3, <2>4
<1>8. CASE SubscribeRegister(c)
  <2> DEFINE e == socks[c].doing
             S == socks[c].subs \cup {e.topic}
             d == IF e.moved THEN [phase |-> "missed", topic |-> e.topic] ELSE Resting
  <2>0. PICK f : f = WithTopic(socks[c].on, e.topic, e.instance)
    OBVIOUS
  <2>1. e \in Granted /\ e.phase = "allowed"
    BY <1>2, <1>8, DoingKinds DEF SubscribeRegister
  <2>2. e.topic \in AllTopics /\ e.instance \in Servers \cup {""} /\ e.moved \in BOOLEAN
    BY <2>1 DEF Granted
  <2>3. d \in Doing /\ d.phase # "allowed" /\ (e.moved => d.phase = "missed" /\ d.topic = e.topic)
    BY <2>2 DEF Doing, Missed, Resting
  <2>4. /\ f \in OnMaps /\ DOMAIN f = DOMAIN socks[c].on \cup {e.topic} /\ f[e.topic] = e.instance
        /\ \A y \in DOMAIN socks[c].on : y # e.topic => f[y] = socks[c].on[y]
    <3>1. PICK m, t, i : m = socks[c].on /\ t = e.topic /\ i = e.instance
      OBVIOUS
    <3>2. m \in OnMaps /\ t \in AllTopics /\ i \in Servers \cup {""} /\ f = WithTopic(m, t, i)
      BY <1>2, <2>0, <2>2, <3>1
    <3>3. /\ f \in OnMaps /\ DOMAIN f = DOMAIN m \cup {t} /\ f[t] = i
          /\ \A y \in DOMAIN m : y # t => f[y] = m[y]
      <4>1. PICK T \in SUBSET AllTopics : m \in [T -> Servers \cup {""}]
        BY <3>2 DEF OnMaps
      <4>2. f \in [T \cup {t} -> Servers \cup {""}] /\ T \cup {t} \in SUBSET AllTopics
        BY <3>2, <4>1 DEF WithTopic
      <4>3. f \in OnMaps
        BY <4>2 DEF OnMaps
      <4> QED BY <3>2, <4>1, <4>2, <4>3 DEF WithTopic
    <3> QED BY <3>1, <3>3
  <2>5. /\ socks' = [socks EXCEPT ![c].subs = S, ![c].on = f, ![c].doing = d]
        /\ UNCHANGED <<role, logins, grants, exists, announce, visits>>
    BY <1>8, <2>0 DEF SubscribeRegister
  <2>6. S \in SUBSET AllTopics
    BY <1>2, <2>2
  <2> HIDE DEF d
  <2>7. \A t \in S : t \in DOMAIN f /\ (f[t] = t.id \/ socks[c].role = "admin")
    <3>1. e.instance = e.topic.id \/ socks[c].role = "admin"
      BY <1>0, <2>1 DEF ConnOk, SockOk
    <3> QED BY <1>2, <2>4, <3>1
  <2>8. ASSUME Serving(c), NEW t \in S
        PROVE  Allows(c, t, f[t]) \/ Pending(c, f[t]) \/ Asking(c, t) \/ (d.phase = "missed" /\ d.topic = t)
    <3>1. CASE t = e.topic
      <4>1. Allows(c, e.topic, e.instance) \/ Pending(c, e.instance) \/ e.moved
        BY <1>0, <2>1, <2>8 DEF ConnOk, AllowedOk
      <4> QED BY <2>3, <2>4, <3>1, <4>1
    <3>2. CASE t # e.topic
      <4>1. t \in socks[c].subs /\ f[t] = socks[c].on[t] /\ ~Noticed(c, t)
        BY <1>2, <2>1, <2>4, <3>2 DEF Noticed
      <4> QED BY <1>2, <2>8, <4>1
    <3> QED BY <3>1, <3>2
  <2> HIDE DEF S
  <2> QED BY <1>3, <2>3, <2>4, <2>5, <2>6, <2>7, <2>8
<1>9. CASE SubscribeRecheck(c)
  <2> DEFINE t0 == socks[c].doing.topic
             ok == authorize(socks[c].user, socks[c].role, t0)
             S == IF ok THEN socks[c].subs ELSE socks[c].subs \ {t0}
  <2>1. Resting \in Doing /\ Resting.phase = "rest"
    BY DEF Doing, Resting
  <2>2. UNCHANGED <<role, logins, grants, exists, announce, visits>>
    BY <1>9 DEF SubscribeRecheck
  <2>3. socks' = [socks EXCEPT ![c].subs = S, ![c].doing = Resting]
    BY <1>9 DEF SubscribeRecheck
  <2>4. [socks[c] EXCEPT !.subs = S, !.doing = Resting]
          = [socks[c] EXCEPT !.subs = S, !.on = socks[c].on, !.doing = Resting]
    BY <1>1 DEF Conn
  <2>5. socks' = [socks EXCEPT ![c].subs = S, ![c].on = socks[c].on, ![c].doing = Resting]
    BY <1>0, <2>3, <2>4 DEF HubOk
  <2>6. S \in SUBSET AllTopics /\ S \subseteq socks[c].subs
    BY <1>2
  <2>7. ASSUME Serving(c), NEW t \in S
        PROVE  Allows(c, t, socks[c].on[t]) \/ Pending(c, socks[c].on[t]) \/ Asking(c, t)
    <3>1. CASE t # t0
      BY <1>2, <2>6, <2>7, <3>1 DEF Noticed
    <3>2. CASE t = t0
      <4>1. ok /\ t \in socks[c].subs
        BY <3>2
      <4>2. Allows(c, t, TopicInstance(t))
        BY <3>2, <4>1 DEF authorize, Allows
      <4>3. TopicInstance(t) = t.id \/ t.id \notin exists
        BY DEF TopicInstance
      <4>4. CASE socks[c].role = "admin"
        BY <4>4, AdminSees
      <4>5. CASE socks[c].on[t] = t.id
        BY <4>2, <4>3, <4>5 DEF Pending
      <4> QED BY <1>2, <4>1, <4>4, <4>5
    <3> QED BY <3>1, <3>2
  <2>8. \A t \in S : t \in DOMAIN socks[c].on /\ (socks[c].on[t] = t.id \/ socks[c].role = "admin")
    BY <1>2, <2>6
  <2> HIDE DEF S
  <2> QED BY <1>2, <1>3, <2>1, <2>2, <2>5, <2>6, <2>7, <2>8
<1> QED BY <1>5, <1>6, <1>7, <1>8, <1>9

\* No stored name and no role holds a capability that is never granted.
LEMMA NeverGranted ==
  ASSUME NEW g
  PROVE  granted(g) \cap neverGrantable = {}
<1>1. viewerActions \cap neverGrantable = {}
  BY DEF viewerActions, neverGrantable
<1>2. operatorExtra \cap neverGrantable = {}
  BY DEF operatorExtra, neverGrantable
<1>3. "config.edit" \notin neverGrantable
  BY DEF neverGrantable
<1>4. roleActions(g.role) \cap neverGrantable = {}
  BY <1>1, <1>2 DEF roleActions
<1> QED BY <1>3, <1>4 DEF granted

\* What GET /me/permissions lists is what decide allows, in every state.
LEMMA ShownIsEnforcedAlways == ShownIsEnforced
<1> SUFFICES ASSUME NEW u \in Viewers, NEW i \in VisibleInstances(u) \cap exists, NEW act \in byName
             PROVE  act \in mine(u).instances[i] <=> Can(u, role[u], act, i)
  BY DEF ShownIsEnforced
<1>1. mine(u).instances[i] = Allowed(u, i)
  BY DEF mine
<1>2. CASE role[u] = "admin"
  BY <1>1, <1>2 DEF Allowed, Can
<1>3. CASE role[u] # "admin"
  <2>1. role[u] = "member" /\ HasGrant(u, i)
    BY <1>3 DEF VisibleInstances
  <2> QED BY <1>1, <2>1, NeverGranted DEF Allowed, Can
<1> QED BY <1>2, <1>3

(* What a socket is sent its account may still see, or the call that cuts  *)
(* it off is on its way: for any number of accounts, instances, sockets    *)
(* and topics, whatever logout, demotion, revoked grant or deletion is     *)
(* announced at whatever point of an upgrade or a subscribe (ws: serve,    *)
(* recheck, subscribe); and the permissions shown are those enforced.      *)
THEOREM PermissionsAreHonoured == HubSpec => []PermissionsHonoured
<1>1. HubInit => HubInv
  <2> SUFFICES ASSUME HubInit PROVE HubInv
    OBVIOUS
  <2>1. NoGrant \in Grant
    BY DEF NoGrant, Grant
  <2>2. HubOk
    BY <2>1 DEF HubInit, HubOk
  <2>3. VisitOk
    BY DEF HubInit, VisitOk
  <2>4. ASSUME NEW c \in Sockets PROVE ConnOk(c)
    BY DEF HubInit, ConnOk, SockOk, AllowedOk, SubsOk, SessionOk, Open, Serving, NoSocket
  <2> QED BY <2>2, <2>3, <2>4 DEF HubInv
<1>2. HubInv /\ [HubNext]_hubVars => HubInv'
  <2> SUFFICES ASSUME HubInv, [HubNext]_hubVars PROVE HubInv'
    OBVIOUS
  <2>1. ASSUME NEW c \in Sockets, UNCHANGED hubVars PROVE ConnOk(c)'
    <3>1. ConnOk(c) /\ socks'[c] = socks[c] /\ UNCHANGED <<grants, exists, announce, logins, visits>>
      BY <2>1 DEF HubInv, hubVars
    <3> QED BY <3>1, ConnSame
  <2>2. CASE UNCHANGED hubVars
    <3>1. HubOk' /\ VisitOk'
      BY <2>2 DEF HubInv, HubOk, VisitOk, Open, hubVars
    <3> QED BY <2>1, <2>2, <3>1 DEF HubInv
  <2>3. CASE HubNext
    <3>1. ASSUME NEW a \in announce, Announce(a) PROVE HubInv'
      BY <3>1, AnnounceStep
    <3>2. ASSUME NEW v \in visits, VisitClose(v) \/ VisitRecheck(v) \/ VisitAsk(v) \/ VisitDropInstance(v)
          PROVE  HubInv'
      BY <3>2, CloseStep, RecheckStep, AskStep, DropInstanceStep
    <3>3. ASSUME NEW c \in Sockets,
                 \/ \E u \in Viewers, n \in 1..MaxLogins : Upgrade(c, u, n)
                 \/ AddConn(c) \/ Serve(c) \/ CloseConn(c) \/ RemoveConn(c)
          PROVE  HubInv'
      BY <3>3, LifeSteps
    <3>4. ASSUME NEW c \in Sockets, socks[c].state \in {"serving", "closed"},
                 \/ \E t \in AllTopics : SubscribeAsk(c, t) \/ Unsubscribe(c, t)
                 \/ SubscribeAuthorize(c) \/ SubscribeRegister(c) \/ SubscribeRecheck(c)
          PROVE  HubInv'
      BY <3>4, SubscribeSteps
    <3> QED BY <2>3, <3>1, <3>2, <3>3, <3>4, Handlers DEF HubNext
  <2> QED BY <2>2, <2>3
<1>3. HubInv => PermissionsHonoured
  <2>1. HubInv => NoOrphanSocket
    BY DEF HubInv, ConnOk, SessionOk, NoOrphanSocket, Serving
  <2>2. HubInv => SubscriptionsAuthorized
    BY DEF HubInv, ConnOk, SubsOk, SubscriptionsAuthorized, Serving, Allows, Pending, Asking, Noticed
  <2> QED BY <2>1, <2>2, ShownIsEnforcedAlways DEF PermissionsHonoured
<1> QED BY <1>1, <1>2, <1>3, PTL DEF HubSpec

-----------------------------------------------------------------------------
(* One connection's outbound side.                                         *)

Intervals == {L \in SUBSET Nat : \E a \in Nat \ {0}, b \in Nat : a <= b /\ L = a..b}
Frames == {[kind |-> "ack"], [kind |-> "state"]} \cup [kind : {"replay"}, lines : Intervals]

\* Up to the last line written the client knows of every line.
Accounted ==
  /\ client.from = 0 => client.shown = {}
  /\ client.from # 0 =>
       /\ lastWritten # 0
       /\ \A k \in client.from..lastWritten : k \in client.shown \cup client.gaps

StreamInv ==
  /\ line \in Nat /\ lastWritten \in Nat
  /\ lossy \in Seq(Nat \ {0}) /\ lossless \in Seq(Frames)
  /\ sub \in [at : {"none", "registered", "acked", "open"}, replay : SUBSET Nat]
  /\ sub.at = "acked" => sub.replay \in Intervals
  /\ client \in [from : Nat, shown : SUBSET Nat, gaps : SUBSET Nat]
  /\ Accounted /\ NoSilentLoss

\* The ring of the newest lines has no hole.
LEMMA RingIsInterval ==
  ASSUME line \in Nat, RingLines # {}
  PROVE  RingLines \in Intervals
<1> DEFINE a == IF line >= RingSize THEN (line - RingSize) + 1 ELSE 1
<1>0. RingSize \in Nat \ {0}
  BY WsStreamAssumption
<1>1. a \in Nat \ {0}
  BY <1>0
<1>2. RingLines = a..line
  BY <1>0 DEF RingLines
<1>3. a <= line /\ a..line \subseteq Nat
  BY <1>1, <1>2
<1> HIDE DEF a
<1> QED BY <1>1, <1>2, <1>3 DEF Intervals

\* The first and the last line of a replay bound it.
LEMMA ReplayBounds ==
  ASSUME NEW L \in Intervals
  PROVE  /\ Min(L) \in Nat \ {0} /\ Max(L) \in Nat \ {0} /\ L \subseteq Nat
         /\ L = Min(L)..Max(L)
<1>1. PICK a \in Nat \ {0}, b \in Nat : a <= b /\ L = a..b
  BY DEF Intervals
<1>2. a \in L /\ b \in L /\ \A y \in L : a <= y /\ y <= b
  BY <1>1
<1>3. Min(L) = a
  BY <1>1, <1>2 DEF Min
<1>4. Max(L) = b
  BY <1>1, <1>2 DEF Max
<1> QED BY <1>1, <1>2, <1>3, <1>4

\* Every step of the hub, the pump and the browser keeps the account of the frames.
LEMMA StreamStep == StreamInv /\ [StreamNext]_streamVars => StreamInv'
<1> SUFFICES ASSUME StreamInv, [StreamNext]_streamVars PROVE StreamInv'
  OBVIOUS
<1>a. ASSUME NEW f \in Frames, pushLossless(f) PROVE lossless' \in Seq(Frames)
  <2>1. lossless \in Seq(Frames)
    BY DEF StreamInv
  <2>2. Append(lossless, f) \in Seq(Frames)
    BY <2>1, AppendProperties
  <2> QED BY <1>a, <2>1, <2>2 DEF pushLossless
<1>b. ASSUME UNCHANGED <<client, lastWritten>>
      PROVE  /\ lastWritten' \in Nat /\ client' \in [from : Nat, shown : SUBSET Nat, gaps : SUBSET Nat]
             /\ Accounted' /\ NoSilentLoss'
  BY <1>b DEF StreamInv, Accounted, NoSilentLoss
<1>c. [kind |-> "ack"] \in Frames /\ [kind |-> "state"] \in Frames
  BY DEF Frames
<1>1. CASE StreamSubscribe
  BY <1>1, <1>b DEF StreamSubscribe, StreamInv
<1>2. CASE OpenSource
  <2>1. lossless' \in Seq(Frames)
    BY <1>2, <1>a, <1>c DEF OpenSource
  <2>2. /\ sub' \in [at : {"none", "registered", "acked", "open"}, replay : SUBSET Nat]
        /\ sub'.at = "acked" => sub'.replay \in Intervals
    BY <1>2, RingIsInterval DEF OpenSource, StreamInv, RingLines
  <2> QED BY <1>2, <1>b, <2>1, <2>2 DEF OpenSource, StreamInv
<1>3. CASE QueueReplay
  <2>1. [kind |-> "replay", lines |-> sub.replay] \in Frames
    BY <1>3 DEF QueueReplay, StreamInv, Frames
  <2>2. lossless' \in Seq(Frames)
    BY <1>3, <1>a, <2>1 DEF QueueReplay
  <2> QED BY <1>3, <1>b, <2>2 DEF QueueReplay, StreamInv
<1>4. CASE StreamUnsubscribe
  BY <1>4, <1>b DEF StreamUnsubscribe, StreamInv, Unheld
<1>5. CASE Emit
  <2>1. line' \in Nat \ {0} /\ line' = line + 1
    BY <1>5 DEF Emit, StreamInv
  <2>2. ASSUME push(line + 1) PROVE lossy' \in Seq(Nat \ {0})
    <3>1. lossy \in Seq(Nat \ {0}) /\ <<line + 1>> \in Seq(Nat \ {0})
      BY <2>1 DEF StreamInv
    <3>2. ~(Len(lossy) < QueueDepth) => Tail(lossy) \in Seq(Nat \ {0})
      BY <3>1, WsStreamAssumption
    <3>3. PICK rest \in Seq(Nat \ {0}) : lossy' = rest \o <<line + 1>> \/ lossy' = lossy
      BY <2>2, <3>1, <3>2 DEF push
    <3>4. rest \o <<line + 1>> \in Seq(Nat \ {0})
      BY <3>1, ConcatProperties
    <3> QED BY <3>1, <3>3, <3>4
  <2>3. lossy' \in Seq(Nat \ {0})
    BY <1>5, <2>2 DEF Emit, StreamInv
  <2> QED BY <1>5, <1>b, <2>1, <2>3 DEF Emit, StreamInv
<1>6. CASE PublishState
  <2>1. lossless' \in Seq(Frames)
    BY <1>6, <1>a, <1>c DEF PublishState
  <2> QED BY <1>6, <1>b, <2>1 DEF PublishState, StreamInv
<1>7. CASE AwaitFrame
  BY <1>7, <1>b DEF AwaitFrame, StreamInv
<1>8. CASE WriteLossless
  <2> DEFINE f == Head(lossless)
  <2>1. lossless' \in Seq(Frames) /\ f \in Frames
    BY <1>8 DEF WriteLossless, StreamInv
  <2>2. UNCHANGED <<line, sub, lossy>>
    BY <1>8 DEF WriteLossless
  <2>3. CASE client' = NewView /\ UNCHANGED lastWritten
    BY <2>1, <2>2, <2>3 DEF NewView, StreamInv, Accounted, NoSilentLoss
  <2>4. CASE f.kind = "replay" /\ WriteReplay(f)
    <3>1. f.lines \in Intervals
      BY <2>1, <2>4 DEF Frames
    <3>2. PICK L \in Intervals : L = f.lines
      BY <3>1
    <3>3. client' = [from |-> Min(L), shown |-> L, gaps |-> {}] /\ lastWritten' = Max(L)
      BY <2>4, <3>2 DEF WriteReplay
    <3>4. /\ Min(L) \in Nat \ {0} /\ Max(L) \in Nat \ {0} /\ L \subseteq Nat
          /\ L = Min(L)..Max(L)
      BY ReplayBounds
    <3>5. PICK a \in Nat \ {0}, b \in Nat \ {0} : a = Min(L) /\ b = Max(L)
      BY <3>4
    <3>6. client'.from = a /\ client'.shown = a..b /\ client'.gaps = {} /\ lastWritten' = b
      BY <3>3, <3>4, <3>5
    <3>7. client' \in [from : Nat, shown : SUBSET Nat, gaps : SUBSET Nat]
      BY <3>3, <3>4
    <3>8. Accounted' /\ NoSilentLoss'
      BY <3>5, <3>6 DEF Accounted, NoSilentLoss
    <3> QED BY <2>1, <2>2, <3>5, <3>6, <3>7, <3>8 DEF StreamInv
  <2>5. CASE UNCHANGED <<client, lastWritten>>
    BY <1>b, <2>1, <2>2, <2>5 DEF StreamInv
  <2> QED BY <1>8, <2>3, <2>4, <2>5 DEF WriteLossless
<1>9. CASE WriteLossy
  <2>1. PICK n \in Nat \ {0} : n = Head(lossy)
    BY <1>9 DEF WriteLossy, StreamInv
  <2>2. lossy' \in Seq(Nat \ {0}) /\ UNCHANGED <<line, sub, lossless>>
    BY <1>9 DEF WriteLossy, StreamInv
  <2>3. CASE UNCHANGED <<client, lastWritten>>
    BY <1>b, <2>2, <2>3 DEF StreamInv
  <2>4. CASE holds
    <3>1. PICK from \in Nat, shown \in SUBSET Nat, gaps \in SUBSET Nat, w \in Nat :
            client = [from |-> from, shown |-> shown, gaps |-> gaps] /\ w = lastWritten
      BY DEF StreamInv
    <3>2. /\ from = 0 => shown = {}
          /\ from # 0 => w # 0 /\ \A k \in from..w : k \in shown \cup gaps
          /\ \A b \in shown : \A k \in from..b : k \in shown \cup gaps
      BY <3>1 DEF StreamInv, Accounted, NoSilentLoss
    <3> DEFINE gap == IF w # 0 /\ n > w + 1 THEN (w + 1)..(n - 1) ELSE {}
               first == IF from = 0 THEN n ELSE from
    <3>3. gapBefore(n) = gap
      BY <3>1 DEF gapBefore
    <3>4. client' = [from |-> first, shown |-> shown \cup {n}, gaps |-> gaps \cup gap] /\ lastWritten' = n
      BY <1>9, <2>1, <2>4, <3>1, <3>3 DEF WriteLossy
    <3>5. gap \subseteq Nat /\ first \in Nat \ {0}
      BY <3>1
    <3>6. \A k \in first..n : k \in (shown \cup {n}) \cup (gaps \cup gap)
      <4> SUFFICES ASSUME NEW k \in first..n, k # n PROVE k \in shown \cup gaps \cup gap
        OBVIOUS
      <4>1. k \in Nat /\ first <= k /\ k < n
        BY <3>5
      <4>2. from # 0 /\ from <= k
        BY <4>1
      <4>3. CASE k <= w
        BY <3>2, <4>1, <4>2, <4>3
      <4>4. CASE k > w
        BY <3>2, <4>1, <4>2, <4>4
      <4> QED BY <3>1, <4>1, <4>3, <4>4
    <3>7. \A b \in shown : \A k \in first..b : k \in (shown \cup {n}) \cup (gaps \cup gap)
      BY <3>2
    <3> HIDE DEF gap, first
    <3>8. client' \in [from : Nat, shown : SUBSET Nat, gaps : SUBSET Nat]
      BY <3>1, <3>4, <3>5
    <3>9. /\ client'.from = first /\ client'.shown = shown \cup {n} /\ client'.gaps = gaps \cup gap
      BY <3>4
    <3>10. NoSilentLoss'
      BY <3>6, <3>7, <3>9 DEF NoSilentLoss
    <3>11. Accounted'
      BY <3>4, <3>5, <3>6, <3>9 DEF Accounted
    <3> QED BY <2>2, <3>4, <3>8, <3>10, <3>11 DEF StreamInv
  <2> QED BY <1>9, <2>3, <2>4 DEF WriteLossy
<1>10. CASE SocketFails
  BY <1>10, <1>b DEF SocketFails, StreamInv
<1>11. CASE UNCHANGED streamVars
  BY <1>11, <1>b DEF streamVars, StreamInv
<1> QED
  BY <1>1, <1>2, <1>3, <1>4, <1>5, <1>6, <1>7, <1>8, <1>9, <1>10, <1>11 DEF StreamNext

(* Nothing a console subscription loses is lost in silence: from its first *)
(* line to the newest it was sent, the client was sent every line or told  *)
(* that it missed it, for queues and rings of any size, whatever is        *)
(* dropped, and whatever an earlier subscription left in the queues (push, *)
(* writeFrame, gapBefore).                                                 *)
THEOREM NothingLostInSilence == StreamSpec => []NoSilentLoss
<1>1. StreamInit => StreamInv
  BY DEF StreamInit, StreamInv, Unheld, NewView, Accounted, NoSilentLoss
<1>2. StreamInv => NoSilentLoss
  BY DEF StreamInv
<1> QED BY <1>1, <1>2, StreamStep, PTL DEF StreamSpec

=============================================================================
