------------------------------ MODULE Accounts ------------------------------
(***************************************************************************)
(* The accounts of the panel: the first administrator (internal/auth       *)
(* bootstrap), logins and sessions, user administration and invites        *)
(* (internal/api and internal/store).  A request that decides on what it   *)
(* read is several steps: it is admitted (session, permission, the reads   *)
(* of the handler) and later commits a transaction, and other requests may *)
(* commit in between.  A transaction of the store is one atomic step.      *)
(***************************************************************************)
EXTENDS Naturals, FiniteSets

CONSTANTS
  UserIds,      \* the ids store.NewID can return for an account
  Names,        \* usernames
  Passwords,    \* passwords
  SessionIds,   \* the ids of session rows
  InviteIds,    \* the ids of invite rows
  Requests,     \* requests the server may be handling at once
  MaxBoots,     \* how often the daemon may start (bound)
  Nobody        \* no account, session or invite

ASSUME AccountsAssumption ==
  /\ IsFiniteSet(UserIds) /\ IsFiniteSet(SessionIds) /\ IsFiniteSet(InviteIds)
  /\ Nobody \notin UserIds \cup SessionIds \cup InviteIds
  /\ MaxBoots \in Nat \ {0}

VARIABLES
  users,       \* the users table; a row is free, live or gone
  sessions,    \* the sessions table
  invites,     \* the invites table
  setupToken,  \* kv row bootstrap_state: the boot whose token is accepted, 0 none
  gate,        \* middleware.BootstrapGate: setup still pending, as this process knows
  boots,       \* starts of the daemon so far
  reqs         \* requests between their admission and their transaction

accountsVars == <<users, sessions, invites, setupToken, gate, boots, reqs>>

Roles == {"admin", "member"}
NoRow == [status |-> "free", name |-> Nobody, role |-> "member", disabled |-> FALSE,
          owner |-> FALSE, pw |-> Nobody, weak |-> FALSE, via |-> Nobody]
NoSession == [status |-> "free", user |-> Nobody]
NoInvite == [status |-> "free", by |-> Nobody, revoked |-> FALSE, redeemedBy |-> Nobody]
Idle == [op |-> "idle"]

AccountsInit ==
  /\ users = [u \in UserIds |-> NoRow]
  /\ sessions = [s \in SessionIds |-> NoSession]
  /\ invites = [i \in InviteIds |-> NoInvite]
  /\ setupToken = 1 /\ gate = TRUE /\ boots = 1
  /\ reqs = [r \in Requests |-> Idle]

LiveUser(u) == users[u].status = "live"
CountUsers == Cardinality({u \in UserIds : LiveUser(u)})
UserForLogin(name) == {u \in UserIds : LiveUser(u) /\ users[u].name = name}
(* store.NewID: an id no row ever had; which one makes no difference.      *)
FreeUsers ==
  LET free == {u \in UserIds : users[u].status = "free"} IN
  IF free = {} THEN {} ELSE {CHOOSE u \in free : TRUE}
UsernameTaken(name) == UserForLogin(name) # {}

(* SessionAndUser: the row is found while it is unexpired.                 *)
SessionAndUser(s) == sessions[s].status = "live"

(* Authenticate: a session row that exists, of an account not disabled.    *)
Authenticate(s) == SessionAndUser(s) /\ ~users[sessions[s].user].disabled

(* Can(UsersManage), Can(InvitesManage): never grantable, admins only.     *)
CanManage(s) == Authenticate(s) /\ users[sessions[s].user].role = "admin"

Admit(r, rec) == reqs[r] = Idle /\ reqs' = [reqs EXCEPT ![r] = rec]
Answer(r) == reqs' = [reqs EXCEPT ![r] = Idle]

----------------------------------------------------------------------------
(* Operations of the store.                                                *)

NewUser(name, role, owner, pw, via) ==
  [status |-> "live", name |-> name, role |-> role, disabled |-> FALSE,
   owner |-> owner, pw |-> pw, weak |-> FALSE, via |-> via]

createUser(u, name, role, pw, via) ==
  /\ ~UsernameTaken(name)
  /\ users' = [users EXCEPT ![u] = NewUser(name, role, FALSE, pw, via)]

(* The count is read again inside the transaction, so that of two setups   *)
(* that both passed the first check one finds the panel claimed.           *)
CreateFirstAdmin(u, name, pw) ==
  /\ CountUsers = 0
  /\ users' = [users EXCEPT ![u] = NewUser(name, "admin", TRUE, pw, Nobody)]

DropSessions(S) ==
  sessions' = [s \in SessionIds |-> IF s \in S THEN NoSession ELSE sessions[s]]

SessionsOf(u) == {s \in SessionIds : sessions[s].status = "live" /\ sessions[s].user = u}

(* UpdateUserAudited: the owner is never demoted or disabled.              *)
UpdateUserAudited(u, role, disabled, revokeSessions) ==
  /\ LiveUser(u)
  /\ ~(users[u].owner /\ (role # "admin" \/ disabled))
  /\ users' = [users EXCEPT ![u].role = role, ![u].disabled = disabled]
  /\ DropSessions(IF revokeSessions THEN SessionsOf(u) ELSE {})

(* SetUserPasswordKeepingSession: only the owner sets the owner's password.*)
SetUserPasswordKeepingSession(u, pw, keep, actor) ==
  /\ LiveUser(u)
  /\ ~(users[u].owner /\ actor # u)
  /\ users' = [users EXCEPT ![u].pw = pw, ![u].weak = FALSE]
  /\ DropSessions(SessionsOf(u) \ {keep})

(* Foreign keys: an account's sessions and the invites it created go with  *)
(* it, and an invite it redeemed forgets by whom.                          *)
DeleteUserAudited(u) ==
  /\ LiveUser(u) /\ ~users[u].owner
  /\ users' = [users EXCEPT ![u] = [NoRow EXCEPT !.status = "gone", !.via = users[u].via]]
  /\ DropSessions(SessionsOf(u))
  /\ invites' = [i \in InviteIds |->
       IF invites[i].by = u THEN [NoInvite EXCEPT !.status = "gone"]
       ELSE IF invites[i].redeemedBy = u THEN [invites[i] EXCEPT !.redeemedBy = Nobody]
       ELSE invites[i]]

(* A new row: its id is one no row has and no request still remembers.     *)
CreateSession(s, u) ==
  /\ LiveUser(u)                     \* user_id REFERENCES users
  /\ sessions[s].status = "free"
  /\ \A r \in Requests : reqs[r].op = "password" => reqs[r].keep # s
  /\ sessions' = [sessions EXCEPT ![s] = [status |-> "live", user |-> u]]

(* Invite.Live without its expiry: an expiry is the "revoked" of the clock.*)
InviteLive(i) == invites[i].status = "live" /\ ~invites[i].revoked
LiveInvites == {i \in InviteIds : InviteLive(i)}

CreateInviteAudited(i, u) ==
  /\ invites[i].status = "free"
  /\ invites' = [invites EXCEPT ![i] = [status |-> "live", by |-> u,
                                        revoked |-> FALSE, redeemedBy |-> Nobody]]

(* revoked_at is stamped whatever else the row says, redeemed or not.      *)
RevokeInviteAudited(i) ==
  /\ invites[i].status \in {"live", "redeemed"} /\ ~invites[i].revoked
  /\ invites' = [invites EXCEPT ![i].revoked = TRUE]

\* A wrong version: the invite is not claimed by the update that redeems it.
RedeemLiveInvite(i, u, name, pw) ==
  /\ invites[i].status \in {"live", "redeemed"} /\ ~invites[i].revoked
  /\ createUser(u, name, "member", pw, i)
  /\ invites' = [invites EXCEPT ![i].status = "redeemed", ![i].redeemedBy = u]

(* RedeemInviteToUser: claim the invite, create the member, name it.       *)
RedeemInviteToUser(i, u, name, pw) ==
  /\ InviteLive(i)
  /\ createUser(u, name, "member", pw, i)
  /\ invites' = [invites EXCEPT ![i].status = "redeemed", ![i].redeemedBy = u]

----------------------------------------------------------------------------
(* The first administrator.                                                *)

(* Bootstrap.Setup up to the hash: nobody yet, and this boot's token.      *)
SetupAdmit(r, name, pw, token) ==
  /\ CountUsers = 0 /\ setupToken # 0 /\ token = setupToken
  /\ Admit(r, [op |-> "setup", name |-> name, pw |-> pw])
  /\ UNCHANGED <<users, sessions, invites, setupToken, gate, boots>>

SetupCreate(r) ==
  /\ reqs[r].op = "setup"
  /\ \/ \E u \in FreeUsers :
          /\ CreateFirstAdmin(u, reqs[r].name, reqs[r].pw)
          /\ reqs' = [reqs EXCEPT ![r].op = "setup_clear"]
     \/ CountUsers # 0 /\ Answer(r) /\ UNCHANGED users
  /\ UNCHANGED <<sessions, invites, setupToken, gate, boots>>

(* The kv row is cleared and the gate opened, then the new admin logs in.  *)
(* When the kv write fails the handler answers an error and this process   *)
(* keeps its gate shut: the next start reads the users and opens it.       *)
SetupFinish(r) ==
  /\ reqs[r].op = "setup_clear"
  /\ \/ /\ setupToken' = 0 /\ gate' = FALSE
        /\ reqs' = [reqs EXCEPT ![r] = [op |-> "login", name |-> reqs[r].name, pw |-> reqs[r].pw]]
     \/ Answer(r) /\ UNCHANGED <<setupToken, gate>>
  /\ UNCHANGED <<users, sessions, invites, boots>>

(* A restart loses the requests; PrintToken mints a token while no user    *)
(* exists and the gate is read from the users table.  The stored argon2    *)
(* parameters may have been raised meanwhile: every older hash is weak.    *)
PanelRestart(raised) ==
  /\ boots < MaxBoots
  /\ users' = IF raised THEN [u \in UserIds |-> [users[u] EXCEPT !.weak = LiveUser(u)]] ELSE users
  /\ boots' = boots + 1
  /\ gate' = (CountUsers = 0)
  /\ setupToken' = IF CountUsers = 0 THEN boots + 1 ELSE setupToken
  /\ reqs' = [r \in Requests |-> Idle]
  /\ UNCHANGED <<sessions, invites>>

(* valmind admin reset: the command-line recovery of a lost password.      *)
AdminReset(u, pw) ==
  /\ LiveUser(u)
  /\ users' = [users EXCEPT ![u].pw = pw, ![u].weak = FALSE]
  /\ DropSessions(SessionsOf(u)) \/ UNCHANGED sessions   \* a failure is only logged
  /\ UNCHANGED <<invites, setupToken, gate, boots, reqs>>

----------------------------------------------------------------------------
(* Logging in and out.                                                     *)

(* Sessions.Login: the row is read once; password and disabled are judged  *)
(* on what was read.                                                       *)
Login(r, name, pw) ==
  /\ LET found == UserForLogin(name) IN
     \/ \E u \in found :
          /\ users[u].pw = pw /\ ~users[u].disabled
          /\ reqs' = [reqs EXCEPT ![r] =
                [op |-> IF users[u].weak THEN "rehash" ELSE "open", user |-> u, pw |-> pw]]
     \/ /\ \A u \in found : users[u].pw # pw \/ users[u].disabled
        /\ Answer(r)
  /\ UNCHANGED <<users, sessions, invites, setupToken, gate, boots>>

(* The login handler, behind SetupGate, and the login that ends a setup or *)
(* a redemption.                                                           *)
LoginRequest(r, name, pw) == ~gate /\ reqs[r] = Idle /\ Login(r, name, pw)
FinishLogin(r) == reqs[r].op = "login" /\ Login(r, reqs[r].name, reqs[r].pw)

(* LoginTrusted: the proxy vouches for a member; admins always type one.   *)
LoginTrusted(r, name) ==
  /\ ~gate
  /\ \E u \in UserForLogin(name) :
       /\ ~users[u].disabled /\ users[u].role # "admin"
       /\ Admit(r, [op |-> "open", user |-> u, pw |-> users[u].pw])
  /\ UNCHANGED <<users, sessions, invites, setupToken, gate, boots>>

(* rehashIfWeak stores a fresh hash of the password that was checked, over *)
(* whatever the row holds by now.                                          *)
RehashIfWeak(r) ==
  /\ reqs[r].op = "rehash"
  /\ users' = IF LiveUser(reqs[r].user)
              THEN [users EXCEPT ![reqs[r].user].pw = reqs[r].pw,
                                 ![reqs[r].user].weak = FALSE]
              ELSE users
  /\ reqs' = [reqs EXCEPT ![r].op = "open"]
  /\ UNCHANGED <<sessions, invites, setupToken, gate, boots>>

OpenSession(r) ==
  /\ reqs[r].op = "open"
  /\ \/ \E s \in SessionIds : CreateSession(s, reqs[r].user)
     \/ ~LiveUser(reqs[r].user) /\ UNCHANGED sessions
  /\ Answer(r)
  /\ UNCHANGED <<users, invites, setupToken, gate, boots>>

Logout(r, s) ==
  /\ reqs[r] = Idle /\ Authenticate(s)
  /\ DropSessions({s})
  /\ UNCHANGED <<users, invites, setupToken, gate, boots, reqs>>

(* A session past its idle or absolute expiry is no longer found.          *)
SessionExpires(s) ==
  /\ sessions[s].status = "live"
  /\ DropSessions({s})
  /\ UNCHANGED <<users, invites, setupToken, gate, boots, reqs>>

----------------------------------------------------------------------------
(* User administration.                                                    *)

(* create and resetPassword decide nothing on what they read before their  *)
(* transaction but the caller's permission: one step each.                 *)
CreateUser(s, name, role, pw) ==
  /\ CanManage(s)
  /\ \E u \in FreeUsers : createUser(u, name, role, pw, Nobody)
  /\ UNCHANGED <<sessions, invites, setupToken, gate, boots, reqs>>

ResetPassword(s, u, pw) ==
  /\ CanManage(s)
  /\ SetUserPasswordKeepingSession(u, pw, Nobody, sessions[s].user)
  /\ UNCHANGED <<invites, setupToken, gate, boots, reqs>>

(* update: the fields the body leaves out are filled in from the row read  *)
(* here, and so is the decision to end the account's sessions.             *)
UpdateUserAdmit(r, s, u, role, disabled) ==
  /\ CanManage(s) /\ LiveUser(u)
  /\ Admit(r, [op |-> "update", user |-> u, role |-> role, disabled |-> disabled,
               revoke |-> disabled \/ role # users[u].role])
  /\ UNCHANGED <<users, sessions, invites, setupToken, gate, boots>>

UpdateUser(r) ==
  /\ reqs[r].op = "update"
  /\ \/ UpdateUserAudited(reqs[r].user, reqs[r].role, reqs[r].disabled, reqs[r].revoke)
     \/ /\ \/ ~LiveUser(reqs[r].user)
           \/ users[reqs[r].user].owner /\ (reqs[r].role # "admin" \/ reqs[r].disabled)
        /\ UNCHANGED <<users, sessions>>
  /\ Answer(r)
  /\ UNCHANGED <<invites, setupToken, gate, boots>>

DeleteUserAdmit(r, s, u) ==
  /\ CanManage(s) /\ LiveUser(u)
  /\ Admit(r, [op |-> "delete", user |-> u])
  /\ UNCHANGED <<users, sessions, invites, setupToken, gate, boots>>

DeleteUser(r) ==
  /\ reqs[r].op = "delete"
  /\ \/ DeleteUserAudited(reqs[r].user)
     \/ /\ ~LiveUser(reqs[r].user) \/ users[reqs[r].user].owner
        /\ UNCHANGED <<users, sessions, invites>>
  /\ Answer(r)
  /\ UNCHANGED <<setupToken, gate, boots>>

(* changePassword checks the current password, hashes the new one, and     *)
(* then stores it, keeping the session that asked.                         *)
ChangePasswordAdmit(r, s, current, next) ==
  /\ Authenticate(s) /\ users[sessions[s].user].pw = current
  /\ Admit(r, [op |-> "password", user |-> sessions[s].user, pw |-> next, keep |-> s])
  /\ UNCHANGED <<users, sessions, invites, setupToken, gate, boots>>

ChangePassword(r) ==
  /\ reqs[r].op = "password"
  /\ LET q == reqs[r] IN
     \/ SetUserPasswordKeepingSession(q.user, q.pw, q.keep, q.user)
     \/ ~LiveUser(q.user) /\ UNCHANGED <<users, sessions>>
  /\ Answer(r)
  /\ UNCHANGED <<invites, setupToken, gate, boots>>

----------------------------------------------------------------------------
(* Invites.                                                                *)

IssueInvite(s, i) ==
  /\ CanManage(s) /\ CreateInviteAudited(i, sessions[s].user)
  /\ UNCHANGED <<users, sessions, setupToken, gate, boots, reqs>>

RevokeInvite(s, i) ==
  /\ CanManage(s) /\ RevokeInviteAudited(i)
  /\ UNCHANGED <<users, sessions, setupToken, gate, boots, reqs>>

(* Redeem: the code is matched against the live invites, then the password *)
(* is hashed, and only then is the invite claimed.                         *)
RedeemAdmit(r, i, name, pw) ==
  /\ ~gate /\ i \in LiveInvites
  /\ Admit(r, [op |-> "redeem", invite |-> i, name |-> name, pw |-> pw])
  /\ UNCHANGED <<users, sessions, invites, setupToken, gate, boots>>

Redeem(r) ==
  /\ reqs[r].op = "redeem"
  /\ LET q == reqs[r] IN
     \/ \E u \in FreeUsers :
          /\ RedeemInviteToUser(q.invite, u, q.name, q.pw)
          /\ reqs' = [reqs EXCEPT ![r] = [op |-> "login", name |-> q.name, pw |-> q.pw]]
     \/ /\ ~InviteLive(q.invite) \/ UsernameTaken(q.name)
        /\ Answer(r) /\ UNCHANGED <<users, invites>>
  /\ UNCHANGED <<sessions, setupToken, gate, boots>>

----------------------------------------------------------------------------
Begin(r) ==
  \/ \E name \in Names, pw \in Passwords :
       \/ \E t \in 1..MaxBoots : SetupAdmit(r, name, pw, t)
       \/ LoginRequest(r, name, pw)
       \/ \E i \in InviteIds : RedeemAdmit(r, i, name, pw)
  \/ \E name \in Names : LoginTrusted(r, name)
  \/ \E s \in SessionIds, u \in UserIds :
       \/ \E role \in Roles, d \in BOOLEAN : UpdateUserAdmit(r, s, u, role, d)
       \/ DeleteUserAdmit(r, s, u)
  \/ \E s \in SessionIds, a, b \in Passwords : ChangePasswordAdmit(r, s, a, b)
  \/ \E s \in SessionIds : Logout(r, s)

Proceed(r) ==
  \/ SetupCreate(r) \/ SetupFinish(r)
  \/ FinishLogin(r) \/ RehashIfWeak(r) \/ OpenSession(r)
  \/ UpdateUser(r) \/ DeleteUser(r) \/ ChangePassword(r) \/ Redeem(r)

AccountsNext ==
  \/ \E r \in Requests : Begin(r) \/ Proceed(r)
  \/ \E s \in SessionIds : SessionExpires(s)
  \/ \E s \in SessionIds, i \in InviteIds : IssueInvite(s, i) \/ RevokeInvite(s, i)
  \/ \E s \in SessionIds, pw \in Passwords :
       \/ \E name \in Names, role \in Roles : CreateUser(s, name, role, pw)
       \/ \E u \in UserIds : ResetPassword(s, u, pw)
  \/ \E u \in UserIds, pw \in Passwords : AdminReset(u, pw)
  \/ \E raised \in BOOLEAN : PanelRestart(raised)

AccountsSpec == AccountsInit /\ [][AccountsNext]_accountsVars

----------------------------------------------------------------------------
(* Once anybody has an account there is exactly one owner, and the owner   *)
(* is a live, enabled administrator: whatever setups run at once and       *)
(* whatever the other administrators submit, the panel is never left with  *)
(* nobody who can administer it (store: CreateFirstAdmin, isOwner).        *)
OwnerStands ==
  CountUsers > 0 =>
    \E u \in UserIds :
      /\ LiveUser(u) /\ users[u].role = "admin" /\ ~users[u].disabled
      /\ {v \in UserIds : users[v].owner} = {u}

(* However many people redeem one invite at once, and whoever revokes it   *)
(* meanwhile, it makes at most one account, and names it for as long as    *)
(* the account exists (store: RedeemInviteToUser).                         *)
InviteOnce ==
  \A i \in InviteIds :
    LET made == {u \in UserIds : users[u].via = i} IN
    /\ Cardinality(made) <= 1
    /\ \A u \in made : LiveUser(u) /\ invites[i].status # "gone" => invites[i].redeemedBy = u

(* The panel keeps one owner who can administer it, and one invite makes   *)
(* one account, under any interleaving of setups, redemptions, edits of    *)
(* accounts and restarts (store/users.go, store/invites.go).               *)
AccessKept == OwnerStands /\ InviteOnce
=============================================================================
