------------------------------- MODULE WsHub -------------------------------
(***************************************************************************)
(* Who may see what: the one authorization function (internal/authz), the  *)
(* grants it reads (internal/api/grants.go, internal/store/users.go) and   *)
(* the WebSocket hub (internal/ws), whose connections and subscriptions    *)
(* outlive the check that admitted them.  A handler commits its change     *)
(* first and then tells the hub; the hub copies its connections under its  *)
(* lock and visits them one by one without it, while each connection's     *)
(* read loop subscribes and authorizes on its own.                         *)
(***************************************************************************)
EXTENDS Naturals, FiniteSets

CONSTANTS
  Viewers,         \* accounts
  Servers,         \* instances
  Sockets,         \* connections the hub may hold at once
  Topics,          \* the topic kinds a client subscribes to (subset of TopicKinds)
  PermSets,        \* the extra capabilities an administrator may store in a grant
  MaxLogins,       \* sessions an account may open (bound)
  MaxRevisions     \* writes of one grant (bound)

TopicKinds == {"console", "stats", "state", "job"}

ASSUME WsHubAssumption ==
  /\ IsFiniteSet(Sockets) /\ Topics \subseteq TopicKinds
  /\ MaxLogins \in Nat \ {0} /\ MaxRevisions \in Nat

VARIABLES
  role,       \* users.role; "disabled" and "deleted" stand for those columns
  logins,     \* session rows: live, expired or (absent) deleted
  opened,     \* sessions each account has opened
  grants,     \* instance_grants
  exists,     \* instances that exist
  socks,      \* the connections and what their read loop is doing
  announce,   \* handlers that have committed and not yet told the hub
  visits,     \* calls of the hub on one connection still to be made
  hubClosed   \* Hub.closed

hubVars == <<role, logins, opened, grants, exists, socks, announce, visits, hubClosed>>

----------------------------------------------------------------------------
(* The action vocabulary (authz/action.go).                                *)

viewerActions == {"instance.view", "console.read", "stats.read", "backups.list",
                  "mods.list", "config.read"}
operatorExtra == {"instance.start", "instance.stop", "instance.restart", "backups.create",
                  "backups.download", "players.manage", "commands.send"}
grantableExtras == {"mods.manage", "config.edit", "config.raw", "backups.restore",
                    "world.import", "instance.settings", "notifications.manage"}
neverGrantable == {"instance.create", "instance.delete", "instance.clone", "instance.adopt",
                   "instance.limits", "instance.extra_args", "instance.image",
                   "instance.update", "setups.manage", "world.tools",
                   "commands.unrestricted", "users.manage", "invites.manage",
                   "grants.manage", "schedules.global", "panel.settings", "audit.read"}
byName == viewerActions \cup operatorExtra \cup grantableExtras \cup neverGrantable

roleActions(r) == viewerActions \cup (IF r = "operator" THEN operatorExtra ELSE {})

NoGrant == [role |-> "none", perms |-> {}, rev |-> 0]

(* granted: the base set of the role, the stored names that are grantable, *)
(* and config.edit wherever config.raw is held.                            *)
granted(g) ==
  LET held == roleActions(g.role) \cup ((g.perms \cap byName) \ neverGrantable)
  IN held \cup (IF "config.raw" \in held THEN {"config.edit"} ELSE {})

GrantFor(u, i) == grants[u][i]
HasGrant(u, i) == GrantFor(u, i).role # "none"

(* decide, for an account whose role was read as r; i = "" is no instance. *)
Can(u, r, act, i) ==
  \/ r = "admin"
  \/ /\ r = "member" /\ act \notin neverGrantable
     /\ i # "" /\ HasGrant(u, i) /\ act \in granted(GrantFor(u, i))

(* What GET /me/permissions lists for the account (Allowed).               *)
Allowed(u, i) ==
  IF role[u] = "admin" THEN byName
  ELSE IF role[u] # "member" \/ i = "" \/ ~HasGrant(u, i) THEN {}
  ELSE granted(GrantFor(u, i))

VisibleInstances(u) ==
  IF role[u] = "admin" THEN exists
  ELSE IF role[u] = "member" THEN {i \in Servers : HasGrant(u, i)}
  ELSE {}

mine(u) == [global |-> Allowed(u, ""),
            instances |-> [i \in VisibleInstances(u) |-> Allowed(u, i)]]

----------------------------------------------------------------------------
(* Topics (ws/topic.go) and connections.                                   *)

TopicAction(t) ==
  CASE t.kind = "console" -> "console.read" [] t.kind = "stats" -> "stats.read"
    [] OTHER -> "instance.view"

AllTopics == [kind : Topics, id : Servers]

(* A job's topic hangs on the job's instance; when that is gone the job is *)
(* a global one.                                                           *)
TopicInstance(t) == IF t.kind = "job" /\ t.id \notin exists THEN "" ELSE t.id

(* authorize and authorizeJob: existence first, then Can.                  *)
authorize(u, r, t) ==
  /\ t.kind = "job" \/ t.id \in exists
  /\ Can(u, r, TopicAction(t), TopicInstance(t))

Resting == [phase |-> "rest"]
NoSocket == [state |-> "none"]
Session(u, n) == <<u, n>>
LiveSession(s) == s \in DOMAIN logins
NewSocket(u, n) ==
  [state |-> "upgraded", user |-> u, role |-> role[u], session |-> Session(u, n),
   subs |-> {}, on |-> [t \in {} |-> ""], doing |-> Resting]

(* h.conns: from add to the deferred remove.                               *)
Registered == {c \in Sockets : socks[c].state \in {"added", "serving", "closed"}}

HubInit ==
  /\ role \in [Viewers -> {"admin", "member"}]
  /\ logins = [s \in {} |-> "live"]
  /\ opened = [u \in Viewers |-> 0]
  /\ grants = [u \in Viewers |-> [i \in Servers |-> NoGrant]]
  /\ exists = Servers
  /\ socks = [c \in Sockets |-> NoSocket]
  /\ announce = {} /\ visits = {} /\ hubClosed = FALSE

----------------------------------------------------------------------------
(* Handlers that change who may see what.  Each commits, then owes a call. *)

Drop(S) == logins' = [s \in DOMAIN logins \ S |-> logins[s]]
Owes(A) == announce' = announce \cup A

OpenLogin(u) ==
  /\ role[u] \in {"admin", "member"} /\ opened[u] < MaxLogins
  /\ opened' = [opened EXCEPT ![u] = @ + 1]
  /\ logins' = [s \in DOMAIN logins \cup {Session(u, opened[u] + 1)} |->
                  IF s \in DOMAIN logins THEN logins[s] ELSE "live"]
  /\ UNCHANGED <<role, grants, exists, socks, announce, visits, hubClosed>>

(* users.update and users.delete: the row and the session rows go in one   *)
(* transaction, and AnnounceUserRevoked follows it.                        *)
ChangeAccount(u, r) ==
  /\ role[u] \in {"admin", "member"} /\ r # role[u]
  /\ role' = [role EXCEPT ![u] = r]
  /\ Drop({s \in DOMAIN logins : s[1] = u})
  /\ Owes({[kind |-> "user", user |-> u]})
  /\ grants' = IF r = "deleted" THEN [grants EXCEPT ![u] = [i \in Servers |-> NoGrant]]
               ELSE grants
  /\ UNCHANGED <<opened, exists, socks, visits, hubClosed>>

(* Sessions.Logout, and ChangePassword for each session it revoked.        *)
EndSessions(S) ==
  /\ S # {} /\ S \subseteq DOMAIN logins
  /\ Drop(S)
  /\ Owes({[kind |-> "session", session |-> s] : s \in S})
  /\ UNCHANGED <<role, opened, grants, exists, socks, visits, hubClosed>>

SessionPassesExpiry(s) ==
  /\ logins[s] = "live"
  /\ logins' = [logins EXCEPT ![s] = "expired"]
  /\ UNCHANGED <<role, opened, grants, exists, socks, announce, visits, hubClosed>>

(* validateGrant: only grantable names are stored.                         *)
validPerms(p) == p \subseteq byName \ neverGrantable

(* checkGrantCondition: a create finds no row, a replacement finds the row *)
(* it read (its ETag).                                                     *)
grantCondition(u, i, seen) == GrantFor(u, i).rev = seen

checkGrantTargets(u, i) == i \in exists /\ role[u] # "deleted"

writeGrant(u, i, r, p, seen) ==
  /\ checkGrantTargets(u, i) /\ grantCondition(u, i, seen) /\ seen < MaxRevisions
  /\ grants' = [grants EXCEPT ![u][i] = [role |-> r, perms |-> p, rev |-> seen + 1]]

removeGrant(u, i, seen) ==
  /\ HasGrant(u, i) /\ grantCondition(u, i, seen)
  /\ grants' = [grants EXCEPT ![u][i] = [NoGrant EXCEPT !.rev = seen]]

ReplaceGrant(u, i, r, p, seen) ==
  /\ validPerms(p) /\ writeGrant(u, i, r, p, seen)
  /\ Owes({[kind |-> "grant", user |-> u, instance |-> i]})
  /\ UNCHANGED <<role, logins, opened, exists, socks, visits, hubClosed>>

DeleteGrant(u, i, seen) ==
  /\ i \in exists /\ removeGrant(u, i, seen)
  /\ Owes({[kind |-> "grant", user |-> u, instance |-> i]})
  /\ UNCHANGED <<role, logins, opened, exists, socks, visits, hubClosed>>

DeleteInstance(i) ==
  /\ i \in exists
  /\ exists' = exists \ {i}
  /\ grants' = [u \in Viewers |-> [grants[u] EXCEPT ![i] = NoGrant]]
  /\ Owes({[kind |-> "deleted", instance |-> i]})
  /\ UNCHANGED <<role, logins, opened, socks, visits, hubClosed>>

HubClose ==
  /\ ~hubClosed
  /\ hubClosed' = TRUE
  /\ Owes({[kind |-> "shutdown"]})
  /\ UNCHANGED <<role, logins, opened, grants, exists, socks, visits>>

(* snapshot: the connections registered now, each to be visited.           *)
Concerns(a, c) ==
  CASE a.kind = "user" -> socks[c].user = a.user
    [] a.kind = "session" -> socks[c].session = a.session
    [] a.kind = "grant" -> socks[c].user = a.user
    [] OTHER -> TRUE

Announce(a) ==
  /\ a \in announce
  /\ announce' = announce \ {a}
  /\ visits' = visits \cup {[call |-> a, sock |-> c] : c \in {d \in Registered : Concerns(a, d)}}
  /\ UNCHANGED <<role, logins, opened, grants, exists, socks, hubClosed>>

Closed(c) == [socks EXCEPT ![c].state = "closed"]
Unsub(c, T) == [socks EXCEPT ![c].subs = @ \ T]

(* conn.close, for SessionRevoked, UserRevoked and Hub.Close.              *)
VisitClose(v) ==
  /\ v \in visits /\ v.call.kind \in {"user", "session", "shutdown"}
  /\ visits' = visits \ {v}
  /\ socks' = IF socks[v.sock].state \in {"added", "serving"} THEN Closed(v.sock) ELSE socks
  /\ UNCHANGED <<role, logins, opened, grants, exists, announce, hubClosed>>

(* recheck: under the lock the generation moves, which a subscribe under   *)
(* way will see, and the affected subscriptions are listed; each is then   *)
(* asked about without the lock.                                           *)
Affected(c, i) == {t \in socks[c].subs : socks[c].on[t] = i}

VisitRecheck(v) ==
  /\ v \in visits /\ v.call.kind = "grant"
  /\ socks' = IF v.sock \in Registered /\ socks[v.sock].doing.phase \in {"asked", "allowed"}
              THEN [socks EXCEPT ![v.sock].doing.moved = TRUE] ELSE socks
  /\ visits' = (visits \ {v}) \cup
       (IF v.sock \in Registered
        THEN {[call |-> [kind |-> "ask", topic |-> t, instance |-> v.call.instance], sock |-> v.sock] :
                t \in Affected(v.sock, v.call.instance)}
        ELSE {})
  /\ UNCHANGED <<role, logins, opened, grants, exists, announce, hubClosed>>

VisitAsk(v) ==
  /\ v \in visits /\ v.call.kind = "ask"
  /\ visits' = visits \ {v}
  /\ socks' = IF v.sock \in Registered
                 /\ ~Can(socks[v.sock].user, socks[v.sock].role,
                         TopicAction(v.call.topic), v.call.instance)
              THEN Unsub(v.sock, {v.call.topic}) ELSE socks
  /\ UNCHANGED <<role, logins, opened, grants, exists, announce, hubClosed>>

VisitDropInstance(v) ==
  /\ v \in visits /\ v.call.kind = "deleted"
  /\ visits' = visits \ {v}
  /\ socks' = IF v.sock \in Registered
              THEN Unsub(v.sock, Affected(v.sock, v.call.instance)) ELSE socks
  /\ UNCHANGED <<role, logins, opened, grants, exists, announce, hubClosed>>

----------------------------------------------------------------------------
(* A connection.                                                           *)

(* SessionAuth and ServeHTTP: the account is read with the session, and    *)
(* the connection keeps that reading.                                      *)
Upgrade(c, u, n) ==
  /\ socks[c].state = "none"
  /\ LiveSession(Session(u, n)) /\ logins[Session(u, n)] = "live"
  /\ socks' = [socks EXCEPT ![c] = NewSocket(u, n)]
  /\ UNCHANGED <<role, logins, opened, grants, exists, announce, visits, hubClosed>>

(* add: refused once the hub is closed.                                    *)
AddConn(c) ==
  /\ socks[c].state = "upgraded"
  /\ socks' = [socks EXCEPT ![c].state = IF hubClosed THEN "closed" ELSE "added"]
  /\ UNCHANGED <<role, logins, opened, grants, exists, announce, visits, hubClosed>>

(* serve: watchExpiry's first check reads the session row after add, so a  *)
(* row deleted between the upgrade and add closes the connection here.     *)
Serve(c) ==
  /\ socks[c].state = "added"
  /\ socks' = IF LiveSession(socks[c].session) /\ logins[socks[c].session] = "live"
              THEN [socks EXCEPT ![c].state = "serving"] ELSE Closed(c)
  /\ UNCHANGED <<role, logins, opened, grants, exists, announce, visits, hubClosed>>

(* The expiry timer, a missed pong, a failed write, a client that stopped  *)
(* consuming, a newer connection over the cap of its session or account,   *)
(* or the client leaving.                                                  *)
CloseConn(c) ==
  /\ socks[c].state = "serving"
  /\ socks' = Closed(c)
  /\ UNCHANGED <<role, logins, opened, grants, exists, announce, visits, hubClosed>>

(* serve returns: unsubscribeAll, then remove.                             *)
RemoveConn(c) ==
  /\ socks[c].state = "closed" /\ socks[c].doing = Resting
  /\ socks' = [socks EXCEPT ![c] = NoSocket]
  /\ visits' = {v \in visits : v.sock # c}
  /\ UNCHANGED <<role, logins, opened, grants, exists, announce, hubClosed>>

(* subscribe: note the generation, authorize, register, and when a recheck *)
(* ran in between ask again.                                               *)
SubscribeAsk(c, t) ==
  /\ socks[c].state \in {"serving", "closed"} /\ socks[c].doing = Resting
  /\ t \notin socks[c].subs
  /\ socks' = [socks EXCEPT ![c].doing = [phase |-> "asked", topic |-> t, moved |-> FALSE]]
  /\ UNCHANGED <<role, logins, opened, grants, exists, announce, visits, hubClosed>>

SubscribeAuthorize(c) ==
  /\ socks[c].doing.phase = "asked"
  /\ LET d == socks[c].doing IN
     socks' = [socks EXCEPT ![c].doing =
                 IF authorize(socks[c].user, socks[c].role, d.topic)
                 THEN [phase |-> "allowed", topic |-> d.topic, moved |-> d.moved,
                       instance |-> TopicInstance(d.topic)]
                 ELSE Resting]
  /\ UNCHANGED <<role, logins, opened, grants, exists, announce, visits, hubClosed>>

WithTopic(f, t, i) == [x \in DOMAIN f \cup {t} |-> IF x = t THEN i ELSE f[x]]

\* A wrong version: the answer of the first look is not asked for again.
RegisterWithoutRecheck(c) ==
  /\ socks[c].doing.phase = "allowed"
  /\ LET d == socks[c].doing IN
     socks' = [socks EXCEPT ![c].subs = @ \cup {d.topic}, ![c].on = WithTopic(@, d.topic, d.instance),
                            ![c].doing = Resting]
  /\ UNCHANGED <<role, logins, opened, grants, exists, announce, visits, hubClosed>>

SubscribeRegister(c) ==
  /\ socks[c].doing.phase = "allowed"
  /\ LET d == socks[c].doing IN
     socks' = [socks EXCEPT ![c].subs = @ \cup {d.topic}, ![c].on = WithTopic(@, d.topic, d.instance),
                            ![c].doing = IF d.moved
                                         THEN [phase |-> "missed", topic |-> d.topic]
                                         ELSE Resting]
  /\ UNCHANGED <<role, logins, opened, grants, exists, announce, visits, hubClosed>>

SubscribeRecheck(c) ==
  /\ socks[c].doing.phase = "missed"
  /\ LET t == socks[c].doing.topic IN
     socks' = [socks EXCEPT ![c].subs = IF authorize(socks[c].user, socks[c].role, t)
                                        THEN @ ELSE @ \ {t},
                            ![c].doing = Resting]
  /\ UNCHANGED <<role, logins, opened, grants, exists, announce, visits, hubClosed>>

Unsubscribe(c, t) ==
  /\ socks[c].state \in {"serving", "closed"} /\ socks[c].doing = Resting /\ t \in socks[c].subs
  /\ socks' = Unsub(c, {t})
  /\ UNCHANGED <<role, logins, opened, grants, exists, announce, visits, hubClosed>>

----------------------------------------------------------------------------
HubNext ==
  \/ \E u \in Viewers :
       \/ OpenLogin(u)
       \/ \E r \in {"admin", "member", "disabled", "deleted"} : ChangeAccount(u, r)
       \/ \E i \in Servers :
            \/ \E r \in {"viewer", "operator"}, p \in PermSets, n \in 0..MaxRevisions :
                 ReplaceGrant(u, i, r, p, n)
            \/ \E n \in 0..MaxRevisions : DeleteGrant(u, i, n)
  \/ \E S \in SUBSET DOMAIN logins : EndSessions(S)
  \/ \E s \in DOMAIN logins : SessionPassesExpiry(s)
  \/ \E i \in Servers : DeleteInstance(i)
  \/ HubClose
  \/ \E a \in announce : Announce(a)
  \/ \E v \in visits : VisitClose(v) \/ VisitRecheck(v) \/ VisitAsk(v) \/ VisitDropInstance(v)
  \/ \E c \in Sockets :
       \/ \E u \in Viewers, n \in 1..MaxLogins : Upgrade(c, u, n)
       \/ AddConn(c) \/ Serve(c) \/ CloseConn(c) \/ RemoveConn(c)
       \/ \E t \in AllTopics :
            \/ socks[c].state \in {"serving", "closed"} /\ SubscribeAsk(c, t)
            \/ socks[c].state \in {"serving", "closed"} /\ Unsubscribe(c, t)
       \/ /\ socks[c].state \in {"serving", "closed"}
          /\ SubscribeAuthorize(c) \/ SubscribeRegister(c) \/ SubscribeRecheck(c)

HubSpec == HubInit /\ [][HubNext]_hubVars

----------------------------------------------------------------------------
Told(c) ==
  \/ \E a \in announce : a.kind \in {"user", "session"} /\ Concerns(a, c)
  \/ \E v \in visits : v.sock = c /\ v.call.kind \in {"user", "session", "shutdown"}

(* A connection that is being served has a session row, or somebody is on  *)
(* the way to close it: a logout, a password change, a disabled, demoted   *)
(* or deleted account reaches every socket, also the one that was between  *)
(* its upgrade and its registration when the hub was told (hub.go, serve). *)
NoOrphanSocket ==
  \A c \in Sockets : socks[c].state = "serving" => LiveSession(socks[c].session) \/ Told(c)

(* A subscription the grants no longer allow is about to be dropped: the   *)
(* grant change has still to be announced or visited, or the subscriber    *)
(* itself noticed the change and asks again (recheck, grantGen).           *)
SubscriptionsAuthorized ==
  \A c \in Sockets : socks[c].state = "serving" =>
    \A t \in socks[c].subs :
      LET i == socks[c].on[t] IN
      \/ Can(socks[c].user, socks[c].role, TopicAction(t), i)
      \/ i \notin exists
      \/ Told(c)
      \/ \E a \in announce : a.kind = "grant" /\ a.user = socks[c].user /\ a.instance = i
      \/ \E v \in visits : /\ v.sock = c
                           /\ \/ v.call.kind = "grant" /\ v.call.instance = i
                              \/ v.call.kind = "ask" /\ v.call.topic = t
      \/ socks[c].doing.phase = "missed" /\ socks[c].doing.topic = t

(* The permissions an account is shown are those the panel enforces.       *)
ShownIsEnforced ==
  \A u \in Viewers : \A i \in VisibleInstances(u) \cap exists :
    LET shown == mine(u).instances[i]
    IN \A act \in byName : act \in shown <=> Can(u, role[u], act, i)

(* What a socket is sent, its account may still see (ws/conn.go: serve;    *)
(* ws/subscribe.go), although a logout, a demotion, a revoked grant or a   *)
(* deletion is announced at any point of an upgrade or of a subscription;  *)
(* and GET /me/permissions lists what decide allows (authz.go).            *)
PermissionsHonoured == NoOrphanSocket /\ SubscriptionsAuthorized /\ ShownIsEnforced
=============================================================================
