------------------------------- MODULE Outbox -------------------------------
(***************************************************************************)
(* Notifications: the conditions the alert scan finds (internal/alerts),   *)
(* the rules that announce them, the built-in events (internal/notify/     *)
(* delivery), and the outbox of delivery rows that a dispatcher turns into *)
(* send jobs.  A row is written in the transaction that owes it; a send is *)
(* a job of its own, locked by its row, that a killed panel forgets.       *)
(***************************************************************************)
EXTENDS Naturals, Sequences, FiniteSets

CONSTANTS
  Machines,       \* instances
  Hooks,          \* destinations
  Rules,          \* alert rules
  Facts,          \* the facts of an instance that may change (of FactNames)
  CrashDefault,   \* Params.Defaults: stops that make a crash loop
  MaxConditions,  \* condition rows (bound)
  MaxRows,        \* delivery rows (bound)
  MaxChanges,     \* changes of facts, destinations and rules (bound)
  MaxKills        \* kills of the panel (bound)

FactNames == {"restart", "error", "update", "stops", "failed", "unclean", "stale",
              "flagged", "stuck", "disk"}

ASSUME OutboxAssumption ==
  /\ IsFiniteSet(Hooks) /\ IsFiniteSet(Machines) /\ Facts \subseteq FactNames
  /\ MaxConditions \in Nat /\ MaxRows \in Nat /\ MaxChanges \in Nat /\ MaxKills \in Nat

VARIABLES
  facts,       \* what the snapshot of a scan would read
  conditions,  \* alert_conditions, in the order they were opened
  notified,    \* alert_notifications: claims of an edge by a rule
  hooks,       \* webhooks
  rules,       \* alert_rules with their destinations
  rows,        \* webhook_deliveries, in the order they were written
  sends,       \* the send jobs running, by the row that locks each
  listed,      \* rows a dispatcher pass has read and not yet submitted
  scan,        \* the alert scan job
  clock,       \* time of day, on a day of DayLength
  changes, kills

outboxVars == <<facts, conditions, notified, hooks, rules, rows, sends, listed, scan,
                clock, changes, kills>>

DayLength == 2
Everywhere == "none"                   \* the instance_id of a shared row
Scopes == Machines \cup {Everywhere}

Calm == [restart |-> FALSE, error |-> FALSE, installed |-> 1, stops |-> 0, failed |-> FALSE,
         unclean |-> FALSE, missed |-> 0, flagged |-> FALSE, running |-> 0]
NoHook == [live |-> FALSE, on |-> FALSE, owner |-> Everywhere, catchAll |-> FALSE, kind |-> "generic"]
NoRule == [live |-> FALSE, on |-> FALSE, kind |-> "instance_error", of |-> Everywhere,
           count |-> 0, quiet |-> <<>>, to |-> {}]
IdleScan == [at |-> "idle", todo |-> {}]

(* The panel starts with one shared destination and one rule to it.        *)
OutboxInit ==
  /\ facts = [low |-> FALSE, available |-> 1, of |-> [i \in Machines |-> Calm]]
  /\ conditions = <<>> /\ notified = {}
  /\ \E h \in Hooks, r \in Rules, q \in {<<>>, <<1, 0>>},
        kind \in {"instance_error", "job_failed"} :
       /\ hooks = [x \in Hooks |-> IF x = h
                     THEN [NoHook EXCEPT !.live = TRUE, !.on = TRUE, !.catchAll = TRUE, !.kind = "discord"]
                     ELSE NoHook]
       /\ rules = [x \in Rules |-> IF x = r
                     THEN [NoRule EXCEPT !.live = TRUE, !.on = TRUE, !.kind = kind, !.quiet = q,
                                         !.to = {h}]
                     ELSE NoRule]
  /\ rows = <<>> /\ sends = [d \in {} |-> ""] /\ listed = {} /\ scan = IdleScan
  /\ clock = 0 /\ changes = 0 /\ kills = 0

----------------------------------------------------------------------------
(* Evaluation of a snapshot (alerts/evaluate.go, alerts/rules.go).         *)

Condition(k, i) == [kind |-> k, of |-> i]

(* RuleResolver: the instance's own enabled rule before a shared one.      *)
RuleResolver(kind, i) ==
  LET fit == {r \in Rules : rules[r].live /\ rules[r].on /\ rules[r].kind = kind
                            /\ rules[r].of \in {i, Everywhere}}
      own == {r \in fit : rules[r].of = i}
      chosen == IF own # {} THEN own ELSE fit
      counts == {rules[r].count : r \in chosen} \ {0}
  IN IF counts = {} THEN CrashDefault ELSE CHOOSE n \in counts : TRUE

lowDisk(f) == IF f.low THEN {Condition("low_disk", Everywhere)} ELSE {}

updateAvailable(f, i) ==
  LET installed == f.of[i].installed IN
  IF installed > 0 /\ f.available > 0 /\ installed # f.available
  THEN {Condition("update_available", i)} ELSE {}

crashLoop(f, i) ==
  IF f.of[i].stops >= RuleResolver("crash_loop", i) THEN {Condition("crash_loop", i)} ELSE {}

perInstance(f, i) ==
  (IF f.of[i].restart THEN {Condition("restart_required", i)} ELSE {}) \cup
  (IF f.of[i].error THEN {Condition("instance_error", i)} ELSE {}) \cup
  updateAvailable(f, i) \cup crashLoop(f, i)

failedJobs(f, i) == IF f.of[i].failed THEN {Condition("job_failed", i)} ELSE {}
uncleanStops(f, i) == IF f.of[i].unclean THEN {Condition("unclean_stop", i)} ELSE {}
staleBackups(f, i) == IF f.of[i].missed >= 2 THEN {Condition("stale_backup", i)} ELSE {}
flaggedBackups(f, i) == IF f.of[i].flagged THEN {Condition("backup_attention", i)} ELSE {}
stuckJobs(f, i) == IF f.of[i].running > 1 THEN {Condition("job_stuck", i)} ELSE {}

Evaluate(f) ==
  lowDisk(f) \cup UNION {perInstance(f, i) \cup failedJobs(f, i) \cup uncleanStops(f, i)
                         \cup staleBackups(f, i) \cup flaggedBackups(f, i) \cup stuckJobs(f, i) :
                         i \in Machines}

(* Matches and Quiet: a window that starts after it ends runs over midnight.*)
Matches(r, c) == r.live /\ r.on /\ r.kind = c.kind /\ r.of \in {Everywhere, c.of}

Quiet(r) ==
  /\ r.quiet # <<>>
  /\ LET start == r.quiet[1] end == r.quiet[2] IN
     IF start <= end THEN clock >= start /\ clock < end ELSE clock >= start \/ clock < end

----------------------------------------------------------------------------
(* Rows of the store.                                                      *)

Open == {c \in 1..Len(conditions) : conditions[c].open}

(* ReconcileConditions: open what is observed and not open, resolve what   *)
(* is open and no longer observed.                                         *)
upsertCondition(seen) ==
  {o \in seen : \A c \in Open : Condition(conditions[c].kind, conditions[c].of) # o}

resolveMissing(seen) ==
  [c \in 1..Len(conditions) |->
     [conditions[c] EXCEPT !.open = @ /\ Condition(conditions[c].kind, conditions[c].of) \in seen]]

Listing(S) == CHOOSE q \in [1..Cardinality(S) -> S] : \A a, b \in DOMAIN q : q[a] = q[b] => a = b

ReconcileConditions(seen) ==
  LET fresh == Listing(upsertCondition(seen)) IN
  /\ Len(conditions) + Len(fresh) <= MaxConditions
  /\ conditions' = resolveMissing(seen) \o
       [n \in 1..Len(fresh) |-> [kind |-> fresh[n].kind, of |-> fresh[n].of, open |-> TRUE]]

Claim(c, r, e) == <<c, r, e>>

(* ResolvedUnannounced, without its horizon of two days.                   *)
ResolvedUnannounced ==
  {c \in 1..Len(conditions) :
     /\ ~conditions[c].open
     /\ \E r \in Rules : Claim(c, r, "opened") \in notified /\ Claim(c, r, "resolved") \notin notified}

EnabledWebhooks == {h \in Hooks : hooks[h].live /\ hooks[h].on}
Serves(h, i) == hooks[h].owner \in {Everywhere, i}

NewDelivery(h, what, edits) ==
  [hook |-> h, cond |-> what.cond, rule |-> what.rule, edge |-> what.edge,
   edits |-> edits, status |-> "pending", remote |-> FALSE, gone |-> FALSE]

ListPendingDeliveries ==
  {d \in 1..Len(rows) : rows[d].status = "pending" /\ ~rows[d].gone}

(* DeliveryForEvent: the row of the opening that a resolution edits.       *)
DeliveryForEvent(what, h) ==
  IF what.edge # "resolved" THEN 0
  ELSE LET ds == {d \in 1..Len(rows) : rows[d].cond = what.cond /\ rows[d].rule = what.rule
                     /\ rows[d].edge = "opened" /\ rows[d].hook = h /\ ~rows[d].gone}
       IN IF ds = {} THEN 0 ELSE CHOOSE d \in ds : \A x \in ds : d <= x

(* render and PrepareFor: a row for each enabled destination that serves   *)
(* the event's instance.                                                   *)
render(what, i, keep) ==
  LET hs == Listing({h \in EnabledWebhooks \cap keep : Serves(h, i)}) IN
  [n \in 1..Len(hs) |-> NewDelivery(hs[n], what, DeliveryForEvent(what, hs[n]))]

FinishDelivery(d, status) == rows' = [rows EXCEPT ![d].status = status]

(* Send: a row whose send already runs is left to it.                      *)
Submitted(D) ==
  [d \in DOMAIN sends \cup D |-> IF d \in DOMAIN sends THEN sends[d] ELSE "submitted"]

----------------------------------------------------------------------------
(* The alert scan.                                                         *)

ScanReconcile ==
  /\ scan.at = "idle"
  /\ ReconcileConditions(Evaluate(facts))
  /\ scan' = [scan EXCEPT !.at = "reconciled"]
  /\ UNCHANGED <<facts, notified, hooks, rules, rows, sends, listed, clock, changes, kills>>

(* DispatchAlerts reads the rules and both lists of conditions once.  A    *)
(* resolution whose kind and instance is open again is held back.          *)
Reopened(c) ==
  \E o \in Open : conditions[o].kind = conditions[c].kind /\ conditions[o].of = conditions[c].of

DispatchAlerts ==
  /\ scan.at = "reconciled"
  /\ LET edges == {[cond |-> c, edge |-> "resolved"] : c \in {x \in ResolvedUnannounced : ~Reopened(x)}}
                  \cup {[cond |-> c, edge |-> "opened"] : c \in Open}
     IN scan' = [at |-> "dispatch",
                 todo |-> {[cond |-> e.cond, edge |-> e.edge, rule |-> r, row |-> rules[r]] :
                             e \in edges, r \in {x \in Rules : rules[x].live}}]
  /\ UNCHANGED <<facts, conditions, notified, hooks, rules, rows, sends, listed, clock, changes, kills>>

\* A wrong version: the claim does not look for an earlier one.
MarkNotifiedAgain(t, new) ==
  /\ notified' = notified \cup {Claim(t.cond, t.rule, t.edge)}
  /\ rows' = rows \o new
  /\ sends' = Submitted({Len(rows) + n : n \in 1..Len(new)})

(* MarkNotified: the claim and the rows are one transaction; an edge       *)
(* already claimed, a resolution of what the rule never announced, and a   *)
(* rule deleted meanwhile claim nothing.                                   *)
MarkNotified(t, new) ==
  \/ /\ Claim(t.cond, t.rule, t.edge) \notin notified /\ rules[t.rule].live
     /\ t.edge = "opened" \/ Claim(t.cond, t.rule, "opened") \in notified
     /\ notified' = notified \cup {Claim(t.cond, t.rule, t.edge)}
     /\ rows' = rows \o new
     /\ sends' = Submitted({Len(rows) + n : n \in 1..Len(new)})
  \/ /\ \/ Claim(t.cond, t.rule, t.edge) \in notified \/ ~rules[t.rule].live
        \/ t.edge = "resolved" /\ Claim(t.cond, t.rule, "opened") \notin notified
     /\ UNCHANGED <<notified, rows, sends>>

(* dispatchOne: resolutions go first; a rule in its quiet window claims    *)
(* nothing and the edge stays owed.                                        *)
dispatchOne(t) ==
  /\ scan.at = "dispatch" /\ t \in scan.todo
  /\ t.edge = "opened" => \A x \in scan.todo : x.edge = "opened"
  /\ LET c == conditions[t.cond]
         new == render(t, c.of, t.row.to)
     IN \/ /\ Matches(t.row, c) /\ ~Quiet(t.row)
           /\ Len(rows) + Len(new) <= MaxRows
           /\ MarkNotified(t, new)
        \/ ~(Matches(t.row, c) /\ ~Quiet(t.row)) /\ UNCHANGED <<notified, rows, sends>>
  /\ scan' = [scan EXCEPT !.todo = @ \ {t}]
  /\ UNCHANGED <<facts, conditions, hooks, rules, listed, clock, changes, kills>>

ScanEnds ==
  /\ scan.at = "dispatch" /\ scan.todo = {}
  /\ scan' = IdleScan
  /\ UNCHANGED <<facts, conditions, notified, hooks, rules, rows, sends, listed, clock, changes, kills>>

----------------------------------------------------------------------------
(* Built-in events go to the destinations that take everything, except     *)
(* those that a rule of their own scope will tell about the same incident. *)

Builtin == [cond |-> 0, rule |-> "none", edge |-> "event"]

ruleOwned(f, kinds) ==
  {h \in Hooks :
     \E c \in Evaluate(f) :
       /\ c.kind \in kinds
       /\ \A o \in Open : Condition(conditions[o].kind, conditions[o].of) # c
       /\ \E r \in Rules : Matches(rules[r], c) /\ h \in rules[r].to /\ hooks[h].owner = rules[r].of}

prepareExcept(f, i, kinds) ==
  render(Builtin, i, {h \in Hooks : hooks[h].catchAll} \ ruleOwned(f, kinds))

Recorded(new, sent) ==
  /\ Len(rows) + Len(new) <= MaxRows
  /\ rows' = rows \o new
  /\ sends' = IF sent THEN Submitted({Len(rows) + n : n \in 1..Len(new)}) ELSE sends

Change == changes < MaxChanges /\ changes' = changes + 1

(* The observer's report of a server down on its own, after RecordIncident.*)
NotifyUnexpectedStop(i, error) ==
  /\ Change /\ {"stops", "error"} \subseteq Facts
  /\ LET f == [facts EXCEPT !.of[i].stops = @ + 1, !.of[i].error = error] IN
     facts' = f /\ Recorded(prepareExcept(f, i, {"crash_loop", "instance_error"}), TRUE)
  /\ UNCHANGED <<conditions, notified, hooks, rules, listed, scan, clock, kills>>

(* OnJobFinished of a failed backup: the rows are in the job's own finish  *)
(* transaction and wait for the dispatcher.                                *)
OnJobFinished(i) ==
  /\ Change /\ "failed" \in Facts
  /\ LET f == [facts EXCEPT !.of[i].failed = TRUE] IN
     facts' = f /\ Recorded(prepareExcept(f, i, {"job_failed"}), FALSE)
  /\ UNCHANGED <<conditions, notified, hooks, rules, listed, scan, clock, kills>>

(* NotifyPublicBuild: a build not seen before, in the transaction that     *)
(* stores the observation.                                                 *)
NotifyPublicBuild ==
  /\ Change /\ "update" \in Facts /\ facts.available < 2
  /\ LET f == [facts EXCEPT !.available = @ + 1] IN
     facts' = f /\ Recorded(prepareExcept(f, Everywhere, {"update_available"}), FALSE)
  /\ UNCHANGED <<conditions, notified, hooks, rules, listed, scan, clock, kills>>

(* emitByRules: a lifecycle, game or power-cut event goes to the rules of  *)
(* its kind that are not quiet, once to each destination.                  *)
emitByRules(kind, i) ==
  /\ Change
  /\ LET rs == {r \in Rules : Matches(rules[r], Condition(kind, i)) /\ ~Quiet(rules[r])}
     IN rs # {} /\ Recorded(render(Builtin, i, UNION {rules[r].to : r \in rs}), TRUE)
  /\ UNCHANGED <<facts, conditions, notified, hooks, rules, listed, scan, clock, kills>>

(* Everything else that a snapshot reads.                                  *)
FactChanges(i, f) ==
  /\ Change /\ f \in Facts
  /\ LET o == facts.of[i]
         flip == [restart |-> [o EXCEPT !.restart = ~@], error |-> [o EXCEPT !.error = FALSE],
                  stops |-> [o EXCEPT !.stops = 0], failed |-> [o EXCEPT !.failed = FALSE],
                  unclean |-> [o EXCEPT !.unclean = ~@], stale |-> [o EXCEPT !.missed = (@ + 1) % 3],
                  flagged |-> [o EXCEPT !.flagged = ~@], stuck |-> [o EXCEPT !.running = (@ + 1) % 3],
                  update |-> [o EXCEPT !.installed = facts.available], disk |-> o]
     IN facts' = [facts EXCEPT !.of[i] = flip[f], !.low = IF f = "disk" THEN ~@ ELSE @]
  /\ facts' # facts
  /\ UNCHANGED <<conditions, notified, hooks, rules, rows, sends, listed, scan, clock, kills>>

(* Time is told by the quiet windows only.                                 *)
TimePasses ==
  /\ \E r \in Rules : rules[r].quiet # <<>>
  /\ clock' = (clock + 1) % DayLength
  /\ UNCHANGED <<facts, conditions, notified, hooks, rules, rows, sends, listed, scan, changes, kills>>

----------------------------------------------------------------------------
(* Destinations and rules (internal/api).  A handler acts for its scope:   *)
(* the panel, or one instance and the rows that instance owns.             *)

owns(s, owner) == s = Everywhere \/ owner = s

CreateWebhook(s, h, kind, all) ==
  /\ Change /\ ~hooks[h].live
  /\ hooks' = [hooks EXCEPT ![h] = [live |-> TRUE, on |-> TRUE, owner |-> s,
                                    catchAll |-> all, kind |-> kind]]
  /\ UNCHANGED <<facts, conditions, notified, rules, rows, sends, listed, scan, clock, kills>>

UpdateWebhook(s, h, on, all) ==
  /\ Change /\ hooks[h].live /\ owns(s, hooks[h].owner)
  /\ hooks' = [hooks EXCEPT ![h].on = on, ![h].catchAll = all]
  /\ hooks' # hooks
  /\ UNCHANGED <<facts, conditions, notified, rules, rows, sends, listed, scan, clock, kills>>

(* Its deliveries and its place in the rules go with it.                   *)
DeleteWebhook(s, h) ==
  /\ Change /\ hooks[h].live /\ owns(s, hooks[h].owner)
  /\ hooks' = [hooks EXCEPT ![h] = NoHook]
  /\ rules' = [r \in Rules |-> [rules[r] EXCEPT !.to = @ \ {h}]]
  /\ rows' = [d \in DOMAIN rows |-> [rows[d] EXCEPT !.gone = @ \/ rows[d].hook = h]]
  /\ UNCHANGED <<facts, conditions, notified, sends, listed, scan, clock, kills>>

(* test and the rule editor's test: the row and its job are one claim.     *)
TestWebhook(s, h) ==
  /\ Change /\ hooks[h].live /\ owns(s, hooks[h].owner)
  /\ Len(rows) < MaxRows
  /\ rows' = Append(rows, NewDelivery(h, Builtin, 0))
  /\ sends' = Submitted({Len(rows) + 1})
  /\ UNCHANGED <<facts, conditions, notified, hooks, rules, listed, scan, clock, kills>>

(* apply: a host-wide kind names no instance, and every destination serves *)
(* the rule's instance.                                                    *)
HostWide == {"low_disk", "power_cut"}
checkDestinations(of, to) == \A h \in to : hooks[h].live /\ Serves(h, of)
applyInstance(s, rec) == owns(s, rec.of) /\ (rec.kind \in HostWide => rec.of = Everywhere)
apply(s, rec) == applyInstance(s, rec) /\ checkDestinations(rec.of, rec.to)

(* The row and its destinations are one transaction.                       *)
SavedRule(r, rec) == rules' = [rules EXCEPT ![r] = rec]

CreateAlertRule(s, r, rec) ==
  /\ Change /\ ~rules[r].live
  /\ apply(s, rec)
  /\ SavedRule(r, rec)
  /\ UNCHANGED <<facts, conditions, notified, hooks, rows, sends, listed, scan, clock, kills>>

PatchAlertRule(s, r, rec) ==
  /\ Change /\ rules[r].live /\ owns(s, rules[r].of) /\ rec # rules[r]
  /\ apply(s, rec)
  /\ SavedRule(r, rec)
  /\ UNCHANGED <<facts, conditions, notified, hooks, rows, sends, listed, scan, clock, kills>>

(* Its claims go with it, and a rule made anew announces anew; the rows    *)
(* keep the id of the rule that is gone.                                   *)
DeleteAlertRule(s, r) ==
  /\ Change /\ rules[r].live /\ owns(s, rules[r].of)
  /\ rules' = [rules EXCEPT ![r] = NoRule]
  /\ notified' = {n \in notified : n[2] # r}
  /\ rows' = [d \in DOMAIN rows |-> IF rows[d].rule = r THEN [rows[d] EXCEPT !.cond = 0] ELSE rows[d]]
  /\ UNCHANGED <<facts, conditions, hooks, sends, listed, scan, clock, kills>>

----------------------------------------------------------------------------
(* The dispatcher and the send jobs.                                       *)

DispatchPass ==
  /\ listed = {} /\ ListPendingDeliveries # {}
  /\ listed' = ListPendingDeliveries
  /\ UNCHANGED <<facts, conditions, notified, hooks, rules, rows, sends, scan, clock, changes, kills>>

(* Send over the rows that were listed; one may have been settled since.   *)
SubmitListed(d) ==
  /\ d \in listed
  /\ listed' = listed \ {d}
  /\ sends' = Submitted({d})
  /\ UNCHANGED <<facts, conditions, notified, hooks, rules, rows, scan, clock, changes, kills>>

Released(d) == [x \in DOMAIN sends \ {d} |-> sends[x]]

\* A wrong version: the delivery of a paused destination is left as it is.
RunDeliveryLeavingPaused(d) ==
  /\ d \in DOMAIN sends /\ sends[d] = "submitted"
  /\ LET h == hooks[rows[d].hook] IN
     \/ /\ rows[d].gone \/ ~h.live \/ ~h.on
        /\ sends' = Released(d) /\ UNCHANGED rows
     \/ /\ ~rows[d].gone /\ h.live /\ h.on
        /\ \/ sends' = [sends EXCEPT ![d] = "accepted"] /\ UNCHANGED rows
           \/ FinishDelivery(d, "failed") /\ sends' = Released(d)
  /\ UNCHANGED <<facts, conditions, notified, hooks, rules, listed, scan, clock, changes, kills>>

(* RunDelivery up to the answer: a destination removed or paused fails the *)
(* row, and so does a send refused or out of attempts.                     *)
RunDelivery(d) ==
  /\ d \in DOMAIN sends /\ sends[d] = "submitted"
  /\ LET h == hooks[rows[d].hook] IN
     \/ /\ rows[d].gone \/ ~h.live \/ ~h.on
        /\ FinishDelivery(d, "failed") /\ sends' = Released(d)
     \/ /\ ~rows[d].gone /\ h.live /\ h.on
        /\ \/ sends' = [sends EXCEPT ![d] = "accepted"] /\ UNCHANGED rows
           \/ FinishDelivery(d, "failed") /\ sends' = Released(d)
  /\ UNCHANGED <<facts, conditions, notified, hooks, rules, listed, scan, clock, changes, kills>>

(* deliver after the answer: a new Discord message's id is recorded, one   *)
(* that edited its opening's message has none.                             *)
Edits(d) == hooks[rows[d].hook].kind = "discord" /\ rows[d].edits # 0 /\ rows[rows[d].edits].remote

RecordDelivered(d) ==
  /\ d \in DOMAIN sends /\ sends[d] = "accepted"
  /\ \E found \in {Edits(d), FALSE} :      \* Discord may have lost the message
       rows' = [rows EXCEPT ![d].status = "delivered",
                            ![d].remote = @ \/ (hooks[rows[d].hook].kind = "discord" /\ ~found)]
  /\ sends' = Released(d)
  /\ UNCHANGED <<facts, conditions, notified, hooks, rules, listed, scan, clock, changes, kills>>

(* The panel dies: its jobs and passes are gone, the rows are not.         *)
OutboxKill ==
  /\ kills < MaxKills
  /\ kills' = kills + 1
  /\ sends' = [d \in {} |-> ""] /\ listed' = {} /\ scan' = IdleScan
  /\ UNCHANGED <<facts, conditions, notified, hooks, rules, rows, clock, changes>>

----------------------------------------------------------------------------
EditedRules ==
  [live : {TRUE}, on : BOOLEAN, kind : {"instance_error", "server_stopped"}, of : Scopes,
   count : {1}, quiet : {<<>>}, to : {Hooks}]

Configure ==
  \E s \in Scopes :
    \/ \E h \in Hooks :
         \/ \E k \in {"discord", "generic"}, all \in BOOLEAN : CreateWebhook(s, h, k, all)
         \/ \E on, all \in BOOLEAN : UpdateWebhook(s, h, on, all)
         \/ DeleteWebhook(s, h) \/ TestWebhook(s, h)
    \/ \E r \in Rules :
         \/ \E rec \in EditedRules : CreateAlertRule(s, r, rec) \/ PatchAlertRule(s, r, rec)
         \/ DeleteAlertRule(s, r)

Happen ==
  \E i \in Machines :
    \/ \E e \in BOOLEAN : NotifyUnexpectedStop(i, e)
    \/ OnJobFinished(i) \/ emitByRules("server_stopped", i)
    \/ \E f \in Facts : FactChanges(i, f)

Work ==
  \/ ScanReconcile \/ DispatchAlerts \/ ScanEnds
  \/ \E t \in scan.todo : dispatchOne(t)
  \/ DispatchPass
  \/ \E d \in listed : SubmitListed(d)
  \/ \E d \in DOMAIN sends : RunDelivery(d) \/ RecordDelivered(d)

OutboxNext == Configure \/ Happen \/ NotifyPublicBuild \/ TimePasses \/ Work \/ OutboxKill

(* The dispatcher ticks for as long as the panel lives, and a job that the *)
(* engine admitted runs to its end.                                        *)
OutboxFairness ==
  /\ WF_outboxVars(DispatchPass)
  /\ WF_outboxVars(\E d \in listed : SubmitListed(d))
  /\ \A d \in 1..MaxRows : WF_outboxVars(RunDelivery(d) \/ RecordDelivered(d))

OutboxSpec == OutboxInit /\ [][OutboxNext]_outboxVars /\ OutboxFairness

----------------------------------------------------------------------------
(* However often a condition is scanned, and wherever the panel dies       *)
(* between a claim and its sends, a rule writes at most one delivery of    *)
(* each edge of a condition to a destination, and no resolution of what it *)
(* did not announce (store: MarkNotified; delivery: dispatchOne).          *)
EdgeOnce ==
  \A d \in 1..Len(rows) : rows[d].cond # 0 =>
    /\ \A x \in 1..Len(rows) :
         /\ rows[x].cond = rows[d].cond /\ rows[x].rule = rows[d].rule
         /\ rows[x].edge = rows[d].edge /\ rows[x].hook = rows[d].hook
         => x = d
    /\ rows[d].edge = "resolved" =>
         ~conditions[rows[d].cond].open /\ Claim(rows[d].cond, rows[d].rule, "opened") \in notified

(* No delivery is forgotten: a pending row is settled in the end, delivered*)
(* or failed, whatever send job the panel died holding and whatever became *)
(* of its destination (delivery: Dispatcher.Run, RunDelivery).             *)
DeliveriesSettle ==
  \A d \in 1..MaxRows : (d \in ListPendingDeliveries) ~> (d \notin ListPendingDeliveries)
=============================================================================
