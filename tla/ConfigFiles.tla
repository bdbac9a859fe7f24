---------------------------- MODULE ConfigFiles ----------------------------
(***************************************************************************)
(* One plugin's configuration file: the panel's edits of a stopped and of  *)
(* a running server, the plugin that loads the file at startup and may     *)
(* write what it loaded back at any time and when it stops, the pending    *)
(* copy that puts the panel's values back, and the jobs that replace or    *)
(* remove the file.                                                        *)
(*                                                                         *)
(* A file is a document, a function from the settings it holds to their    *)
(* values. An edit looks at the instance's row and at its lock once, and   *)
(* then writes with no lock held.                                          *)
(***************************************************************************)
EXTENDS Naturals, FiniteSets

CONSTANTS
  Authors,      \* requests that edit the file
  Keys, Values, \* settings and what they are set to
  Default,      \* the value a plugin gives a setting it adds
  MaxSaves, MaxRuns, MaxPanelDeaths,
  Missing          \* no file, no copy, no job, no request, no promise

Documents == UNION {[S -> Values] : S \in SUBSET Keys}

Asks == {"patch", "raw", "delete"}

\* A request under way, and the job under the lock.
Requests == [at : {"lock", "read", "mark", "write", "remove", "copies"}, ask : Asks,
             running : BOOLEAN, raced : BOOLEAN, next : Documents \cup {Missing}]
Holders == [job : {"start", "stop", "backup", "apply", "uninstall"},
            at : {"claimed", "settled", "down", "drop", "done"}, raced : BOOLEAN]

ASSUME ConfigFilesAssumption ==
  /\ Default \in Values /\ Authors # {} /\ Keys # {}
  /\ {MaxSaves, MaxRuns, MaxPanelDeaths} \subseteq Nat
  /\ Missing \notin Documents \cup Requests \cup Holders

VARIABLES
  file,         \* the .cfg file
  pendingCopy,  \* its .pending copy
  plugin,       \* what the plugin loaded, Missing when the game is down
  phase,        \* the instance's row
  holder,       \* the job that holds the instance's lock
  saves,        \* the request of each author
  wanted,       \* what the panel has told its users each setting is (history)
  saved, runs, panelDeaths

configVars == <<file, pendingCopy, plugin, phase, holder, saves, wanted, saved, runs, panelDeaths>>

NoPromise == [k \in Keys |-> Missing]

ConfigInit ==
  /\ file \in {[k \in Keys |-> Default], Missing}
  /\ pendingCopy = Missing /\ plugin = Missing
  /\ phase = "stopped" /\ holder = Missing
  /\ saves = [a \in Authors |-> Missing]
  /\ wanted = NoPromise
  /\ saved = 0 /\ runs = 0 /\ panelDeaths = 0

-----------------------------------------------------------------------------
(* Documents *)

\* The values of over for the settings base has.
Overlay(base, over) ==
  [k \in DOMAIN base |-> IF k \in DOMAIN over THEN over[k] ELSE base[k]]

\* Every setting of over, in place or added.
Merge(base, over) ==
  IF base = Missing THEN over
  ELSE [k \in DOMAIN over \union DOMAIN base |-> IF k \in DOMAIN over THEN over[k] ELSE base[k]]

\* A change of a setting the document lacks is refused.
Apply(doc, k, v) == [doc EXCEPT ![k] = v]

\* What is still promised once the file holds doc.
Kept(promise, doc) == [k \in Keys |-> IF k \in DOMAIN doc THEN promise[k] ELSE Missing]

PromiseOf(doc) == [k \in Keys |-> IF k \in DOMAIN doc THEN doc[k] ELSE Missing]

-----------------------------------------------------------------------------
(* Edits *)

InFlight == {a \in Authors : saves[a] # Missing}

\* A job claimed under a request, or a second request: neither is promised anything.
Raced == [a \in Authors |-> IF saves[a] = Missing THEN Missing ELSE [saves[a] EXCEPT !.raced = TRUE]]
Overlaps == /\ saves' = Raced
            /\ wanted' = IF InFlight = {} THEN wanted ELSE NoPromise

\* The handler reads the row: an edit wants a stopped or a running server.
mustLoadInstance(a, ask) ==
  /\ saves[a] = Missing /\ saved < MaxSaves
  /\ phase \in {"stopped", "running"}
  /\ saved' = saved + 1
  /\ saves' = [Raced EXCEPT ![a] =
       [at |-> "lock", ask |-> ask, running |-> phase = "running", raced |-> InFlight # {},
        next |-> Missing]]
  /\ wanted' = IF InFlight = {} THEN wanted ELSE NoPromise
  /\ UNCHANGED <<file, pendingCopy, plugin, phase, holder, runs, panelDeaths>>

Waits(a, stage) == saves[a] # Missing /\ saves[a].at = stage

Refuse(a) == saves' = [saves EXCEPT ![a] = Missing]

\* Then the lock, once.
configEditable(a) ==
  /\ Waits(a, "lock")
  /\ IF holder = Missing THEN saves' = [saves EXCEPT ![a].at = "read"] ELSE Refuse(a)
  /\ UNCHANGED <<file, pendingCopy, plugin, phase, holder, wanted, saved, runs, panelDeaths>>

\* The file as it is now; one that is not there is not found. A patch changes one setting
\* of it, a raw write whose tag still matches replaces it.
readConfigFile(a, doc) ==
  /\ Waits(a, "read")
  /\ file # Missing
  /\ \/ /\ saves[a].ask = "patch"
        /\ \E k \in DOMAIN file, v \in Values : doc = Apply(file, k, v)
     \/ saves[a].ask = "raw" /\ doc # Missing
     \/ saves[a].ask = "delete" /\ doc = Missing
  /\ saves' = [saves EXCEPT ![a].at = IF saves[a].ask = "delete" THEN "remove" ELSE "mark",
                            ![a].next = doc]
  /\ UNCHANGED <<file, pendingCopy, plugin, phase, holder, wanted, saved, runs, panelDeaths>>

NotFound(a) ==
  /\ Waits(a, "read") /\ file = Missing
  /\ Refuse(a)
  /\ UNCHANGED <<file, pendingCopy, plugin, phase, holder, wanted, saved, runs, panelDeaths>>

\* Of a server that ran when the handler looked, the edit is kept beside the file. Nothing
\* after this asks whether it ran.
markPending(a) ==
  /\ Waits(a, "mark")
  /\ pendingCopy' = IF saves[a].running THEN saves[a].next ELSE Missing
  /\ saves' = [saves EXCEPT ![a].at = "write", ![a].running = FALSE]
  /\ UNCHANGED <<file, plugin, phase, holder, wanted, saved, runs, panelDeaths>>

saveConfig(a) ==
  /\ Waits(a, "write")
  /\ file' = saves[a].next
  /\ wanted' = IF saves[a].raced THEN NoPromise ELSE PromiseOf(saves[a].next)
  /\ Refuse(a)
  /\ UNCHANGED <<pendingCopy, plugin, phase, holder, saved, runs, panelDeaths>>

\* The live file goes first, its copies after.
deleteConfig(a) ==
  /\ Waits(a, "remove")
  /\ file' = Missing
  /\ wanted' = NoPromise
  /\ saves' = [saves EXCEPT ![a].at = "copies"]
  /\ UNCHANGED <<pendingCopy, plugin, phase, holder, saved, runs, panelDeaths>>

removeConfigCopies(a) ==
  /\ Waits(a, "copies")
  /\ pendingCopy' = Missing
  /\ Refuse(a)
  /\ UNCHANGED <<file, plugin, phase, holder, wanted, saved, runs, panelDeaths>>

-----------------------------------------------------------------------------
(* The jobs that start and stop the server *)

Held(job, stage) == holder # Missing /\ holder.job = job /\ holder.at = stage

ClaimFrom(job, from, to) ==
  /\ holder = Missing /\ phase = from
  /\ holder' = [job |-> job, at |-> "claimed", raced |-> InFlight # {}]
  /\ phase' = to
  /\ Overlaps

BeginJob(job) ==
  /\ \/ job = "start" /\ runs < MaxRuns /\ ClaimFrom(job, "stopped", "starting")
     \/ job \in {"stop", "backup"} /\ ClaimFrom(job, "running", "stopping")
     \/ job \in {"apply", "uninstall"} /\ saved < MaxSaves /\ ClaimFrom(job, "stopped", "stopped")
  /\ saved' = IF job \in {"apply", "uninstall"} THEN saved + 1 ELSE saved
  /\ UNCHANGED <<file, pendingCopy, plugin, runs, panelDeaths>>

\* The pending copy's values over the file, or the copy itself where the plugin left no file.
Settled ==
  IF pendingCopy = Missing THEN file
  ELSE IF file = Missing THEN pendingCopy ELSE Overlay(file, pendingCopy)

SettlePending ==
  /\ file' = Settled
  /\ pendingCopy' = Missing
  /\ wanted' = IF Settled = Missing THEN NoPromise ELSE Kept(wanted, Settled)

\* A wrong version: the start trusts the stop to have settled.
StartUnsettled ==
  /\ Held("start", "claimed")
  /\ holder' = [holder EXCEPT !.at = "settled"]
  /\ UNCHANGED <<file, pendingCopy, plugin, phase, saves, wanted, saved, runs, panelDeaths>>

\* Before the container starts.
SettleAtStart ==
  /\ Held("start", "claimed")
  /\ SettlePending
  /\ holder' = [holder EXCEPT !.at = "settled"]
  /\ UNCHANGED <<plugin, phase, saves, saved, runs, panelDeaths>>

\* The plugin loads the settings it knows, those the file lacks with their defaults.
Load(known) ==
  [k \in known |-> IF file # Missing /\ k \in DOMAIN file THEN file[k] ELSE Default]

StartGame(known) ==
  /\ Held("start", "settled")
  /\ plugin' = Load(known)
  /\ wanted' = Kept(wanted, Load(known))
  /\ runs' = runs + 1
  /\ holder' = [holder EXCEPT !.at = "done"]
  /\ UNCHANGED <<file, pendingCopy, phase, saves, saved, panelDeaths>>

\* The plugin may write what it loaded back as it goes down.
GoesDown(writes) ==
  /\ plugin' = Missing
  /\ file' = IF writes THEN plugin ELSE file

stopContainer(writes) ==
  /\ Held("stop", "claimed") \/ Held("backup", "claimed")
  /\ IF plugin = Missing THEN UNCHANGED <<plugin, file>> ELSE GoesDown(writes)
  /\ holder' = [holder EXCEPT !.at = IF holder.job = "stop" THEN "down" ELSE "done"]
  /\ UNCHANGED <<pendingCopy, phase, saves, wanted, saved, runs, panelDeaths>>

\* A stop settles as well; the stop of a quiesced backup leaves that to the start it is owed.
SettleAtStop ==
  /\ Held("stop", "down")
  /\ SettlePending
  /\ holder' = [holder EXCEPT !.at = "done"]
  /\ UNCHANGED <<plugin, phase, saves, saved, runs, panelDeaths>>

FinishJob ==
  /\ holder # Missing /\ holder.at = "done"
  /\ holder' = Missing
  /\ phase' = IF holder.job = "start" THEN "running" ELSE "stopped"
  /\ UNCHANGED <<file, pendingCopy, plugin, saves, wanted, saved, runs, panelDeaths>>

-----------------------------------------------------------------------------
(* The jobs that replace or remove the file *)

\* The configuration of an imported definition, over the file on disk or in its place.
ApplyManifestConfigs(doc, merge) ==
  /\ Held("apply", "claimed")
  /\ file' = IF merge THEN Merge(file, doc) ELSE doc
  /\ wanted' = NoPromise
  /\ holder' = [holder EXCEPT !.at = "drop"]
  /\ UNCHANGED <<pendingCopy, plugin, phase, saves, saved, runs, panelDeaths>>

\* An older edit must not come back over what the job wrote.
DropPending ==
  /\ Held("apply", "drop")
  /\ pendingCopy' = Missing
  /\ wanted' = IF holder.raced THEN NoPromise ELSE PromiseOf(file)
  /\ holder' = [holder EXCEPT !.at = "done"]
  /\ UNCHANGED <<file, plugin, phase, saves, saved, runs, panelDeaths>>

\* An uninstall that takes the mod's configuration takes the file and every copy.
configPaths ==
  /\ Held("uninstall", "claimed")
  /\ file' = Missing /\ pendingCopy' = Missing
  /\ wanted' = NoPromise
  /\ holder' = [holder EXCEPT !.at = "done"]
  /\ UNCHANGED <<plugin, phase, saves, saved, runs, panelDeaths>>

-----------------------------------------------------------------------------
(* The game, and the panel's deaths *)

PluginSaves ==
  /\ plugin # Missing /\ file # plugin
  /\ file' = plugin
  /\ UNCHANGED <<pendingCopy, plugin, phase, holder, saves, wanted, saved, runs, panelDeaths>>

\* The game goes down by itself; the row follows when the observer sees it.
GameExits(writes) ==
  /\ plugin # Missing
  /\ GoesDown(writes)
  /\ UNCHANGED <<pendingCopy, phase, holder, saves, wanted, saved, runs, panelDeaths>>

ObserveExit ==
  /\ plugin = Missing /\ phase = "running" /\ holder = Missing
  /\ phase' = "stopped"
  /\ UNCHANGED <<file, pendingCopy, plugin, holder, saves, wanted, saved, runs, panelDeaths>>

\* Requests and jobs are gone, wherever they were; the row is made to agree with the container.
PanelDies ==
  /\ panelDeaths < MaxPanelDeaths
  /\ panelDeaths' = panelDeaths + 1
  /\ saves' = [a \in Authors |-> Missing] /\ holder' = Missing
  /\ phase' = IF plugin = Missing THEN "stopped" ELSE "running"
  /\ wanted' = IF InFlight = {} THEN wanted ELSE NoPromise
  /\ UNCHANGED <<file, pendingCopy, plugin, saved, runs>>

-----------------------------------------------------------------------------
ConfigNext ==
  \/ \E a \in Authors : \/ \E ask \in Asks : mustLoadInstance(a, ask)
                        \/ configEditable(a) \/ NotFound(a) \/ markPending(a)
                        \/ \E doc \in Documents \cup {Missing} : readConfigFile(a, doc)
                        \/ saveConfig(a) \/ deleteConfig(a) \/ removeConfigCopies(a)
  \/ \E job \in {"start", "stop", "backup", "apply", "uninstall"} : BeginJob(job)
  \/ SettleAtStart \/ SettleAtStop \/ FinishJob
  \/ \E known \in SUBSET Keys : StartGame(known)
  \/ \E writes \in BOOLEAN : stopContainer(writes) \/ GameExits(writes)
  \/ \E doc \in Documents, merge \in BOOLEAN : ApplyManifestConfigs(doc, merge)
  \/ DropPending \/ configPaths
  \/ PluginSaves \/ ObserveExit \/ PanelDies

ConfigSpec == ConfigInit /\ [][ConfigNext]_configVars

-----------------------------------------------------------------------------
(***************************************************************************)
(* "If a mod writes its old settings back when the server stops, Valmin    *)
(* puts your saved values back before the next start" (docs/usage.md:834): *)
(* the file a game loads holds, for every setting it still has, the value  *)
(* last saved or imported. It takes the pending copy, the settling of      *)
(* every stop and of every start, and each writer that drops the copy.     *)
(* Nothing is promised of a save that a job or another save overlaps: it   *)
(* writes by a row it read before.                                         *)
(***************************************************************************)
SavedReachesStart ==
  [][(plugin = Missing /\ plugin' # Missing /\ file # Missing) =>
       \A k \in DOMAIN file : wanted[k] \in {Missing, file[k]}]_configVars
=============================================================================
