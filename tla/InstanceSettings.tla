-------------------------- MODULE InstanceSettings --------------------------
(***************************************************************************)
(* The settings of one server and the container that runs with them (api:  *)
(* instances; store: instances; control: start).  A PATCH reads the row,   *)
(* merges, validates and writes whole groups of columns; it takes no job   *)
(* lock, so it crosses other requests and a start that is under way.       *)
(***************************************************************************)
EXTENDS Naturals, FiniteSets

CONSTANTS
  Editors,       \* PATCH requests that can be under way at the same time
  RightSets,     \* what the caller of a request may be allowed
  Edited,        \* the columns requests name (bound)
  MaxNamed,      \* columns one request names (bound)
  MaxPatches     \* requests (bound)

LaunchFields == {"server_name", "password", "limits", "extra_args"}
PolicyFields == {"keep", "on_restart"}
Columns == LaunchFields \cup PolicyFields \cup {"auto_stop", "branch", "status", "name"}

ASSUME SettingsAssumption == Edited \subseteq Columns /\ MaxNamed \in Nat /\ MaxPatches \in Nat

VARIABLES
  columns,      \* the row's settings; two values of each column
  flag,         \* restart_required
  life,         \* state of the instance
  box,          \* the launch settings the container was made with, and whether it runs
  starter,      \* the start job: none, or what it does next
  requests,        \* the PATCH requests
  rival,        \* another server holds the second name
  crossed,      \* (history) a launch setting was written after the start under way had read the row
  patches

settingsVars == <<columns, flag, life, box, starter, requests, rival, crossed, patches>>

NoEdit == [at |-> "none"]

SettingsInit ==
  /\ columns = [f \in Columns |-> 0] /\ flag = FALSE /\ life = "stopped"
  /\ box = [launch |-> [f \in LaunchFields |-> 0], up |-> FALSE]
  /\ starter = "none" /\ requests = [e \in Editors |-> NoEdit] /\ rival = FALSE /\ crossed = FALSE /\ patches = 0

launchSpecFor == [f \in LaunchFields |-> columns[f]]

BuildSpec(launch) == [launch |-> launch, up |-> FALSE]

----------------------------------------------------------------------------
(* The PATCH.                                                              *)

(* actions: what the caller must be allowed, by the columns named.         *)
actions(named) ==
  {CASE f = "limits" -> "limits" [] f = "extra_args" -> "extra_args" [] f = "keep" -> "backups"
     [] f = "branch" -> "update" [] f = "auto_stop" -> "stop" [] OTHER -> "settings" : f \in named}
  \cup (IF "auto_stop" \in named THEN {"settings"} ELSE {})

(* ValidateLaunch: the password may not appear in the server name.         *)
ValidateLaunch(launch) == launch["password"] = 0 \/ launch["server_name"] = 0

Merged(current, body, group) == [f \in group |-> IF f \in DOMAIN body THEN body[f] ELSE current[f]]

(* The merge starts from the row as the request read it.                   *)
mergeInstanceLaunch(current, body) == Merged(current, body, LaunchFields)

mergeBackupPolicy(current, body) == Merged(current, body, PolicyFields)

Touches(body, group) == DOMAIN body \cap group # {}

(* patch, up to the write: rights, the row, the name, the merge and its    *)
(* validation.                                                             *)
patchInstance(e) ==
  /\ requests[e] = NoEdit /\ patches < MaxPatches
  /\ \E named \in SUBSET Edited : \E body \in [named -> {0, 1}] :
       /\ named # {} /\ Cardinality(named) =< MaxNamed
       /\ \E rights \in RightSets : actions(named) \subseteq rights
       /\ "name" \in named => ~(rival /\ body["name"] = 1)
       /\ Touches(body, LaunchFields) => ValidateLaunch(Merged(columns, body, LaunchFields))
       /\ requests' = [requests EXCEPT ![e] = [at |-> "write", current |-> columns, body |-> body]]
  /\ patches' = patches + 1
  /\ UNCHANGED <<columns, flag, life, box, starter, rival, crossed>>

(* writes: one update per group the request touches.                       *)
writes(current, body) ==
  [f \in Columns |->
     CASE f \in LaunchFields /\ Touches(body, LaunchFields) -> mergeInstanceLaunch(current, body)[f]
       [] f \in PolicyFields /\ Touches(body, PolicyFields) -> mergeBackupPolicy(current, body)[f]
       [] f \notin LaunchFields \cup PolicyFields /\ f \in DOMAIN body /\ body[f] # current[f] -> body[f]
       [] OTHER -> columns[f]]

(* A start has read the row and has not finished yet.                      *)
SpecTaken == starter \in {"run", "ready"}

\* A wrong version: the row never asks for a restart.
UpdateUnflagged(e) ==
  /\ requests[e].at = "write"
  /\ LET q == requests[e] IN
     IF rival /\ "name" \in DOMAIN q.body /\ q.body["name"] = 1
     THEN UNCHANGED <<columns, flag, crossed>>
     ELSE /\ columns' = writes(q.current, q.body)
          /\ UNCHANGED flag
          /\ crossed' = (crossed \/ (SpecTaken /\ Touches(q.body, LaunchFields)))
  /\ requests' = [requests EXCEPT ![e] = NoEdit]
  /\ UNCHANGED <<life, box, starter, rival, patches>>

(* UpdateInstance: one transaction; a name taken meanwhile rolls it back.  *)
UpdateInstance(e) ==
  /\ requests[e].at = "write"
  /\ LET q == requests[e] IN
     IF rival /\ "name" \in DOMAIN q.body /\ q.body["name"] = 1
     THEN UNCHANGED <<columns, flag, crossed>>
     ELSE /\ columns' = writes(q.current, q.body)
          /\ flag' = (flag \/ Touches(q.body, LaunchFields))
          /\ crossed' = (crossed \/ (SpecTaken /\ Touches(q.body, LaunchFields)))
  /\ requests' = [requests EXCEPT ![e] = NoEdit]
  /\ UNCHANGED <<life, box, starter, rival, patches>>

(* Another server takes or leaves the name.                                *)
RivalRenamed ==
  /\ rival' = ~rival /\ (rival' => columns["name"] = 0)
  /\ UNCHANGED <<columns, flag, life, box, starter, requests, crossed, patches>>

----------------------------------------------------------------------------
(* The start, the stop and the acknowledgement.                            *)
SubmitStart ==
  /\ life = "stopped" /\ life' = "starting" /\ starter' = "build"
  /\ UNCHANGED <<columns, flag, box, requests, rival, crossed, patches>>

(* rebuildIfDrifted: the container is made again when the row no longer    *)
(* describes it.                                                           *)
rebuildIfDrifted ==
  /\ starter = "build" /\ ValidateLaunch(launchSpecFor)
  /\ box' = BuildSpec(launchSpecFor)
  /\ starter' = "run" /\ crossed' = FALSE
  /\ UNCHANGED <<columns, flag, life, requests, rival, patches>>

StartContainer ==
  /\ starter = "run" /\ box' = [box EXCEPT !.up = TRUE] /\ starter' = "ready"
  /\ UNCHANGED <<columns, flag, life, requests, rival, crossed, patches>>

FinishStart ==
  /\ starter = "ready" /\ life' = "running" /\ flag' = FALSE /\ starter' = "none"
  /\ UNCHANGED <<columns, box, requests, rival, crossed, patches>>

(* A failed start parks the row in error (finishToError); a container that *)
(* never became ready may be left running.                                 *)
StartFails ==
  /\ starter # "none" /\ life' = "error" /\ starter' = "none"
  /\ UNCHANGED <<columns, flag, box, requests, rival, crossed, patches>>

Stop ==
  /\ life = "running" /\ life' = "stopped" /\ box' = [box EXCEPT !.up = FALSE]
  /\ UNCHANGED <<columns, flag, starter, requests, rival, crossed, patches>>

(* The container of a server in error is stopped by hand.                  *)
StopByHand ==
  /\ life = "error" /\ box.up /\ box' = [box EXCEPT !.up = FALSE]
  /\ UNCHANGED <<columns, flag, life, starter, requests, rival, crossed, patches>>

(* acknowledge: Docker says what the server is.                            *)
acknowledge ==
  /\ life = "error" /\ life' = IF box.up THEN "running" ELSE "stopped"
  /\ UNCHANGED <<columns, flag, box, starter, requests, rival, crossed, patches>>

SettingsNext ==
  \/ \E e \in Editors : patchInstance(e) \/ UpdateInstance(e)
  \/ RivalRenamed \/ SubmitStart \/ rebuildIfDrifted \/ StartContainer \/ FinishStart \/ StartFails
  \/ Stop \/ StopByHand \/ acknowledge

SettingsSpec == SettingsInit /\ [][SettingsNext]_settingsVars

----------------------------------------------------------------------------
(* The stored launch settings are a combination a container can be built   *)
(* from, though requests that change the name and the password cross after *)
(* each was validated: every write carries the whole group it validated.   *)
StoredLaunchValid == ValidateLaunch(launchSpecFor)

(* A server that runs with other launch settings than its row says so,     *)
(* unless the settings were written while its start was under way.         *)
FlagWhenSettled == life = "running" /\ box.launch # launchSpecFor /\ ~crossed => flag

(* The row can always be started, and says when the running server does    *)
(* not have it yet, whatever patches cross each other and a start          *)
(* (api/instances.go: patch; store/instances.go: UpdateInstance).          *)
SettingsSound == StoredLaunchValid /\ FlagWhenSettled
=============================================================================
