----------------------------- MODULE MCSettings -----------------------------
(* What is set and when it takes effect, for TLC: schedules over a day and *)
(* the settings of an instance.  They share no state: a behaviour is one   *)
(* of the part its initial state picks, the other keeps one initial state. *)
EXTENDS MCScheduleClock, InstanceSettings

VARIABLE part

\* Settings alone, what only a grant of limits opens, and what a stop and update add.
MCRightSets ==
  {{"settings"}, {"limits", "extra_args", "backups"}, {"settings", "stop", "update"}}

TimelyInit ==
  /\ part \in {"schedule", "settings"}
  /\ Init /\ SettingsInit
  /\ row.cron = "daily"   \* an edit makes it hourly
  /\ part # "schedule" => inst = "stopped" /\ row = Row("on", "daily", "no", None, None, None)

TimelyNext ==
  /\ UNCHANGED part
  /\ \/ part = "schedule" /\ Next /\ UNCHANGED settingsVars
     \/ part = "settings" /\ SettingsNext /\ UNCHANGED vars

TimelySpec == TimelyInit /\ [][TimelyNext]_<<part, vars, settingsVars>>
=============================================================================
