----------------------------- MODULE MCSequences -----------------------------
(* What one instance owes, for TLC: its lifecycle under crashes, and the   *)
(* operations, chains and queued installs that run jobs on it.  They share *)
(* no state here: a behaviour is one of the part its initial state picks,  *)
(* the other keeps one initial state.                                      *)
EXTENDS MCInstanceLifecycle, JobSequences

VARIABLE part

\* A new server with two mods, started at the end.
MCDefinitions ==
  {<<<<"provision", "">>, <<"mod_install", "a">>, <<"mod_install", "b">>, <<"start", "">>>>}

\* Steps that need no confirmation of the asker.
Plan(kinds) == [from |-> "", steps |-> [n \in DOMAIN kinds |-> <<kinds[n], FALSE>>]]

MCChains ==
  {WorldToolSteps(TRUE), Plan(<<"backup", "command", "empty", "wait", "restart">>),
   Plan(<<"stop", "game_update">>)}

InstanceInit ==
  /\ part \in {"lifecycle", "sequences"}
  /\ Init /\ SequencesInit
  /\ part # "lifecycle" => state = "created"
  /\ part # "sequences" => op.state = "completed"

InstanceNext ==
  /\ UNCHANGED part
  /\ \/ part = "lifecycle" /\ Next /\ UNCHANGED sequenceVars
     \/ part = "sequences" /\ SequencesNext /\ UNCHANGED vars

\* The fairness of each part, while it is the one that runs.
InstanceFairness ==
  /\ WF_vars(part = "lifecycle" /\ Runner)
  /\ WF_vars(part = "lifecycle" /\ AfterFinish)
  /\ WF_vars(part = "lifecycle" /\ Observer)
  /\ WF_vars(part = "lifecycle" /\ ProtectiveStop)
  /\ WF_vars(part = "lifecycle" /\ Restarting)
  /\ WF_sequenceVars(part = "sequences" /\ \E ok \in BOOLEAN : FinishTask(ok))
  /\ WF_sequenceVars(part = "sequences" /\ (AdvanceReads \/ Advance \/ ResumeAfterBackup))
  /\ WF_sequenceVars(part = "sequences" /\ ChainWork)
  /\ WF_sequenceVars(part = "sequences" /\ DrainWork)
  /\ WF_sequenceVars(part = "sequences" /\ CutPasses)

InstanceSpec ==
  InstanceInit /\ [][InstanceNext]_<<part, vars, sequenceVars>> /\ InstanceFairness
=============================================================================
