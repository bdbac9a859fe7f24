----------------------------- MODULE MCOutward ------------------------------
(* What leaves a server, for TLC: a world swapped with failures at every   *)
(* call, the copies of archives at remote destinations, an update tried on *)
(* a copy of the server first, and what a console stream sends. They share *)
(* no state: a behaviour is one of the part its initial state picks, the   *)
(* others keep one initial state.                                          *)
EXTENDS MCWorldSwap, RemoteCopies, UpdateTrial, WsStream

VARIABLE part

\* A sound archive and a flagged one, both cold.
ColdMakes == {<<"cold", FALSE>>, <<"cold", TRUE>>}

OutwardInit ==
  /\ part \in {"swap", "remote", "trial", "stream"}
  /\ Init /\ RemoteInit /\ TrialInit /\ StreamInit
  /\ part # "swap" => kind = "restore" /\ had
  /\ places[CHOOSE p \in Places : TRUE] = "enabled"   \* whichever is configured first
  /\ policy.keep["cold"] = 1
  /\ part # "trial" => servers["main"].state = "stopped"

\* The bounds of the other parts leave them nothing to do in the end.
Rests == part # "swap" /\ UNCHANGED <<vars, remoteVars, trialVars, streamVars>>

OutwardNext ==
  /\ UNCHANGED part
  /\ \/ part = "swap" /\ Next /\ UNCHANGED <<remoteVars, trialVars, streamVars>>
     \/ part = "remote" /\ RemoteNext /\ UNCHANGED <<vars, trialVars, streamVars>>
     \/ part = "trial" /\ TrialNext /\ UNCHANGED <<vars, remoteVars, streamVars>>
     \/ part = "stream" /\ StreamNext /\ UNCHANGED <<vars, remoteVars, trialVars>>
     \/ Rests

OutwardSpec == OutwardInit /\ [][OutwardNext]_<<part, vars, remoteVars, trialVars, streamVars>>
=============================================================================
