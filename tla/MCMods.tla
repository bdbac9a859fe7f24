------------------------------- MODULE MCMods -------------------------------
(* The mods of a server and the configuration of one, for TLC.  They share *)
(* no state: a behaviour is one of the part its initial state picks, the   *)
(* other keeps one initial state.                                          *)
EXTENDS MCModTransaction, ConfigFiles

VARIABLE part

Symmetry == Permutations(Authors)

ModsInit ==
  /\ part \in {"mods", "configs"}
  /\ Init /\ ConfigInit
  /\ part # "mods" => \A p \in Packages : rows[p] = NoRow
  /\ file # Missing   \* an edit or an uninstall removes it

\* The bounds of ConfigFiles leave it nothing to do in the end.
Rests == part = "configs" /\ UNCHANGED <<vars, configVars>>

ModsNext ==
  /\ UNCHANGED part
  /\ \/ part = "mods" /\ Next /\ UNCHANGED configVars
     \/ part = "configs" /\ ConfigNext /\ UNCHANGED vars
     \/ Rests

ModsSpec == ModsInit /\ [][ModsNext]_<<part, vars, configVars>>
=============================================================================
