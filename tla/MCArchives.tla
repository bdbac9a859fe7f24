----------------------------- MODULE MCArchives -----------------------------
(* What was saved and must come back, for TLC: the world a swap sets       *)
(* aside, the archives that retention prunes, and the saved setups. They   *)
(* share no state: a behaviour is one of the part its initial state picks, *)
(* the others keep one initial state.                                      *)
EXTENDS MCWorldSwap, MCBackups, Setups, TLC

VARIABLE part

\* Two layouts of the managed files that share a path and differ in another.
TwoLayouts == {("p" :> "a"), ("p" :> "b" @@ "q" :> "b")}

Symmetry == Permutations(SetupIds)

ArchivesInit ==
  /\ part \in {"swap", "backups", "setups"}
  /\ Init /\ BackupsInit /\ SetupsInit
  /\ part # "swap" => kind = "restore" /\ had
  /\ keep.hot = 1   \* an operator may change it
  /\ launch = "l1"    \* the two values are alike
  /\ part # "setups" => "q" \notin DOMAIN modRows

\* The bounds of the other two leave them nothing to do in the end.
Rests == part # "swap" /\ UNCHANGED <<vars, backupVars, setupVars>>

ArchivesNext ==
  /\ UNCHANGED part
  /\ \/ part = "swap" /\ Next /\ UNCHANGED <<backupVars, setupVars>>
     \/ part = "backups" /\ BackupsNext /\ UNCHANGED <<vars, setupVars>>
     \/ part = "setups" /\ SetupsNext /\ UNCHANGED <<vars, backupVars>>
     \/ Rests

ArchivesSpec == ArchivesInit /\ [][ArchivesNext]_<<part, vars, backupVars, setupVars>>
=============================================================================
