------------------------------ MODULE MCAccess ------------------------------
(* Who may run, who may log in and who may see what, for TLC: the daemon's *)
(* lease, the accounts, and the grants with the sockets they open.  They   *)
(* share no state: a behaviour is one of the part its initial state picks, *)
(* the others keep one initial state.                                      *)
EXTENDS MCDaemonLease, Accounts, WsHub

VARIABLE part

RawEditing == {{"config.raw"}}

Symmetry == Permutations(Requests) \cup Permutations(Names)

AccessInit ==
  /\ part \in {"lease", "accounts", "hub"}
  /\ Init /\ AccountsInit /\ HubInit
  /\ part # "hub" => role = [u \in Viewers |-> "admin"]

AccessNext ==
  /\ UNCHANGED part
  /\ \/ part = "lease" /\ Next /\ UNCHANGED <<accountsVars, hubVars>>
     \/ part = "accounts" /\ AccountsNext /\ UNCHANGED <<vars, hubVars>>
     \/ part = "hub" /\ HubNext /\ UNCHANGED <<vars, accountsVars>>

AccessSpec == AccessInit /\ [][AccessNext]_<<part, vars, accountsVars, hubVars>>
=============================================================================
