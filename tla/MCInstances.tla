---------------------------- MODULE MCInstances -----------------------------
(* Instances that come and change, for TLC: the lifecycle of one under     *)
(* every accident, and the making and adopting of two.  They share no      *)
(* state: a behaviour is one of the part its initial state picks, the      *)
(* other keeps one initial state.                                          *)
EXTENDS MCInstanceLifecycle, Provisioning, TLC

VARIABLE part

Symmetry ==
  Permutations(Callers) \cup Permutations(ServerNames) \cup Permutations(Ports)

InstancesInit ==
  /\ part \in {"lifecycle", "provisioning"}
  /\ Init /\ ProvisioningInit
  /\ part # "lifecycle" => state = "created"
  /\ part # "provisioning" => \A i \in Ids : docker[i] = NoBox

InstancesNext ==
  /\ UNCHANGED part
  /\ \/ part = "lifecycle" /\ Next /\ UNCHANGED provisioningVars
     \/ part = "provisioning" /\ ProvisioningNext /\ UNCHANGED vars

InstancesSpec == InstancesInit /\ [][InstancesNext]_<<part, vars, provisioningVars>>
=============================================================================
