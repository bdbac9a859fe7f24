------------------------- MODULE MCInstanceLifecycle -------------------------
(* Instances of InstanceLifecycle for TLC: which accidents a run admits. *)
EXTENDS InstanceLifecycle

\* Everything but the orders under which a restart or the lock is lost.
MCOrderly  == {"crash", "cli", "oom"}
MCHostile  == AllFaults
MCDrain    == {"drain"}
==============================================================================
