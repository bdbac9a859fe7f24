---------------------------- MODULE AtomicReplace ----------------------------
(***************************************************************************)
(* What a directory swap promises: a tree is replaced by a newer one in a  *)
(* single step or not at all, and never goes back to an earlier one.       *)
(***************************************************************************)
EXTENDS Naturals

VARIABLES
  world,   \* the world the instance has; 0 is the one it started with
  latest   \* the newest world anyone tried to put in its place

Init == world = 0 /\ latest = 0

\* A job begins to bring a newer world in.
Begin == latest' = latest + 1 /\ world' = world

\* That job's world replaces the current one.
Replace == world < latest /\ world' = latest /\ latest' = latest

Next == Begin \/ Replace

Spec == Init /\ [][Next]_<<world, latest>>

=============================================================================
