------------------------------ MODULE MCBackups ------------------------------
(* Worlds and retention settings for TLC. *)
EXTENDS Backups

WholeWorld ==
  [directory |-> TRUE, data |-> 2, header |-> 1, old |-> 0, bytes |-> 4,
   seen |-> Generation, version |-> [f \in Generation |-> 41], inflates |-> TRUE,
   index |-> <<1, 1>>, total |-> 2, chunks |-> <<1, 1>>]

\* Sound, in the old layout and far smaller, with a chunk missing, without a header.
MCWorlds ==
  {WholeWorld, [WholeWorld EXCEPT !.directory = FALSE, !.old = 5, !.bytes = 1],
   [WholeWorld EXCEPT !.chunks = <<1>>, !.bytes = 1], [WholeWorld EXCEPT !.header = -1]}

MCPolicies == {[cold |-> 1, hot |-> 0], [cold |-> 1, hot |-> 1]}
=============================================================================
