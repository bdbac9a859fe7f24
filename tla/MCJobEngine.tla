----------------------------- MODULE MCJobEngine -----------------------------
(* Instances of JobEngine for TLC. *)
EXTENDS JobEngine, TLC

CONSTANTS j1, j2, j3, k1, k2, b1, b2, h1

\* Two jobs on one key, and one that claims a second key with it (a delete: the
\* instance and its remote copies).
MCKeysOf == [j \in Jobs |-> IF j = j2 THEN {k1, k2} ELSE {k1}]

OneHost == [b \in Boots |-> h1]

=============================================================================
