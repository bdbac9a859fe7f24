---------------------------- MODULE MCDaemonLease ----------------------------
(* Instances of DaemonLease for TLC: two processes on one host, one on another. *)
EXTENDS DaemonLease, TLC

CONSTANTS b1, b2, b3, h1, h2

MCHostOf == (b1 :> h1) @@ (b2 :> h1) @@ (b3 :> h2)

=============================================================================
