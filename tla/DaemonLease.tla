----------------------------- MODULE DaemonLease -----------------------------
(***************************************************************************)
(* The daemon lease against a clock: internal/store/lease.go and the way   *)
(* cmd/valmind uses it.  JobEngine lets the lease expire at any time; this *)
(* module says when it really can.  The kv row is written by claim() and   *)
(* refreshed by Renew every Period, but only between the end of crash      *)
(* recovery and the signal that starts the drain.                          *)
(*                                                                         *)
(* Time is in ticks.  A healthy process does what is due before the clock  *)
(* moves on; MaxRecover, Grace and one missed renewal bound the rest.      *)
(***************************************************************************)
EXTENDS Naturals

CONSTANTS
  Boots,      \* daemon processes
  HostOf,     \* the host of each: one flock per host
  TTL,        \* jobs.lease_ttl
  Period,     \* the renewal ticker, ttl/3
  Grace,      \* server.shutdown_grace, the longest drain
  MaxRecover, \* the longest gate and crash recovery, from claim to Renew
  MayMiss,    \* processes whose renewal may fail to reach the database
  MaxClock,   \* bound on the clock
  NoBoot

ASSUME TimeAssumption ==
  /\ TTL \in Nat \ {0}
  /\ Period = TTL \div 3
  /\ Grace \in Nat
  /\ MaxRecover \in Nat
  /\ MaxClock \in Nat

ASSUME NoBootAssumption == NoBoot \notin Boots

VARIABLES
  clock,
  leaseOwner,   \* kv["daemon_lease"].owner, NoBoot when there is no row
  expiresAt,    \* kv["daemon_lease"].expires_at
  phase,        \* each process
  due,          \* when its next step is due: end of recovery, next tick, end of grace
  missed,       \* its last renewal could not reach the database
  diedAt        \* when the last process ended without releasing the row

vars == <<clock, leaseOwner, expiresAt, phase, due, missed, diedAt>>

Live(b) == phase[b] \in {"recovering", "serving", "draining"}

TypeOK ==
  /\ clock \in Nat
  /\ leaseOwner \in Boots \cup {NoBoot}
  /\ expiresAt \in Nat
  /\ phase \in [Boots -> {"off", "recovering", "serving", "draining", "refused", "dead"}]
  /\ due \in [Boots -> Nat]
  /\ missed \in [Boots -> BOOLEAN]
  /\ diedAt \in Nat

Init ==
  /\ clock = 0
  /\ leaseOwner = NoBoot
  /\ expiresAt = 0
  /\ phase = [b \in Boots |-> "off"]
  /\ due = [b \in Boots |-> 0]
  /\ missed = [b \in Boots |-> FALSE]
  /\ diedAt = 0

\* Mutant of HeldByOther: a row is honoured for one TTL too long.
HeldByOtherInclusive(b) ==
  /\ leaseOwner \notin {NoBoot, b}
  /\ expiresAt + TTL > clock

\* claim(): refused while another owner's row expires after now.
HeldByOther(b) ==
  /\ leaseOwner \notin {NoBoot, b}
  /\ expiresAt > clock

\* Mutant of WriteLease: the row is good for a renewal period, not for the TTL.
WriteLeaseShort(b) == leaseOwner' = b /\ expiresAt' = clock + Period

WriteLease(b) == leaseOwner' = b /\ expiresAt' = clock + TTL

\* LOCK_EX|LOCK_NB on .valmind.lock: nobody on this host has it.
FlockFree(b) == \A c \in Boots : HostOf[c] = HostOf[b] => ~Live(c)

\* AcquireDaemonLease: both halves ...
Acquire(b) ==
  /\ phase[b] = "off"
  /\ FlockFree(b)
  /\ ~HeldByOther(b)
  /\ WriteLease(b)
  /\ phase' = [phase EXCEPT ![b] = "recovering"]
  /\ due' = [due EXCEPT ![b] = clock + MaxRecover]
  /\ UNCHANGED <<clock, missed, diedAt>>

\* ... or a refusal to start.
Refuse(b) ==
  /\ phase[b] = "off"
  /\ ~FlockFree(b) \/ HeldByOther(b)
  /\ phase' = [phase EXCEPT ![b] = "refused"]
  /\ UNCHANGED <<clock, leaseOwner, expiresAt, due, missed, diedAt>>

\* Recover returned; serve starts the Renew goroutine, whose first tick is a
\* full period away.
StartServing(b) ==
  /\ phase[b] = "recovering"
  /\ phase' = [phase EXCEPT ![b] = "serving"]
  /\ due' = [due EXCEPT ![b] = clock + Period]
  /\ UNCHANGED <<clock, leaseOwner, expiresAt, missed, diedAt>>

\* A tick of Renew: the row is rewritten, or held by another daemon, which ends
\* this one (through the same shutdown).
Renew(b) ==
  /\ phase[b] = "serving"
  /\ due[b] = clock
  /\ IF HeldByOther(b)
     THEN /\ phase' = [phase EXCEPT ![b] = "draining"]
          /\ due' = [due EXCEPT ![b] = clock + Grace]
          /\ UNCHANGED <<leaseOwner, expiresAt>>
     ELSE /\ WriteLease(b)
          /\ due' = [due EXCEPT ![b] = clock + Period]
          /\ UNCHANGED phase
  /\ missed' = [missed EXCEPT ![b] = FALSE]
  /\ UNCHANGED <<clock, diedAt>>

\* A tick that cannot reach the database is logged and retried at the next one.
RenewFails(b) ==
  /\ phase[b] = "serving"
  /\ due[b] = clock
  /\ b \in MayMiss
  /\ ~missed[b]
  /\ missed' = [missed EXCEPT ![b] = TRUE]
  /\ due' = [due EXCEPT ![b] = clock + Period]
  /\ UNCHANGED <<clock, leaseOwner, expiresAt, phase, diedAt>>

\* The signal cancels the context Renew runs under: the drain does not renew.
Shutdown(b) ==
  /\ phase[b] = "serving"
  /\ phase' = [phase EXCEPT ![b] = "draining"]
  /\ due' = [due EXCEPT ![b] = clock + Grace]
  /\ UNCHANGED <<clock, leaseOwner, expiresAt, missed, diedAt>>

\* Release deletes the row unless it is someone else's, then drops the flock.
Release(b) ==
  IF leaseOwner \in {NoBoot, b}
  THEN leaseOwner' = NoBoot /\ UNCHANGED expiresAt
  ELSE UNCHANGED <<leaseOwner, expiresAt>>

\* The process is gone, and its flock with it.
End(b) ==
  /\ phase' = [phase EXCEPT ![b] = "dead"]
  /\ due' = [due EXCEPT ![b] = 0]
  /\ missed' = [missed EXCEPT ![b] = FALSE]

\* daemon.close after the drain, or after a failed gate or recovery.
Exit(b) ==
  /\ phase[b] \in {"recovering", "draining"}
  /\ Release(b)
  /\ End(b)
  /\ UNCHANGED <<clock, diedAt>>

Crash(b) ==
  /\ Live(b)
  /\ End(b)
  /\ diedAt' = clock
  /\ UNCHANGED <<clock, leaseOwner, expiresAt>>

\* Time passes when no live process has something due.
Tick ==
  /\ clock < MaxClock
  /\ \A b \in Boots : Live(b) => clock < due[b]
  /\ clock' = clock + 1
  /\ UNCHANGED <<leaseOwner, expiresAt, phase, due, missed, diedAt>>

BootNext(b) ==
  \/ Acquire(b) \/ Refuse(b) \/ StartServing(b) \/ Renew(b) \/ RenewFails(b)
  \/ Shutdown(b) \/ Exit(b) \/ Crash(b)

Next == Tick \/ \E b \in Boots : BootNext(b)

Spec == Init /\ [][Next]_vars

-----------------------------------------------------------------------------
(* Properties. *)

\* One daemon per database: what ADR-031 asks of the lease and what StaleJobs
\* relies on when it takes any other owner for dead.
OneDaemon == \A b, c \in Boots : Live(b) /\ Live(c) => b = c

\* A daemon that serves is covered by its own row: nobody can take over while
\* its jobs run.
CoveredByLease == \A b \in Boots : Live(b) => leaseOwner = b /\ expiresAt > clock

\* A stale row blocks a restart for at most the TTL after the process that left
\* it died; without one only a live daemon makes a start refuse.
RefusedAtMostTTL ==
  [][\A b \in Boots : Refuse(b) =>
       (\E c \in Boots : Live(c)) \/ clock < diedAt + TTL]_vars

\* The timing under which the lease alone excludes a second host.
TimingSafe == MaxRecover + 2 * Period + Grace < TTL

=============================================================================
