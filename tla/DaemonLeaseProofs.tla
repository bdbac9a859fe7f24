-------------------------- MODULE DaemonLeaseProofs --------------------------
(***************************************************************************)
(* For any number of processes and hosts and any clock: when recovery, two *)
(* renewal periods and the drain fit in the TTL, the lease row keeps every *)
(* second daemon out.                                                      *)
(***************************************************************************)
EXTENDS DaemonLease, TLAPS

\* How far behind the last write of the row a process may run, by phase.
Slack(b) ==
  CASE phase[b] = "recovering" -> MaxRecover
    [] phase[b] = "serving"    -> MaxRecover + Period + (IF missed[b] THEN Period ELSE 0)
    [] OTHER                   -> MaxRecover + Period + Period + Grace

\* A live process owns the row, and what it has due comes at most Slack after
\* the row was written (at expiresAt - TTL).
OnTime ==
  \A b \in Boots : Live(b) =>
    /\ leaseOwner = b
    /\ clock <= due[b]
    /\ due[b] + TTL <= expiresAt + Slack(b)
    /\ phase[b] = "recovering" => ~missed[b]

Fresh == \A b \in Boots : phase[b] = "off" => ~missed[b]

LInv == TypeOK /\ Fresh /\ OnTime

\* The renewal period is a number of ticks.
LEMMA PeriodIsNat == Period \in Nat
  BY TimeAssumption

\* While a process lives its row has not expired.
LEMMA LiveIsCovered ==
  ASSUME TimingSafe, LInv, NEW b \in Boots, Live(b)
  PROVE  leaseOwner = b /\ expiresAt > clock
<1> USE TimeAssumption, PeriodIsNat
<1>1. Slack(b) \in Nat /\ Slack(b) <= MaxRecover + Period + Period + Grace
  BY DEF Slack, LInv, TypeOK
<1>2. MaxRecover + Period + Period + Grace < TTL
  BY DEF TimingSafe
<1> QED
  BY <1>1, <1>2 DEF LInv, TypeOK, OnTime

\* The strengthening that ties every phase to the last write of the row.
LEMMA LeaseInvariant ==
  ASSUME TimingSafe
  PROVE  Spec => []LInv
<1> USE TimeAssumption, PeriodIsNat, NoBootAssumption
<1>1. Init => LInv
  BY DEF Init, LInv, TypeOK, Fresh, OnTime, Live
<1>2. LInv /\ [Next]_vars => LInv'
  <2> SUFFICES ASSUME LInv, [Next]_vars PROVE LInv'
    OBVIOUS
  <2> USE DEF LInv, TypeOK, Fresh
  <2>1. CASE UNCHANGED vars
    BY <2>1 DEF vars, OnTime, Live, Slack
  <2>2. CASE Tick
    BY <2>2 DEF Tick, OnTime, Live, Slack
  <2>3. ASSUME NEW b \in Boots, Acquire(b) PROVE LInv'
    <3>1. \A c \in Boots : ~Live(c)
      BY <2>3, LiveIsCovered DEF Acquire, HeldByOther, FlockFree
    <3>2. \A c \in Boots : Live(c)' => c = b
      BY <2>3, <3>1 DEF Acquire, Live
    <3> QED
      BY <2>3, <3>2 DEF Acquire, WriteLease, OnTime, Live, Slack
  <2>4. ASSUME NEW b \in Boots, Refuse(b) PROVE LInv'
    BY <2>4 DEF Refuse, OnTime, Live, Slack
  <2>5. ASSUME NEW b \in Boots, StartServing(b) PROVE LInv'
    BY <2>5 DEF StartServing, OnTime, Live, Slack
  <2>6. ASSUME NEW b \in Boots, Renew(b) PROVE LInv'
    <3>1. ~HeldByOther(b)
      BY <2>6, LiveIsCovered DEF Renew, Live, HeldByOther
    <3> QED
      BY <2>6, <3>1 DEF Renew, WriteLease, OnTime, Live, Slack
  <2>7. ASSUME NEW b \in Boots, RenewFails(b) PROVE LInv'
    BY <2>7 DEF RenewFails, OnTime, Live, Slack
  <2>8. ASSUME NEW b \in Boots, Shutdown(b) PROVE LInv'
    BY <2>8 DEF Shutdown, OnTime, Live, Slack
  <2>9. ASSUME NEW b \in Boots, Exit(b) PROVE LInv'
    BY <2>9 DEF Exit, End, Release, OnTime, Live, Slack
  <2>10. ASSUME NEW b \in Boots, Crash(b) PROVE LInv'
    BY <2>10 DEF Crash, End, OnTime, Live, Slack
  <2> QED
    BY <2>1, <2>2, <2>3, <2>4, <2>5, <2>6, <2>7, <2>8, <2>9, <2>10 DEF Next, BootNext
<1> QED
  BY <1>1, <1>2, PTL DEF Spec

\* Recovery, two periods and the drain within the TTL: at most one daemon works
\* on the database at any time, on any number of hosts.
THEOREM LeaseExcludes ==
  ASSUME TimingSafe
  PROVE  Spec => []OneDaemon
<1>1. LInv => OneDaemon
  BY DEF LInv, OnTime, OneDaemon
<1> QED
  BY <1>1, LeaseInvariant, PTL

\* Under the same timing a live daemon always holds an unexpired row.
THEOREM LeaseCovers ==
  ASSUME TimingSafe
  PROVE  Spec => []CoveredByLease
<1>1. LInv => CoveredByLease
  BY LiveIsCovered DEF CoveredByLease
<1> QED
  BY <1>1, LeaseInvariant, PTL

-----------------------------------------------------------------------------
\* A row is never good for longer than the TTL, counted from the death of its
\* owner where that one left it behind.
RowExpires ==
  /\ expiresAt <= clock + TTL
  /\ diedAt <= clock
  /\ (leaseOwner # NoBoot /\ ~Live(leaseOwner)) => expiresAt <= diedAt + TTL

\* Every step of every process keeps it, under any timing.
LEMMA RowsExpire == Spec => [](TypeOK /\ RowExpires)
<1> USE TimeAssumption, PeriodIsNat, NoBootAssumption
<1>1. Init => TypeOK /\ RowExpires
  BY DEF Init, TypeOK, RowExpires
<1>2. TypeOK /\ RowExpires /\ [Next]_vars => (TypeOK /\ RowExpires)'
  <2> SUFFICES ASSUME TypeOK, RowExpires, [Next]_vars PROVE (TypeOK /\ RowExpires)'
    OBVIOUS
  <2> USE DEF TypeOK, RowExpires, Live
  <2>1. CASE UNCHANGED vars
    BY <2>1 DEF vars
  <2>2. CASE Tick
    BY <2>2 DEF Tick
  <2>3. ASSUME NEW b \in Boots, Acquire(b) PROVE (TypeOK /\ RowExpires)'
    BY <2>3 DEF Acquire, WriteLease
  <2>4. ASSUME NEW b \in Boots, Refuse(b) PROVE (TypeOK /\ RowExpires)'
    BY <2>4 DEF Refuse
  <2>5. ASSUME NEW b \in Boots, StartServing(b) PROVE (TypeOK /\ RowExpires)'
    BY <2>5 DEF StartServing
  <2>6. ASSUME NEW b \in Boots, Renew(b) PROVE (TypeOK /\ RowExpires)'
    BY <2>6 DEF Renew, WriteLease
  <2>7. ASSUME NEW b \in Boots, RenewFails(b) PROVE (TypeOK /\ RowExpires)'
    BY <2>7 DEF RenewFails
  <2>8. ASSUME NEW b \in Boots, Shutdown(b) PROVE (TypeOK /\ RowExpires)'
    BY <2>8 DEF Shutdown
  <2>9. ASSUME NEW b \in Boots, Exit(b) PROVE (TypeOK /\ RowExpires)'
    BY <2>9 DEF Exit, End, Release
  <2>10. ASSUME NEW b \in Boots, Crash(b) PROVE (TypeOK /\ RowExpires)'
    BY <2>10 DEF Crash, End
  <2> QED
    BY <2>1, <2>2, <2>3, <2>4, <2>5, <2>6, <2>7, <2>8, <2>9, <2>10 DEF Next, BootNext
<1> QED
  BY <1>1, <1>2, PTL DEF Spec

\* A start is refused only while a daemon lives or for at most the TTL after
\* the last one that left its row behind died, under any timing: a crash never
\* locks the database for longer (claim in lease.go).
THEOREM RefusalIsBounded == Spec => RefusedAtMostTTL
<1>1. TypeOK /\ RowExpires /\ [Next]_vars =>
        [\A b \in Boots : Refuse(b) => (\E c \in Boots : Live(c)) \/ clock < diedAt + TTL]_vars
  <2> SUFFICES ASSUME TypeOK, RowExpires, NEW b \in Boots, Refuse(b), \A c \in Boots : ~Live(c)
               PROVE  clock < diedAt + TTL
    OBVIOUS
  <2>1. HeldByOther(b)
    BY DEF Refuse, FlockFree
  <2> QED
    BY <2>1, TimeAssumption DEF HeldByOther, RowExpires, TypeOK
<1> QED
  BY <1>1, RowsExpire, PTL DEF Spec, RefusedAtMostTTL

=============================================================================
