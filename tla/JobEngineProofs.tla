--------------------------- MODULE JobEngineProofs ---------------------------
(***************************************************************************)
(* Theorems about JobEngine for every set of jobs, keys, processes and     *)
(* hosts.  The type invariant and the agreement of the two tables hold     *)
(* with any number of hosts.  What the lease cannot give alone (a second   *)
(* host may take over from a live process) is proved for one host, where   *)
(* the flock makes the processes follow each other.  Two users of the      *)
(* engine follow: the uploads and cleanups of remote copies (RemoteCopies) *)
(* and the test of an update with its apply, which wait for jobs of their  *)
(* own (UpdateTrial).                                                      *)
(***************************************************************************)
EXTENDS JobEngine, RemoteCopies, UpdateTrial, FiniteSetTheorems, WellFoundedInduction, TLAPS

\* A Runner that returned left an Outcome with a terminal status for Finish.
OutcomeReturned == \A j \in Jobs : worker[j] = "finishing" => outcome[j] \in Terminal

TInv == TypeOK /\ OutcomeReturned

\* The types together with what a returned Runner leaves behind are inductive.
LEMMA TypeInvariant == Spec => []TInv
<1>1. Init => TInv
  BY DEF Init, TInv, OutcomeReturned, TypeOK, Statuses, WorkerPhases, LivePhases, Terminal
<1>2. TInv /\ [Next]_vars => TInv'
  <2> SUFFICES ASSUME TInv, [Next]_vars PROVE TInv'
    OBVIOUS
  <2> USE KeysOfAssumption, NullAssumption, SubsetAssumption
      DEF TInv, OutcomeReturned, TypeOK, Statuses, WorkerPhases, LivePhases, Terminal,
          rowVars, procVars, workerVars
  <2>1. CASE UNCHANGED vars
    BY <2>1 DEF vars
  <2>2. CASE LeaseExpires
    BY <2>2 DEF LeaseExpires
  <2>3. ASSUME NEW b \in Boots, ProcNext(b) PROVE TInv'
    <3>1. CASE Acquire(b)
      BY <3>1 DEF Acquire
    <3>2. CASE RetentionSweep(b)
      BY <3>2 DEF RetentionSweep
    <3>3. CASE SweepRead(b)
      BY <3>3 DEF SweepRead, StaleJobs
    <3>4. ASSUME NEW j \in Jobs, SweepOne(b, j) PROVE TInv'
      BY <3>4 DEF SweepOne, FinishJob
    <3>5. CASE SweepDone(b)
      BY <3>5 DEF SweepDone
    <3>6. CASE RenewDaemon(b)
      BY <3>6 DEF RenewDaemon
    <3>7. CASE Shutdown(b)
      BY <3>7 DEF Shutdown
    <3>8. CASE DrainDeadline(b)
      BY <3>8 DEF DrainDeadline
    <3>9. CASE Exit(b)
      BY <3>9 DEF Exit, KillGoroutines, Active
    <3>10. CASE Crash(b)
      BY <3>10 DEF Crash, KillGoroutines, Active
    <3> QED
      BY <2>3, <3>1, <3>2, <3>3, <3>4, <3>5, <3>6, <3>7, <3>8, <3>9, <3>10 DEF ProcNext
  <2>4. ASSUME NEW j \in Jobs, JobNext(j) PROVE TInv'
    <3>1. ASSUME NEW b \in Boots, Submit(b, j) PROVE TInv'
      BY <3>1 DEF Submit, ClaimJobWithLocks
    <3>2. CASE RenewLease(j)
      BY <3>2 DEF RenewLease
    <3>3. CASE Checkpoint(j)
      BY <3>3 DEF Checkpoint
    <3>4. ASSUME NEW o \in Terminal, RunnerReturns(j, o) PROVE TInv'
      BY <3>4 DEF RunnerReturns
    <3>5. CASE Abandon(j)
      BY <3>5 DEF Abandon
    <3>6. CASE Finish(j)
      BY <3>6 DEF Finish, FinishJob
    <3>7. CASE FinishFails(j)
      BY <3>7 DEF FinishFails
    <3>8. ASSUME NEW b \in Boots, CancelRead(b, j) PROVE TInv'
      BY <3>8 DEF CancelRead
    <3>9. ASSUME NEW b \in Boots, RequestJobCancel(b, j) PROVE TInv'
      BY <3>9 DEF RequestJobCancel
    <3> QED
      BY <2>4, <3>1, <3>2, <3>3, <3>4, <3>5, <3>6, <3>7, <3>8, <3>9 DEF JobNext
  <2> QED
    BY <2>1, <2>2, <2>3, <2>4 DEF Next
<1> QED
  BY <1>1, <1>2, PTL DEF Spec

\* Every variable keeps its type through claims, sweeps, crashes and rollbacks.
THEOREM TypeCorrect == Spec => []TypeOK
  BY TypeInvariant, PTL DEF TInv

-----------------------------------------------------------------------------
(* The two tables agree, with any number of hosts. *)

\* ClaimJobWithLocks takes every key of the job or is not enabled.
LEMMA ClaimKeepsLocks ==
  ASSUME TypeOK, LocksMatchRows, NEW j \in Jobs, NEW b \in Boots, ClaimJobWithLocks(j, b)
  PROVE  LocksMatchRows'
<1> USE KeysOfAssumption, NullAssumption DEF TypeOK
<1>1. ASSUME NEW k \in Keys, lock'[k] # NoJob
      PROVE  status'[lock'[k]] = "running" /\ k \in KeysOf[lock'[k]]
  <2>1. CASE k \in KeysOf[j]
    BY <1>1, <2>1 DEF ClaimJobWithLocks
  <2>2. CASE k \notin KeysOf[j]
    <3>1. lock'[k] = lock[k]
      BY <2>2 DEF ClaimJobWithLocks
    <3>2. status[lock[k]] = "running" /\ k \in KeysOf[lock[k]] /\ lock[k] \in Jobs
      BY <1>1, <3>1 DEF LocksMatchRows
    <3> QED
      BY <3>1, <3>2 DEF ClaimJobWithLocks
  <2> QED
    BY <2>1, <2>2
<1>2. ASSUME NEW i \in Jobs, status'[i] = "running", NEW k \in KeysOf[i]
      PROVE  lock'[k] = i
  <2>1. CASE i = j
    BY <2>1 DEF ClaimJobWithLocks
  <2>2. CASE i # j
    <3>1. lock[k] = i
      BY <1>2, <2>2 DEF ClaimJobWithLocks, LocksMatchRows
    <3> QED
      BY <3>1 DEF ClaimJobWithLocks
  <2> QED
    BY <2>1, <2>2
<1> QED
  BY <1>1, <1>2 DEF LocksMatchRows

\* FinishJob releases exactly the keys of the job it ends, even when the row it
\* updates is already terminal.
LEMMA FinishKeepsLocks ==
  ASSUME TypeOK, LocksMatchRows, NEW j \in Jobs, NEW st \in Terminal, FinishJob(j, st)
  PROVE  LocksMatchRows'
<1> USE KeysOfAssumption, NullAssumption DEF TypeOK
<1>1. \A i \in Jobs : i # j => status'[i] = status[i]
  BY DEF FinishJob
<1>2. status'[j] # "running"
  BY DEF FinishJob, Terminal
<1>3. ASSUME NEW k \in Keys, lock'[k] # NoJob
      PROVE  status'[lock'[k]] = "running" /\ k \in KeysOf[lock'[k]]
  <2>1. lock'[k] = lock[k] /\ lock[k] # j /\ lock[k] \in Jobs
    BY <1>3 DEF FinishJob
  <2> QED
    BY <1>1, <1>3, <2>1 DEF LocksMatchRows
<1>4. ASSUME NEW i \in Jobs, status'[i] = "running", NEW k \in KeysOf[i]
      PROVE  lock'[k] = i
  <2>1. i # j /\ lock[k] = i
    BY <1>1, <1>2, <1>4 DEF LocksMatchRows
  <2> QED
    BY <2>1 DEF FinishJob
<1> QED
  BY <1>3, <1>4 DEF LocksMatchRows

\* job_locks and job_runs agree in every reachable state, with any number of
\* daemons on the database, live or displaced.
THEOREM LocksAgree == Spec => []LocksMatchRows
<1>1. Init => LocksMatchRows
  BY DEF Init, LocksMatchRows
<1>2. TInv /\ LocksMatchRows /\ [Next]_vars => LocksMatchRows'
  <2> SUFFICES ASSUME TInv, LocksMatchRows, [Next]_vars PROVE LocksMatchRows'
    OBVIOUS
  <2> TypeOK
    BY DEF TInv
  <2>1. CASE UNCHANGED <<status, lock>>
    BY <2>1 DEF LocksMatchRows
  <2>2. ASSUME NEW b \in Boots, RetentionSweep(b) PROVE LocksMatchRows'
    BY <2>2 DEF RetentionSweep, LocksMatchRows, TypeOK, Terminal
  <2>3. ASSUME NEW b \in Boots, NEW j \in Jobs, SweepOne(b, j) PROVE LocksMatchRows'
    BY <2>3, FinishKeepsLocks DEF SweepOne, Terminal
  <2>4. ASSUME NEW b \in Boots, NEW j \in Jobs, Submit(b, j) PROVE LocksMatchRows'
    BY <2>4, ClaimKeepsLocks DEF Submit
  <2>5. ASSUME NEW j \in Jobs, Finish(j) PROVE LocksMatchRows'
    <3>1. outcome[j] \in Terminal
      BY <2>5 DEF TInv, OutcomeReturned, Finish
    <3> QED
      BY <2>5, <3>1, FinishKeepsLocks DEF Finish
  <2>6. ASSUME NEW b \in Boots, ProcNext(b) PROVE LocksMatchRows'
    BY <2>1, <2>2, <2>3, <2>6
    DEF ProcNext, Acquire, SweepRead, SweepDone, RenewDaemon, Shutdown, DrainDeadline,
        Exit, Crash, rowVars
  <2>7. ASSUME NEW j \in Jobs, JobNext(j) PROVE LocksMatchRows'
    BY <2>1, <2>4, <2>5, <2>7
    DEF JobNext, RenewLease, Checkpoint, RunnerReturns, Abandon, FinishFails,
        CancelRead, RequestJobCancel, rowVars
  <2> QED
    BY <2>1, <2>6, <2>7 DEF Next, LeaseExpires, rowVars, vars
<1> QED
  BY <1>1, <1>2, TypeInvariant, PTL DEF Spec

-----------------------------------------------------------------------------
(* One host. *)

OneHostOnly == \A b, c \in Boots : HostOf[b] = HostOf[c]

\* The flock: processes follow each other.
OneLive == \A b, c \in Boots : Live(b) /\ Live(c) => b = c

\* A goroutine at work belongs to the live process that owns the running row.
WorkersOwnRows ==
  \A j \in Jobs : Active(j) =>
    /\ runner[j] \in Boots
    /\ Live(runner[j])
    /\ status[j] = "running"
    /\ owner[j] = runner[j]

\* What a booting process has still to close is running and not its own.
StaleIsDead ==
  \A b \in Boots : \A j \in stale[b] :
    /\ proc[b] \in {"sweeping", "resubmit"}
    /\ status[j] = "running"
    /\ owner[j] # b

\* Past the read of the stale rows, a running row is ours or still to close.
OursOrStale ==
  \A b \in Boots, j \in Jobs :
    /\ proc[b] \in {"sweeping", "resubmit", "serving", "draining", "halted"}
    /\ status[j] = "running"
    => owner[j] = b \/ j \in stale[b]

HInv == OneLive /\ WorkersOwnRows /\ StaleIsDead /\ OursOrStale

\* On one host the flock, the fresh owner of every boot and the sweep before the
\* first submission make this invariant inductive.
LEMMA HostInvariant ==
  ASSUME OneHostOnly
  PROVE  Spec => []HInv
<1>1. Init => HInv
  BY DEF Init, HInv, OneLive, WorkersOwnRows, StaleIsDead, OursOrStale, Live, Active, LivePhases
<1>2. TInv /\ HInv /\ [Next]_vars => HInv'
  <2> SUFFICES ASSUME TInv, HInv, [Next]_vars PROVE HInv'
    OBVIOUS
  <2> USE NullAssumption DEF TInv, TypeOK, HInv, OneLive, WorkersOwnRows, StaleIsDead,
          OursOrStale, Live, Active, LivePhases, rowVars, procVars, workerVars
  <2>1. CASE UNCHANGED vars
    BY <2>1 DEF vars
  <2>2. CASE LeaseExpires
    BY <2>2 DEF LeaseExpires
  <2>3. ASSUME NEW b \in Boots, Acquire(b) PROVE HInv'
    BY <2>3, OneHostOnly DEF Acquire, OneHostOnly
  <2>4. ASSUME NEW b \in Boots, RetentionSweep(b) PROVE HInv'
    BY <2>4 DEF RetentionSweep, Terminal
  <2>5. ASSUME NEW b \in Boots, SweepRead(b) PROVE HInv'
    BY <2>5 DEF SweepRead, StaleJobs
  <2>6. ASSUME NEW b \in Boots, NEW j \in Jobs, SweepOne(b, j) PROVE HInv'
    BY <2>6 DEF SweepOne, FinishJob
  <2>7. ASSUME NEW b \in Boots, SweepDone(b) PROVE HInv'
    BY <2>7 DEF SweepDone
  <2>8. ASSUME NEW b \in Boots, RenewDaemon(b) PROVE HInv'
    BY <2>8 DEF RenewDaemon
  <2>9. ASSUME NEW b \in Boots, Shutdown(b) PROVE HInv'
    BY <2>9 DEF Shutdown
  <2>10. ASSUME NEW b \in Boots, DrainDeadline(b) PROVE HInv'
    BY <2>10 DEF DrainDeadline
  <2>11. ASSUME NEW b \in Boots, Exit(b) PROVE HInv'
    BY <2>11 DEF Exit, KillGoroutines
  <2>12. ASSUME NEW b \in Boots, Crash(b) PROVE HInv'
    BY <2>12 DEF Crash, KillGoroutines
  <2>13. ASSUME NEW b \in Boots, NEW j \in Jobs, Submit(b, j) PROVE HInv'
    BY <2>13 DEF Submit, ClaimJobWithLocks
  <2>14. ASSUME NEW j \in Jobs, RenewLease(j) PROVE HInv'
    BY <2>14 DEF RenewLease
  <2>15. ASSUME NEW j \in Jobs, Checkpoint(j) PROVE HInv'
    BY <2>15 DEF Checkpoint
  <2>16. ASSUME NEW j \in Jobs, NEW o \in Terminal, RunnerReturns(j, o) PROVE HInv'
    BY <2>16 DEF RunnerReturns
  <2>17. ASSUME NEW j \in Jobs, Abandon(j) PROVE HInv'
    BY <2>17 DEF Abandon
  <2>18. ASSUME NEW j \in Jobs, Finish(j) PROVE HInv'
    BY <2>18 DEF Finish, FinishJob, OutcomeReturned, Terminal
  <2>19. ASSUME NEW j \in Jobs, FinishFails(j) PROVE HInv'
    BY <2>19 DEF FinishFails
  <2>20. ASSUME NEW b \in Boots, NEW j \in Jobs, CancelRead(b, j) PROVE HInv'
    BY <2>20 DEF CancelRead
  <2>21. ASSUME NEW b \in Boots, NEW j \in Jobs, RequestJobCancel(b, j) PROVE HInv'
    BY <2>21 DEF RequestJobCancel
  <2> QED
    BY <2>1, <2>2, <2>3, <2>4, <2>5, <2>6, <2>7, <2>8, <2>9, <2>10, <2>11, <2>12, <2>13, <2>14, <2>15, <2>16, <2>17, <2>18, <2>19, <2>20, <2>21
    DEF Next, ProcNext, JobNext
<1> QED
  BY <1>1, <1>2, TypeInvariant, PTL DEF Spec

\* One host: Runners that share a lock key never work at the same time.
THEOREM WorkIsExclusive ==
  ASSUME OneHostOnly
  PROVE  Spec => []WorkExclusion
<1>1. LocksMatchRows /\ HInv => WorkExclusion
  <2> SUFFICES ASSUME LocksMatchRows, HInv, NEW i \in Jobs, NEW j \in Jobs,
                      Active(i), Active(j), NEW k \in KeysOf[i] \cap KeysOf[j]
               PROVE  i = j
    BY DEF WorkExclusion
  <2>1. status[i] = "running" /\ status[j] = "running"
    BY DEF HInv, WorkersOwnRows
  <2> QED
    BY <2>1 DEF LocksMatchRows
<1> QED
  BY <1>1, LocksAgree, HostInvariant, PTL

\* One host: a serving process owns every running row, so no lock outlives the
\* process that took it past the next startup.
THEOREM RecoveryIsComplete ==
  ASSUME OneHostOnly
  PROVE  Spec => []RecoveryComplete
<1>1. TInv /\ HInv => RecoveryComplete
  BY DEF HInv, OursOrStale, StaleIsDead, RecoveryComplete
<1> QED
  BY <1>1, TypeInvariant, HostInvariant, PTL

\* One host: FinishJob, which checks neither owner nor status, is only ever
\* reached for a running row, so a terminal status is final.
THEOREM TerminalStatusIsFinal ==
  ASSUME OneHostOnly
  PROVE  Spec => TerminalIsFinal
<1>1. TInv /\ HInv /\ [Next]_vars =>
        [\A j \in Jobs : status[j] \in Terminal => status'[j] \in {status[j], "pruned"}]_vars
  <2> SUFFICES ASSUME TInv, HInv, [Next]_vars, NEW i \in Jobs, status[i] \in Terminal
               PROVE  status'[i] \in {status[i], "pruned"}
    OBVIOUS
  <2> USE DEF TInv, TypeOK, Terminal
  <2>1. CASE UNCHANGED status
    BY <2>1
  <2>2. ASSUME NEW b \in Boots, RetentionSweep(b) PROVE status'[i] \in {status[i], "pruned"}
    BY <2>2 DEF RetentionSweep
  <2>3. ASSUME NEW b \in Boots, NEW j \in Jobs, SweepOne(b, j)
        PROVE  status'[i] \in {status[i], "pruned"}
    BY <2>3 DEF SweepOne, FinishJob, HInv, StaleIsDead
  <2>4. ASSUME NEW b \in Boots, NEW j \in Jobs, Submit(b, j)
        PROVE  status'[i] \in {status[i], "pruned"}
    BY <2>4 DEF Submit, ClaimJobWithLocks
  <2>5. ASSUME NEW j \in Jobs, Finish(j) PROVE status'[i] \in {status[i], "pruned"}
    BY <2>5 DEF Finish, FinishJob, HInv, WorkersOwnRows, Active
  <2>6. ASSUME NEW b \in Boots, ProcNext(b) PROVE status'[i] \in {status[i], "pruned"}
    BY <2>1, <2>2, <2>3, <2>6
    DEF ProcNext, Acquire, SweepRead, SweepDone, RenewDaemon, Shutdown, DrainDeadline,
        Exit, Crash, rowVars
  <2>7. ASSUME NEW j \in Jobs, JobNext(j) PROVE status'[i] \in {status[i], "pruned"}
    BY <2>1, <2>4, <2>5, <2>7
    DEF JobNext, RenewLease, Checkpoint, RunnerReturns, Abandon, FinishFails,
        CancelRead, RequestJobCancel, rowVars
  <2> QED
    BY <2>1, <2>6, <2>7 DEF Next, LeaseExpires, rowVars, vars
<1> QED
  BY <1>1, TypeInvariant, HostInvariant, PTL DEF Spec, TerminalIsFinal

\* One host: the sweep never closes the job of a process that still lives.
THEOREM SweepIsSafe ==
  ASSUME OneHostOnly
  PROVE  Spec => SweepClosesOnlyDeadJobs
<1>1. HInv => [\A b \in Boots, j \in Jobs :
                 SweepOne(b, j) => ~\E c \in Boots : Live(c) /\ owner[j] = c]_vars
  BY DEF HInv, OneLive, StaleIsDead, SweepOne, Live, LivePhases
<1> QED
  BY <1>1, HostInvariant, PTL DEF SweepClosesOnlyDeadJobs

-----------------------------------------------------------------------------
(* Copies of archives at remote destinations (RemoteCopies). *)

CopyRows ==
  [status : {"none", "pending", "retry_wait", "uploading", "succeeded", "failed", "cancelled", "pruned"},
   cancel : BOOLEAN, late : BOOLEAN, object : BOOLEAN, manifest : BOOLEAN,
   cleanup : BOOLEAN, due : BOOLEAN]
ArchiveRows == [exists : BOOLEAN, class : Classes, flagged : BOOLEAN]

RemoteShape ==
  /\ archives \in [Archives -> ArchiveRows]
  /\ policy.keep \in [Classes -> Nat]
  /\ copies \in [Copy -> CopyRows]
  /\ passes \in [Passers -> [mark : SUBSET Copy, unmark : SUBSET Copy]]
  /\ crossed \in BOOLEAN /\ raised \in BOOLEAN
  /\ rjob.kind \in {"none", "test", "upload", "cleanup"}
  /\ rjob.kind = "upload" => DOMAIN rjob = {"kind", "copy", "at"} /\ rjob.copy \in Copy
  /\ rjob.kind = "cleanup" => DOMAIN rjob = {"kind", "copy", "at", "row"} /\ rjob.copy \in Copy

\* What an upload has put where, step by step.
Uploads ==
  rjob.kind = "upload" =>
    /\ copies[rjob.copy].status = "uploading" /\ archives[rjob.copy[2]].exists
    /\ rjob.at \in {"put", "record", "manifest", "publish", "done"}
    /\ rjob.at # "put" => <<rjob.copy, "archive">> \in cloud
    /\ rjob.at \in {"publish", "done"} => <<rjob.copy, "manifest">> \in cloud

\* The copies that arrived at a place after c, of its class. None ever leaves this set.
Arrived(c) == copies[c].status \in {"succeeded", "pruned"}
Later(c) == {x \in Copy : x[1] = c[1] /\ x[2] > c[2] /\ classOf(x) = classOf(c) /\ Arrived(x)}

\* A copy retention may take: a good one came later, and as many as are kept.
Replaced(c) ==
  \/ classOf(c) = "snapshot" \/ archives[c[2]].flagged
  \/ \E x \in Later(c) : ~archives[x[2]].flagged
PastLimit(c) == keepLimit(classOf(c)) > 0 /\ Cardinality(Later(c)) >= keepLimit(classOf(c))

\* What retention has taken, or is about to.
Doomed(c) ==
  \/ copies[c].status = "pruned"
  \/ copies[c].status = "succeeded" /\ copies[c].cleanup
  \/ \E w \in Passers : c \in passes[w].mark
  \/ rjob.kind = "cleanup" /\ rjob.copy = c /\ copies[c].status = "succeeded"

DoomedReplaced == ~crossed => \A c \in Copy : Doomed(c) => Replaced(c)
DoomedPastLimit == ~crossed /\ ~raised => \A c \in Copy : Doomed(c) => PastLimit(c)

\* Only what arrived is marked, and only a copy that ended is cleaned up.
MarkedArrived == \A w \in Passers : \A c \in passes[w].mark : Arrived(c)
FreshUnmarked ==
  ~crossed => \A c \in Copy :
    copies[c].status \in {"none", "pending", "retry_wait", "uploading"} => ~copies[c].cleanup

\* Without a raised limit no pass takes a mark back.
NoMarkTakenBack == ~crossed /\ ~raised => \A w \in Passers : passes[w].unmark = {}

\* A cleanup works on a copy that is not one to keep.
Cleanups ==
  rjob.kind = "cleanup" /\ ~crossed =>
    /\ copies[rjob.copy].status \in {"failed", "cancelled", "succeeded"}
    /\ ~raised /\ copies[rjob.copy].status = "succeeded" => copies[rjob.copy].cleanup

RemoteInv ==
  /\ RemoteShape /\ Uploads /\ KeptCopyRestorable /\ DoomedReplaced /\ DoomedPastLimit
  /\ MarkedArrived /\ FreshUnmarked /\ NoMarkTakenBack /\ Cleanups

\* A finite set of archive numbers has a greatest element.
LEMMA GreatestNumber ==
  ASSUME NEW S, S \subseteq Nat, IsFiniteSet(S), S # {}
  PROVE  \E x \in S : \A y \in S : y <= x
<1> DEFINE Above(x) == {y \in S : y > x}
           T == {Cardinality(Above(x)) : x \in S}
<1>1. \A x \in S : IsFiniteSet(Above(x)) /\ Cardinality(Above(x)) \in Nat
  BY FS_Subset, FS_CardinalityType
<1>2. T \subseteq Nat /\ T # {}
  BY <1>1
<1>3. \E m \in T : \A n \in T : ~(<<n, m>> \in OpToRel(<, Nat))
  <2> HIDE DEF T
  <2> QED
    BY <1>2, NatLessThanWellFounded, WFMin
<1>4. PICK m \in T : \A n \in T : ~(<<n, m>> \in OpToRel(<, Nat))
  BY <1>3
<1>5. PICK x \in S : m = Cardinality(Above(x))
  BY <1>4
<1>6. ASSUME NEW y \in S, ~(y <= x) PROVE FALSE
  <2>1. y \in Above(x) /\ y \notin Above(y) /\ x \in Nat /\ y \in Nat
    BY <1>6
  <2>2. Above(y) \subseteq Above(x)
    <3>1. y > x
      BY <1>6, <2>1
    <3>2. \A z \in S : z > y => z > x
      <4> TAKE z \in S
      <4>1. z \in Nat
        OBVIOUS
      <4> QED
        BY <2>1, <3>1, <4>1
    <3> QED
      BY <3>2
  <2>3. IsFiniteSet(Above(x)) /\ Cardinality(Above(x)) \in Nat /\ Cardinality(Above(y)) \in Nat
    BY <1>1
  <2>4. Cardinality(Above(y)) <= Cardinality(Above(x)) /\ Cardinality(Above(y)) # Cardinality(Above(x))
    <3> DEFINE A == Above(x)
               B == Above(y)
    <3>1. B \subseteq A /\ IsFiniteSet(A) /\ A # B
      BY <2>1, <2>2, <2>3
    <3> HIDE DEF A, B
    <3>2. Cardinality(B) <= Cardinality(A) /\ Cardinality(B) # Cardinality(A)
      BY <3>1, FS_Subset
    <3> QED
      BY <3>2 DEF A, B
  <2>5. Cardinality(Above(y)) < m /\ Cardinality(Above(y)) \in T /\ m \in Nat
    <3>1. Cardinality(Above(y)) \in T
      OBVIOUS
    <3> HIDE DEF Above, T
    <3> QED
      BY <1>5, <2>3, <2>4, <3>1
  <2>6. <<Cardinality(Above(y)), m>> \in OpToRel(<, Nat)
    BY <2>3, <2>5 DEF OpToRel
  <2> QED
    BY <1>4, <2>5, <2>6
<1> QED
  BY <1>6

\* The copies of one place are finitely many.
LEMMA PlaceFinite ==
  ASSUME NEW p \in Places, NEW S, S \subseteq {x \in Copy : x[1] = p}
  PROVE  IsFiniteSet(S) /\ Cardinality(S) \in Nat
<1>1. IsFiniteSet({p}) /\ IsFiniteSet(Archives)
  BY FS_Singleton, RemoteAssumption
<1>2. IsFiniteSet({p} \X Archives)
  BY <1>1, FS_Product
<1>3. S \subseteq {p} \X Archives
  BY DEF Copy
<1> QED
  BY <1>2, <1>3, FS_Subset, FS_CardinalityType

\* Of copies of one place there is a newest.
LEMMA NewestCopy ==
  ASSUME NEW p \in Places, NEW S, S \subseteq {x \in Copy : x[1] = p}, S # {}
  PROVE  \E x \in S : \A y \in S : y[2] <= x[2]
<1> DEFINE N == {x[2] : x \in S}
<1>1. N \subseteq Archives /\ N # {}
  BY DEF Copy
<1>2. N \subseteq Nat /\ IsFiniteSet(N)
  BY <1>1, RemoteAssumption, FS_Subset
<1>3. PICK n \in N : \A k \in N : k <= n
  <2> HIDE DEF N
  <2> QED
    BY <1>1, <1>2, GreatestNumber
<1> QED
  BY <1>3

\* What came after a copy is of its place.
LEMMA LaterFinite ==
  ASSUME NEW c \in Copy
  PROVE  IsFiniteSet(Later(c)) /\ Cardinality(Later(c)) \in Nat
<1>1. c[1] \in Places /\ Later(c) \subseteq {x \in Copy : x[1] = c[1]}
  BY DEF Later, Copy
<1> QED
  BY <1>1, PlaceFinite

\* What came after a later copy came after the earlier one.
LEMMA LaterNested ==
  ASSUME NEW c \in Copy, NEW x \in Later(c)
  PROVE  Later(x) \subseteq Later(c)
<1>1. x[1] = c[1] /\ x[2] > c[2] /\ classOf(x) = classOf(c) /\ x \in Copy
  BY DEF Later
<1>2. c[2] \in Nat /\ x[2] \in Nat
  BY <1>1, RemoteAssumption DEF Copy
<1>3. \A y \in Copy : y[2] \in Nat
  BY RemoteAssumption DEF Copy
<1> QED
  BY <1>1, <1>2, <1>3 DEF Later

\* Copies arrive and never go back, archives that have copies keep their class and flag, and a
\* limit that is not raised is not exceeded by less: what may be taken stays so.
LEMMA ReplacedStays ==
  ASSUME NEW c \in Copy, classOf(c)' = classOf(c),
         archives'[c[2]].flagged = archives[c[2]].flagged,
         \A x \in Copy : Arrived(x) => /\ Arrived(x)' /\ classOf(x)' = classOf(x)
                                       /\ archives'[x[2]].flagged = archives[x[2]].flagged
  PROVE  /\ Later(c) \subseteq Later(c)' /\ (Replaced(c) => Replaced(c)')
         /\ Cardinality(Later(c)) <= Cardinality(Later(c)')
<1>1. Later(c) \subseteq Later(c)'
  BY DEF Later
<1>2. Replaced(c) => Replaced(c)'
  BY <1>1 DEF Replaced, Later
<1>3. IsFiniteSet(Later(c)')
  <2>1. c[1] \in Places /\ Later(c)' \subseteq {x \in Copy : x[1] = c[1]}
    BY DEF Later, Copy
  <2> QED
    BY <2>1, PlaceFinite
<1>4. Cardinality(Later(c)) <= Cardinality(Later(c)')
  <2> DEFINE A == Later(c)
             B == Later(c)'
  <2>1. A \subseteq B /\ IsFiniteSet(B)
    BY <1>1, <1>3
  <2> HIDE DEF A, B
  <2>2. Cardinality(A) <= Cardinality(B)
    BY <2>1, FS_Subset
  <2> QED
    BY <2>2 DEF A, B
<1> QED
  BY <1>1, <1>2, <1>4

\* The newer copies of a list of one place are among those that came later.
LEMMA NewerIsLater ==
  ASSUME NEW p \in Places, NEW c \in RemoteRetentionCopies(p)
  PROVE  /\ c \in Copy /\ c[1] = p /\ copies[c].status = "succeeded"
         /\ Newer(c, RemoteRetentionCopies(p)) =
              {x \in Later(c) : copies[x].status = "succeeded"}
  BY DEF RemoteRetentionCopies, Newer, Later, Arrived

\* What a pass marks may go: something good came later, and as much as is kept.
LEMMA MarkedMayGo ==
  ASSUME RemoteInv, NEW p \in Places, NEW c \in markInstanceRetention(p).mark
  PROVE  c \in Copy /\ Arrived(c) /\ Replaced(c) /\ PastLimit(c)
<1> DEFINE list == RemoteRetentionCopies(p)
<1>1. /\ c \in list /\ keepLimit(classOf(c)) > 0
      /\ Cardinality(Newer(c, list)) >= keepLimit(classOf(c)) /\ ~lastGood(c, list)
  BY DEF markInstanceRetention
<1>2. c \in Copy /\ copies[c].status = "succeeded"
      /\ Newer(c, list) = {x \in Later(c) : copies[x].status = "succeeded"}
  BY <1>1, NewerIsLater
<1>3. Replaced(c)
  BY <1>1, <1>2 DEF lastGood, Replaced
<1>4. IsFiniteSet(Later(c)) /\ Cardinality(Later(c)) \in Nat
  BY <1>2, LaterFinite
<1>5. Newer(c, list) \subseteq Later(c)
  BY <1>2
<1>6. Cardinality(Newer(c, list)) <= Cardinality(Later(c)) /\ Cardinality(Newer(c, list)) \in Nat
  <2> DEFINE A == Newer(c, list)
  <2>1. A \subseteq Later(c)
    BY <1>5
  <2> HIDE DEF A
  <2>2. Cardinality(A) <= Cardinality(Later(c)) /\ Cardinality(A) \in Nat
    BY <2>1, <1>4, FS_Subset, FS_CardinalityType
  <2> QED
    BY <2>2 DEF A
<1>7. keepLimit(classOf(c)) \in Nat
  <2>1. classOf(c) \in Classes /\ policy.keep \in [Classes -> Nat]
    BY <1>2 DEF RemoteInv, RemoteShape, classOf, ArchiveRows, Copy
  <2> QED
    BY <2>1 DEF keepLimit
<1>8. PastLimit(c)
  BY <1>1, <1>4, <1>6, <1>7 DEF PastLimit
<1> QED
  BY <1>2, <1>3, <1>8 DEF Arrived

\* A copy marked for cleanup is past the limit of every later pass too: of the copies that came
\* after it, the ones already pruned had enough that came after them.
LEMMA MarkStays ==
  ASSUME RemoteInv, ~crossed, ~raised, NEW p \in Places, NEW c \in RemoteRetentionCopies(p),
         copies[c].cleanup
  PROVE  c \in markInstanceRetention(p).mark
<1> DEFINE list == RemoteRetentionCopies(p)
           k == keepLimit(classOf(c))
           gone == {x \in Later(c) : copies[x].status = "pruned"}
<1>1. c \in Copy /\ c[1] = p /\ copies[c].status = "succeeded"
      /\ Newer(c, list) = {x \in Later(c) : copies[x].status = "succeeded"}
  BY NewerIsLater
<1>2. Replaced(c) /\ PastLimit(c)
  BY <1>1 DEF RemoteInv, DoomedReplaced, DoomedPastLimit, Doomed
<1>3. k \in Nat
  <2>1. classOf(c) \in Classes /\ policy.keep \in [Classes -> Nat]
    BY <1>1 DEF RemoteInv, RemoteShape, classOf, ArchiveRows, Copy
  <2> QED
    BY <2>1 DEF keepLimit
<1>4. \A x \in gone : /\ x \in Copy /\ x[1] = p /\ Replaced(x) /\ PastLimit(x)
                      /\ Later(x) \subseteq Later(c) /\ classOf(x) = classOf(c)
  <2> TAKE x \in gone
  <2>1. x \in Later(c) /\ x \in Copy /\ x[1] = p /\ copies[x].status = "pruned"
        /\ classOf(x) = classOf(c)
    BY <1>1 DEF Later
  <2>2. Replaced(x) /\ PastLimit(x)
    BY <2>1 DEF RemoteInv, DoomedReplaced, DoomedPastLimit, Doomed
  <2> QED
    BY <1>1, <2>1, <2>2, LaterNested
<1>5. \A x \in Later(c) : x \in gone \/ x \in Newer(c, list)
  BY <1>1 DEF Later, Arrived
<1>6. \A x \in Copy : x[2] \in Nat
  BY RemoteAssumption DEF Copy
<1>7. Cardinality(Newer(c, list)) >= k
  <2>0. IsFiniteSet(Newer(c, list)) /\ Cardinality(Newer(c, list)) \in Nat
    <3> DEFINE A == Newer(c, list)
    <3>1. A \subseteq {x \in Copy : x[1] = p}
      BY <1>1 DEF Later
    <3> HIDE DEF A
    <3>2. IsFiniteSet(A) /\ Cardinality(A) \in Nat
      BY <3>1, PlaceFinite
    <3> QED
      BY <3>2 DEF A
  <2>1. ASSUME NEW S, S \subseteq Newer(c, list), Cardinality(S) >= k
        PROVE  Cardinality(Newer(c, list)) >= k
    <3> DEFINE A == Newer(c, list)
    <3>1. S \subseteq A /\ IsFiniteSet(A) /\ Cardinality(A) \in Nat
      BY <2>0, <2>1
    <3> HIDE DEF A, k
    <3>2. Cardinality(S) <= Cardinality(A) /\ Cardinality(S) \in Nat
      BY <3>1, FS_Subset, FS_CardinalityType
    <3>3. Cardinality(A) >= k
      BY <3>1, <3>2, <2>1, <1>3
    <3> QED
      BY <3>3 DEF A
  <2>2. CASE gone = {}
    <3>1. Later(c) \subseteq Newer(c, list)
      BY <1>5, <2>2
    <3>2. Cardinality(Later(c)) >= k
      BY <1>2 DEF PastLimit
    <3> QED
      BY <3>1, <3>2, <2>1
  <2>3. CASE gone # {}
    <3>1. gone \subseteq {x \in Copy : x[1] = p}
      BY <1>4
    <3>2. PICK x \in gone : \A y \in gone : y[2] <= x[2]
      <4> HIDE DEF gone
      <4> QED
        BY <2>3, <3>1, NewestCopy
    <3>3. \A y \in Later(x) : y \in Newer(c, list)
      <4> TAKE y \in Later(x)
      <4>1. y \in Later(c) /\ y \in Copy /\ y[2] > x[2] /\ x \in Copy
        BY <1>4, <3>2 DEF Later
      <4>2. y \notin gone
        BY <1>6, <3>2, <4>1
      <4> QED
        BY <1>5, <4>1, <4>2
    <3>4. Cardinality(Later(x)) >= k
      BY <1>4, <3>2 DEF PastLimit
    <3> QED
      BY <3>3, <3>4, <2>1
  <2> QED
    BY <2>2, <2>3
<1>8. ~lastGood(c, list)
  <2>1. CASE classOf(c) = "snapshot" \/ archives[c[2]].flagged
    BY <2>1 DEF lastGood
  <2>2. CASE ~(classOf(c) = "snapshot" \/ archives[c[2]].flagged)
    <3> DEFINE good == {x \in Later(c) : ~archives[x[2]].flagged}
    <3>1. good # {}
      BY <1>2, <2>2 DEF Replaced
    <3>2. good \subseteq {x \in Copy : x[1] = p}
      BY <1>1 DEF Later
    <3>3. PICK x \in good : \A y \in good : y[2] <= x[2]
      <4> HIDE DEF good
      <4> QED
        BY <3>1, <3>2, NewestCopy
    <3>4. x \in Copy /\ x \in Later(c) /\ ~archives[x[2]].flagged
      BY <3>2, <3>3
    <3>5. x \notin gone
      <4> SUFFICES ASSUME x \in gone PROVE FALSE
        OBVIOUS
      <4>1. Replaced(x) /\ Later(x) \subseteq Later(c) /\ classOf(x) = classOf(c)
        BY <1>4
      <4>2. PICK y \in Later(x) : ~archives[y[2]].flagged
        BY <2>2, <3>4, <4>1 DEF Replaced
      <4>3. y \in good /\ y \in Copy /\ y[2] > x[2]
        BY <4>1, <4>2 DEF Later
      <4> QED
        BY <1>6, <3>3, <3>4, <4>3
    <3>6. x \in Newer(c, list)
      BY <1>5, <3>4, <3>5
    <3> QED
      BY <3>4, <3>6 DEF lastGood
  <2> QED
    BY <2>1, <2>2
<1>9. keepLimit(classOf(c)) > 0
  BY <1>2 DEF PastLimit
<1> QED
  BY <1>7, <1>8, <1>9 DEF markInstanceRetention

\* So a pass that no raised limit precedes takes no mark back.
LEMMA NothingUnmarked ==
  ASSUME RemoteInv, ~crossed, ~raised, NEW p \in Places
  PROVE  markInstanceRetention(p).unmark = {}
<1> SUFFICES ASSUME NEW c \in markInstanceRetention(p).unmark PROVE FALSE
  OBVIOUS
<1>1. c \in RemoteRetentionCopies(p) /\ copies[c].cleanup /\ c \notin markInstanceRetention(p).mark
  BY DEF markInstanceRetention
<1> QED
  BY <1>1, MarkStays

\* Only what arrived is doomed.
LEMMA DoomedArrived == ASSUME RemoteInv, NEW c \in Copy, Doomed(c) PROVE Arrived(c)
  BY DEF RemoteInv, MarkedArrived, Doomed, Arrived

\* What arrived stays, and keeps the class and the flag of its archive.
StaysArrived ==
  \A x \in Copy : Arrived(x) => /\ Arrived(x)' /\ classOf(x)' = classOf(x)
                                /\ archives'[x[2]].flagged = archives[x[2]].flagged

\* Unless a limit is raised, none grows or is lifted.
LimitsNotRaised ==
  ~raised' => /\ ~raised
              /\ \A k \in Classes : policy.keep[k] > 0 =>
                   policy'.keep[k] > 0 /\ policy'.keep[k] <= policy.keep[k]

\* A step that dooms nothing but what retention may take keeps that so.
LEMMA DoomedStays ==
  ASSUME RemoteInv, RemoteShape', StaysArrived, LimitsNotRaised, ~crossed' => ~crossed,
         ~crossed' => \A c \in Copy : Doomed(c)' =>
           Doomed(c) \/ (Arrived(c) /\ Replaced(c) /\ PastLimit(c))
  PROVE  DoomedReplaced' /\ DoomedPastLimit'
<1>1. ASSUME NEW c \in Copy, Doomed(c)', ~crossed'
      PROVE  Replaced(c)' /\ (~raised' => PastLimit(c)')
  <2>1. Arrived(c) /\ Replaced(c) /\ (~raised => PastLimit(c))
    BY <1>1, DoomedArrived DEF RemoteInv, DoomedReplaced, DoomedPastLimit
  <2>2. /\ Replaced(c)' /\ classOf(c)' = classOf(c)
        /\ Cardinality(Later(c)) <= Cardinality(Later(c)')
    BY <2>1, ReplacedStays DEF StaysArrived
  <2>3. ASSUME ~raised' PROVE PastLimit(c)'
    <3>1. classOf(c) \in Classes
      BY DEF RemoteInv, RemoteShape, classOf, ArchiveRows, Copy
    <3> DEFINE k == classOf(c)
    <3>2. policy.keep[k] \in Nat /\ policy'.keep[k] \in Nat
      BY <3>1 DEF RemoteInv, RemoteShape
    <3>3. policy.keep[k] > 0 /\ Cardinality(Later(c)) >= policy.keep[k]
      BY <2>1, <2>3 DEF LimitsNotRaised, PastLimit, keepLimit
    <3>4. policy'.keep[k] > 0 /\ policy'.keep[k] <= policy.keep[k]
      BY <2>3, <3>1, <3>3 DEF LimitsNotRaised
    <3>5. Cardinality(Later(c)) \in Nat
      BY LaterFinite
    <3>6. Cardinality(Later(c)') \in Nat
      <4>1. c[1] \in Places /\ Later(c)' \subseteq {x \in Copy : x[1] = c[1]}
        BY DEF Later, Copy
      <4> QED
        BY <4>1, PlaceFinite
    <3>7. policy'.keep[k] > 0 /\ Cardinality(Later(c)') >= policy'.keep[k]
      <4> DEFINE m == Cardinality(Later(c))
                 n == Cardinality(Later(c)')
      <4>1. m <= n /\ m \in Nat /\ n \in Nat /\ m >= policy.keep[k]
        BY <2>2, <3>3, <3>5, <3>6
      <4> HIDE DEF m, n, k
      <4>2. n >= policy'.keep[k]
        BY <4>1, <3>2, <3>4
      <4> QED
        BY <4>2, <3>4 DEF n
    <3> QED
      BY <2>2, <3>7 DEF PastLimit, keepLimit
  <2> QED
    BY <2>2, <2>3
<1> QED
  BY <1>1 DEF DoomedReplaced, DoomedPastLimit

\* A step beside the jobs: it may end one, and move copies that have not arrived.
LEMMA QuietStep ==
  ASSUME RemoteInv, RemoteShape', LimitsNotRaised, ~crossed' => ~crossed,
         UNCHANGED cloud, rjob' = rjob \/ rjob'.kind \in {"none", "test"},
         \A x \in Copy : copies[x].status # "none" =>
           /\ classOf(x)' = classOf(x) /\ archives'[x[2]].flagged = archives[x[2]].flagged,
         \A x \in Copy : Arrived(x) \/ Arrived(x)' =>
           copies'[x].status = copies[x].status /\ copies'[x].cleanup = copies[x].cleanup,
         rjob'.kind = "upload" =>
           copies'[rjob.copy].status = "uploading" /\ archives'[rjob.copy[2]].exists,
         ~crossed' => \A x \in Copy :
           copies'[x].status \in {"none", "pending", "retry_wait", "uploading"} =>
             \/ ~copies'[x].cleanup
             \/ /\ copies[x].cleanup
                /\ copies[x].status \in {"none", "pending", "retry_wait", "uploading"},
         rjob'.kind = "cleanup" /\ ~crossed' =>
           (copies[rjob.copy].status \in {"failed", "cancelled"} =>
              copies'[rjob.copy].status \in {"failed", "cancelled"}),
         \A w \in Passers : \A c \in passes'[w].mark :
           c \in passes[w].mark \/ (Arrived(c) /\ Replaced(c) /\ PastLimit(c)),
         ~crossed /\ ~raised => \A w \in Passers : passes'[w].unmark \subseteq passes[w].unmark
  PROVE  RemoteInv'
<1>0. /\ RemoteShape /\ Uploads /\ KeptCopyRestorable /\ MarkedArrived /\ FreshUnmarked
      /\ NoMarkTakenBack /\ Cleanups
  BY DEF RemoteInv
<1>1. \A x \in Copy : Arrived(x) \/ Arrived(x)' =>
        /\ copies[x].status # "none" /\ copies'[x].status = copies[x].status
        /\ copies'[x].cleanup = copies[x].cleanup /\ (Arrived(x)' <=> Arrived(x))
  BY DEF Arrived
<1>2. StaysArrived
  BY <1>1 DEF StaysArrived
<1>3. \A c \in Copy : Doomed(c)' => Doomed(c) \/ (Arrived(c) /\ Replaced(c) /\ PastLimit(c))
  <2> SUFFICES ASSUME NEW c \in Copy, Doomed(c)'
               PROVE  Doomed(c) \/ (Arrived(c) /\ Replaced(c) /\ PastLimit(c))
    OBVIOUS
  <2>1. CASE copies'[c].status \in {"pruned", "succeeded"}
           /\ (copies'[c].status = "pruned" \/ copies'[c].cleanup)
    BY <1>1, <2>1 DEF Doomed, Arrived
  <2>2. CASE \E w \in Passers : c \in passes'[w].mark
    BY <2>2 DEF Doomed
  <2>3. CASE rjob'.kind = "cleanup" /\ rjob'.copy = c /\ copies'[c].status = "succeeded"
    BY <1>1, <2>3 DEF Doomed, Arrived
  <2> QED
    BY <2>1, <2>2, <2>3 DEF Doomed
<1>4. DoomedReplaced' /\ DoomedPastLimit'
  BY <1>2, <1>3, DoomedStays
<1>5. Uploads'
  BY <1>0 DEF Uploads
<1>6. KeptCopyRestorable'
  <2>1. ~raised' => ~raised
    BY DEF LimitsNotRaised
  <2> QED
    BY <1>0, <1>1, <2>1 DEF KeptCopyRestorable, Arrived
<1>7. MarkedArrived'
  <2> SUFFICES ASSUME NEW w \in Passers, NEW c \in passes'[w].mark PROVE Arrived(c)'
    BY DEF MarkedArrived
  <2>1. c \in Copy
    BY DEF RemoteShape
  <2> QED
    BY <1>0, <1>1, <2>1 DEF MarkedArrived
<1>8. FreshUnmarked'
  BY <1>0 DEF FreshUnmarked
<1>9. NoMarkTakenBack'
  BY <1>0 DEF NoMarkTakenBack, LimitsNotRaised
<1>10. Cleanups'
  <2> SUFFICES ASSUME rjob'.kind = "cleanup", ~crossed'
               PROVE  /\ copies'[rjob'.copy].status \in {"failed", "cancelled", "succeeded"}
                      /\ ~raised' /\ copies'[rjob'.copy].status = "succeeded" => copies'[rjob'.copy].cleanup
    BY DEF Cleanups
  <2>1. rjob' = rjob /\ rjob.copy \in Copy
    BY <1>0 DEF RemoteShape
  <2>2. /\ copies[rjob.copy].status \in {"failed", "cancelled", "succeeded"}
        /\ ~raised /\ copies[rjob.copy].status = "succeeded" => copies[rjob.copy].cleanup
    BY <1>0, <2>1 DEF Cleanups
  <2> QED
    BY <1>1, <2>1, <2>2 DEF Arrived, LimitsNotRaised
<1> QED
  BY <1>4, <1>5, <1>6, <1>7, <1>8, <1>9, <1>10 DEF RemoteInv

\* Nothing the invariant speaks of moves, but a job may end and passes be lost.
LEMMA AsideStep ==
  ASSUME RemoteInv, UNCHANGED <<archives, policy, copies, cloud, crossed, raised>>,
         rjob' = rjob \/ rjob' = NoRemoteJob \/ rjob' = [kind |-> "test"],
         passes' = passes \/ passes' = [w \in Passers |-> NoPass]
  PROVE  RemoteInv'
<1>1. rjob' = rjob \/ rjob'.kind \in {"none", "test"}
  BY DEF NoRemoteJob
<1>2. passes' \in [Passers -> [mark : SUBSET Copy, unmark : SUBSET Copy]]
  BY DEF RemoteInv, RemoteShape, NoPass
<1>3. RemoteShape'
  BY <1>1, <1>2 DEF RemoteInv, RemoteShape
<1>4. LimitsNotRaised
  <2>1. \A k \in Classes : policy.keep[k] \in Nat
    BY DEF RemoteInv, RemoteShape
  <2> QED
    BY <2>1 DEF LimitsNotRaised
<1>5. \A w \in Passers : passes'[w].mark \subseteq passes[w].mark /\ passes'[w].unmark \subseteq passes[w].unmark
  BY DEF NoPass
<1>6. \A x \in Copy : classOf(x)' = classOf(x)
  BY DEF classOf
<1>7. rjob'.kind = "upload" => copies'[rjob.copy].status = "uploading" /\ archives'[rjob.copy[2]].exists
  BY <1>1 DEF RemoteInv, Uploads
<1> QED
  BY <1>1, <1>3, <1>4, <1>5, <1>6, <1>7, QuietStep

\* A row that has not arrived moves among the states of waiting and of having failed; the row
\* of a running upload stays, and a failed one leaves only if no cleanup works on it.
MovesRow(x) ==
  \/ /\ copies'[x].status = copies[x].status
     /\ \/ copies'[x].cleanup = copies[x].cleanup
        \/ copies[x].status \in {"failed", "cancelled"}
  \/ /\ copies[x].status \in {"none", "pending", "retry_wait", "uploading", "failed", "cancelled"}
     /\ copies'[x].status \in {"pending", "retry_wait", "failed", "cancelled"}
     /\ ~(rjob'.kind = "upload" /\ rjob'.copy = x)
     /\ copies'[x].status \in {"pending", "retry_wait"} =>
          \/ ~copies'[x].cleanup
          \/ copies[x].cleanup /\ copies[x].status \in {"none", "pending", "retry_wait", "uploading"}
     /\ (rjob'.kind = "cleanup" /\ rjob'.copy = x /\ ~crossed'
         /\ copies[x].status \in {"failed", "cancelled"}) =>
          copies'[x].status \in {"failed", "cancelled"}

\* Rows that only move forward and marks that a pass has taken keep the invariant.
LEMMA RowStep ==
  ASSUME RemoteInv, UNCHANGED <<policy, cloud, raised>>, archives' \in [Archives -> ArchiveRows],
         crossed' \in BOOLEAN, ~crossed' => ~crossed,
         rjob' = rjob \/ rjob' = NoRemoteJob, copies' \in [Copy -> CopyRows],
         \A x \in Copy : MovesRow(x),
         \A x \in Copy : copies[x].status # "none" => archives'[x[2]] = archives[x[2]],
         passes' \in [Passers -> [mark : SUBSET Copy, unmark : SUBSET Copy]],
         \A w \in Passers : \A c \in passes'[w].mark :
           c \in passes[w].mark \/ (Arrived(c) /\ Replaced(c) /\ PastLimit(c)),
         ~crossed /\ ~raised => \A w \in Passers : passes'[w].unmark \subseteq passes[w].unmark
  PROVE  RemoteInv'
<1>1. rjob' = rjob \/ rjob'.kind \in {"none", "test"}
  BY DEF NoRemoteJob
<1>2. RemoteShape'
  BY <1>1 DEF RemoteInv, RemoteShape
<1>3. LimitsNotRaised
  <2>1. \A k \in Classes : policy.keep[k] \in Nat
    BY DEF RemoteInv, RemoteShape
  <2> QED
    BY <2>1 DEF LimitsNotRaised
<1>4. \A x \in Copy : copies[x].status # "none" =>
         /\ classOf(x)' = classOf(x) /\ archives'[x[2]].flagged = archives[x[2]].flagged
  BY DEF classOf
<1>5. \A x \in Copy : Arrived(x) \/ Arrived(x)' =>
         copies'[x].status = copies[x].status /\ copies'[x].cleanup = copies[x].cleanup
  BY DEF MovesRow, Arrived
<1>6. rjob'.kind = "upload" => copies'[rjob.copy].status = "uploading" /\ archives'[rjob.copy[2]].exists
  <2> SUFFICES ASSUME rjob'.kind = "upload"
               PROVE  copies'[rjob.copy].status = "uploading" /\ archives'[rjob.copy[2]].exists
    OBVIOUS
  <2>1. rjob' = rjob /\ rjob.copy \in Copy /\ copies[rjob.copy].status = "uploading"
        /\ archives[rjob.copy[2]].exists
    BY <1>1 DEF RemoteInv, Uploads, RemoteShape
  <2> QED
    BY <2>1 DEF MovesRow
<1>7. \A x \in Copy :
        copies'[x].status \in {"none", "pending", "retry_wait", "uploading"} =>
          \/ ~copies'[x].cleanup
          \/ /\ copies[x].cleanup
             /\ copies[x].status \in {"none", "pending", "retry_wait", "uploading"}
  BY DEF MovesRow
<1>8. rjob'.kind = "cleanup" /\ ~crossed' =>
        (copies[rjob.copy].status \in {"failed", "cancelled"} =>
           copies'[rjob.copy].status \in {"failed", "cancelled"})
  <2> SUFFICES ASSUME rjob'.kind = "cleanup", ~crossed', copies[rjob.copy].status \in {"failed", "cancelled"}
               PROVE  copies'[rjob.copy].status \in {"failed", "cancelled"}
    OBVIOUS
  <2>1. rjob' = rjob /\ rjob.copy \in Copy
    BY <1>1 DEF RemoteInv, RemoteShape
  <2> QED
    BY <2>1 DEF MovesRow
<1> QED
  BY <1>1, <1>2, <1>3, <1>4, <1>5, <1>6, <1>7, <1>8, QuietStep

\* The same without passes and archives.
LEMMA RowsOnly ==
  ASSUME RemoteInv, UNCHANGED <<archives, policy, cloud, passes, raised>>,
         crossed' \in BOOLEAN, ~crossed' => ~crossed,
         rjob' = rjob \/ rjob' = NoRemoteJob, copies' \in [Copy -> CopyRows],
         \A x \in Copy : MovesRow(x)
  PROVE  RemoteInv'
<1>1. /\ archives' \in [Archives -> ArchiveRows]
      /\ passes' \in [Passers -> [mark : SUBSET Copy, unmark : SUBSET Copy]]
  BY DEF RemoteInv, RemoteShape
<1> QED
  BY <1>1, RowStep

\* Rows of copies, and the archives beside them.
LEMMA RowFacts ==
  ASSUME RemoteInv
  PROVE  /\ copies \in [Copy -> CopyRows] /\ archives \in [Archives -> ArchiveRows]
         /\ passes \in [Passers -> [mark : SUBSET Copy, unmark : SUBSET Copy]]
         /\ crossed \in BOOLEAN
         /\ \A a \in Archives : enqueueRemoteCopy(a) \in [Copy -> CopyRows]
  BY DEF RemoteInv, RemoteShape, enqueueRemoteCopy, NoCopy, CopyRows

\* A new row waits; every other row is left as it is.
LEMMA EnqueueMoves ==
  ASSUME RemoteInv, NEW a \in Archives, copies' = enqueueRemoteCopy(a), rjob' = rjob
  PROVE  \A x \in Copy : MovesRow(x)
<1> TAKE x \in Copy
<1>1. CASE copies'[x] = copies[x]
  BY <1>1 DEF MovesRow
<1>2. CASE copies'[x] # copies[x]
  <2>1. copies[x].status = "none" /\ copies'[x] = [NoCopy EXCEPT !.status = "pending"]
    BY <1>2 DEF enqueueRemoteCopy
  <2>2. copies'[x].status = "pending" /\ copies'[x].cleanup = FALSE
    BY <2>1 DEF NoCopy
  <2>3. ~(rjob'.kind = "upload" /\ rjob'.copy = x)
    BY <2>1 DEF RemoteInv, Uploads
  <2> QED
    BY <2>1, <2>2, <2>3 DEF MovesRow
<1> QED
  BY <1>1, <1>2

\* An archive is made, with the highest number so far.
LEMMA CreateBackupKeepsCopies ==
  ASSUME RemoteInv, NEW a \in Archives, NEW m \in Makes, createBackup(a, m[1], m[2])
  PROVE  RemoteInv'
<1>a. /\ \A b \in Archives : b >= a => \A p \in Places : copies[<<p, b>>].status = "none"
      /\ archives' = [archives EXCEPT ![a] = [exists |-> TRUE, class |-> m[1], flagged |-> m[2]]]
      /\ copies' = IF policy.auto THEN enqueueRemoteCopy(a) ELSE copies
      /\ UNCHANGED <<policy, cloud, rjob, passes, crossed, raised>>
  BY DEF createBackup
<1>1. m[1] \in Classes /\ m[2] \in BOOLEAN
  BY RemoteAssumption DEF Classes
<1>2. archives' \in [Archives -> ArchiveRows]
  BY <1>1, <1>a, RowFacts DEF ArchiveRows
<1>3. \A x \in Copy : copies[x].status # "none" => archives'[x[2]] = archives[x[2]]
  <2> SUFFICES ASSUME NEW x \in Copy, copies[x].status # "none" PROVE archives'[x[2]] = archives[x[2]]
    OBVIOUS
  <2>1. x[2] # a
    <3> SUFFICES ASSUME x[2] = a PROVE FALSE
      OBVIOUS
    <3>1. x = <<x[1], a>> /\ x[1] \in Places /\ a >= a
      BY RemoteAssumption DEF Copy
    <3> QED
      BY <3>1, <1>a
  <2> QED
    BY <2>1, <1>a, RowFacts DEF Copy
<1>4. copies' \in [Copy -> CopyRows] /\ \A x \in Copy : MovesRow(x)
  <2>1. CASE copies' = copies
    BY <2>1, RowFacts DEF MovesRow
  <2>2. CASE copies' = enqueueRemoteCopy(a)
    BY <2>2, <1>a, RowFacts, EnqueueMoves
  <2> QED
    BY <2>1, <2>2, <1>a
<1> QED
  BY <1>a, <1>2, <1>3, <1>4, RowFacts, RowStep

\* An archive that an upload needs is protected, whatever its deadline.
LEMMA TxDeleteBackupKeepsCopies ==
  ASSUME RemoteInv, NEW a \in Archives, TxDeleteBackup(a) PROVE RemoteInv'
<1>a. /\ ~RemoteProtected(a) /\ archives' = [archives EXCEPT ![a].exists = FALSE]
      /\ UNCHANGED <<policy, copies, cloud, rjob, passes, crossed, raised>>
  BY DEF TxDeleteBackup
<1>1. archives \in [Archives -> ArchiveRows]
  BY RowFacts
<1>2. archives' \in [Archives -> ArchiveRows]
  BY <1>1, <1>a DEF ArchiveRows
<1>3. \A b \in Archives : archives'[b].class = archives[b].class /\ archives'[b].flagged = archives[b].flagged
  BY <1>1, <1>a DEF ArchiveRows
<1>4. rjob.kind = "upload" => archives'[rjob.copy[2]].exists /\ copies[rjob.copy].status = "uploading"
  <2> SUFFICES ASSUME rjob.kind = "upload"
               PROVE  archives'[rjob.copy[2]].exists /\ copies[rjob.copy].status = "uploading"
    OBVIOUS
  <2>1. rjob.copy \in Copy /\ copies[rjob.copy].status = "uploading" /\ archives[rjob.copy[2]].exists
    BY DEF RemoteInv, RemoteShape, Uploads
  <2>2. rjob.copy[2] # a
    BY <1>a, <2>1 DEF RemoteProtected
  <2> QED
    BY <1>1, <1>a, <2>1, <2>2 DEF Copy
<1>5. RemoteShape'
  BY <1>2, <1>a DEF RemoteInv, RemoteShape
<1>6. LimitsNotRaised
  <2>1. \A k \in Classes : policy.keep[k] \in Nat
    BY DEF RemoteInv, RemoteShape
  <2> QED
    BY <2>1, <1>a DEF LimitsNotRaised
<1>7. \A x \in Copy : classOf(x)' = classOf(x) /\ archives'[x[2]].flagged = archives[x[2]].flagged
  BY <1>3 DEF classOf, Copy
<1> QED
  BY <1>a, <1>4, <1>5, <1>6, <1>7, QuietStep

\* An upload begins.
LEMMA UploadKeeps == ASSUME RemoteInv, NEW a \in Archives, Upload(a) PROVE RemoteInv'
<1>a. copies' = enqueueRemoteCopy(a) /\ UNCHANGED <<archives, policy, cloud, rjob, passes, crossed, raised>>
  BY DEF Upload, QueueRemoteCopy
<1> QED
  BY <1>a, RowFacts, EnqueueMoves, RowsOnly

\* A cancel: a waiting copy ends, a running upload is only asked to.
LEMMA CancelKeeps == ASSUME RemoteInv, NEW c \in Copy, CancelRemoteCopy(c) PROVE RemoteInv'
<1>a. /\ copies[c].status \in {"pending", "retry_wait", "uploading"}
      /\ copies' = [copies EXCEPT ![c].cancel = TRUE,
                                  ![c].status = IF @ = "uploading" THEN @ ELSE "cancelled"]
      /\ UNCHANGED <<archives, policy, cloud, rjob, passes, crossed, raised>>
  BY DEF CancelRemoteCopy, changeRemoteCopy
<1>1. copies \in [Copy -> CopyRows]
  BY RowFacts
<1>2. copies' \in [Copy -> CopyRows]
  BY <1>1, <1>a DEF CopyRows
<1>3. /\ copies'[c].status = (IF copies[c].status = "uploading" THEN "uploading" ELSE "cancelled")
      /\ copies'[c].cleanup = copies[c].cleanup
      /\ \A x \in Copy : x # c => copies'[x] = copies[x]
  BY <1>1, <1>a DEF CopyRows
<1>4. rjob.kind = "upload" /\ rjob.copy = c => copies[c].status = "uploading"
  BY DEF RemoteInv, Uploads
<1>5. \A x \in Copy : MovesRow(x)
  BY <1>a, <1>3, <1>4 DEF MovesRow
<1> QED
  BY <1>a, <1>2, <1>5, RowFacts, RowsOnly

\* A retry while the copy's own cleanup runs is what "crossed" remembers.
LEMMA RetryKeeps == ASSUME RemoteInv, NEW c \in Copy, RetryRemoteCopy(c) PROVE RemoteInv'
<1>a. /\ copies[c].status \in {"failed", "cancelled"}
      /\ copies' = [copies EXCEPT ![c].status = "pending", ![c].cancel = FALSE, ![c].late = FALSE,
                                 ![c].cleanup = FALSE]
      /\ crossed' = (crossed \/ (rjob.kind = "cleanup" /\ rjob.copy = c))
      /\ UNCHANGED <<archives, policy, cloud, rjob, passes, raised>>
  BY DEF RetryRemoteCopy, changeRemoteCopy
<1>1. copies \in [Copy -> CopyRows]
  BY RowFacts
<1> DEFINE r == [copies[c] EXCEPT !.status = "pending", !.cancel = FALSE, !.late = FALSE,
                                 !.cleanup = FALSE]
<1>b. r \in CopyRows /\ r.status = "pending" /\ r.cleanup = FALSE
  BY <1>1 DEF CopyRows
<1>c. copies' = [copies EXCEPT ![c] = r]
  BY <1>1, <1>a
<1> HIDE DEF r
<1>2. copies' \in [Copy -> CopyRows]
  BY <1>1, <1>b, <1>c
<1>3. /\ copies'[c].status = "pending" /\ copies'[c].cleanup = FALSE
      /\ \A x \in Copy : x # c => copies'[x] = copies[x]
  BY <1>1, <1>b, <1>c
<1>4. ~(rjob.kind = "upload" /\ rjob.copy = c)
  BY <1>a DEF RemoteInv, Uploads
<1>5. \A x \in Copy : MovesRow(x)
  BY <1>a, <1>3, <1>4 DEF MovesRow
<1>6. crossed' \in BOOLEAN /\ (~crossed' => ~crossed)
  BY <1>a, Zenon
<1> QED
  BY <1>a, <1>2, <1>5, <1>6, RowsOnly

\* Time passes for an upload or for a cleanup.
LEMMA TimeKeeps ==
  ASSUME RemoteInv, NEW c \in Copy, DeadlinePasses(c) \/ CleanupComesDue(c) PROVE RemoteInv'
<1>a. /\ \/ copies' = [copies EXCEPT ![c].late = TRUE]
         \/ copies' = [copies EXCEPT ![c].due = TRUE]
      /\ UNCHANGED <<archives, policy, cloud, rjob, passes, crossed, raised>>
  BY DEF DeadlinePasses, CleanupComesDue
<1>1. copies \in [Copy -> CopyRows]
  BY RowFacts
<1>2. copies' \in [Copy -> CopyRows]
  BY <1>1, <1>a DEF CopyRows
<1>3. \A x \in Copy : copies'[x].status = copies[x].status /\ copies'[x].cleanup = copies[x].cleanup
  BY <1>1, <1>a DEF CopyRows
<1>5. \A x \in Copy : MovesRow(x)
  BY <1>3 DEF MovesRow
<1> QED
  BY <1>a, <1>2, <1>5, RowFacts, RowsOnly

\* Another destination cancels what waits for the present one.
LEMMA PutDestinationKeeps ==
  ASSUME RemoteInv, NEW p \in Places, NEW on \in BOOLEAN, PutDestination(p, on) PROVE RemoteInv'
<1>a. /\ rjob.kind = "none"
      /\ copies' = [c \in Copy |-> IF c[1] # p /\ copies[c].status \in {"pending", "retry_wait"}
                                   THEN [copies[c] EXCEPT !.status = "cancelled"] ELSE copies[c]]
      /\ UNCHANGED <<archives, policy, cloud, rjob, passes, crossed, raised>>
  BY DEF PutDestination, SaveRemoteDestination
<1>1. copies \in [Copy -> CopyRows]
  BY RowFacts
<1>2. \A x \in Copy :
        \/ copies'[x] = copies[x]
        \/ /\ copies'[x] = [copies[x] EXCEPT !.status = "cancelled"]
           /\ copies[x].status \in {"pending", "retry_wait"}
  BY <1>a
<1>3. \A x \in Copy : [copies[x] EXCEPT !.status = "cancelled"] \in CopyRows
  BY <1>1 DEF CopyRows
<1>4. copies' \in [Copy -> CopyRows]
  BY <1>1, <1>2, <1>3, <1>a
<1>5. \A x \in Copy : MovesRow(x)
  <2> TAKE x \in Copy
  <2>1. CASE copies'[x] = copies[x]
    BY <2>1 DEF MovesRow
  <2>2. CASE /\ copies'[x] = [copies[x] EXCEPT !.status = "cancelled"]
             /\ copies[x].status \in {"pending", "retry_wait"}
    <3>1. copies'[x].status = "cancelled"
      BY <1>1, <2>2 DEF CopyRows
    <3> QED
      BY <1>a, <2>2, <3>1 DEF MovesRow
  <2> QED
    BY <1>2, <2>1, <2>2
<1> QED
  BY <1>a, <1>4, <1>5, RowFacts, RowsOnly

\* Uploads whose job is gone, and copies that can no longer be made.
LEMMA ReconcileKeeps == ASSUME RemoteInv, WorkerReconcile PROVE RemoteInv'
<1>a. copies' = ReconcileRemoteCopies /\ UNCHANGED <<archives, policy, cloud, rjob, passes, crossed, raised>>
  BY DEF WorkerReconcile
<1>1. copies \in [Copy -> CopyRows]
  BY RowFacts
<1> DEFINE settled == [c \in Copy |->
        IF copies[c].status = "uploading" /\ ~LiveJob(c)
        THEN [copies[c] EXCEPT !.status = IF copies[c].cancel THEN "cancelled"
                                          ELSE IF copies[c].late THEN "failed" ELSE "retry_wait"]
        ELSE copies[c]]
<1>2. \A c \in Copy : /\ settled[c] \in CopyRows /\ settled[c].cleanup = copies[c].cleanup
                      /\ \/ settled[c].status = copies[c].status
                         \/ /\ copies[c].status = "uploading" /\ ~LiveJob(c)
                            /\ settled[c].status \in {"cancelled", "failed", "retry_wait"}
  <2> TAKE c \in Copy
  <2> DEFINE s == IF copies[c].cancel THEN "cancelled"
                  ELSE IF copies[c].late THEN "failed" ELSE "retry_wait"
  <2>1. s \in {"cancelled", "failed", "retry_wait"}
    OBVIOUS
  <2>2. \/ settled[c] = copies[c]
        \/ copies[c].status = "uploading" /\ ~LiveJob(c) /\ settled[c] = [copies[c] EXCEPT !.status = s]
    OBVIOUS
  <2> HIDE DEF s, settled
  <2> QED
    BY <1>1, <2>1, <2>2 DEF CopyRows
<1>3. \A c \in Copy :
        \/ copies'[c] = settled[c]
        \/ /\ settled[c].status \in {"pending", "retry_wait"}
           /\ copies'[c] = [settled[c] EXCEPT !.status = "failed"]
  BY <1>a DEF ReconcileRemoteCopies
<1>b. DOMAIN copies' = Copy /\ copies' = [c \in Copy |-> copies'[c]]
  BY <1>a DEF ReconcileRemoteCopies
<1> HIDE DEF settled
<1>4. \A c \in Copy :
        /\ copies'[c] \in CopyRows /\ copies'[c].cleanup = copies[c].cleanup
        /\ \/ copies'[c].status = copies[c].status
           \/ /\ \/ copies[c].status \in {"pending", "retry_wait"}
                 \/ copies[c].status = "uploading" /\ ~LiveJob(c)
              /\ copies'[c].status \in {"cancelled", "failed", "retry_wait"}
  <2> TAKE c \in Copy
  <2>1. CASE copies'[c] = settled[c]
    BY <1>2, <2>1
  <2>2. CASE /\ settled[c].status \in {"pending", "retry_wait"}
             /\ copies'[c] = [settled[c] EXCEPT !.status = "failed"]
    <3>1. /\ copies'[c] \in CopyRows /\ copies'[c].status = "failed"
          /\ copies'[c].cleanup = settled[c].cleanup
      BY <1>2, <2>2 DEF CopyRows
    <3> QED
      BY <1>2, <2>2, <3>1
  <2> QED
    BY <1>3, <2>1, <2>2
<1>5. copies' \in [Copy -> CopyRows]
  BY <1>b, <1>4
<1>6. \A x \in Copy : MovesRow(x)
  <2> TAKE x \in Copy
  <2>1. CASE copies'[x].status = copies[x].status
    BY <1>4, <2>1 DEF MovesRow
  <2>2. CASE copies'[x].status # copies[x].status
    <3>1. ~(rjob'.kind = "upload" /\ rjob'.copy = x)
      BY <1>a, <1>4, <2>2 DEF RemoteInv, Uploads, LiveJob
    <3> QED
      BY <1>4, <2>2, <3>1 DEF MovesRow
  <2> QED
    BY <2>1, <2>2
<1> QED
  BY <1>a, <1>5, <1>6, RowFacts, RowsOnly

\* An upload that fails leaves its row waiting or ended.
LEMMA CopyFailsKeeps == ASSUME RemoteInv, CopyFails PROVE RemoteInv'
<1>a. /\ rjob.kind = "upload" /\ rjob' = NoRemoteJob
      /\ UNCHANGED <<archives, policy, cloud, passes, crossed, raised>>
  BY DEF CopyFails
<1>b. PICK s \in {"cancelled", "retry_wait", "failed"} :
        copies' = [copies EXCEPT ![rjob.copy].status = s]
  BY DEF CopyFails, TxFinishRemoteCopy
<1>1. copies \in [Copy -> CopyRows] /\ rjob.copy \in Copy /\ copies[rjob.copy].status = "uploading"
  BY <1>a, RowFacts DEF RemoteInv, RemoteShape, Uploads
<1>2. copies' \in [Copy -> CopyRows]
  BY <1>1, <1>b DEF CopyRows
<1>3. /\ copies'[rjob.copy].status = s /\ copies'[rjob.copy].cleanup = copies[rjob.copy].cleanup
      /\ \A x \in Copy : x # rjob.copy => copies'[x] = copies[x]
  BY <1>1, <1>b DEF CopyRows
<1>4. rjob'.kind = "none"
  BY <1>a DEF NoRemoteJob
<1>5. \A x \in Copy : MovesRow(x)
  BY <1>1, <1>3, <1>4 DEF MovesRow
<1> QED
  BY <1>a, <1>2, <1>5, RowFacts, RowsOnly

\* A limit that is not raised lets go of no more than it did.
LEMMA PolicyKeeps ==
  ASSUME RemoteInv, NEW auto \in BOOLEAN, NEW n \in Limits, UpdateRemotePolicy(auto, n) PROVE RemoteInv'
<1>a. /\ policy' = [auto |-> auto, keep |-> [c \in Classes |-> n]]
      /\ raised' = (raised \/ \E c \in Classes : policy.keep[c] # 0 /\ (n = 0 \/ n > policy.keep[c]))
      /\ UNCHANGED <<archives, copies, cloud, rjob, passes, crossed>>
  BY DEF UpdateRemotePolicy
<1>1. n \in Nat /\ \A k \in Classes : policy'.keep[k] = n /\ policy.keep[k] \in Nat
  BY <1>a, RemoteAssumption DEF RemoteInv, RemoteShape
<1>2. policy'.keep \in [Classes -> Nat] /\ raised' \in BOOLEAN
  BY <1>a, <1>1
<1>3. RemoteShape'
  BY <1>2, <1>a DEF RemoteInv, RemoteShape
<1>4. LimitsNotRaised
  <2> SUFFICES ASSUME ~raised', NEW k \in Classes, policy.keep[k] > 0
               PROVE  ~raised /\ policy'.keep[k] > 0 /\ policy'.keep[k] <= policy.keep[k]
    BY <1>a DEF LimitsNotRaised
  <2>1. ~raised /\ ~(policy.keep[k] # 0 /\ (n = 0 \/ n > policy.keep[k]))
    BY <1>a
  <2> QED
    BY <1>1, <2>1
<1>5. \A x \in Copy : classOf(x)' = classOf(x)
  BY <1>a DEF classOf
<1>6. rjob'.kind = "upload" => copies'[rjob.copy].status = "uploading" /\ archives'[rjob.copy[2]].exists
  BY <1>a DEF RemoteInv, Uploads
<1> QED
  BY <1>a, <1>3, <1>4, <1>5, <1>6, QuietStep

\* A pass reads what to mark, and marks what was abandoned.
LEMMA MarkRetentionKeeps ==
  ASSUME RemoteInv, NEW w \in Passers, MarkRetention(w),
         UNCHANGED <<archives, policy, cloud, rjob, crossed, raised>>
  PROVE  RemoteInv'
<1>1. CASE UNCHANGED <<copies, passes>>
  BY <1>1, AsideStep
<1>2. ASSUME NEW p \in Places, copies' = MarkAbandonedRemoteUploads(p),
             passes' = [passes EXCEPT ![w] = markInstanceRetention(p)]
      PROVE  RemoteInv'
  <2>1. copies \in [Copy -> CopyRows] /\ archives \in [Archives -> ArchiveRows]
        /\ passes \in [Passers -> [mark : SUBSET Copy, unmark : SUBSET Copy]]
    BY RowFacts
  <2>2. \A x \in Copy : [copies[x] EXCEPT !.cleanup = TRUE] \in CopyRows
                        /\ [copies[x] EXCEPT !.cleanup = TRUE].status = copies[x].status
    BY <2>1 DEF CopyRows
  <2>3. \A x \in Copy :
          \/ copies'[x] = copies[x]
          \/ /\ copies'[x] = [copies[x] EXCEPT !.cleanup = TRUE]
             /\ copies[x].status \in {"failed", "cancelled"}
    BY <1>2 DEF MarkAbandonedRemoteUploads
  <2>4. copies' \in [Copy -> CopyRows]
    BY <1>2, <2>1, <2>2, <2>3 DEF MarkAbandonedRemoteUploads
  <2>5. \A x \in Copy : MovesRow(x)
    BY <2>2, <2>3 DEF MovesRow
  <2> DEFINE r == markInstanceRetention(p)
  <2>6. r \in [mark : SUBSET Copy, unmark : SUBSET Copy]
    BY DEF markInstanceRetention, RemoteRetentionCopies
  <2>7. \A c \in r.mark : Arrived(c) /\ Replaced(c) /\ PastLimit(c)
    BY MarkedMayGo
  <2>8. ~crossed /\ ~raised => r.unmark = {}
    BY NothingUnmarked
  <2>9. passes' = [passes EXCEPT ![w] = r]
    BY <1>2
  <2> HIDE DEF r
  <2>10. /\ passes' \in [Passers -> [mark : SUBSET Copy, unmark : SUBSET Copy]]
         /\ \A v \in Passers : passes'[v] = IF v = w THEN r ELSE passes[v]
    BY <2>1, <2>6, <2>9
  <2>11. \A v \in Passers : \A c \in passes'[v].mark :
           c \in passes[v].mark \/ (Arrived(c) /\ Replaced(c) /\ PastLimit(c))
    BY <2>7, <2>10
  <2>12. ~crossed /\ ~raised => \A v \in Passers : passes'[v].unmark \subseteq passes[v].unmark
    BY <2>8, <2>10
  <2> QED
    BY <2>1, <2>4, <2>5, <2>10, <2>11, <2>12, RowFacts, RowStep
<1> QED
  BY <1>1, <1>2 DEF MarkRetention, RemoteDestination

\* A step of an upload: what is put is there, what arrived is left alone.
LEMMA UploadStep ==
  ASSUME RemoteInv, UNCHANGED <<archives, policy, passes, crossed, raised>>,
         rjob.kind = "upload", NEW at, rjob' = [rjob EXCEPT !.at = at],
         cloud \subseteq cloud', copies' \in [Copy -> CopyRows],
         \A x \in Copy : copies'[x].status = copies[x].status /\ copies'[x].cleanup = copies[x].cleanup,
         at \in {"put", "record", "manifest", "publish", "done"},
         at # "put" => <<rjob.copy, "archive">> \in cloud',
         at \in {"publish", "done"} => <<rjob.copy, "manifest">> \in cloud'
  PROVE  RemoteInv'
<1>0. /\ RemoteShape /\ Uploads /\ KeptCopyRestorable /\ MarkedArrived /\ FreshUnmarked
      /\ NoMarkTakenBack /\ Cleanups
  BY DEF RemoteInv
<1>1. rjob'.kind = "upload" /\ rjob'.copy = rjob.copy /\ rjob'.at = at /\ DOMAIN rjob' = DOMAIN rjob
      /\ rjob.copy \in Copy
  BY <1>0 DEF RemoteShape
<1>2. RemoteShape'
  BY <1>0, <1>1 DEF RemoteShape
<1>3. LimitsNotRaised /\ StaysArrived
  <2>1. \A k \in Classes : policy.keep[k] \in Nat
    BY <1>0 DEF RemoteShape
  <2> QED
    BY <2>1 DEF LimitsNotRaised, StaysArrived, Arrived, classOf
<1>4. \A c \in Copy : Doomed(c)' => Doomed(c)
  BY <1>1 DEF Doomed
<1>5. DoomedReplaced' /\ DoomedPastLimit'
  BY <1>2, <1>3, <1>4, DoomedStays
<1>6. Uploads'
  BY <1>0, <1>1 DEF Uploads
<1>7. KeptCopyRestorable' /\ FreshUnmarked' /\ NoMarkTakenBack' /\ Cleanups'
  BY <1>0, <1>1 DEF KeptCopyRestorable, FreshUnmarked, NoMarkTakenBack, Cleanups
<1>8. MarkedArrived'
  BY <1>0 DEF MarkedArrived, Arrived, RemoteShape
<1> QED
  BY <1>2, <1>5, <1>6, <1>7, <1>8 DEF RemoteInv

\* An object reaches the destination.
LEMMA PutKeeps == ASSUME RemoteInv, PutArchive \/ putManifest PROVE RemoteInv'
<1>1. copies \in [Copy -> CopyRows] /\ Uploads
  BY RowFacts DEF RemoteInv
<1>2. CASE PutArchive
  <2>1. /\ rjob.kind = "upload" /\ rjob' = [rjob EXCEPT !.at = "record"]
        /\ cloud' = cloud \cup {<<rjob.copy, "archive">>}
        /\ UNCHANGED <<archives, policy, passes, crossed, raised, copies>>
    BY <1>2 DEF PutArchive, At
  <2> QED
    BY <1>1, <2>1, UploadStep
<1>3. CASE putManifest
  <2>1. /\ rjob.kind = "upload" /\ rjob.at = "manifest" /\ rjob' = [rjob EXCEPT !.at = "publish"]
        /\ cloud' = cloud \cup {<<rjob.copy, "manifest">>}
        /\ UNCHANGED <<archives, policy, passes, crossed, raised, copies>>
    BY <1>3 DEF putManifest, At
  <2>2. <<rjob.copy, "archive">> \in cloud
    BY <1>1, <2>1 DEF Uploads
  <2> QED
    BY <1>1, <2>1, <2>2, UploadStep
<1> QED
  BY <1>2, <1>3

\* The objects that arrived are recorded.
LEMMA RecordObjectsKeeps == ASSUME RemoteInv, recordObjects PROVE RemoteInv'
<1>a. PICK at \in {"manifest", "done"}, manifest \in BOOLEAN :
        /\ copies' = [copies EXCEPT ![rjob.copy].object = TRUE, ![rjob.copy].manifest = manifest]
        /\ rjob' = [rjob EXCEPT !.at = at] /\ rjob.kind = "upload"
        /\ rjob.at = IF at = "done" THEN "publish" ELSE "record"
        /\ UNCHANGED <<archives, policy, passes, crossed, raised, cloud>>
  BY DEF recordObjects, SaveRemoteObjects, At
<1>1. copies \in [Copy -> CopyRows] /\ rjob.copy \in Copy
  BY <1>a, RowFacts DEF RemoteInv, RemoteShape
<1> DEFINE r == [copies[rjob.copy] EXCEPT !.object = TRUE, !.manifest = manifest]
<1>2. r \in CopyRows /\ r.status = copies[rjob.copy].status /\ r.cleanup = copies[rjob.copy].cleanup
  BY <1>1 DEF CopyRows
<1>3. copies' = [copies EXCEPT ![rjob.copy] = r]
  BY <1>1, <1>a
<1> HIDE DEF r
<1>4. copies' \in [Copy -> CopyRows]
      /\ \A x \in Copy : copies'[x].status = copies[x].status /\ copies'[x].cleanup = copies[x].cleanup
  BY <1>1, <1>2, <1>3
<1>5. /\ <<rjob.copy, "archive">> \in cloud
      /\ at = "done" => <<rjob.copy, "manifest">> \in cloud
  BY <1>a DEF RemoteInv, Uploads
<1> QED
  BY <1>a, <1>4, <1>5, UploadStep

\* What the other steps of a job share: one row moves, and what it was doomed to stays.
LEMMA JobStep ==
  ASSUME RemoteInv, UNCHANGED <<archives, policy, crossed, raised>>, RemoteShape',
         \A x \in Copy : Arrived(x) => Arrived(x)',
         ~crossed => \A c \in Copy : Doomed(c)' => Doomed(c),
         Uploads', KeptCopyRestorable', MarkedArrived', FreshUnmarked', NoMarkTakenBack', Cleanups'
  PROVE  RemoteInv'
<1>1. LimitsNotRaised /\ StaysArrived
  <2>1. \A k \in Classes : policy.keep[k] \in Nat
    BY DEF RemoteInv, RemoteShape
  <2> QED
    BY <2>1 DEF LimitsNotRaised, StaysArrived, classOf
<1>2. DoomedReplaced' /\ DoomedPastLimit'
  BY <1>1, DoomedStays
<1> QED
  BY <1>2 DEF RemoteInv

\* What arrives is there, and nobody has marked it yet.
LEMMA CopySucceedsKeeps == ASSUME RemoteInv, CopySucceeds PROVE RemoteInv'
<1>0. /\ RemoteShape /\ Uploads /\ KeptCopyRestorable /\ MarkedArrived /\ FreshUnmarked
      /\ NoMarkTakenBack /\ Cleanups
  BY DEF RemoteInv
<1>a. /\ rjob.kind = "upload" /\ rjob.at = "done" /\ rjob' = NoRemoteJob
      /\ copies' = [copies EXCEPT ![rjob.copy].status = "succeeded"]
      /\ UNCHANGED <<archives, policy, cloud, passes, crossed, raised>>
  BY DEF CopySucceeds, TxFinishRemoteCopy, At
<1>1. /\ copies \in [Copy -> CopyRows] /\ rjob.copy \in Copy
      /\ copies[rjob.copy].status = "uploading"
      /\ {<<rjob.copy, "archive">>, <<rjob.copy, "manifest">>} \subseteq cloud
  BY <1>0, <1>a DEF RemoteShape, Uploads
<1>2. /\ copies' \in [Copy -> CopyRows]
      /\ copies'[rjob.copy].status = "succeeded"
      /\ copies'[rjob.copy].cleanup = copies[rjob.copy].cleanup
      /\ \A x \in Copy : x # rjob.copy => copies'[x] = copies[x]
  BY <1>1, <1>a DEF CopyRows
<1>3. rjob'.kind = "none"
  BY <1>a DEF NoRemoteJob
<1>4. RemoteShape'
  BY <1>0, <1>a, <1>2, <1>3 DEF RemoteShape
<1>5. \A x \in Copy : Arrived(x) => Arrived(x)'
  BY <1>2 DEF Arrived
<1>6. ~crossed => \A c \in Copy : Doomed(c)' => Doomed(c)
  <2> SUFFICES ASSUME ~crossed, NEW c \in Copy, Doomed(c)' PROVE Doomed(c)
    OBVIOUS
  <2>1. CASE c # rjob.copy
    BY <1>2, <1>3, <1>a, <2>1 DEF Doomed
  <2>2. CASE c = rjob.copy
    <3>1. ~copies[c].cleanup
      BY <1>0, <1>1, <2>2 DEF FreshUnmarked
    <3> QED
      BY <1>2, <1>3, <1>a, <2>2, <3>1 DEF Doomed
  <2> QED
    BY <2>1, <2>2
<1>7. Uploads' /\ Cleanups' /\ NoMarkTakenBack'
  BY <1>0, <1>3, <1>a DEF Uploads, Cleanups, NoMarkTakenBack
<1>8. KeptCopyRestorable'
  BY <1>0, <1>1, <1>2, <1>a DEF KeptCopyRestorable
<1>9. MarkedArrived'
  BY <1>0, <1>5, <1>a DEF MarkedArrived, RemoteShape
<1>10. FreshUnmarked'
  BY <1>0, <1>2, <1>a DEF FreshUnmarked
<1> QED
  BY <1>a, <1>4, <1>5, <1>6, <1>7, <1>8, <1>9, <1>10, JobStep

\* An upload is claimed with its archive there, in the transaction that moves its row.
LEMMA DispatchKeeps == ASSUME RemoteInv, NEW c \in Copy, DispatchRemote(c) PROVE RemoteInv'
<1>1. CASE UNCHANGED <<rjob, copies>>
  BY <1>1, AsideStep DEF DispatchRemote
<1>2. CASE ~UNCHANGED <<rjob, copies>>
  <2>0. /\ RemoteShape /\ Uploads /\ KeptCopyRestorable /\ MarkedArrived /\ FreshUnmarked
        /\ NoMarkTakenBack /\ Cleanups
    BY DEF RemoteInv
  <2>a. /\ rjob' = [kind |-> "upload", copy |-> c, at |-> "put"]
        /\ copies' = [copies EXCEPT ![c].status = "uploading"]
        /\ copies[c].status \in {"pending", "retry_wait"} /\ archives[c[2]].exists
        /\ UNCHANGED <<archives, policy, cloud, passes, crossed, raised>>
    BY <1>2 DEF DispatchRemote, TxClaimRemoteCopy
  <2>1. copies \in [Copy -> CopyRows]
    BY <2>0 DEF RemoteShape
  <2>2. /\ copies' \in [Copy -> CopyRows]
        /\ copies'[c].status = "uploading" /\ copies'[c].cleanup = copies[c].cleanup
        /\ \A x \in Copy : x # c => copies'[x] = copies[x]
    BY <2>1, <2>a DEF CopyRows
  <2>3. /\ rjob'.kind = "upload" /\ rjob'.copy = c /\ rjob'.at = "put"
        /\ DOMAIN rjob' = {"kind", "copy", "at"}
    BY <2>a
  <2>4. RemoteShape'
    BY <2>0, <2>a, <2>2, <2>3 DEF RemoteShape
  <2>5. \A x \in Copy : Arrived(x) => Arrived(x)'
    BY <2>a, <2>2 DEF Arrived
  <2>6. \A x \in Copy : Doomed(x)' => Doomed(x)
    BY <2>a, <2>2, <2>3 DEF Doomed
  <2>7. Uploads' /\ Cleanups' /\ NoMarkTakenBack'
    BY <2>0, <2>2, <2>3, <2>a DEF Uploads, Cleanups, NoMarkTakenBack
  <2>8. KeptCopyRestorable'
    BY <2>0, <2>2, <2>a DEF KeptCopyRestorable
  <2>9. MarkedArrived'
    BY <2>0, <2>5, <2>a DEF MarkedArrived, RemoteShape
  <2>10. FreshUnmarked'
    BY <2>0, <2>2, <2>a DEF FreshUnmarked
  <2> QED
    BY <2>a, <2>4, <2>5, <2>6, <2>7, <2>8, <2>9, <2>10, JobStep
<1> QED
  BY <1>1, <1>2

\* A cleanup is submitted for a copy that ended and is marked.
LEMMA SubmitCleanupKeeps == ASSUME RemoteInv, NEW c \in Copy, submitCleanup(c) PROVE RemoteInv'
<1>1. CASE UNCHANGED rjob
  BY <1>1, AsideStep DEF submitCleanup
<1>2. CASE ~UNCHANGED rjob
  <2>0. /\ RemoteShape /\ Uploads /\ KeptCopyRestorable /\ MarkedArrived /\ FreshUnmarked
        /\ NoMarkTakenBack /\ Cleanups
    BY DEF RemoteInv
  <2> DEFINE row == [status |-> copies[c].status, object |-> copies[c].object,
                     manifest |-> copies[c].manifest]
  <2>a. /\ rjob' = [kind |-> "cleanup", copy |-> c, at |-> "delete", row |-> row]
        /\ copies[c].status \in {"succeeded", "failed", "cancelled"} /\ copies[c].cleanup
        /\ UNCHANGED <<archives, policy, copies, cloud, passes, crossed, raised>>
    BY <1>2 DEF submitCleanup, TxCheckRemoteCleanup
  <2> HIDE DEF row
  <2>1. /\ rjob'.kind = "cleanup" /\ rjob'.copy = c
        /\ DOMAIN rjob' = {"kind", "copy", "at", "row"}
    BY <2>a
  <2>2. RemoteShape'
    BY <2>0, <2>a, <2>1 DEF RemoteShape
  <2>3. \A x \in Copy : Arrived(x) => Arrived(x)'
    BY <2>a DEF Arrived
  <2>4. \A x \in Copy : Doomed(x)' => Doomed(x)
    BY <2>a, <2>1 DEF Doomed
  <2>5. Uploads' /\ Cleanups' /\ NoMarkTakenBack' /\ KeptCopyRestorable' /\ FreshUnmarked'
    BY <2>0, <2>1, <2>a DEF Uploads, Cleanups, NoMarkTakenBack, KeptCopyRestorable, FreshUnmarked
  <2>6. MarkedArrived'
    BY <2>0, <2>3, <2>a DEF MarkedArrived, RemoteShape
  <2> QED
    BY <2>a, <2>2, <2>3, <2>4, <2>5, <2>6, JobStep
<1> QED
  BY <1>1, <1>2

\* A cleanup deletes the objects of its own copy, which is not one to keep.
LEMMA DeleteObjectsKeeps == ASSUME RemoteInv, DeleteRemoteObjects PROVE RemoteInv'
<1>0. /\ RemoteShape /\ Uploads /\ KeptCopyRestorable /\ MarkedArrived /\ FreshUnmarked
      /\ NoMarkTakenBack /\ Cleanups
  BY DEF RemoteInv
<1>a. /\ rjob.kind = "cleanup"
      /\ \E s \in {"archive", "deleted"} : rjob' = [rjob EXCEPT !.at = s]
      /\ \E o \in {"archive", "manifest"} : cloud' = cloud \ {<<rjob.copy, o>>}
      /\ UNCHANGED <<archives, policy, copies, passes, crossed, raised>>
  BY DEF DeleteRemoteObjects
<1>1. /\ rjob'.kind = "cleanup" /\ rjob'.copy = rjob.copy /\ DOMAIN rjob' = DOMAIN rjob
      /\ rjob.copy \in Copy
  BY <1>0, <1>a DEF RemoteShape
<1>2. RemoteShape'
  BY <1>0, <1>a, <1>1 DEF RemoteShape
<1>3. \A x \in Copy : Arrived(x) => Arrived(x)'
  BY <1>a DEF Arrived
<1>4. \A x \in Copy : Doomed(x)' => Doomed(x)
  BY <1>a, <1>1 DEF Doomed
<1>5. Uploads' /\ Cleanups' /\ NoMarkTakenBack' /\ FreshUnmarked'
  BY <1>0, <1>1, <1>a DEF Uploads, Cleanups, NoMarkTakenBack, FreshUnmarked
<1>6. KeptCopyRestorable'
  <2> SUFFICES ASSUME NEW c \in Copy, copies[c].status = "succeeded", ~copies[c].cleanup, ~raised, ~crossed
               PROVE  {<<c, "archive">>, <<c, "manifest">>} \subseteq cloud'
    BY <1>a DEF KeptCopyRestorable
  <2>1. c # rjob.copy
    BY <1>0, <1>a DEF Cleanups
  <2>2. {<<c, "archive">>, <<c, "manifest">>} \subseteq cloud
    BY <1>0 DEF KeptCopyRestorable
  <2> QED
    BY <1>a, <2>1, <2>2
<1>7. MarkedArrived'
  BY <1>0, <1>3, <1>a DEF MarkedArrived, RemoteShape
<1> QED
  BY <1>a, <1>2, <1>3, <1>4, <1>5, <1>6, <1>7, JobStep

\* A cleanup that ends prunes what was doomed, or leaves its mark.
LEMMA RunCleanupKeeps == ASSUME RemoteInv, NEW ok \in BOOLEAN, RunCleanup(ok) PROVE RemoteInv'
<1>0. /\ RemoteShape /\ Uploads /\ KeptCopyRestorable /\ MarkedArrived /\ FreshUnmarked
      /\ NoMarkTakenBack /\ Cleanups
  BY DEF RemoteInv
<1> DEFINE c == rjob.copy
           kept == copies[c].status = "succeeded"
           done == [copies[c] EXCEPT !.status = IF kept THEN "pruned" ELSE copies[c].status,
                                     !.object = copies[c].object /\ kept,
                                     !.manifest = copies[c].manifest /\ kept,
                                     !.cleanup = FALSE, !.due = FALSE]
           again == [copies[c] EXCEPT !.cleanup = TRUE, !.due = FALSE]
           row == IF ok THEN done ELSE again
<1>a. /\ rjob.kind = "cleanup" /\ rjob' = NoRemoteJob
      /\ UNCHANGED <<archives, policy, cloud, passes, crossed, raised>>
  BY DEF RunCleanup
<1>1. copies \in [Copy -> CopyRows] /\ c \in Copy
  BY <1>0, <1>a DEF RemoteShape
<1>b. copies' = [copies EXCEPT ![c] = row]
  BY <1>1 DEF RunCleanup, finishRemoteCleanup
<1>2. done \in CopyRows /\ done.cleanup = FALSE
      /\ done.status = (IF copies[c].status = "succeeded" THEN "pruned" ELSE copies[c].status)
  <2>1. copies[c] \in CopyRows
    BY <1>1
  <2> DEFINE o == copies[c].object /\ copies[c].status = "succeeded"
             m == copies[c].manifest /\ copies[c].status = "succeeded"
             s == IF copies[c].status = "succeeded" THEN "pruned" ELSE copies[c].status
             r == copies[c]
  <2>2. o \in BOOLEAN /\ m \in BOOLEAN
    BY Zenon
  <2>3. done = [r EXCEPT !.status = s, !.object = o, !.manifest = m, !.cleanup = FALSE, !.due = FALSE]
    BY <2>1 DEF CopyRows
  <2>4. s \in {"none", "pending", "retry_wait", "uploading", "succeeded", "failed", "cancelled", "pruned"}
    BY <2>1 DEF CopyRows
  <2>5. r \in CopyRows
    BY <2>1
  <2> HIDE DEF o, m, s, done, r
  <2>6. done \in CopyRows /\ done.cleanup = FALSE /\ done.status = s
    BY <2>2, <2>3, <2>4, <2>5 DEF CopyRows
  <2> QED
    BY <2>6 DEF s
<1>3. again \in CopyRows /\ again.cleanup = TRUE /\ again.status = copies[c].status
  BY <1>1 DEF CopyRows
<1> HIDE DEF done, again
<1>4. /\ row \in CopyRows
      /\ \/ row.cleanup = TRUE /\ row.status = copies[c].status
         \/ row.cleanup = FALSE /\ copies[c].status = "succeeded" /\ row.status = "pruned"
         \/ row.cleanup = FALSE /\ copies[c].status # "succeeded" /\ row.status = copies[c].status
  BY <1>2, <1>3
<1> HIDE DEF row
<1>5. copies' \in [Copy -> CopyRows] /\ copies'[c] = row /\ \A x \in Copy : x # c => copies'[x] = copies[x]
  BY <1>1, <1>4, <1>b
<1>6. rjob'.kind = "none"
  BY <1>a DEF NoRemoteJob
<1>7. RemoteShape'
  BY <1>0, <1>a, <1>5, <1>6 DEF RemoteShape
<1>8. \A x \in Copy : Arrived(x) => Arrived(x)'
  BY <1>4, <1>5 DEF Arrived
<1>9. \A x \in Copy : Doomed(x)' => Doomed(x)
  <2> SUFFICES ASSUME NEW x \in Copy, Doomed(x)' PROVE Doomed(x)
    OBVIOUS
  <2>1. CASE x # c
    BY <1>5, <1>6, <1>a, <2>1 DEF Doomed
  <2>2. CASE x = c
    BY <1>4, <1>5, <1>6, <1>a, <2>2 DEF Doomed
  <2> QED
    BY <2>1, <2>2
<1>10. Uploads' /\ Cleanups' /\ NoMarkTakenBack'
  BY <1>0, <1>6, <1>a DEF Uploads, Cleanups, NoMarkTakenBack
<1>11. KeptCopyRestorable'
  BY <1>0, <1>4, <1>5, <1>a DEF KeptCopyRestorable
<1>12. MarkedArrived'
  BY <1>0, <1>8, <1>a DEF MarkedArrived, RemoteShape
<1>13. FreshUnmarked'
  <2>1. ~crossed => copies[c].status \in {"failed", "cancelled", "succeeded"}
    BY <1>0, <1>a DEF Cleanups
  <2> QED
    BY <1>0, <1>4, <1>5, <1>a, <2>1 DEF FreshUnmarked
<1> QED
  BY <1>a, <1>7, <1>8, <1>9, <1>10, <1>11, <1>12, <1>13, JobStep

\* A pass writes its marks: what it marks was doomed when it read.
LEMMA MarkKeeps ==
  ASSUME RemoteInv, NEW w \in Passers, NEW c \in Copy, MarkRemoteCleanup(w, c) PROVE RemoteInv'
<1>0. /\ RemoteShape /\ Uploads /\ KeptCopyRestorable /\ MarkedArrived /\ FreshUnmarked
      /\ NoMarkTakenBack /\ Cleanups
  BY DEF RemoteInv
<1> DEFINE b == copies[c].cleanup \/ copies[c].status = "succeeded"
<1>a. /\ c \in passes[w].mark
      /\ copies' = [copies EXCEPT ![c].cleanup = b]
      /\ passes' = [passes EXCEPT ![w].mark = @ \ {c}]
      /\ UNCHANGED <<archives, policy, cloud, rjob, crossed, raised>>
  BY DEF MarkRemoteCleanup
<1>b. b \in BOOLEAN
  BY Zenon
<1>c. /\ copies[c].status = "succeeded" => b
      /\ copies[c].cleanup => b
      /\ copies[c].status # "succeeded" => (b <=> copies[c].cleanup)
  BY Zenon
<1> HIDE DEF b
<1>1. copies \in [Copy -> CopyRows] /\ passes \in [Passers -> [mark : SUBSET Copy, unmark : SUBSET Copy]]
  BY <1>0 DEF RemoteShape
<1>2. copies' \in [Copy -> CopyRows]
  BY <1>1, <1>a, <1>b DEF CopyRows
<1>3. /\ \A x \in Copy : copies'[x].status = copies[x].status
      /\ copies'[c].cleanup = b /\ \A x \in Copy : x # c => copies'[x] = copies[x]
  BY <1>1, <1>a DEF CopyRows
<1>4. /\ passes' \in [Passers -> [mark : SUBSET Copy, unmark : SUBSET Copy]]
      /\ \A v \in Passers : passes'[v].mark \subseteq passes[v].mark /\ passes'[v].unmark = passes[v].unmark
  BY <1>1, <1>a
<1>5. RemoteShape'
  BY <1>0, <1>a, <1>2, <1>4 DEF RemoteShape
<1>6. \A x \in Copy : Arrived(x) => Arrived(x)'
  BY <1>3 DEF Arrived
<1>7. \A x \in Copy : Doomed(x)' => Doomed(x)
  <2> SUFFICES ASSUME NEW x \in Copy, Doomed(x)' PROVE Doomed(x)
    OBVIOUS
  <2>1. CASE x = c
    BY <1>a, <2>1 DEF Doomed
  <2>2. CASE x # c
    BY <1>a, <1>3, <1>4, <2>2 DEF Doomed
  <2> QED
    BY <2>1, <2>2
<1>8. Uploads' /\ Cleanups' /\ NoMarkTakenBack'
  BY <1>0, <1>a, <1>c, <1>3, <1>4 DEF Uploads, Cleanups, NoMarkTakenBack, RemoteShape
<1>9. KeptCopyRestorable'
  BY <1>0, <1>a, <1>c, <1>3 DEF KeptCopyRestorable
<1>10. MarkedArrived'
  BY <1>0, <1>1, <1>4, <1>6 DEF MarkedArrived
<1>11. FreshUnmarked'
  BY <1>0, <1>a, <1>c, <1>3 DEF FreshUnmarked
<1> QED
  BY <1>a, <1>5, <1>6, <1>7, <1>8, <1>9, <1>10, <1>11, JobStep

\* A pass takes a mark back only after a limit was raised or a retry crossed a cleanup.
LEMMA UnmarkKeeps ==
  ASSUME RemoteInv, NEW w \in Passers, NEW c \in Copy, UnmarkRemoteCleanup(w, c) PROVE RemoteInv'
<1>0. /\ RemoteShape /\ Uploads /\ KeptCopyRestorable /\ MarkedArrived /\ FreshUnmarked
      /\ NoMarkTakenBack /\ Cleanups
  BY DEF RemoteInv
<1> DEFINE b == copies[c].cleanup /\ copies[c].status # "succeeded"
<1>a. /\ c \in passes[w].unmark
      /\ copies' = [copies EXCEPT ![c].cleanup = b]
      /\ passes' = [passes EXCEPT ![w].unmark = @ \ {c}]
      /\ UNCHANGED <<archives, policy, cloud, rjob, crossed, raised>>
  BY DEF UnmarkRemoteCleanup
<1>b. b \in BOOLEAN /\ (b => copies[c].cleanup)
  BY Zenon
<1> HIDE DEF b
<1>c. crossed \/ raised
  BY <1>0, <1>a DEF NoMarkTakenBack
<1>1. copies \in [Copy -> CopyRows] /\ passes \in [Passers -> [mark : SUBSET Copy, unmark : SUBSET Copy]]
  BY <1>0 DEF RemoteShape
<1>2. copies' \in [Copy -> CopyRows]
  BY <1>1, <1>a, <1>b DEF CopyRows
<1>3. /\ \A x \in Copy : copies'[x].status = copies[x].status
      /\ copies'[c].cleanup = b /\ \A x \in Copy : x # c => copies'[x] = copies[x]
  BY <1>1, <1>a DEF CopyRows
<1>4. /\ passes' \in [Passers -> [mark : SUBSET Copy, unmark : SUBSET Copy]]
      /\ \A v \in Passers : passes'[v].mark = passes[v].mark
  BY <1>1, <1>a
<1>5. RemoteShape'
  BY <1>0, <1>a, <1>2, <1>4 DEF RemoteShape
<1>6. \A x \in Copy : Arrived(x) => Arrived(x)'
  BY <1>3 DEF Arrived
<1>7. \A x \in Copy : Doomed(x)' => Doomed(x)
  BY <1>a, <1>b, <1>3, <1>4 DEF Doomed
<1>8. Uploads' /\ Cleanups'
  BY <1>0, <1>a, <1>c, <1>3 DEF Uploads, Cleanups, RemoteShape
<1>9. KeptCopyRestorable' /\ NoMarkTakenBack'
  BY <1>a, <1>c DEF KeptCopyRestorable, NoMarkTakenBack
<1>10. MarkedArrived'
  BY <1>0, <1>1, <1>4, <1>6 DEF MarkedArrived
<1>11. FreshUnmarked'
  BY <1>0, <1>a, <1>b, <1>3 DEF FreshUnmarked
<1> QED
  BY <1>a, <1>5, <1>6, <1>7, <1>8, <1>9, <1>10, <1>11, JobStep

\* The invariant holds in the first state.
LEMMA RemoteInitInv == RemoteInit => RemoteInv
<1> SUFFICES ASSUME RemoteInit PROVE RemoteInv
  OBVIOUS
<1>1. PICK n \in Limits : policy = [auto |-> TRUE, keep |-> [c \in Classes |-> n]]
  BY DEF RemoteInit
<1>2. policy.keep \in [Classes -> Nat]
  BY <1>1, RemoteAssumption
<1>3. NoCopy \in CopyRows /\ NoCopy.status = "none" /\ NoCopy.cleanup = FALSE
  BY DEF NoCopy, CopyRows
<1>4. copies = [c \in Copy |-> NoCopy]
  BY DEF RemoteInit
<1>5. copies \in [Copy -> CopyRows] /\ \A c \in Copy : copies[c].status = "none" /\ copies[c].cleanup = FALSE
  BY <1>3, <1>4
<1>6. passes \in [Passers -> [mark : SUBSET Copy, unmark : SUBSET Copy]]
      /\ \A w \in Passers : passes[w].mark = {} /\ passes[w].unmark = {}
  BY DEF RemoteInit, NoPass
<1>7. archives \in [Archives -> ArchiveRows]
  BY DEF RemoteInit, ArchiveRows, Classes
<1>8. rjob.kind = "none" /\ crossed = FALSE /\ raised = FALSE
  BY DEF RemoteInit, NoRemoteJob
<1>9. RemoteShape
  BY <1>2, <1>5, <1>6, <1>7, <1>8 DEF RemoteShape
<1>10. \A c \in Copy : ~Doomed(c)
  BY <1>5, <1>6, <1>8 DEF Doomed
<1> QED
  BY <1>5, <1>6, <1>8, <1>9, <1>10 DEF RemoteInv, Uploads, KeptCopyRestorable, DoomedReplaced,
     DoomedPastLimit, MarkedArrived, FreshUnmarked, NoMarkTakenBack, Cleanups

\* Every handler keeps it.
LEMMA RemoteHandlersInv == RemoteInv /\ RemoteHandlers => RemoteInv'
<1> SUFFICES ASSUME RemoteInv, RemoteHandlers PROVE RemoteInv'
  OBVIOUS
<1>1. ASSUME NEW a \in Archives, NEW m \in Makes, createBackup(a, m[1], m[2]) PROVE RemoteInv'
  BY <1>1, CreateBackupKeepsCopies
<1>2. ASSUME NEW a \in Archives, TxDeleteBackup(a) \/ Upload(a) PROVE RemoteInv'
  BY <1>2, TxDeleteBackupKeepsCopies, UploadKeeps
<1>3. ASSUME NEW c \in Copy,
             CancelRemoteCopy(c) \/ RetryRemoteCopy(c) \/ DeadlinePasses(c) \/ CleanupComesDue(c)
      PROVE  RemoteInv'
  BY <1>3, CancelKeeps, RetryKeeps, TimeKeeps
<1>4. ASSUME NEW p \in Places, NEW on \in BOOLEAN, PutDestination(p, on) PROVE RemoteInv'
  BY <1>4, PutDestinationKeeps
<1>5. ASSUME NEW auto \in BOOLEAN, NEW n \in Limits, UpdateRemotePolicy(auto, n) PROVE RemoteInv'
  BY <1>5, PolicyKeeps
<1>6. CASE SubmitInstanceDelete
  BY <1>6, AsideStep DEF SubmitInstanceDelete
<1>7. CASE TestDestination
  BY <1>7, AsideStep DEF TestDestination
<1> QED
  BY <1>1, <1>2, <1>3, <1>4, <1>5, <1>6, <1>7, Zenon DEF RemoteHandlers

\* Every step of the worker and its jobs keeps it.
LEMMA RemoteWorkInv == RemoteInv /\ RemoteWork => RemoteInv'
<1> SUFFICES ASSUME RemoteInv, RemoteWork PROVE RemoteInv'
  OBVIOUS
<1>1. CASE WorkerReconcile
  BY <1>1, ReconcileKeeps
<1>2. CASE WorkerRetention
  <2>1. "worker" \in Passers
    BY DEF Passers
  <2> QED
    BY <1>2, <2>1, MarkRetentionKeeps DEF WorkerRetention
<1>3. CASE AfterCopyFinish
  <2>1. "finish" \in Passers
    BY DEF Passers
  <2> QED
    BY <1>3, <2>1, MarkRetentionKeeps DEF AfterCopyFinish
<1>4. CASE NothingDue
  BY <1>4, AsideStep DEF NothingDue
<1>5. CASE Probe
  BY <1>5, AsideStep DEF Probe
<1>6. ASSUME NEW c \in Copy, submitCleanup(c) \/ DispatchRemote(c) PROVE RemoteInv'
  BY <1>6, SubmitCleanupKeeps, DispatchKeeps
<1>7. ASSUME NEW w \in Passers, NEW c \in Copy, MarkRemoteCleanup(w, c) \/ UnmarkRemoteCleanup(w, c)
      PROVE  RemoteInv'
  BY <1>7, MarkKeeps, UnmarkKeeps
<1>8. CASE PutArchive \/ recordObjects \/ putManifest \/ CopySucceeds \/ CopyFails \/ DeleteRemoteObjects
  BY <1>8, PutKeeps, RecordObjectsKeeps, CopySucceedsKeeps, CopyFailsKeeps, DeleteObjectsKeeps
<1>9. ASSUME NEW ok \in BOOLEAN, RunCleanup(ok) PROVE RemoteInv'
  BY <1>9, RunCleanupKeeps
<1> QED
  BY <1>1, <1>2, <1>3, <1>4, <1>5, <1>6, <1>7, <1>8, <1>9, Zenon DEF RemoteWork

\* Every step keeps it.
LEMMA RemoteNextInv == RemoteInv /\ [RemoteNext]_remoteVars => RemoteInv'
<1> SUFFICES ASSUME RemoteInv, [RemoteNext]_remoteVars PROVE RemoteInv'
  OBVIOUS
<1>1. CASE DayPasses \/ RemoteKill
  BY <1>1, AsideStep DEF DayPasses, RemoteKill
<1>2. CASE UNCHANGED remoteVars
  BY <1>2, AsideStep DEF remoteVars
<1> QED
  BY <1>1, <1>2, RemoteHandlersInv, RemoteWorkInv DEF RemoteNext

(***************************************************************************)
(* Whatever is retried, cancelled or killed: the archive a running upload  *)
(* reads is there, a copy listed as kept has both its objects, and of each *)
(* class the newest good copy that arrived at a destination is not pruned, *)
(* with the two histories set aside that the property names                *)
(* (remotecopy/retention.go, remotecopy/worker.go).                        *)
(***************************************************************************)
THEOREM CopiesAlwaysKept == RemoteSpec => []CopiesKept
<1>1. RemoteInit => RemoteInv
  BY RemoteInitInv
<1>2. RemoteInv /\ [RemoteNext]_remoteVars => RemoteInv'
  BY RemoteNextInv
<1>3. RemoteInv => CopiesKept
  <2> SUFFICES ASSUME RemoteInv PROVE CopiesKept
    OBVIOUS
  <2>1. SourceStays /\ KeptCopyRestorable
    BY DEF RemoteInv, Uploads, SourceStays
  <2>2. LastGoodKept
    BY DEF RemoteInv, DoomedReplaced, Doomed, Replaced, Later, Arrived, LastGoodKept
  <2> QED
    BY <2>1, <2>2 DEF CopiesKept
<1> QED
  BY <1>1, <1>2, <1>3, PTL DEF RemoteSpec

-----------------------------------------------------------------------------
(* Trying an update on a copy (UpdateTrial). *)

TrialShape ==
  /\ DOMAIN servers = Hosts /\ DOMAIN work = Hosts
  /\ \A x \in Hosts : /\ DOMAIN servers[x] = {"state", "build", "mods", "ran"}
                      /\ DOMAIN work[x] = {"kind", "phase", "pin", "mods", "mine"}
                      /\ work[x].mine \in BOOLEAN
  /\ DOMAIN trial = {"kind", "step", "child", "build", "mods", "was"}
  /\ trial.kind \in {"none", "game", "mods", "both", "apply"}
  /\ trial.child \in {"none", "waiting", "succeeded", "failed"}
  /\ passed \in BOOLEAN /\ touched \in BOOLEAN /\ overtaken \in BOOLEAN

\* The steps a test and an apply are at; neither waits at its first or last decision.
TrialSteps ==
  /\ trial.kind = "none" => trial.child = "none"
  /\ IsTest => trial.step \in {"clone", "game", "mods", "start", "pass"}
  /\ trial.kind = "apply" =>
       trial.step \in {"begin", "stop", "game", "mods", "start", "delstop", "delete"}
  /\ trial.step \in {"begin", "pass"} => trial.child = "none"

\* A server is in the state of the job that holds its lock.
HeldState ==
  /\ \A x \in Hosts :
       /\ work[x].kind \in {"none", "cloned", "clone", "start", "stop", "delete", "game_update", "mod_update"}
       /\ work[x].kind \in {"start", "stop", "delete", "game_update", "mod_update"} =>
            servers[x].state = Holding(work[x].kind)
       /\ work[x].kind = "clone" => servers[x].state = "provisioning"
  /\ work["main"].kind \notin {"delete", "clone"} /\ servers["main"].state # "deleting"

\* A server that runs runs what is installed.
RunsInstalled ==
  \A x \in Hosts : servers[x].state \in {"running", "stopping"} =>
    servers[x].ran = <<servers[x].build, servers[x].mods>>

\* A copy that is gone has passed nothing and holds no job.
GoneIsIdle == servers["copy"].state = "gone" => ~passed /\ work["copy"].kind = "none"

\* While the copy is made only the test that makes it runs.
CloneAlone ==
  CloneRunning => /\ ~passed
                  /\ trial.kind # "none" => IsTest /\ trial.step = "clone" /\ trial.child = "waiting"

\* The jobs the trial waits for, by its step.
ChildOf(x, kind, step) ==
  IF x = "main"
  THEN /\ trial.kind = "apply"
       /\ <<kind, step>> \in {<<"stop", "stop">>, <<"game_update", "game">>, <<"mod_update", "mods">>,
                              <<"start", "start">>}
  ELSE \/ /\ IsTest
          /\ <<kind, step>> \in {<<"clone", "clone">>, <<"game_update", "game">>,
                                 <<"mod_update", "mods">>, <<"start", "start">>}
       \/ /\ trial.kind = "apply"
          /\ <<kind, step>> \in {<<"stop", "delstop">>, <<"delete", "delete">>}
ChildMatches ==
  \A x \in Hosts : work[x].mine => trial.child = "waiting" /\ ChildOf(x, work[x].kind, trial.step)

\* A job of the apply carries what the apply is to install.
ChildCarries ==
  work["main"].mine =>
    /\ work["main"].kind = "game_update" => work["main"].pin = trial.build /\ trial.build # 0
    /\ work["main"].kind = "mod_update" => work["main"].mods = trial.mods /\ trial.mods # 0

\* What a test that passed has tested is still on the copy.
Updating(x) == work[x].kind \in {"game_update", "mod_update"}
TestedKept ==
  /\ IsTest => ~passed
  /\ passed /\ ~touched =>
       tested = <<servers["copy"].build, servers["copy"].mods>> /\ ~Updating("copy")

\* A test about to pass has booted what is on the copy.
BootedCopy ==
  IsTest /\ ~touched /\ servers["copy"].state # "gone"
    /\ (trial.step = "pass" \/ (trial.step = "start" /\ trial.child = "succeeded")) =>
    servers["copy"].ran = <<servers["copy"].build, servers["copy"].mods>> /\ ~Updating("copy")

\* What an apply has yet to install was tested and is newer than what the server has.
ApplyNewer ==
  trial.kind = "apply" /\ ~overtaken =>
    /\ Updating("main") => work["main"].mine
    /\ ~touched =>
         /\ trial.build # 0 => trial.build = tested[1]
         /\ trial.mods # 0 => trial.mods = tested[2]
         /\ (trial.step \in {"begin", "stop"} \/ (trial.step = "game" /\ trial.child \in {"none", "waiting"})) =>
              (trial.build # 0 => trial.build > servers["main"].build)
         /\ (trial.step \in {"begin", "stop", "game"} \/ (trial.step = "mods" /\ trial.child \in {"none", "waiting"})) =>
              (trial.mods # 0 => trial.mods > servers["main"].mods)

TrialInv ==
  /\ TrialShape /\ TrialSteps /\ HeldState /\ RunsInstalled /\ GoneIsIdle /\ CloneAlone /\ ChildMatches
  /\ ChildCarries /\ TestedKept /\ BootedCopy /\ ApplyNewer

\* The two servers, and the state each kind of job holds its server in.
LEMMA HostFacts ==
  /\ "main" \in Hosts /\ "copy" \in Hosts
  /\ \A x \in Hosts : x = "main" \/ x = "copy"
  /\ Holding("start") = "starting" /\ Holding("stop") = "stopping"
  /\ Holding("delete") = "deleting" /\ Holding("game_update") = "updating"
  /\ Holding("mod_update") = "stopped"
  BY DEF Hosts, Holding

\* The free lock.
LEMMA NoWorkIs ==
  /\ NoWork.kind = "none" /\ NoWork.mine = FALSE
  /\ DOMAIN NoWork = {"kind", "phase", "pin", "mods", "mine"}
<1>1. NoWork.kind = "none" /\ DOMAIN NoWork = {"kind", "phase", "pin", "mods", "mine"}
  BY DEF NoWork
<1>2. NoWork.mine = FALSE
  BY Zenon DEF NoWork
<1> QED
  BY <1>1, <1>2

\* What a job that begins has found and leaves.
Begun(x, kind, pin, mods, mine) ==
  /\ work[x].kind = "none" /\ work[x].mine = FALSE
  /\ servers[x].state \in {"stopped", "running", "error"}
  /\ kind \in {"game_update", "mod_update", "start"} => servers[x].state = "stopped"
  /\ kind = "stop" => servers[x].state = "running"
  /\ DOMAIN servers' = Hosts /\ DOMAIN work' = Hosts
  /\ DOMAIN servers'[x] = {"state", "build", "mods", "ran"}
  /\ DOMAIN work'[x] = {"kind", "phase", "pin", "mods", "mine"}
  /\ servers'[x].state = Holding(kind) /\ servers'[x].build = servers[x].build
  /\ servers'[x].mods = servers[x].mods /\ servers'[x].ran = servers[x].ran
  /\ work'[x].kind = kind /\ work'[x].pin = pin /\ work'[x].mods = mods /\ work'[x].mine = mine
  /\ \A y \in Hosts : y # x => servers'[y] = servers[y] /\ work'[y] = work[y]

\* A job that is admitted begins so.
LEMMA BeginsBegun ==
  ASSUME TrialInv, NEW x \in Hosts, NEW kind \in {"start", "stop", "game_update", "mod_update", "delete"},
         NEW pin, NEW mods, NEW mine, Admits(x, kind), Begins(x, kind, pin, mods, mine)
  PROVE  Begun(x, kind, pin, mods, mine)
<1>1. DOMAIN servers = Hosts /\ DOMAIN work = Hosts /\ DOMAIN servers[x] = {"state", "build", "mods", "ran"}
  BY DEF TrialInv, TrialShape
<1>a. Idle(x)
  BY Zenon DEF Admits
<1>2. work[x] = NoWork /\ work[x].kind = "none" /\ work[x].mine = FALSE
  BY <1>a, NoWorkIs DEF Idle
<1>3. /\ servers[x].state \in {"stopped", "running", "error"}
      /\ kind \in {"game_update", "mod_update", "start"} => servers[x].state = "stopped"
      /\ kind = "stop" => servers[x].state = "running"
  <2>1. CASE kind \in {"start", "game_update", "mod_update"}
    BY <2>1 DEF Admits
  <2>2. CASE kind = "stop"
    BY <2>2 DEF Admits
  <2>3. CASE kind = "delete"
    BY <2>3 DEF Admits
  <2> QED
    BY <2>1, <2>2, <2>3
<1> DEFINE h == Holding(kind)
           ph == IF kind = "game_update" THEN "archive" ELSE "run"
<1>4. /\ work' = [work EXCEPT ![x] = [kind |-> kind, phase |-> ph, pin |-> pin, mods |-> mods, mine |-> mine]]
      /\ servers' = [servers EXCEPT ![x].state = h]
  BY DEF Begins
<1> HIDE DEF h, ph
<1>5. /\ DOMAIN servers' = Hosts /\ DOMAIN work' = Hosts
      /\ DOMAIN servers'[x] = {"state", "build", "mods", "ran"}
      /\ DOMAIN work'[x] = {"kind", "phase", "pin", "mods", "mine"}
      /\ servers'[x].state = h /\ servers'[x].build = servers[x].build
      /\ servers'[x].mods = servers[x].mods /\ servers'[x].ran = servers[x].ran
      /\ work'[x].kind = kind /\ work'[x].pin = pin /\ work'[x].mods = mods /\ work'[x].mine = mine
      /\ \A y \in Hosts : y # x => servers'[y] = servers[y] /\ work'[y] = work[y]
  BY <1>1, <1>4
<1> QED
  BY <1>2, <1>3, <1>5 DEF Begun, h

\* The state of each server after a job has begun.
LEMMA BegunHeld ==
  ASSUME TrialInv, NEW x \in Hosts, NEW kind \in {"start", "stop", "game_update", "mod_update", "delete"},
         NEW pin, NEW mods, NEW mine \in BOOLEAN, Begun(x, kind, pin, mods, mine),
         kind = "delete" => x = "copy", UNCHANGED passed
  PROVE  HeldState' /\ RunsInstalled' /\ GoneIsIdle'
<1>0. TrialShape /\ HeldState /\ RunsInstalled /\ GoneIsIdle
  BY DEF TrialInv
<1>1. HeldState'
  BY <1>0, HostFacts DEF HeldState, Begun
<1>2. RunsInstalled'
  BY <1>0, HostFacts DEF RunsInstalled, Begun
<1>3. GoneIsIdle'
  BY <1>0, HostFacts DEF GoneIsIdle, Begun
<1> QED
  BY <1>1, <1>2, <1>3

\* A job of somebody else: an update is what "touched" and "overtaken" remember.
LEMMA OtherJobKeeps ==
  ASSUME TrialInv, NEW x \in Hosts, NEW kind \in {"start", "stop", "game_update", "mod_update", "delete"},
         OtherJob(x, kind)
  PROVE  TrialInv'
<1>0. /\ TrialShape /\ TrialSteps /\ HeldState /\ RunsInstalled /\ GoneIsIdle /\ CloneAlone /\ ChildMatches
      /\ ChildCarries /\ TestedKept /\ BootedCopy /\ ApplyNewer
  BY DEF TrialInv
<1>1. Begun(x, kind, 0, offer.mods, FALSE) /\ (kind = "delete" => x = "copy")
  BY BeginsBegun DEF OtherJob
<1>2. /\ touched' = (touched \/ (x = "copy" /\ kind \in {"game_update", "mod_update"}))
      /\ overtaken' = (overtaken \/ (x = "main" /\ kind \in {"game_update", "mod_update"}))
      /\ UNCHANGED <<passed, trial, tested>>
  BY DEF OtherJob
<1>3. touched' \in BOOLEAN /\ overtaken' \in BOOLEAN
  BY <1>2, Zenon
<1>4. TrialShape'
  BY <1>0, <1>1, <1>2, <1>3 DEF TrialShape, Begun
<1>5. HeldState' /\ RunsInstalled' /\ GoneIsIdle'
  BY <1>1, <1>2, BegunHeld
<1>6. CloneAlone'
  BY <1>0, <1>1, <1>2, HostFacts DEF CloneAlone, CloneRunning, IsTest, Begun
<1>7. ChildMatches'
  BY <1>0, <1>1, <1>2, HostFacts DEF ChildMatches, ChildOf, IsTest, Begun
<1>8. ChildCarries'
  BY <1>0, <1>1, <1>2, HostFacts DEF ChildCarries, Begun
<1>9. TestedKept'
  BY <1>0, <1>1, <1>2, HostFacts DEF TestedKept, IsTest, Updating, Begun
<1>10. BootedCopy'
  BY <1>0, <1>1, <1>2, HostFacts DEF BootedCopy, IsTest, Updating, Begun
<1>11. ApplyNewer'
  BY <1>0, <1>1, <1>2, HostFacts DEF ApplyNewer, Updating, Begun
<1>12. TrialSteps'
  BY <1>0, <1>2 DEF TrialSteps, IsTest
<1> QED
  BY <1>12, <1>4, <1>5, <1>6, <1>7, <1>8, <1>9, <1>10, <1>11 DEF TrialInv

\* A trial that waits for nothing owns no job.
LEMMA NoChildWaits ==
  ASSUME TrialInv, trial.child # "waiting" PROVE \A x \in Hosts : work[x].mine = FALSE
  BY DEF TrialInv, ChildMatches, TrialShape

\* The trial ends; what it waited for, if anything, is no longer its own.
LEMMA TrialEnds ==
  ASSUME TrialInv, trial' = NoTrial, UNCHANGED <<servers, passed, tested, touched, overtaken>>,
         DOMAIN work' = Hosts,
         \A x \in Hosts : /\ DOMAIN work'[x] = DOMAIN work[x]
                          /\ work'[x].mine = FALSE /\ work'[x].kind = work[x].kind
  PROVE  TrialInv'
<1>0. /\ TrialShape /\ TrialSteps /\ HeldState /\ RunsInstalled /\ GoneIsIdle /\ CloneAlone /\ ChildMatches
      /\ ChildCarries /\ TestedKept /\ BootedCopy /\ ApplyNewer
  BY DEF TrialInv
<1>1. trial'.kind = "none" /\ trial'.child = "none" /\ DOMAIN trial' = DOMAIN trial
  BY <1>0 DEF NoTrial, TrialShape
<1>2. TrialShape'
  BY <1>0, <1>1 DEF TrialShape
<1>3. HeldState' /\ RunsInstalled' /\ GoneIsIdle'
  BY <1>0, HostFacts DEF HeldState, RunsInstalled, GoneIsIdle
<1>4. CloneAlone' /\ ChildMatches' /\ ChildCarries'
  BY <1>0, <1>1, HostFacts DEF CloneAlone, CloneRunning, ChildMatches, ChildCarries
<1>5. TestedKept' /\ BootedCopy' /\ ApplyNewer'
  BY <1>0, <1>1, HostFacts DEF TestedKept, IsTest, Updating, BootedCopy, ApplyNewer
<1>6. TrialSteps'
  BY <1>1 DEF TrialSteps, IsTest, NoTrial
<1> QED
  BY <1>6, <1>2, <1>3, <1>4, <1>5 DEF TrialInv

\* A child of the trial begins, or is refused and ends it.
LEMMA ChildKeeps ==
  ASSUME TrialInv, NEW x \in Hosts, NEW kind \in {"start", "stop", "game_update", "mod_update", "delete"},
         NEW pin, NEW mods, Child(x, kind, pin, mods), trial.child = "none",
         ChildOf(x, kind, trial.step),
         x = "main" /\ kind = "game_update" => pin = trial.build /\ trial.build # 0,
         x = "main" /\ kind = "mod_update" => mods = trial.mods /\ trial.mods # 0,
         UNCHANGED <<passed, tested, touched, overtaken>>
  PROVE  TrialInv'
<1>0. /\ TrialShape /\ TrialSteps /\ HeldState /\ RunsInstalled /\ GoneIsIdle /\ CloneAlone /\ ChildMatches
      /\ ChildCarries /\ TestedKept /\ BootedCopy /\ ApplyNewer
  BY DEF TrialInv
<1>a. \A y \in Hosts : work[y].mine = FALSE
  BY NoChildWaits
<1>1. CASE ~Admits(x, kind)
  <2>1. trial' = NoTrial /\ UNCHANGED <<work, servers>>
    BY <1>1 DEF Child
  <2> QED
    BY <1>0, <1>a, <2>1, TrialEnds DEF TrialShape
<1>2. CASE Admits(x, kind)
  <2>1. Begun(x, kind, pin, mods, TRUE)
    BY <1>2, BeginsBegun DEF Child
  <2>2. trial' = [trial EXCEPT !.child = "waiting"]
    BY <1>2 DEF Child
  <2>3. /\ trial'.child = "waiting" /\ trial'.kind = trial.kind /\ trial'.step = trial.step
        /\ trial'.build = trial.build /\ trial'.mods = trial.mods /\ DOMAIN trial' = DOMAIN trial
    BY <1>0, <2>2 DEF TrialShape
  <2>b. kind = "delete" => x = "copy"
    BY HostFacts DEF ChildOf
  <2>4. TrialShape'
    BY <1>0, <2>1, <2>3 DEF TrialShape, Begun
  <2>5. HeldState' /\ RunsInstalled' /\ GoneIsIdle'
    BY <2>1, <2>b, BegunHeld
  <2>6. CloneAlone'
    BY <1>0, <2>1, <2>3, HostFacts DEF CloneAlone, CloneRunning, IsTest, Begun
  <2>7. ChildMatches'
    BY <1>0, <1>a, <2>1, <2>3, HostFacts DEF ChildMatches, ChildOf, IsTest, Begun
  <2>8. ChildCarries'
    BY <1>0, <1>a, <2>1, <2>3, HostFacts DEF ChildCarries, Begun
  <2>9. TestedKept'
    BY <1>0, <2>1, <2>3, HostFacts DEF TestedKept, IsTest, Updating, Begun, ChildOf
  <2>10. BootedCopy'
    BY <1>0, <2>1, <2>3, HostFacts DEF BootedCopy, IsTest, Updating, Begun, ChildOf
  <2>11. ApplyNewer'
    BY <1>0, <2>1, <2>3, HostFacts DEF ApplyNewer, Updating, Begun
  <2>12. TrialSteps'
    BY <1>0, <2>3, HostFacts DEF TrialSteps, IsTest, ChildOf
  <2> QED
    BY <2>12, <2>4, <2>5, <2>6, <2>7, <2>8, <2>9, <2>10, <2>11 DEF TrialInv
<1> QED
  BY <1>1, <1>2

\* What the end of a job leaves: its record, a free lock, and the word of it to the trial.
Ended(x, ok, rec) ==
  /\ DOMAIN servers' = Hosts /\ DOMAIN work' = Hosts
  /\ servers'[x] = rec
  /\ DOMAIN work'[x] = {"kind", "phase", "pin", "mods", "mine"}
  /\ work'[x].kind = "none" /\ work'[x].mine = FALSE
  /\ \A y \in Hosts : y # x => servers'[y] = servers[y] /\ work'[y] = work[y]
  /\ DOMAIN trial' = DOMAIN trial /\ trial'.kind = trial.kind /\ trial'.step = trial.step
  /\ trial'.build = trial.build /\ trial'.mods = trial.mods
  /\ ~work[x].mine => trial'.child = trial.child
  /\ work[x].mine => trial'.child = IF ok THEN "succeeded" ELSE "failed"

\* A job ends so.
LEMMA WorkEndsEnded ==
  ASSUME TrialInv, NEW x \in Hosts, NEW ok \in BOOLEAN, NEW rec, WorkEnds(x, ok, rec)
  PROVE  Ended(x, ok, rec)
<1>0. TrialShape
  BY DEF TrialInv
<1>1. /\ work' = [work EXCEPT ![x] = NoWork] /\ servers' = [servers EXCEPT ![x] = rec]
  BY DEF WorkEnds
<1>2. /\ DOMAIN servers' = Hosts /\ DOMAIN work' = Hosts /\ servers'[x] = rec /\ work'[x] = NoWork
      /\ \A y \in Hosts : y # x => servers'[y] = servers[y] /\ work'[y] = work[y]
  BY <1>0, <1>1 DEF TrialShape
<1>3. /\ DOMAIN work'[x] = {"kind", "phase", "pin", "mods", "mine"}
      /\ work'[x].kind = "none" /\ work'[x].mine = FALSE
  BY <1>2, NoWorkIs
<1>4. CASE work[x].mine
  <2> DEFINE c == IF ok THEN "succeeded" ELSE "failed"
  <2>1. trial' = [trial EXCEPT !.child = c]
    BY <1>4 DEF WorkEnds, Heard
  <2> HIDE DEF c
  <2>2. /\ DOMAIN trial' = DOMAIN trial /\ trial'.kind = trial.kind /\ trial'.step = trial.step
        /\ trial'.build = trial.build /\ trial'.mods = trial.mods /\ trial'.child = c
    BY <1>0, <2>1 DEF TrialShape
  <2> QED
    BY <1>2, <1>3, <1>4, <2>2 DEF Ended, c
<1>5. CASE ~work[x].mine
  <2>1. trial' = trial
    BY <1>5 DEF WorkEnds, Heard
  <2> QED
    BY <1>2, <1>3, <1>5, <2>1 DEF Ended
<1> QED
  BY <1>4, <1>5

\* What the record of a server may have become when its job ends.
Became(x, ok, rec) ==
  /\ DOMAIN rec = {"state", "build", "mods", "ran"}
  /\ work[x].kind \notin {"none", "clone", "cloned"}
  /\ rec.state # "gone" =>
       /\ work[x].kind # "game_update" => rec.build = servers[x].build
       /\ work[x].kind # "mod_update" => rec.mods = servers[x].mods
       /\ rec.ran \in {servers[x].ran, <<rec.build, rec.mods>>}
       /\ work[x].kind = "start" /\ ok => rec.ran = <<rec.build, rec.mods>>
       /\ rec.state \in {"running", "stopping"} => rec.ran = <<rec.build, rec.mods>>
  /\ rec.state = "gone" => x = "copy" /\ passed' = FALSE
  /\ rec.state = "deleting" => x = "copy"

\* A job ends.
LEMMA EndKeeps ==
  ASSUME TrialInv, NEW x \in Hosts, NEW ok \in BOOLEAN, NEW rec, WorkEnds(x, ok, rec),
         Became(x, ok, rec), passed' \in BOOLEAN, passed' => passed,
         UNCHANGED <<tested, touched, overtaken>>
  PROVE  TrialInv'
<1>0. /\ TrialShape /\ TrialSteps /\ HeldState /\ RunsInstalled /\ GoneIsIdle /\ CloneAlone /\ ChildMatches
      /\ ChildCarries /\ TestedKept /\ BootedCopy /\ ApplyNewer
  BY DEF TrialInv
<1>1. Ended(x, ok, rec)
  BY WorkEndsEnded
<1>a. (x = "main" /\ "copy" # x) \/ (x = "copy" /\ "main" # x)
  BY HostFacts
<1>b. trial'.child \in {"none", "waiting", "succeeded", "failed"}
  BY <1>0, <1>1 DEF Ended, TrialShape
<1>2. TrialShape'
  BY <1>0, <1>1, <1>b DEF TrialShape, Ended, Became
<1>3. HeldState'
  BY <1>0, <1>1, <1>a, HostFacts DEF HeldState, Ended, Became
<1>4. RunsInstalled'
  BY <1>0, <1>1, <1>a, HostFacts DEF RunsInstalled, Ended, Became
<1>5. GoneIsIdle'
  BY <1>0, <1>1, <1>a, HostFacts DEF GoneIsIdle, Ended, Became
<1>6. CloneAlone'
  BY <1>0, <1>1, <1>a, HostFacts DEF CloneAlone, CloneRunning, IsTest, Ended, Became, ChildMatches, ChildOf
<1>7. ChildMatches'
  BY <1>0, <1>1, <1>a, HostFacts DEF ChildMatches, ChildOf, IsTest, Ended
<1>8. ChildCarries'
  BY <1>0, <1>1, <1>a, HostFacts DEF ChildCarries, Ended
<1>9. TestedKept'
  BY <1>0, <1>1, <1>a, HostFacts DEF TestedKept, IsTest, Updating, Ended, Became
<1>10. BootedCopy'
  <2>1. CASE x = "copy"
    BY <2>1, <1>0, <1>1, <1>a, HostFacts DEF BootedCopy, IsTest, Updating, Ended, Became, ChildMatches, ChildOf, HeldState
  <2>2. CASE x = "main"
    BY <2>2, <1>0, <1>1, <1>a, HostFacts DEF BootedCopy, IsTest, Updating, Ended, ChildMatches, ChildOf
  <2> QED
    BY <1>a, <2>1, <2>2
<1>11. ApplyNewer'
  <2>1. CASE x = "copy"
    BY <2>1, <1>0, <1>1, <1>a, HostFacts DEF ApplyNewer, Updating, Ended, ChildMatches, ChildOf
  <2>2. CASE x = "main"
    BY <2>2, <1>0, <1>1, <1>a, HostFacts DEF ApplyNewer, Updating, Ended, Became, ChildMatches, ChildOf
  <2> QED
    BY <1>a, <2>1, <2>2
<1>12. TrialSteps'
  BY <1>0, <1>1, HostFacts DEF TrialSteps, IsTest, Ended, ChildMatches, ChildOf
<1> QED
  BY <1>12, <1>2, <1>3, <1>4, <1>5, <1>6, <1>7, <1>8, <1>9, <1>10, <1>11 DEF TrialInv

\* A job that goes on, or nothing of the trial that changes.
LEMMA PhaseKeeps ==
  ASSUME TrialInv, UNCHANGED <<servers, passed, trial, tested, touched, overtaken>>,
         DOMAIN work' = Hosts,
         \A x \in Hosts : /\ DOMAIN work'[x] = DOMAIN work[x] /\ work'[x].kind = work[x].kind
                          /\ work'[x].mods = work[x].mods /\ work'[x].mine = work[x].mine
                          /\ x = "main" /\ work[x].mine => work'[x].pin = work[x].pin
  PROVE  TrialInv'
<1>0. /\ TrialShape /\ TrialSteps /\ HeldState /\ RunsInstalled /\ GoneIsIdle /\ CloneAlone /\ ChildMatches
      /\ ChildCarries /\ TestedKept /\ BootedCopy /\ ApplyNewer
  BY DEF TrialInv
<1>2. TrialShape'
  BY <1>0 DEF TrialShape
<1>3. HeldState' /\ RunsInstalled' /\ GoneIsIdle'
  BY <1>0, HostFacts DEF HeldState, RunsInstalled, GoneIsIdle
<1>4. CloneAlone' /\ ChildMatches' /\ ChildCarries'
  BY <1>0, HostFacts DEF CloneAlone, CloneRunning, IsTest, ChildMatches, ChildOf, ChildCarries
<1>5. TestedKept' /\ BootedCopy' /\ ApplyNewer'
  BY <1>0, HostFacts DEF TestedKept, IsTest, Updating, BootedCopy, ApplyNewer
<1>6. TrialSteps'
  BY <1>0 DEF TrialSteps, IsTest
<1> QED
  BY <1>6, <1>2, <1>3, <1>4, <1>5 DEF TrialInv

\* A phase of a game update is over.
LEMMA StagePhaseKeeps ==
  ASSUME TrialInv, NEW x \in Hosts, StagePhase(x) PROVE TrialInv'
<1>0. TrialShape
  BY DEF TrialInv
<1> DEFINE p == NextPhase(work[x].phase)
<1>1. work' = [work EXCEPT ![x].phase = p] /\ UNCHANGED <<servers, passed, trial, tested, touched, overtaken>>
  BY DEF StagePhase
<1> HIDE DEF p
<1>2. /\ DOMAIN work' = Hosts
      /\ \A y \in Hosts : /\ DOMAIN work'[y] = DOMAIN work[y] /\ work'[y].kind = work[y].kind
                          /\ work'[y].mods = work[y].mods /\ work'[y].mine = work[y].mine
                          /\ work'[y].pin = work[y].pin
  BY <1>0, <1>1 DEF TrialShape
<1> QED
  BY <1>1, <1>2, PhaseKeeps

\* The build of a game update is found, or the update fails.
LEMMA FetchBuildKeeps ==
  ASSUME TrialInv, NEW x \in Hosts, FetchBuild(x) PROVE TrialInv'
<1>0. TrialShape /\ ChildCarries /\ HeldState
  BY DEF TrialInv
<1> DEFINE id == IF work[x].pin \in cache \ {0} THEN work[x].pin ELSE offer.build
<1>1. work[x].kind = "game_update" /\ UNCHANGED <<passed, tested, touched, overtaken>>
  BY DEF FetchBuild
<1>2. CASE work[x].pin \in {0, id}
  <2>1. work' = [work EXCEPT ![x].phase = "clone", ![x].pin = id] /\ UNCHANGED <<servers, trial>>
    BY <1>2 DEF FetchBuild
  <2>a. x = "main" /\ work[x].mine => id = work[x].pin
    BY <1>0, <1>1, <1>2 DEF ChildCarries
  <2> HIDE DEF id
  <2> DEFINE r == [work[x] EXCEPT !.phase = "clone", !.pin = id]
  <2>2. /\ DOMAIN r = DOMAIN work[x] /\ r.kind = work[x].kind /\ r.mods = work[x].mods
        /\ r.mine = work[x].mine /\ r.pin = id
    BY <1>0 DEF TrialShape
  <2>3. work' = [work EXCEPT ![x] = r]
    BY <1>0, <2>1 DEF TrialShape
  <2> HIDE DEF r
  <2>4. /\ DOMAIN work' = Hosts
        /\ \A y \in Hosts : /\ DOMAIN work'[y] = DOMAIN work[y] /\ work'[y].kind = work[y].kind
                            /\ work'[y].mods = work[y].mods /\ work'[y].mine = work[y].mine
                            /\ y = "main" /\ work[y].mine => work'[y].pin = work[y].pin
    BY <1>0, <2>a, <2>2, <2>3 DEF TrialShape
  <2> QED
    BY <1>1, <2>1, <2>4, PhaseKeeps
<1>3. CASE work[x].pin \notin {0, id}
  <2> DEFINE rec == [servers[x] EXCEPT !.state = "error"]
  <2>1. WorkEnds(x, FALSE, rec)
    BY <1>3 DEF FetchBuild
  <2>2. Became(x, FALSE, rec)
    BY <1>0, <1>1 DEF Became, TrialShape
  <2> HIDE DEF rec
  <2>3. passed' \in BOOLEAN
    BY <1>0, <1>1 DEF TrialShape
  <2> QED
    BY <1>1, <2>1, <2>2, <2>3, EndKeeps
<1> QED
  BY <1>2, <1>3

\* The new tree is in place.
LEMMA SwapUpdateKeeps ==
  ASSUME TrialInv, NEW x \in Hosts, SwapUpdate(x) PROVE TrialInv'
<1>0. TrialShape
  BY DEF TrialInv
<1>1. work[x].kind = "game_update" /\ UNCHANGED <<passed, tested, touched, overtaken>>
  BY DEF SwapUpdate
<1> DEFINE rec == [servers[x] EXCEPT !.state = "stopped", !.build = work[x].pin]
<1>2. WorkEnds(x, TRUE, rec)
  BY DEF SwapUpdate
<1>3. Became(x, TRUE, rec)
  BY <1>0, <1>1 DEF Became, TrialShape
<1> HIDE DEF rec
<1>4. passed' \in BOOLEAN
  BY <1>0, <1>1 DEF TrialShape
<1> QED
  BY <1>1, <1>2, <1>3, <1>4, EndKeeps

\* A game update is given up or fails.
LEMMA UpdateEndsKeeps ==
  ASSUME TrialInv, NEW x \in Hosts, UpdateEnds(x) PROVE TrialInv'
<1>0. TrialShape
  BY DEF TrialInv
<1>1. work[x].kind = "game_update" /\ UNCHANGED <<passed, tested, touched, overtaken>>
  BY DEF UpdateEnds
<1>2. PICK st \in {"stopped", "error"} : WorkEnds(x, FALSE, [servers[x] EXCEPT !.state = st])
  BY DEF UpdateEnds
<1> DEFINE rec == [servers[x] EXCEPT !.state = st]
<1>3. Became(x, FALSE, rec)
  BY <1>0, <1>1 DEF Became, TrialShape
<1>a. WorkEnds(x, FALSE, rec)
  BY <1>2
<1> HIDE DEF rec
<1>4. passed' \in BOOLEAN
  BY <1>0, <1>1 DEF TrialShape
<1> QED
  BY <1>1, <1>a, <1>3, <1>4, EndKeeps

\* What a start, stop, mod update or delete makes of the record of its server.
LEMMA ResultIs ==
  ASSUME TrialInv, NEW x \in Hosts, NEW ok \in BOOLEAN,
         work[x].kind \in {"start", "stop", "mod_update", "delete"},
         x = "copy" /\ work[x].kind = "delete" /\ ok => passed' = FALSE
  PROVE  Became(x, ok, Result(x, ok))
<1>0. TrialShape /\ HeldState /\ RunsInstalled
  BY DEF TrialInv
<1>a. DOMAIN servers[x] = {"state", "build", "mods", "ran"} /\ servers[x].state = Holding(work[x].kind)
  BY <1>0 DEF TrialShape, HeldState
<1>b. x = "main" => work[x].kind # "delete"
  BY <1>0 DEF HeldState
<1>1. CASE work[x].kind = "start" /\ ok
  <2> DEFINE rec == [servers[x] EXCEPT !.state = "running", !.ran = <<servers[x].build, servers[x].mods>>]
  <2>1. Result(x, ok) = rec
    BY <1>1 DEF Result
  <2>2. Became(x, ok, rec)
    BY <1>1, <1>a DEF Became
  <2> QED
    BY <2>1, <2>2
<1>2. CASE work[x].kind = "start" /\ ~ok
  <2> DEFINE rec == [servers[x] EXCEPT !.state = "error"]
  <2>1. Result(x, ok) = rec
    BY <1>2 DEF Result
  <2>2. Became(x, ok, rec)
    BY <1>2, <1>a DEF Became
  <2> QED
    BY <2>1, <2>2
<1>3. CASE work[x].kind = "stop"
  <2> DEFINE rec == [servers[x] EXCEPT !.state = IF ok THEN "stopped" ELSE "error"]
  <2>1. Result(x, ok) = rec
    BY <1>3 DEF Result
  <2>2. Became(x, ok, rec)
    BY <1>3, <1>a DEF Became
  <2> QED
    BY <2>1, <2>2
<1>4. CASE work[x].kind = "mod_update" /\ ok
  <2> DEFINE rec == [servers[x] EXCEPT !.mods = work[x].mods]
  <2>1. Result(x, ok) = rec
    BY <1>4 DEF Result
  <2>2. Became(x, ok, rec)
    BY <1>4, <1>a, HostFacts DEF Became
  <2> QED
    BY <2>1, <2>2
<1>5. CASE work[x].kind \in {"mod_update", "delete"} /\ ~ok
  <2>1. Result(x, ok) = servers[x]
    BY <1>5 DEF Result
  <2>2. Became(x, ok, servers[x])
    BY <1>5, <1>a, <1>b, HostFacts DEF Became
  <2> QED
    BY <2>1, <2>2
<1>6. CASE work[x].kind = "delete" /\ ok
  <2>1. Result(x, ok) = NoServer
    BY <1>6 DEF Result
  <2>2. x = "copy" /\ passed' = FALSE
    BY <1>6, <1>b, HostFacts
  <2>3. Became(x, ok, NoServer)
    BY <1>6, <2>2 DEF Became, NoServer
  <2> QED
    BY <2>1, <2>3
<1> QED
  BY <1>1, <1>2, <1>3, <1>4, <1>5, <1>6

\* A start, stop, mod update or delete ends.
LEMMA JobEndsKeeps ==
  ASSUME TrialInv, NEW x \in Hosts, NEW ok \in BOOLEAN, JobEnds(x, ok) PROVE TrialInv'
<1>1. /\ work[x].kind \in {"start", "stop", "mod_update", "delete"} /\ WorkEnds(x, ok, Result(x, ok))
      /\ UNCHANGED <<tested, touched, overtaken>>
  BY DEF JobEnds
<1>2. passed' = (passed /\ ~(x = "copy" /\ work[x].kind = "delete" /\ ok))
  BY DEF JobEnds
<1>3. passed' \in BOOLEAN /\ (passed' => passed)
  BY <1>2, Zenon
<1>4. x = "copy" /\ work[x].kind = "delete" /\ ok => passed' = FALSE
  BY <1>2, Zenon
<1>5. Became(x, ok, Result(x, ok))
  BY <1>1, <1>4, ResultIs
<1> QED
  BY <1>1, <1>3, <1>5, EndKeeps

\* Versions that are published and a cache that is cleared touch nothing of the trial.
LEMMA OutsideKeeps ==
  ASSUME TrialInv, UNCHANGED <<servers, passed, work, trial, tested, touched, overtaken>> PROVE TrialInv'
<1>1. DOMAIN work' = Hosts
  BY DEF TrialInv, TrialShape
<1> QED
  BY <1>1, PhaseKeeps

\* The files of the server reach the copy.
LEMMA CloneServerFilesKeeps ==
  ASSUME TrialInv, CloneServerFiles PROVE TrialInv'
<1>0. /\ TrialShape /\ TrialSteps /\ HeldState /\ RunsInstalled /\ GoneIsIdle /\ CloneAlone /\ ChildMatches
      /\ ChildCarries /\ TestedKept /\ BootedCopy /\ ApplyNewer
  BY DEF TrialInv
<1> DEFINE b == servers["main"].build
           m == servers["main"].mods
           p == ClonePhase(work["copy"].phase)
           r == [servers["copy"] EXCEPT !.build = b, !.mods = m]
<1>1. /\ servers' = [servers EXCEPT !["copy"].build = b, !["copy"].mods = m]
      /\ work' = [work EXCEPT !["copy"].phase = p]
      /\ CloneRunning /\ UNCHANGED <<passed, trial, tested, touched, overtaken>>
  BY DEF CloneServerFiles
<1> HIDE DEF b, m, p
<1>2. DOMAIN r = {"state", "build", "mods", "ran"} /\ r.state = servers["copy"].state
  BY <1>0, HostFacts DEF TrialShape
<1>3. servers' = [servers EXCEPT !["copy"] = r]
  BY <1>0, <1>1, HostFacts DEF TrialShape
<1> HIDE DEF r
<1>a. DOMAIN servers' = Hosts /\ servers'["copy"] = r /\ servers'["main"] = servers["main"]
  BY <1>0, <1>3, HostFacts DEF TrialShape
<1>b. /\ DOMAIN work' = Hosts
      /\ \A y \in Hosts : /\ DOMAIN work'[y] = DOMAIN work[y] /\ work'[y].kind = work[y].kind
                          /\ work'[y].mods = work[y].mods /\ work'[y].mine = work[y].mine
                          /\ work'[y].pin = work[y].pin
  BY <1>0, <1>1, HostFacts DEF TrialShape
<1>4. /\ DOMAIN servers' = Hosts /\ servers'["copy"] = r /\ servers'["main"] = servers["main"]
      /\ DOMAIN work' = Hosts
      /\ \A y \in Hosts : /\ DOMAIN work'[y] = DOMAIN work[y] /\ work'[y].kind = work[y].kind
                          /\ work'[y].mods = work[y].mods /\ work'[y].mine = work[y].mine
                          /\ work'[y].pin = work[y].pin
  BY <1>a, <1>b
<1>5. TrialShape' /\ TrialSteps'
  BY <1>0, <1>1, <1>2, <1>4, HostFacts DEF TrialShape, TrialSteps, IsTest
<1>6. HeldState' /\ RunsInstalled' /\ GoneIsIdle'
  BY <1>0, <1>1, <1>2, <1>4, HostFacts DEF HeldState, RunsInstalled, GoneIsIdle, CloneRunning
<1>7. CloneAlone' /\ ChildMatches' /\ ChildCarries'
  BY <1>0, <1>1, <1>4, HostFacts DEF CloneAlone, CloneRunning, IsTest, ChildMatches, ChildOf, ChildCarries
<1>8. TestedKept' /\ BootedCopy' /\ ApplyNewer'
  BY <1>0, <1>1, <1>4, HostFacts DEF TestedKept, IsTest, Updating, BootedCopy, ApplyNewer, CloneAlone
<1> QED
  BY <1>5, <1>6, <1>7, <1>8 DEF TrialInv

\* The other phases of the copying.
LEMMA CloneStepKeeps ==
  ASSUME TrialInv, CloneStep PROVE TrialInv'
<1>0. TrialShape
  BY DEF TrialInv
<1> DEFINE p == ClonePhase(work["copy"].phase)
<1>1. work' = [work EXCEPT !["copy"].phase = p] /\ UNCHANGED <<servers, passed, trial, tested, touched, overtaken>>
  BY DEF CloneStep
<1> HIDE DEF p
<1>2. /\ DOMAIN work' = Hosts
      /\ \A y \in Hosts : /\ DOMAIN work'[y] = DOMAIN work[y] /\ work'[y].kind = work[y].kind
                          /\ work'[y].mods = work[y].mods /\ work'[y].mine = work[y].mine
                          /\ work'[y].pin = work[y].pin
  BY <1>0, <1>1, HostFacts DEF TrialShape
<1> QED
  BY <1>1, <1>2, PhaseKeeps

\* The copy is made, or given up: both locks are free again.
LEMMA ClonedKeeps ==
  ASSUME TrialInv, CloneRunning, NEW st \in {"stopped", "error"}, NEW ok \in BOOLEAN,
         Cloned([servers["copy"] EXCEPT !.state = st], ok), touched' \in BOOLEAN,
         UNCHANGED <<passed, tested, overtaken>>
  PROVE  TrialInv'
<1>0. /\ TrialShape /\ TrialSteps /\ HeldState /\ RunsInstalled /\ GoneIsIdle /\ CloneAlone /\ ChildMatches
      /\ ChildCarries /\ TestedKept /\ BootedCopy /\ ApplyNewer
  BY DEF TrialInv
<1> DEFINE r == [servers["copy"] EXCEPT !.state = st]
<1>1. /\ work' = [x \in Hosts |-> NoWork] /\ servers' = [servers EXCEPT !["copy"] = r]
      /\ Heard("copy", ok)
  BY DEF Cloned
<1>2. DOMAIN r = {"state", "build", "mods", "ran"} /\ r.state = st
  BY <1>0, HostFacts DEF TrialShape
<1> HIDE DEF r
<1>3. /\ DOMAIN servers' = Hosts /\ servers'["copy"] = r /\ servers'["main"] = servers["main"]
      /\ DOMAIN work' = Hosts
      /\ \A y \in Hosts : work'[y] = NoWork
  BY <1>0, <1>1, HostFacts DEF TrialShape
<1>4. /\ DOMAIN trial' = DOMAIN trial /\ trial'.kind = trial.kind /\ trial'.step = trial.step
      /\ trial'.child \in {"none", "waiting", "succeeded", "failed"}
      /\ ~work["copy"].mine => trial' = trial
  <2> DEFINE c == IF ok THEN "succeeded" ELSE "failed"
  <2>1. trial' = IF work["copy"].mine THEN [trial EXCEPT !.child = c] ELSE trial
    BY <1>1 DEF Heard
  <2>2. c \in {"succeeded", "failed"}
    OBVIOUS
  <2> HIDE DEF c
  <2> QED
    BY <1>0, <2>1, <2>2 DEF TrialShape
<1>5. trial.kind # "none" => IsTest /\ trial.step = "clone"
  BY <1>0 DEF CloneAlone
<1>6. TrialShape'
  <2>1. \A y \in Hosts : DOMAIN servers'[y] = {"state", "build", "mods", "ran"}
    BY <1>0, <1>2, <1>3, HostFacts DEF TrialShape
  <2>2. \A y \in Hosts : DOMAIN work'[y] = {"kind", "phase", "pin", "mods", "mine"} /\ work'[y].mine = FALSE
    BY <1>3, NoWorkIs
  <2> QED
    BY <1>0, <1>3, <1>4, <2>1, <2>2 DEF TrialShape
<1>7. TrialSteps'
  <2>1. trial.kind = "none" => ~work["copy"].mine
    BY <1>0, HostFacts DEF ChildMatches, ChildOf, IsTest
  <2> QED
    BY <1>0, <1>4, <1>5, <2>1 DEF TrialSteps, IsTest
<1>8. HeldState' /\ RunsInstalled' /\ GoneIsIdle'
  BY <1>0, <1>2, <1>3, HostFacts, NoWorkIs DEF HeldState, RunsInstalled, GoneIsIdle
<1>9. CloneAlone' /\ ChildMatches' /\ ChildCarries'
  BY <1>3, HostFacts, NoWorkIs DEF CloneAlone, CloneRunning, ChildMatches, ChildCarries
<1>10. TestedKept' /\ BootedCopy' /\ ApplyNewer'
  BY <1>0, <1>4, <1>5 DEF TestedKept, IsTest, BootedCopy, ApplyNewer, CloneAlone
<1> QED
  BY <1>6, <1>7, <1>8, <1>9, <1>10 DEF TrialInv

\* The copying ends well or badly.
LEMMA FinishCloneKeeps ==
  ASSUME TrialInv, FinishClone \/ CloneFails PROVE TrialInv'
<1>0. TrialShape
  BY DEF TrialInv
<1>1. CASE FinishClone
  <2>1. /\ CloneRunning /\ Cloned([servers["copy"] EXCEPT !.state = "stopped"], TRUE) /\ touched' = FALSE
        /\ UNCHANGED <<passed, tested, overtaken>>
    BY <1>1 DEF FinishClone
  <2> QED
    BY <2>1, ClonedKeeps
<1>2. CASE CloneFails
  <2>1. /\ CloneRunning /\ Cloned([servers["copy"] EXCEPT !.state = "error"], FALSE)
        /\ UNCHANGED <<passed, tested, overtaken, touched>>
    BY <1>2 DEF CloneFails
  <2>2. touched' \in BOOLEAN
    BY <1>0, <2>1 DEF TrialShape
  <2> QED
    BY <2>1, <2>2, ClonedKeeps
<1> QED
  BY <1>1, <1>2

\* Another copying takes or frees the lock of the server.
LEMMA OtherCloneKeeps ==
  ASSUME TrialInv, OtherClone \/ OtherCloneEnds PROVE TrialInv'
<1>0. /\ TrialShape /\ TrialSteps /\ HeldState /\ RunsInstalled /\ GoneIsIdle /\ CloneAlone /\ ChildMatches
      /\ ChildCarries /\ TestedKept /\ BootedCopy /\ ApplyNewer
  BY DEF TrialInv
<1> DEFINE w == [NoWork EXCEPT !.kind = "cloned"]
<1>a. /\ DOMAIN w = {"kind", "phase", "pin", "mods", "mine"} /\ w.kind = "cloned"
      /\ w.mine = NoWork.mine
  BY NoWorkIs
<1>1. PICK v \in {w, NoWork} : work' = [work EXCEPT !["main"] = v]
  BY DEF OtherClone, OtherCloneEnds
<1>2. UNCHANGED <<servers, passed, trial, tested, touched, overtaken>>
  BY DEF OtherClone, OtherCloneEnds
<1>3. work["main"].kind \in {"none", "cloned"}
  BY NoWorkIs DEF OtherClone, OtherCloneEnds, Idle
<1> HIDE DEF w
<1>4. DOMAIN v = {"kind", "phase", "pin", "mods", "mine"} /\ v.kind \in {"none", "cloned"} /\ v.mine = FALSE
  BY <1>a, NoWorkIs
<1>5. DOMAIN work' = Hosts /\ work'["main"] = v /\ work'["copy"] = work["copy"]
  BY <1>0, <1>1, HostFacts DEF TrialShape
<1>6. TrialShape' /\ TrialSteps'
  <2>1. /\ DOMAIN work'["main"] = {"kind", "phase", "pin", "mods", "mine"} /\ work'["main"].mine = FALSE
        /\ DOMAIN work'["copy"] = {"kind", "phase", "pin", "mods", "mine"} /\ work'["copy"].mine \in BOOLEAN
    BY <1>0, <1>4, <1>5, HostFacts DEF TrialShape
  <2>2. \A y \in Hosts : /\ DOMAIN work'[y] = {"kind", "phase", "pin", "mods", "mine"}
                          /\ work'[y].mine \in BOOLEAN
    BY <2>1, HostFacts
  <2> QED
    BY <1>0, <1>2, <1>5, <2>2 DEF TrialShape, TrialSteps, IsTest
<1>7. HeldState' /\ RunsInstalled' /\ GoneIsIdle'
  BY <1>0, <1>2, <1>4, <1>5, HostFacts DEF HeldState, RunsInstalled, GoneIsIdle
<1>8. CloneAlone' /\ ChildMatches' /\ ChildCarries'
  BY <1>0, <1>2, <1>4, <1>5, HostFacts DEF CloneAlone, CloneRunning, IsTest, ChildMatches, ChildOf, ChildCarries
<1>9. TestedKept' /\ BootedCopy' /\ ApplyNewer'
  BY <1>0, <1>2, <1>4, <1>5, HostFacts DEF TestedKept, IsTest, Updating, BootedCopy, ApplyNewer
<1> QED
  BY <1>6, <1>7, <1>8, <1>9 DEF TrialInv

\* The trial moves on while no job of its own runs.
LEMMA TrialMoves ==
  ASSUME TrialInv, UNCHANGED <<servers, passed, work, tested, touched>>, overtaken' \in BOOLEAN,
         \A x \in Hosts : work[x].mine = FALSE, ~CloneRunning,
         DOMAIN trial' = DOMAIN trial, trial'.kind \in {"game", "mods", "both", "apply"},
         trial'.child = "none", TrialSteps', IsTest' => ~passed, BootedCopy', ApplyNewer'
  PROVE  TrialInv'
<1>0. /\ TrialShape /\ TrialSteps /\ HeldState /\ RunsInstalled /\ GoneIsIdle /\ CloneAlone /\ ChildMatches
      /\ ChildCarries /\ TestedKept /\ BootedCopy /\ ApplyNewer
  BY DEF TrialInv
<1>1. TrialShape'
  BY <1>0 DEF TrialShape
<1>2. HeldState' /\ RunsInstalled' /\ GoneIsIdle'
  BY <1>0 DEF HeldState, RunsInstalled, GoneIsIdle
<1>3. CloneAlone' /\ ChildMatches' /\ ChildCarries'
  BY HostFacts DEF CloneAlone, CloneRunning, ChildMatches, ChildCarries
<1>4. TestedKept'
  BY <1>0 DEF TestedKept, Updating
<1> QED
  BY <1>1, <1>2, <1>3, <1>4 DEF TrialInv

\* No copy is being made while the trial waits for nothing.
LEMMA NotCloning ==
  ASSUME TrialInv, trial.kind # "none", trial.child # "waiting" PROVE ~CloneRunning
  BY DEF TrialInv, CloneAlone

\* A step of the trial that needs no job.
LEMMA TrialGoesKeeps ==
  ASSUME TrialInv, trial.kind # "none", trial.child = "none", NEW step, TrialGoes(step),
         UNCHANGED <<servers, passed, work, tested, touched, overtaken>>,
         IsTest => \/ step \in {"mods", "start"}
                   \/ step = "pass" /\ servers["copy"].state = "running",
         trial.kind = "apply" =>
           <<trial.step, step>> \in {<<"stop", "game">>, <<"game", "mods">>, <<"mods", "start">>,
                                     <<"start", "delstop">>, <<"delstop", "delete">>}
  PROVE  TrialInv'
<1>0. /\ TrialShape /\ TrialSteps /\ HeldState /\ RunsInstalled /\ TestedKept /\ ApplyNewer
  BY DEF TrialInv
<1>1. /\ DOMAIN trial' = DOMAIN trial /\ trial'.kind = trial.kind /\ trial'.step = step
      /\ trial'.child = "none" /\ trial'.build = trial.build /\ trial'.mods = trial.mods
  BY <1>0 DEF TrialGoes, TrialShape
<1>2. ~CloneRunning /\ (\A x \in Hosts : work[x].mine = FALSE)
  BY NotCloning, NoChildWaits
<1>3. trial'.kind \in {"game", "mods", "both", "apply"} /\ overtaken' \in BOOLEAN
  BY <1>0, <1>1 DEF TrialShape
<1>4. TrialSteps'
  BY <1>0, <1>1 DEF TrialSteps, IsTest
<1>5. IsTest' => ~passed
  BY <1>0, <1>1 DEF TestedKept, IsTest
<1>6. BootedCopy'
  <2>1. servers["copy"].state = "running" =>
          servers["copy"].ran = <<servers["copy"].build, servers["copy"].mods>> /\ ~Updating("copy")
    BY <1>0, HostFacts DEF RunsInstalled, HeldState, Updating
  <2> QED
    BY <1>1, <2>1 DEF BootedCopy, IsTest, Updating
<1>7. ApplyNewer'
  BY <1>0, <1>1 DEF ApplyNewer, Updating
<1> QED
  BY <1>1, <1>2, <1>3, <1>4, <1>5, <1>6, <1>7, TrialMoves

\* A test is asked for.
LEMMA StartUpdateTestKeeps ==
  ASSUME TrialInv, StartUpdateTest PROVE TrialInv'
<1>0. TrialShape /\ HeldState /\ GoneIsIdle
  BY DEF TrialInv
<1>1. PICK parts \in {"game", "mods", "both"} : SubmitTest(parts)
  BY DEF StartUpdateTest
<1>2. /\ servers["copy"] = NoServer /\ trial = NoTrial
      /\ trial' = [NoTrial EXCEPT !.kind = parts, !.step = "clone"]
      /\ UNCHANGED <<servers, passed, work, tested, touched, overtaken>>
  BY <1>1 DEF SubmitTest
<1>3. /\ trial.child = "none" /\ DOMAIN trial' = DOMAIN trial
      /\ trial'.kind = parts /\ trial'.step = "clone" /\ trial'.child = "none"
  BY <1>2 DEF NoTrial
<1>4. ~passed /\ ~CloneRunning
  BY <1>0, <1>2 DEF GoneIsIdle, CloneRunning, NoServer
<1>5. \A x \in Hosts : work[x].mine = FALSE
  BY <1>3, NoChildWaits
<1>6. TrialSteps' /\ BootedCopy' /\ ApplyNewer'
  BY <1>3 DEF TrialSteps, IsTest, BootedCopy, ApplyNewer
<1>7. overtaken' \in BOOLEAN
  BY <1>0, <1>2 DEF TrialShape
<1> QED
  BY <1>2, <1>3, <1>4, <1>5, <1>6, <1>7, TrialMoves

\* The test makes its copy, or is refused it.
LEMMA TestCloneKeeps ==
  ASSUME TrialInv, TestClone PROVE TrialInv'
<1>0. /\ TrialShape /\ TrialSteps /\ HeldState /\ RunsInstalled /\ GoneIsIdle /\ CloneAlone /\ ChildMatches
      /\ ChildCarries /\ TestedKept /\ BootedCopy /\ ApplyNewer
  BY DEF TrialInv
<1>1. /\ IsTest /\ trial.step = "clone" /\ trial.child = "none"
      /\ UNCHANGED <<passed, tested, touched, overtaken>>
  BY DEF TestClone, TrialAt
<1>2. \A x \in Hosts : work[x].mine = FALSE
  BY <1>1, NoChildWaits
<1>3. CASE ~(servers["main"].state \in Rested /\ Idle("main"))
  <2>1. trial' = NoTrial /\ UNCHANGED <<work, servers>>
    BY <1>3 DEF TestClone
  <2> QED
    BY <1>0, <1>1, <1>2, <2>1, TrialEnds DEF TrialShape
<1>4. CASE servers["main"].state \in Rested /\ Idle("main")
  <2>1. CloneClaims
    BY <1>4 DEF TestClone
  <2> DEFINE w == [NoWork EXCEPT !.kind = "cloned"]
             v == [kind |-> "clone", phase |-> "dirs", pin |-> 0, mods |-> 0, mine |-> TRUE]
  <2>2. /\ DOMAIN w = {"kind", "phase", "pin", "mods", "mine"} /\ w.kind = "cloned"
        /\ w.mine = NoWork.mine
    BY NoWorkIs
  <2>3. DOMAIN v = {"kind", "phase", "pin", "mods", "mine"} /\ v.kind = "clone"
    OBVIOUS
  <2>4. v.mine = TRUE
    BY Zenon
  <2>5. /\ work' = [main |-> w, copy |-> v]
        /\ servers' = [servers EXCEPT !["copy"].state = "provisioning"]
        /\ trial' = [trial EXCEPT !.child = "waiting"]
    BY <2>1 DEF CloneClaims
  <2> HIDE DEF w, v
  <2>6. w.mine = FALSE
    BY <2>2, NoWorkIs
  <2>7. DOMAIN work' = Hosts /\ work'["main"] = w /\ work'["copy"] = v
    BY <2>5 DEF Hosts
  <2>8. /\ DOMAIN servers' = Hosts /\ servers'["main"] = servers["main"]
        /\ DOMAIN servers'["copy"] = {"state", "build", "mods", "ran"}
        /\ servers'["copy"].state = "provisioning"
    BY <1>0, <2>5, HostFacts DEF TrialShape
  <2>9. /\ trial'.kind = trial.kind /\ trial'.step = trial.step /\ trial'.child = "waiting"
        /\ DOMAIN trial' = DOMAIN trial
    BY <1>0, <2>5 DEF TrialShape
  <2>10. TrialShape'
    <3>1. \A y \in Hosts : /\ DOMAIN servers'[y] = {"state", "build", "mods", "ran"}
                           /\ DOMAIN work'[y] = {"kind", "phase", "pin", "mods", "mine"}
      BY <1>0, <2>2, <2>3, <2>7, <2>8, HostFacts DEF TrialShape
    <3>2. \A y \in Hosts : work'[y].mine \in BOOLEAN
      BY <2>4, <2>6, <2>7, HostFacts
    <3> QED
      BY <1>0, <1>1, <2>7, <2>8, <2>9, <3>1, <3>2 DEF TrialShape
  <2>11. TrialSteps' /\ CloneAlone'
    BY <1>0, <1>1, <2>9 DEF TrialSteps, IsTest, CloneAlone, TestedKept
  <2>12. HeldState' /\ RunsInstalled' /\ GoneIsIdle'
    BY <1>0, <2>2, <2>3, <2>7, <2>8, HostFacts DEF HeldState, RunsInstalled, GoneIsIdle
  <2>13. ChildMatches' /\ ChildCarries'
    BY <1>1, <2>3, <2>6, <2>7, <2>9, HostFacts DEF ChildMatches, ChildOf, IsTest, ChildCarries
  <2>14. TestedKept' /\ BootedCopy' /\ ApplyNewer'
    BY <1>0, <1>1, <2>9 DEF TestedKept, IsTest, BootedCopy, ApplyNewer
  <2> QED
    BY <2>10, <2>11, <2>12, <2>13, <2>14 DEF TrialInv
<1> QED
  BY <1>3, <1>4

\* The update of the copy and its start.
LEMMA TestStepKeeps ==
  ASSUME TrialInv, TestGame \/ TestMods \/ TestStart PROVE TrialInv'
<1>1. /\ IsTest /\ trial.child = "none" /\ UNCHANGED <<passed, tested, touched, overtaken>>
  BY DEF TestGame, TestMods, TestStart, TrialAt
<1>a. trial.kind # "none" /\ trial.kind # "apply"
  BY <1>1 DEF IsTest
<1>2. CASE TestGame
  <2>1. trial.step = "game"
    BY <1>2 DEF TestGame, TrialAt
  <2>2. \/ TrialGoes("mods") /\ UNCHANGED <<work, servers>>
        \/ Child("copy", "game_update", 0, 0)
    BY <1>2 DEF TestGame
  <2>3. ChildOf("copy", "game_update", trial.step)
    BY <1>1, <2>1 DEF ChildOf
  <2> QED
    BY <1>1, <1>a, <2>2, <2>3, ChildKeeps, TrialGoesKeeps, HostFacts
<1>3. CASE TestMods
  <2>1. trial.step = "mods"
    BY <1>3 DEF TestMods, TrialAt
  <2>2. \/ TrialGoes("start") /\ UNCHANGED <<work, servers>>
        \/ Child("copy", "mod_update", 0, offer.mods)
    BY <1>3 DEF TestMods
  <2>3. ChildOf("copy", "mod_update", trial.step)
    BY <1>1, <2>1 DEF ChildOf
  <2> QED
    BY <1>1, <1>a, <2>2, <2>3, ChildKeeps, TrialGoesKeeps, HostFacts
<1>4. CASE TestStart
  <2>1. trial.step = "start"
    BY <1>4 DEF TestStart, TrialAt
  <2>2. \/ TrialGoes("pass") /\ servers["copy"].state = "running" /\ UNCHANGED <<work, servers>>
        \/ Child("copy", "start", 0, 0)
    BY <1>4 DEF TestStart
  <2>3. ChildOf("copy", "start", trial.step)
    BY <1>1, <2>1 DEF ChildOf
  <2> QED
    BY <1>1, <1>a, <2>2, <2>3, ChildKeeps, TrialGoesKeeps, HostFacts
<1> QED
  BY <1>2, <1>3, <1>4

\* The test passes.
LEMMA TestPassKeeps ==
  ASSUME TrialInv, TestPass PROVE TrialInv'
<1>0. /\ TrialShape /\ TrialSteps /\ HeldState /\ RunsInstalled /\ GoneIsIdle /\ BootedCopy
  BY DEF TrialInv
<1>1. /\ IsTest /\ trial.step = "pass" /\ trial.child = "none" /\ trial' = NoTrial
      /\ tested' = servers["copy"].ran /\ UNCHANGED <<servers, work, touched, overtaken>>
  BY DEF TestPass, TrialAt
<1>2. passed' = (servers["copy"].state # "gone")
  BY DEF TestPass
<1>3. passed' \in BOOLEAN /\ (passed' => servers["copy"].state # "gone")
  BY <1>2, Zenon
<1>4. ~CloneRunning /\ (\A x \in Hosts : work[x].mine = FALSE)
  BY <1>1, NotCloning, NoChildWaits DEF IsTest
<1>5. trial'.kind = "none" /\ trial'.child = "none" /\ DOMAIN trial' = DOMAIN trial /\ trial'.step = ""
  BY <1>0, <1>1 DEF NoTrial, TrialShape
<1>6. TrialShape' /\ TrialSteps'
  BY <1>0, <1>1, <1>3, <1>5 DEF TrialShape, TrialSteps, IsTest
<1>7. HeldState' /\ RunsInstalled' /\ GoneIsIdle'
  BY <1>0, <1>1, <1>3 DEF HeldState, RunsInstalled, GoneIsIdle
<1>8. CloneAlone' /\ ChildMatches' /\ ChildCarries'
  BY <1>1, <1>4, HostFacts DEF CloneAlone, CloneRunning, ChildMatches, ChildCarries
<1>9. TestedKept' /\ BootedCopy' /\ ApplyNewer'
  BY <1>0, <1>1, <1>3, <1>5 DEF TestedKept, IsTest, Updating, BootedCopy, ApplyNewer
<1> QED
  BY <1>6, <1>7, <1>8, <1>9 DEF TrialInv

\* The trial hears of a job that ended.
LEMMA TrialHearsKeeps ==
  ASSUME TrialInv, TrialHears PROVE TrialInv'
<1>0. TrialShape /\ TrialSteps /\ TestedKept /\ BootedCopy /\ ApplyNewer
  BY DEF TrialInv
<1>1. /\ trial.child \in {"succeeded", "failed"}
      /\ UNCHANGED <<servers, passed, work, tested, touched, overtaken>>
  BY DEF TrialHears
<1> DEFINE s == StepAfter(trial.step)
<1>2. trial' = IF trial.child = "failed" \/ s = "done" THEN NoTrial ELSE [trial EXCEPT !.step = s, !.child = "none"]
  BY DEF TrialHears
<1>3. trial.kind # "none" /\ trial.step \notin {"begin", "pass"}
  BY <1>0, <1>1 DEF TrialSteps
<1>4. ~CloneRunning /\ (\A x \in Hosts : work[x].mine = FALSE)
  BY <1>1, <1>3, NotCloning, NoChildWaits
<1>5. /\ IsTest => <<trial.step, s>> \in {<<"clone", "game">>, <<"game", "mods">>, <<"mods", "start">>,
                                        <<"start", "pass">>}
      /\ trial.kind = "apply" =>
           <<trial.step, s>> \in {<<"stop", "game">>, <<"game", "mods">>, <<"mods", "start">>,
                                  <<"start", "delstop">>, <<"delstop", "delete">>, <<"delete", "done">>}
  BY <1>0, <1>3 DEF TrialSteps, StepAfter, IsTest
<1> HIDE DEF s
<1>6. CASE trial.child = "failed" \/ s = "done"
  <2>1. trial' = NoTrial
    BY <1>2, <1>6
  <2> QED
    BY <1>0, <1>1, <1>4, <2>1, TrialEnds DEF TrialShape
<1>7. CASE ~(trial.child = "failed" \/ s = "done")
  <2>1. trial' = [trial EXCEPT !.step = s, !.child = "none"] /\ trial.child = "succeeded"
    BY <1>1, <1>2, <1>7
  <2>2. /\ DOMAIN trial' = DOMAIN trial /\ trial'.kind = trial.kind /\ trial'.step = s
        /\ trial'.child = "none" /\ trial'.build = trial.build /\ trial'.mods = trial.mods
    BY <1>0, <2>1 DEF TrialShape
  <2>3. trial'.kind \in {"game", "mods", "both", "apply"} /\ overtaken' \in BOOLEAN
    BY <1>0, <1>1, <1>3, <2>2 DEF TrialShape
  <2>4. TrialSteps' /\ (IsTest' => ~passed)
    BY <1>0, <1>3, <1>5, <1>7, <2>2 DEF TrialSteps, IsTest, TestedKept
  <2>5. BootedCopy'
    BY <1>0, <1>1, <1>5, <2>1, <2>2 DEF BootedCopy, IsTest, Updating
  <2>6. ApplyNewer'
    BY <1>0, <1>1, <1>5, <1>7, <2>2 DEF ApplyNewer, Updating
  <2> QED
    BY <1>1, <1>4, <2>2, <2>3, <2>4, <2>5, <2>6, TrialMoves
<1> QED
  BY <1>6, <1>7

\* The trial is cancelled; a job it waited for goes on by itself.
LEMMA TrialCancelKeeps ==
  ASSUME TrialInv, TrialCancel PROVE TrialInv'
<1>0. TrialShape
  BY DEF TrialInv
<1>1. /\ trial' = NoTrial /\ work' = [x \in Hosts |-> [work[x] EXCEPT !.mine = FALSE]]
      /\ UNCHANGED <<servers, passed, tested, touched, overtaken>>
  BY DEF TrialCancel
<1>2. DOMAIN work' = Hosts
  BY <1>1
<1>3. ASSUME NEW x \in Hosts
      PROVE  /\ DOMAIN work'[x] = DOMAIN work[x]
             /\ work'[x].mine = FALSE /\ work'[x].kind = work[x].kind
  <2> DEFINE r == [work[x] EXCEPT !.mine = FALSE]
  <2>1. work'[x] = r
    BY <1>1
  <2>2. DOMAIN r = DOMAIN work[x] /\ r.kind = work[x].kind
    BY <1>0 DEF TrialShape
  <2>a. "mine" \in DOMAIN work[x]
    BY <1>0 DEF TrialShape
  <2>3. r.mine = FALSE
    BY <2>a, Zenon
  <2> QED
    BY <2>1, <2>2, <2>3
<1> QED
  BY <1>1, <1>2, <1>3, TrialEnds

\* An apply is asked for.
LEMMA ApplyUpdateTestKeeps ==
  ASSUME TrialInv, ApplyUpdateTest PROVE TrialInv'
<1>0. TrialShape /\ HeldState /\ TestedKept
  BY DEF TrialInv
<1> DEFINE b == IF GameNewer(servers["copy"]) THEN servers["copy"].build ELSE 0
           m == IF ModsNewer(servers["copy"]) THEN servers["copy"].mods ELSE 0
<1>1. /\ trial = NoTrial /\ servers["copy"].state \in {"stopped", "running"} /\ passed
      /\ trial' = [NoTrial EXCEPT !.kind = "apply", !.step = "begin", !.build = b, !.mods = m]
      /\ UNCHANGED <<servers, passed, work, tested, touched>>
  BY DEF ApplyUpdateTest, SubmitApply, ApplyBlocker, Rested
<1>2. overtaken' = (work["main"].kind \in {"game_update", "mod_update"})
  BY DEF ApplyUpdateTest, SubmitApply
<1>3. overtaken' \in BOOLEAN /\ (~overtaken' => ~Updating("main"))
  <2> DEFINE u == work["main"].kind \in {"game_update", "mod_update"}
  <2>1. overtaken' = u /\ (Updating("main") => u)
    BY <1>2 DEF Updating
  <2>2. u \in BOOLEAN
    OBVIOUS
  <2> HIDE DEF u
  <2> QED
    BY <2>1, <2>2
<1>4. /\ b # 0 => b = servers["copy"].build /\ b > servers["main"].build
      /\ m # 0 => m = servers["copy"].mods /\ m > servers["main"].mods
  BY DEF GameNewer, ModsNewer
<1> HIDE DEF b, m
<1>5. /\ trial.child = "none" /\ DOMAIN trial' = DOMAIN trial /\ trial'.kind = "apply"
      /\ trial'.step = "begin" /\ trial'.child = "none" /\ trial'.build = b /\ trial'.mods = m
  BY <1>1 DEF NoTrial
<1>6. ~CloneRunning /\ (\A x \in Hosts : work[x].mine = FALSE)
  BY <1>0, <1>1, <1>5, NoChildWaits, HostFacts DEF HeldState, CloneRunning
<1>7. TrialSteps' /\ BootedCopy' /\ ~IsTest'
  BY <1>5 DEF TrialSteps, IsTest, BootedCopy
<1>8. ApplyNewer'
  <2>1. ~touched => tested[1] = servers["copy"].build /\ tested[2] = servers["copy"].mods
    BY <1>0, <1>1 DEF TestedKept
  <2> QED
    BY <1>1, <1>3, <1>4, <1>5, <2>1 DEF ApplyNewer, Updating
<1> QED
  BY <1>1, <1>3, <1>5, <1>6, <1>7, <1>8, TrialMoves

\* The apply begins.
LEMMA BeginApplyKeeps ==
  ASSUME TrialInv, BeginApply PROVE TrialInv'
<1>0. TrialShape /\ TrialSteps /\ ApplyNewer
  BY DEF TrialInv
<1> DEFINE stops == servers["main"].state = "running" /\ (trial.build # 0 \/ trial.mods # 0)
           w == IF stops THEN "running" ELSE ""
           s == IF stops THEN "stop" ELSE "game"
<1>1. /\ trial.kind = "apply" /\ trial.step = "begin" /\ trial.child = "none"
      /\ trial' = [trial EXCEPT !.was = w, !.step = s]
      /\ UNCHANGED <<servers, passed, work, tested, touched, overtaken>>
  BY DEF BeginApply, TrialAt
<1>2. s \in {"stop", "game"}
  OBVIOUS
<1> HIDE DEF w, s
<1>3. /\ DOMAIN trial' = DOMAIN trial /\ trial'.kind = trial.kind /\ trial'.step = s
      /\ trial'.child = "none" /\ trial'.build = trial.build /\ trial'.mods = trial.mods
  BY <1>0, <1>1 DEF TrialShape
<1>4. ~CloneRunning /\ (\A x \in Hosts : work[x].mine = FALSE)
  BY <1>1, NotCloning, NoChildWaits
<1>5. TrialSteps' /\ BootedCopy' /\ ~IsTest'
  BY <1>1, <1>2, <1>3 DEF TrialSteps, IsTest, BootedCopy
<1>6. ApplyNewer' /\ overtaken' \in BOOLEAN
  BY <1>0, <1>1, <1>2, <1>3 DEF ApplyNewer, Updating, TrialShape
<1> QED
  BY <1>1, <1>3, <1>4, <1>5, <1>6, TrialMoves

\* A step of the apply on the server.
LEMMA ApplyStepKeeps ==
  ASSUME TrialInv, ApplyStep PROVE TrialInv'
<1>1. /\ trial.kind = "apply" /\ trial.child = "none" /\ UNCHANGED <<passed, tested, touched, overtaken>>
  BY DEF ApplyStep
<1>2. trial.step \in {"stop", "game", "mods", "start"}
  BY DEF ApplyStep
<1>a. ~IsTest /\ trial.kind # "none"
  BY <1>1 DEF IsTest
<1>3. CASE trial.step = "stop"
  <2>1. \/ TrialGoes("game") /\ UNCHANGED <<work, servers>>
        \/ Child("main", "stop", 0, 0)
    BY <1>3 DEF ApplyStep
  <2>2. ChildOf("main", "stop", trial.step)
    BY <1>1, <1>3 DEF ChildOf
  <2> QED
    BY <1>1, <1>a, <1>3, <2>1, <2>2, ChildKeeps, TrialGoesKeeps, HostFacts
<1>4. CASE trial.step = "game"
  <2>1. \/ TrialGoes("mods") /\ UNCHANGED <<work, servers>>
        \/ Child("main", "game_update", trial.build, 0) /\ trial.build # 0
    BY <1>4 DEF ApplyStep
  <2>2. ChildOf("main", "game_update", trial.step)
    BY <1>1, <1>4 DEF ChildOf
  <2> QED
    BY <1>1, <1>a, <1>4, <2>1, <2>2, ChildKeeps, TrialGoesKeeps, HostFacts
<1>5. CASE trial.step = "mods"
  <2>1. \/ TrialGoes("start") /\ UNCHANGED <<work, servers>>
        \/ Child("main", "mod_update", 0, trial.mods) /\ trial.mods # 0
    BY <1>5 DEF ApplyStep
  <2>2. ChildOf("main", "mod_update", trial.step)
    BY <1>1, <1>5 DEF ChildOf
  <2> QED
    BY <1>1, <1>a, <1>5, <2>1, <2>2, ChildKeeps, TrialGoesKeeps, HostFacts
<1>6. CASE trial.step = "start"
  <2>1. \/ TrialGoes("delstop") /\ UNCHANGED <<work, servers>>
        \/ Child("main", "start", 0, 0)
    BY <1>6 DEF ApplyStep
  <2>2. ChildOf("main", "start", trial.step)
    BY <1>1, <1>6 DEF ChildOf
  <2> QED
    BY <1>1, <1>a, <1>6, <2>1, <2>2, ChildKeeps, TrialGoesKeeps, HostFacts
<1> QED
  BY <1>2, <1>3, <1>4, <1>5, <1>6

\* The copy is stopped and deleted once the update is applied.
LEMMA DeleteCopyKeeps ==
  ASSUME TrialInv, DeleteCopy PROVE TrialInv'
<1>1. /\ trial.kind = "apply" /\ trial.child = "none" /\ UNCHANGED <<passed, tested, touched, overtaken>>
  BY DEF DeleteCopy
<1>2. trial.step \in {"delstop", "delete"}
  BY DEF DeleteCopy
<1>a. ~IsTest /\ trial.kind # "none"
  BY <1>1 DEF IsTest
<1>3. CASE trial.step = "delstop"
  <2>1. \/ TrialGoes("delete") /\ UNCHANGED <<work, servers>>
        \/ Child("copy", "stop", 0, 0)
    BY <1>3 DEF DeleteCopy
  <2>2. ChildOf("copy", "stop", trial.step)
    BY <1>1, <1>3 DEF ChildOf
  <2> QED
    BY <1>1, <1>a, <1>3, <2>1, <2>2, ChildKeeps, TrialGoesKeeps, HostFacts
<1>4. CASE trial.step = "delete"
  <2>1. Child("copy", "delete", 0, 0)
    BY <1>4 DEF DeleteCopy
  <2>2. ChildOf("copy", "delete", trial.step)
    BY <1>1, <1>4 DEF ChildOf
  <2> QED
    BY <1>1, <2>1, <2>2, ChildKeeps, HostFacts
<1> QED
  BY <1>2, <1>3, <1>4

\* What a fall of the panel may make of the record of a server.
LEMMA SurvivorIs ==
  ASSUME TrialInv, NEW x \in Hosts, NEW s \in Survivors(x)
  PROVE  /\ DOMAIN s = {"state", "build", "mods", "ran"}
         /\ servers[x].state = "deleting" => s = servers[x]
         /\ s.state \in {"gone", "deleting"} => s.state = servers[x].state
         /\ s.state \in {"running", "stopping"} => s.ran = <<s.build, s.mods>>
         /\ ~Updating(x) => s.build = servers[x].build /\ s.mods = servers[x].mods
<1>0. TrialShape /\ HeldState /\ RunsInstalled
  BY DEF TrialInv
<1>a. /\ DOMAIN servers[x] = {"state", "build", "mods", "ran"}
      /\ servers[x].state \in {"running", "stopping"} => servers[x].ran = <<servers[x].build, servers[x].mods>>
  BY <1>0 DEF TrialShape, RunsInstalled
<1>b. /\ work[x].kind \in {"none", "cloned", "clone", "start", "stop", "delete", "game_update", "mod_update"}
      /\ work[x].kind \in {"start", "stop", "delete", "game_update", "mod_update"} =>
           servers[x].state = Holding(work[x].kind)
      /\ work[x].kind = "clone" => servers[x].state = "provisioning"
  BY <1>0 DEF HeldState
<1>1. CASE work[x].kind \in {"none", "cloned", "delete"}
  <2>1. s = servers[x]
    BY <1>1 DEF Survivors
  <2> QED
    BY <1>a, <2>1
<1>2. CASE work[x].kind = "clone"
  <2>1. s = [servers[x] EXCEPT !.state = "error"]
    BY <1>2 DEF Survivors
  <2> QED
    BY <1>a, <1>b, <1>2, <2>1
<1>3. CASE work[x].kind = "game_update"
  <2>1. s \in {[servers[x] EXCEPT !.state = "error", !.build = b] :
                 b \in {servers[x].build} \cup IF work[x].phase = "swap" THEN {work[x].pin} ELSE {}}
    BY <1>3 DEF Survivors
  <2>2. PICK b \in {servers[x].build, work[x].pin} : s = [servers[x] EXCEPT !.state = "error", !.build = b]
    BY <2>1
  <2> QED
    BY <1>a, <1>b, <1>3, <2>2, HostFacts DEF Updating
<1>4. CASE work[x].kind = "mod_update"
  <2>1. s \in {servers[x], [servers[x] EXCEPT !.mods = work[x].mods]}
    BY <1>4 DEF Survivors
  <2> QED
    BY <1>a, <1>b, <1>4, <2>1, HostFacts DEF Updating
<1>5. CASE work[x].kind \in {"start", "stop"}
  <2> DEFINE r == IF work[x].kind = "start" THEN <<servers[x].build, servers[x].mods>> ELSE servers[x].ran
  <2>1. s \in {[servers[x] EXCEPT !.state = "stopped"], [servers[x] EXCEPT !.state = "error"],
               [servers[x] EXCEPT !.state = "running", !.ran = r]}
    BY <1>5 DEF Survivors
  <2>2. r = <<servers[x].build, servers[x].mods>>
    BY <1>a, <1>b, <1>5, HostFacts
  <2>3. servers[x].state \in {"starting", "stopping"}
    BY <1>b, <1>5, HostFacts
  <2> HIDE DEF r
  <2> QED
    BY <1>a, <2>1, <2>2, <2>3
<1> QED
  BY <1>b, <1>1, <1>2, <1>3, <1>4, <1>5

\* The panel dies: no trial is resumed.
LEMMA PanelFallsKeeps ==
  ASSUME TrialInv, PanelFalls PROVE TrialInv'
<1>0. /\ TrialShape /\ HeldState /\ RunsInstalled /\ GoneIsIdle /\ CloneAlone /\ TestedKept
  BY DEF TrialInv
<1>1. PICK m \in Survivors("main"), c \in Survivors("copy") : servers' = [main |-> m, copy |-> c]
  BY DEF PanelFalls
<1> DEFINE d == [NoWork EXCEPT !.kind = "delete", !.phase = "run"]
<1>2. /\ work' = [x \in Hosts |-> IF servers[x].state # "deleting" THEN NoWork ELSE d]
      /\ trial' = NoTrial /\ UNCHANGED <<passed, tested, touched, overtaken>>
  BY DEF PanelFalls
<1>3. /\ DOMAIN d = {"kind", "phase", "pin", "mods", "mine"} /\ d.kind = "delete" /\ d.mine = NoWork.mine
  BY NoWorkIs
<1> HIDE DEF d
<1>4. /\ DOMAIN servers' = Hosts /\ servers'["main"] = m /\ servers'["copy"] = c
      /\ DOMAIN work' = Hosts
  BY <1>1, <1>2 DEF Hosts
<1>5. /\ DOMAIN m = {"state", "build", "mods", "ran"} /\ DOMAIN c = {"state", "build", "mods", "ran"}
      /\ servers["copy"].state = "deleting" => c = servers["copy"]
      /\ m.state = "deleting" => servers["main"].state = "deleting"
      /\ c.state = "gone" => servers["copy"].state = "gone"
      /\ m.state \in {"running", "stopping"} => m.ran = <<m.build, m.mods>>
      /\ c.state \in {"running", "stopping"} => c.ran = <<c.build, c.mods>>
      /\ ~Updating("copy") => c.build = servers["copy"].build /\ c.mods = servers["copy"].mods
  BY <1>1, SurvivorIs, HostFacts
<1>6. /\ work'["main"] = NoWork
      /\ servers["copy"].state # "deleting" => work'["copy"] = NoWork
      /\ servers["copy"].state = "deleting" => work'["copy"] = d
  BY <1>0, <1>2, HostFacts DEF HeldState
<1>7. /\ trial'.kind = "none" /\ trial'.child = "none" /\ DOMAIN trial' = DOMAIN trial /\ trial'.step = ""
  BY <1>0, <1>2 DEF NoTrial, TrialShape
<1>8. \A x \in Hosts : /\ DOMAIN work'[x] = {"kind", "phase", "pin", "mods", "mine"}
                       /\ work'[x].mine = FALSE
  BY <1>3, <1>6, HostFacts, NoWorkIs
<1>9. \A x \in Hosts : DOMAIN servers'[x] = {"state", "build", "mods", "ran"}
  BY <1>4, <1>5, HostFacts
<1>10. TrialShape' /\ TrialSteps'
  BY <1>0, <1>2, <1>4, <1>7, <1>8, <1>9 DEF TrialShape, TrialSteps, IsTest
<1>11. HeldState'
  BY <1>0, <1>3, <1>4, <1>5, <1>6, HostFacts, NoWorkIs DEF HeldState
<1>12. RunsInstalled' /\ GoneIsIdle'
  BY <1>0, <1>2, <1>4, <1>5, <1>6, HostFacts, NoWorkIs DEF RunsInstalled, GoneIsIdle
<1>13. CloneAlone' /\ ChildMatches' /\ ChildCarries'
  BY <1>3, <1>6, <1>7, <1>8, HostFacts, NoWorkIs DEF CloneAlone, CloneRunning, ChildMatches, ChildCarries
<1>14. TestedKept'
  BY <1>0, <1>2, <1>3, <1>4, <1>5, <1>6, <1>7, NoWorkIs DEF TestedKept, IsTest, Updating
<1>15. BootedCopy' /\ ApplyNewer'
  BY <1>7 DEF BootedCopy, IsTest, ApplyNewer
<1> QED
  BY <1>10, <1>11, <1>12, <1>13, <1>14, <1>15 DEF TrialInv

\* Every step keeps the invariant of the trial.
LEMMA TrialStep ==
  ASSUME TrialInv, [TrialNext]_trialVars PROVE TrialInv'
<1>1. CASE UNCHANGED trialVars
  BY <1>1, OutsideKeeps DEF trialVars
<1>2. CASE \E x \in Hosts : StagePhase(x) \/ FetchBuild(x) \/ SwapUpdate(x) \/ UpdateEnds(x)
  BY <1>2, StagePhaseKeeps, FetchBuildKeeps, SwapUpdateKeeps, UpdateEndsKeeps
<1>3. CASE \E x \in Hosts, ok \in BOOLEAN : JobEnds(x, ok)
  BY <1>3, JobEndsKeeps
<1>4. CASE \E x \in Hosts, kind \in {"start", "stop", "game_update", "mod_update", "delete"} : OtherJob(x, kind)
  BY <1>4, OtherJobKeeps
<1>5. CASE Release \/ ClearCache
  BY <1>5, OutsideKeeps DEF Release, ClearCache
<1>6. CASE CloneServerFiles \/ CloneStep \/ FinishClone \/ CloneFails \/ OtherClone \/ OtherCloneEnds
  BY <1>6, CloneServerFilesKeeps, CloneStepKeeps, FinishCloneKeeps, OtherCloneKeeps
<1>7. CASE StartUpdateTest \/ TestClone \/ TestGame \/ TestMods \/ TestStart \/ TestPass
  BY <1>7, StartUpdateTestKeeps, TestCloneKeeps, TestStepKeeps, TestPassKeeps
<1>8. CASE TrialHears \/ TrialCancel \/ PanelFalls
  BY <1>8, TrialHearsKeeps, TrialCancelKeeps, PanelFallsKeeps
<1>9. CASE ApplyUpdateTest \/ BeginApply \/ ApplyStep \/ DeleteCopy
  BY <1>9, ApplyUpdateTestKeeps, BeginApplyKeeps, ApplyStepKeeps, DeleteCopyKeeps
<1> QED
  BY <1>1, <1>2, <1>3, <1>4, <1>5, <1>6, <1>7, <1>8, <1>9, Zenon DEF TrialNext

\* The invariant holds at the start.
LEMMA TrialStarts ==
  ASSUME TrialInit PROVE TrialInv
<1>1. PICK s \in {"stopped", "running"} :
        servers = [x \in Hosts |-> IF x = "main" THEN [state |-> s, build |-> 1, mods |-> 1, ran |-> <<1, 1>>]
                                                 ELSE NoServer]
  BY DEF TrialInit
<1> DEFINE m == [state |-> s, build |-> 1, mods |-> 1, ran |-> <<1, 1>>]
<1>2. DOMAIN servers = Hosts /\ servers["main"] = m /\ servers["copy"] = NoServer
  BY <1>1, HostFacts
<1>3. /\ DOMAIN m = {"state", "build", "mods", "ran"} /\ m.state = s /\ m.ran = <<m.build, m.mods>>
      /\ DOMAIN NoServer = {"state", "build", "mods", "ran"} /\ NoServer.state = "gone"
  BY DEF NoServer
<1> HIDE DEF m
<1>4. /\ passed = FALSE /\ DOMAIN work = Hosts /\ (\A x \in Hosts : work[x] = NoWork)
      /\ trial = NoTrial /\ touched = FALSE /\ overtaken = FALSE
  BY DEF TrialInit
<1>5. /\ trial.kind = "none" /\ trial.child = "none" /\ trial.step = ""
      /\ DOMAIN trial = {"kind", "step", "child", "build", "mods", "was"}
  BY <1>4 DEF NoTrial
<1>6. \A x \in Hosts : /\ DOMAIN servers[x] = {"state", "build", "mods", "ran"}
                       /\ DOMAIN work[x] = {"kind", "phase", "pin", "mods", "mine"}
                       /\ work[x].mine = FALSE /\ work[x].kind = "none"
  BY <1>2, <1>3, <1>4, HostFacts, NoWorkIs
<1>7. TrialShape /\ TrialSteps
  BY <1>2, <1>4, <1>5, <1>6 DEF TrialShape, TrialSteps, IsTest
<1>8. HeldState /\ RunsInstalled /\ GoneIsIdle
  BY <1>2, <1>3, <1>4, <1>6, HostFacts DEF HeldState, RunsInstalled, GoneIsIdle
<1>9. CloneAlone /\ ChildMatches /\ ChildCarries
  BY <1>6, HostFacts DEF CloneAlone, CloneRunning, ChildMatches, ChildCarries
<1>10. TestedKept /\ BootedCopy /\ ApplyNewer
  BY <1>4, <1>5 DEF TestedKept, IsTest, BootedCopy, ApplyNewer
<1> QED
  BY <1>7, <1>8, <1>9, <1>10 DEF TrialInv

\* What a step may make of the build and the mods of a server: what its job carries.
Installs(x) ==
  /\ \/ servers'[x].build = servers[x].build
     \/ work[x].kind = "game_update" /\ servers'[x].build = work[x].pin
  /\ \/ servers'[x].mods = servers[x].mods
     \/ work[x].kind = "mod_update" /\ servers'[x].mods = work[x].mods

\* A job that begins installs nothing.
LEMMA BeginInstalls ==
  ASSUME TrialInv, NEW x \in Hosts, NEW kind, NEW pin, NEW mods, NEW mine, Begins(x, kind, pin, mods, mine)
  PROVE  Installs("main")
<1> DEFINE h == Holding(kind)
<1>1. servers' = [servers EXCEPT ![x].state = h]
  BY DEF Begins
<1> HIDE DEF h
<1>2. DOMAIN servers = Hosts /\ DOMAIN servers["main"] = {"state", "build", "mods", "ran"}
  BY HostFacts DEF TrialInv, TrialShape
<1> QED
  BY <1>1, <1>2, HostFacts DEF Installs

\* A child of the trial installs nothing when it is asked for.
LEMMA ChildInstalls ==
  ASSUME TrialInv, NEW x \in Hosts, NEW kind, NEW pin, NEW mods, Child(x, kind, pin, mods)
  PROVE  Installs("main")
<1>1. Begins(x, kind, pin, mods, TRUE) \/ UNCHANGED servers
  BY DEF Child
<1> QED
  BY <1>1, BeginInstalls DEF Installs

\* A job that ends installs on its own server what it carries.
LEMMA EndInstalls ==
  ASSUME TrialInv, NEW x \in Hosts, NEW ok, NEW rec, WorkEnds(x, ok, rec),
         x = "main" =>
           /\ rec.build = servers[x].build \/ (work[x].kind = "game_update" /\ rec.build = work[x].pin)
           /\ rec.mods = servers[x].mods \/ (work[x].kind = "mod_update" /\ rec.mods = work[x].mods)
  PROVE  Installs("main")
<1>1. servers' = [servers EXCEPT ![x] = rec]
  BY DEF WorkEnds
<1>2. DOMAIN servers = Hosts
  BY DEF TrialInv, TrialShape
<1> QED
  BY <1>1, <1>2, HostFacts DEF Installs

\* The jobs of the server.
LEMMA JobInstalls ==
  ASSUME TrialInv, NEW x \in Hosts,
         \/ StagePhase(x) \/ FetchBuild(x) \/ SwapUpdate(x) \/ UpdateEnds(x)
         \/ \E ok \in BOOLEAN : JobEnds(x, ok)
  PROVE  Installs("main")
<1>0. DOMAIN servers[x] = {"state", "build", "mods", "ran"}
  BY DEF TrialInv, TrialShape
<1>1. CASE StagePhase(x)
  BY <1>1 DEF StagePhase, Installs
<1>2. CASE FetchBuild(x) \/ UpdateEnds(x)
  <2>1. UNCHANGED servers \/ \E st \in {"stopped", "error"} : WorkEnds(x, FALSE, [servers[x] EXCEPT !.state = st])
    BY <1>2 DEF FetchBuild, UpdateEnds
  <2>2. CASE UNCHANGED servers
    BY <2>2 DEF Installs
  <2>3. CASE \E st \in {"stopped", "error"} : WorkEnds(x, FALSE, [servers[x] EXCEPT !.state = st])
    <3>1. PICK st \in {"stopped", "error"} : WorkEnds(x, FALSE, [servers[x] EXCEPT !.state = st])
      BY <2>3
    <3> DEFINE rec == [servers[x] EXCEPT !.state = st]
    <3>2. WorkEnds(x, FALSE, rec) /\ rec.build = servers[x].build /\ rec.mods = servers[x].mods
      BY <1>0, <3>1
    <3> HIDE DEF rec
    <3> QED
      BY <3>2, EndInstalls
  <2> QED
    BY <2>1, <2>2, <2>3
<1>3. CASE SwapUpdate(x)
  <2> DEFINE rec == [servers[x] EXCEPT !.state = "stopped", !.build = work[x].pin]
  <2>1. WorkEnds(x, TRUE, rec) /\ work[x].kind = "game_update"
    BY <1>3 DEF SwapUpdate
  <2>2. rec.build = work[x].pin /\ rec.mods = servers[x].mods
    BY <1>0
  <2> HIDE DEF rec
  <2> QED
    BY <2>1, <2>2, EndInstalls
<1>4. CASE \E ok \in BOOLEAN : JobEnds(x, ok)
  <2>1. PICK ok \in BOOLEAN : JobEnds(x, ok)
    BY <1>4
  <2>2. /\ work[x].kind \in {"start", "stop", "mod_update", "delete"}
        /\ WorkEnds(x, ok, Result(x, ok))
    BY <2>1 DEF JobEnds
  <2>3. x = "main" => work[x].kind # "delete"
    BY DEF TrialInv, HeldState
  <2> DEFINE rec == Result(x, ok)
  <2>4. x = "main" =>
          /\ rec.build = servers[x].build
          /\ rec.mods = servers[x].mods \/ (work[x].kind = "mod_update" /\ rec.mods = work[x].mods)
    <3> SUFFICES ASSUME x = "main"
                 PROVE  /\ rec.build = servers[x].build
                        /\ rec.mods = servers[x].mods \/ (work[x].kind = "mod_update" /\ rec.mods = work[x].mods)
      OBVIOUS
    <3>1. CASE work[x].kind = "start" /\ ok
      <4>1. rec = [servers[x] EXCEPT !.state = "running", !.ran = <<servers[x].build, servers[x].mods>>]
        BY <3>1 DEF Result
      <4> QED
        BY <1>0, <4>1
    <3>2. CASE work[x].kind = "start" /\ ~ok
      <4>1. rec = [servers[x] EXCEPT !.state = "error"]
        BY <3>2 DEF Result
      <4> QED
        BY <1>0, <4>1
    <3>3. CASE work[x].kind = "stop"
      <4>1. rec = [servers[x] EXCEPT !.state = IF ok THEN "stopped" ELSE "error"]
        BY <3>3 DEF Result
      <4> QED
        BY <1>0, <4>1
    <3>4. CASE work[x].kind = "mod_update" /\ ok
      <4>1. rec = [servers[x] EXCEPT !.mods = work[x].mods]
        BY <3>4 DEF Result
      <4> QED
        BY <1>0, <3>4, <4>1
    <3>5. CASE work[x].kind = "mod_update" /\ ~ok
      <4>1. rec = servers[x]
        BY <3>5 DEF Result
      <4> QED
        BY <4>1
    <3> QED
      BY <2>2, <2>3, <3>1, <3>2, <3>3, <3>4, <3>5
  <2>5. WorkEnds(x, ok, rec)
    BY <2>2
  <2> HIDE DEF rec
  <2> QED
    BY <2>4, <2>5, EndInstalls
<1> QED
  BY <1>1, <1>2, <1>3, <1>4

\* The copying writes to the copy alone.
LEMMA CloneInstalls ==
  ASSUME TrialInv, \/ CloneServerFiles \/ CloneStep \/ FinishClone \/ CloneFails \/ OtherClone \/ OtherCloneEnds
                   \/ TestClone
  PROVE  Installs("main")
<1>0. DOMAIN servers = Hosts
  BY DEF TrialInv, TrialShape
<1>1. UNCHANGED servers \/ servers'["main"] = servers["main"]
  BY <1>0, HostFacts DEF CloneServerFiles, CloneStep, FinishClone, CloneFails, OtherClone, OtherCloneEnds,
     TestClone, CloneClaims, Cloned
<1> QED
  BY <1>1 DEF Installs

\* A fall of the panel leaves what the job carried, or what was there.
LEMMA FallInstalls ==
  ASSUME TrialInv, PanelFalls PROVE Installs("main")
<1>0. /\ DOMAIN servers["main"] = {"state", "build", "mods", "ran"}
      /\ work["main"].kind \in {"none", "cloned", "clone", "start", "stop", "delete", "game_update", "mod_update"}
  BY HostFacts DEF TrialInv, TrialShape, HeldState
<1>1. PICK m \in Survivors("main"), c \in Survivors("copy") : servers' = [main |-> m, copy |-> c]
  BY DEF PanelFalls
<1>2. servers'["main"] = m
  BY <1>1
<1>3. CASE work["main"].kind = "game_update"
  <2>1. m \in {[servers["main"] EXCEPT !.state = "error", !.build = b] :
                 b \in {servers["main"].build} \cup IF work["main"].phase = "swap" THEN {work["main"].pin} ELSE {}}
    BY <1>3 DEF Survivors
  <2>2. PICK b \in {servers["main"].build, work["main"].pin} :
          m = [servers["main"] EXCEPT !.state = "error", !.build = b]
    BY <2>1
  <2> QED
    BY <1>0, <1>2, <1>3, <2>2 DEF Installs
<1>4. CASE work["main"].kind = "mod_update"
  <2>1. m \in {servers["main"], [servers["main"] EXCEPT !.mods = work["main"].mods]}
    BY <1>4 DEF Survivors
  <2> QED
    BY <1>0, <1>2, <1>4, <2>1 DEF Installs
<1>5. CASE ~Updating("main")
  <2>1. m.build = servers["main"].build /\ m.mods = servers["main"].mods
    BY <1>1, <1>5, SurvivorIs, HostFacts
  <2> QED
    BY <1>2, <2>1 DEF Installs
<1> QED
  BY <1>3, <1>4, <1>5 DEF Updating

\* Every step installs on the server only what the job under its lock carries.
LEMMA StepInstalls ==
  ASSUME TrialInv, [TrialNext]_trialVars PROVE Installs("main")
<1>1. CASE UNCHANGED servers
  BY <1>1 DEF Installs
<1>2. CASE \E x \in Hosts : \/ StagePhase(x) \/ FetchBuild(x) \/ SwapUpdate(x) \/ UpdateEnds(x)
                            \/ \E ok \in BOOLEAN : JobEnds(x, ok)
  BY <1>2, JobInstalls
<1>3. CASE \E x \in Hosts, kind \in {"start", "stop", "game_update", "mod_update", "delete"} : OtherJob(x, kind)
  BY <1>3, BeginInstalls DEF OtherJob
<1>4. CASE CloneServerFiles \/ CloneStep \/ FinishClone \/ CloneFails \/ OtherClone \/ OtherCloneEnds \/ TestClone
  BY <1>4, CloneInstalls
<1>5. CASE TestGame \/ TestMods \/ TestStart
  <2>1. \/ UNCHANGED servers
        \/ \E kind \in {"game_update", "mod_update", "start"}, mods \in {0, offer.mods} : Child("copy", kind, 0, mods)
    BY <1>5 DEF TestGame, TestMods, TestStart
  <2> QED
    BY <1>1, <2>1, ChildInstalls, HostFacts
<1>6. CASE ApplyStep
  <2>1. \/ UNCHANGED servers
        \/ Child("main", "stop", 0, 0) \/ Child("main", "game_update", trial.build, 0)
        \/ Child("main", "mod_update", 0, trial.mods) \/ Child("main", "start", 0, 0)
    BY <1>6 DEF ApplyStep
  <2> QED
    BY <1>1, <2>1, ChildInstalls, HostFacts
<1>7. CASE DeleteCopy
  <2>1. UNCHANGED servers \/ Child("copy", "stop", 0, 0) \/ Child("copy", "delete", 0, 0)
    BY <1>7 DEF DeleteCopy
  <2> QED
    BY <1>1, <2>1, ChildInstalls, HostFacts
<1>8. CASE PanelFalls
  BY <1>8, FallInstalls
<1>9. CASE \/ Release \/ ClearCache \/ StartUpdateTest \/ TestPass \/ TrialHears \/ TrialCancel
           \/ ApplyUpdateTest \/ BeginApply \/ UNCHANGED trialVars
  BY <1>1, <1>9 DEF Release, ClearCache, StartUpdateTest, SubmitTest, TestPass, TrialHears, TrialCancel,
     ApplyUpdateTest, SubmitApply, BeginApply, trialVars
<1> QED
  BY <1>2, <1>3, <1>4, <1>5, <1>6, <1>7, <1>8, <1>9, Zenon DEF TrialNext

\* A job of the apply carries what was tested, and it is newer.
LEMMA ApplyCarries ==
  ASSUME TrialInv, work["main"].mine, ~touched, ~overtaken
  PROVE  /\ work["main"].kind = "game_update" =>
              work["main"].pin = tested[1] /\ work["main"].pin > servers["main"].build
         /\ work["main"].kind = "mod_update" =>
              work["main"].mods = tested[2] /\ work["main"].mods > servers["main"].mods
<1>0. ChildMatches /\ ChildCarries /\ ApplyNewer
  BY DEF TrialInv
<1>1. trial.child = "waiting" /\ ChildOf("main", work["main"].kind, trial.step)
  BY <1>0, HostFacts DEF ChildMatches
<1> QED
  BY <1>0, <1>1 DEF ChildOf, ChildCarries, ApplyNewer

\* What the jobs of an apply install on the server is what the copy ran when
\* its test passed and is newer than what was there, unless somebody else
\* updated the copy or, since the apply was asked for, the server
\* (control/update_trial.go, beginApply and applySteps).
THEOREM TestedIsApplied == TrialSpec => AppliesTested
<1>1. TrialInit => TrialInv
  BY TrialStarts
<1>2. TrialInv /\ [TrialNext]_trialVars => TrialInv'
  BY TrialStep
<1>3. ASSUME TrialInv, [TrialNext]_trialVars, work["main"].mine /\ ~touched /\ ~overtaken, NEW i \in 1..2
      PROVE  LET now == IF i = 1 THEN servers["main"].build ELSE servers["main"].mods
                 new == IF i = 1 THEN servers'["main"].build ELSE servers'["main"].mods
             IN new = now \/ (new = tested[i] /\ new > now)
  <2>1. Installs("main")
    BY <1>3, StepInstalls
  <2>2. i = 1 \/ i = 2
    BY <1>3
  <2> QED
    BY <1>3, <2>1, <2>2, ApplyCarries DEF Installs
<1>4. TrialInv /\ [TrialNext]_trialVars =>
        [(work["main"].mine /\ ~touched /\ ~overtaken) =>
           \A i \in 1..2 :
             LET now == IF i = 1 THEN servers["main"].build ELSE servers["main"].mods
                 new == IF i = 1 THEN servers'["main"].build ELSE servers'["main"].mods
             IN new = now \/ (new = tested[i] /\ new > now)]_trialVars
  BY <1>3
<1> QED
  BY <1>1, <1>2, <1>4, PTL DEF TrialSpec, AppliesTested
=============================================================================
