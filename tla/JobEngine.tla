------------------------------ MODULE JobEngine ------------------------------
(***************************************************************************)
(* The job engine (internal/jobs) on its two tables, job_runs and          *)
(* job_locks (internal/store/jobs.go), and the daemon processes that run   *)
(* it: startup (cmd/valmind), the dead-job sweep of crash recovery, the    *)
(* per-job lease, cooperative cancellation, drain and crash.               *)
(*                                                                         *)
(* A boot is one daemon process; its lease owner "<panel_id>:<boot_id>" is *)
(* fresh, so a boot never comes back.  A database transaction is one       *)
(* step.  What a process does between two transactions is a step of its    *)
(* own, so that other processes and crashes come in between.               *)
(***************************************************************************)
EXTENDS Naturals, FiniteSets

CONSTANTS
  Jobs,         \* job ids; each is claimed at most once (store.NewID)
  Keys,         \* lock keys
  KeysOf,       \* the keys a job claims: Spec.LockKey and Spec.LockKeys
  Boots,        \* daemon processes
  HostOf,       \* the host a process runs on (one flock per host)
  Cancellable,  \* jobs whose kind registers a cancel policy
  CheckJobs,    \* update checks, the one kind the sweep resubmits
  MayCrash,     \* processes that may be killed
  MayFailFinish,\* jobs whose Finish transaction may roll back
  NoJob, NoBoot

ASSUME KeysOfAssumption == KeysOf \in [Jobs -> (SUBSET Keys) \ {{}}]

ASSUME NullAssumption == NoJob \notin Jobs /\ NoBoot \notin Boots

ASSUME SubsetAssumption ==
  /\ Cancellable \subseteq Jobs
  /\ CheckJobs \subseteq Jobs
  /\ MayFailFinish \subseteq Jobs
  /\ MayCrash \subseteq Boots

VARIABLES
  status,     \* job_runs.status; "absent" before the claim, "pruned" once deleted
  owner,      \* job_runs.lease_owner, NoBoot for NULL
  cancelReq,  \* job_runs.cancel_requested_at is set
  past,       \* job_runs.checkpoint is past the kind's point of no return
  lock,       \* job_locks: key -> job id
  leaseRow,   \* owner of the unexpired kv["daemon_lease"] row
  proc,       \* phase of each process
  stale,      \* the rows a booting process read with StaleJobs, not yet closed
  runner,     \* the process whose goroutine runs the job
  worker,     \* phase of that goroutine
  outcome,    \* the Outcome the Runner returned
  cancelCall  \* Cancel calls that read a running row and have not written yet

rowVars    == <<status, owner, cancelReq, past, lock>>
procVars   == <<proc, stale, leaseRow>>
workerVars == <<runner, worker, outcome>>
vars       == <<rowVars, procVars, workerVars, cancelCall>>

Terminal == {"succeeded", "failed", "cancelled"}

Statuses == Terminal \cup {"absent", "running", "pruned"}

\* Phases of a process that holds its host's flock.
LivePhases == {"gate", "swept", "sweeping", "resubmit", "serving", "draining", "halted"}

WorkerPhases == {"none", "working", "leaseLost", "finishing", "gone"}

Live(b) == proc[b] \in LivePhases

Active(j) == worker[j] \in {"working", "leaseLost", "finishing"}

ActiveOf(b) == {j \in Jobs : runner[j] = b /\ Active(j)}

TypeOK ==
  /\ status \in [Jobs -> Statuses]
  /\ owner \in [Jobs -> Boots \cup {NoBoot}]
  /\ cancelReq \in [Jobs -> BOOLEAN]
  /\ past \in [Jobs -> BOOLEAN]
  /\ lock \in [Keys -> Jobs \cup {NoJob}]
  /\ leaseRow \in Boots \cup {NoBoot}
  /\ proc \in [Boots -> LivePhases \cup {"off", "dead"}]
  /\ stale \in [Boots -> SUBSET Jobs]
  /\ runner \in [Jobs -> Boots \cup {NoBoot}]
  /\ worker \in [Jobs -> WorkerPhases]
  /\ outcome \in [Jobs -> Terminal \cup {"none"}]
  /\ cancelCall \subseteq Boots \X Jobs

Init ==
  /\ status = [j \in Jobs |-> "absent"]
  /\ owner = [j \in Jobs |-> NoBoot]
  /\ cancelReq = [j \in Jobs |-> FALSE]
  /\ past = [j \in Jobs |-> FALSE]
  /\ lock = [k \in Keys |-> NoJob]
  /\ leaseRow = NoBoot
  /\ proc = [b \in Boots |-> "off"]
  /\ stale = [b \in Boots |-> {}]
  /\ runner = [j \in Jobs |-> NoBoot]
  /\ worker = [j \in Jobs |-> "none"]
  /\ outcome = [j \in Jobs |-> "none"]
  /\ cancelCall = {}

-----------------------------------------------------------------------------
(* Transactions of internal/store/jobs.go. *)

\* Mutant of ClaimJobWithLocks: one free key is enough for the whole claim.
ClaimFirstKeyOnly(j, b) ==
  /\ status[j] = "absent"
  /\ \E k \in KeysOf[j] : lock[k] = NoJob
  /\ lock' = [k \in Keys |-> IF k \in KeysOf[j] THEN j ELSE lock[k]]
  /\ status' = [status EXCEPT ![j] = "running"]
  /\ owner' = [owner EXCEPT ![j] = b]

\* ClaimJobWithLocks: every key or none, then the leased running row.
ClaimJobWithLocks(j, b) ==
  /\ status[j] = "absent"
  /\ \A k \in KeysOf[j] : lock[k] = NoJob
  /\ lock' = [k \in Keys |-> IF k \in KeysOf[j] THEN j ELSE lock[k]]
  /\ status' = [status EXCEPT ![j] = "running"]
  /\ owner' = [owner EXCEPT ![j] = b]

\* FinishJob: UPDATE ... WHERE id = ?, with no condition on lease_owner or on the
\* status it overwrites, then the locks held under that id are deleted.
FinishJob(j, st) ==
  /\ status' = IF status[j] \in {"absent", "pruned"} THEN status
                                       ELSE [status EXCEPT ![j] = st]
  /\ owner' = [owner EXCEPT ![j] = NoBoot]
  /\ lock' = [k \in Keys |-> IF lock[k] = j THEN NoJob ELSE lock[k]]

\* Mutant of StaleJobs: only rows of the last daemon to hold the lease are stale.
StaleJobsLeasedOnly(b) ==
  {j \in Jobs : status[j] = "running" /\ owner[j] # b /\ owner[j] = leaseRow}

\* StaleJobs: running rows whose owner is not this boot.
StaleJobs(b) == {j \in Jobs : status[j] = "running" /\ owner[j] # b}

-----------------------------------------------------------------------------
(* A process starts: cmd/valmind run, gate, serve; control.Supervisor.Recover. *)

\* Mutant of Acquire: the row alone, without the flock.
AcquireWithoutFlock(b) ==
  /\ proc[b] = "off"
  /\ leaseRow = NoBoot
  /\ leaseRow' = b
  /\ proc' = [proc EXCEPT ![b] = "gate"]
  /\ UNCHANGED <<rowVars, stale, workerVars, cancelCall>>

\* AcquireDaemonLease: the host's flock, then the kv row unless another owner's
\* is unexpired.  An expired row and no row are the same to claim().
Acquire(b) ==
  /\ proc[b] = "off"
  /\ \A c \in Boots : HostOf[c] = HostOf[b] => ~Live(c)
  /\ leaseRow = NoBoot
  /\ leaseRow' = b
  /\ proc' = [proc EXCEPT ![b] = "gate"]
  /\ UNCHANGED <<rowVars, stale, workerVars, cancelCall>>

\* Engine.Sweep: the retention DELETE takes any terminal rows old enough.
RetentionSweep(b) ==
  /\ proc[b] = "gate"
  /\ \E old \in SUBSET {j \in Jobs : status[j] \in Terminal} :
       status' = [j \in Jobs |-> IF j \in old THEN "pruned" ELSE status[j]]
  /\ proc' = [proc EXCEPT ![b] = "swept"]
  /\ UNCHANGED <<owner, cancelReq, past, lock, stale, leaseRow, workerVars, cancelCall>>

\* Supervisor.Sweep reads the stale rows once, before it closes any of them.
SweepRead(b) ==
  /\ proc[b] = "swept"
  /\ proc' = [proc EXCEPT ![b] = "sweeping"]
  /\ stale' = [stale EXCEPT ![b] = StaleJobs(b)]
  /\ UNCHANGED <<rowVars, leaseRow, workerVars, cancelCall>>

\* Each stale row is closed as failed in a transaction of its own.  After an
\* update check the sweep submits a new one before it goes on.
SweepOne(b, j) ==
  /\ proc[b] = "sweeping"
  /\ j \in stale[b]
  /\ FinishJob(j, "failed")
  /\ stale' = [stale EXCEPT ![b] = @ \ {j}]
  /\ proc' = [proc EXCEPT ![b] = IF j \in CheckJobs THEN "resubmit" ELSE @]
  /\ UNCHANGED <<cancelReq, past, leaseRow, workerVars, cancelCall>>

\* The rest of Recover works on instances; the listener and the lease renewal
\* start once it returns.
SweepDone(b) ==
  /\ proc[b] = "sweeping"
  /\ stale[b] = {}
  /\ proc' = [proc EXCEPT ![b] = "serving"]
  /\ UNCHANGED <<rowVars, stale, leaseRow, workerVars, cancelCall>>

\* DaemonLease.Renew: a tick rewrites the row, or finds another live owner and
\* makes the daemon shut down.
RenewDaemon(b) ==
  /\ proc[b] = "serving"
  /\ IF leaseRow \in {NoBoot, b}
     THEN leaseRow' = b /\ UNCHANGED proc
     ELSE proc' = [proc EXCEPT ![b] = "draining"] /\ UNCHANGED leaseRow
  /\ UNCHANGED <<rowVars, stale, workerVars, cancelCall>>

\* The TTL passes without a renewal: after a crash, while a process is stopped
\* or cut off, during recovery and during the drain (neither renews).
LeaseExpires ==
  /\ leaseRow # NoBoot
  /\ leaseRow' = NoBoot
  /\ UNCHANGED <<rowVars, proc, stale, workerVars, cancelCall>>

-----------------------------------------------------------------------------
(* A process ends. *)

\* The signal: Submit refuses from now on and Engine.Shutdown waits.
Shutdown(b) ==
  /\ proc[b] = "serving"
  /\ proc' = [proc EXCEPT ![b] = "draining"]
  /\ UNCHANGED <<rowVars, stale, leaseRow, workerVars, cancelCall>>

\* The grace period ends first: the engine's context is cancelled.
DrainDeadline(b) ==
  /\ proc[b] = "draining"
  /\ ActiveOf(b) # {}
  /\ proc' = [proc EXCEPT ![b] = "halted"]
  /\ UNCHANGED <<rowVars, stale, leaseRow, workerVars, cancelCall>>

\* What is left of a process that ended: its goroutines are gone.
KillGoroutines(b) ==
  /\ worker' = [j \in Jobs |-> IF runner[j] = b /\ Active(j) THEN "gone" ELSE worker[j]]
  /\ stale' = [stale EXCEPT ![b] = {}]
  /\ cancelCall' = {c \in cancelCall : c[1] # b}

\* daemon.close: the lease row is deleted if it is ours, the flock dropped.  A
\* failed gate or recovery ends here too.
Exit(b) ==
  /\ \/ proc[b] = "draining" /\ ActiveOf(b) = {}
     \/ proc[b] \in {"halted", "gate", "swept", "sweeping", "resubmit"}
  /\ leaseRow' = IF leaseRow = b THEN NoBoot ELSE leaseRow
  /\ proc' = [proc EXCEPT ![b] = "dead"]
  /\ KillGoroutines(b)
  /\ UNCHANGED <<rowVars, runner, outcome>>

Crash(b) ==
  /\ b \in MayCrash
  /\ Live(b)
  /\ proc' = [proc EXCEPT ![b] = "dead"]
  /\ KillGoroutines(b)
  /\ UNCHANGED <<rowVars, leaseRow, runner, outcome>>

-----------------------------------------------------------------------------
(* A job. *)

\* Engine.Submit under workersMu: refused while draining, else the claim and a
\* goroutine.  A refusal (draining, conflict, disk floor, OnClaim) changes nothing.
Submit(b, j) ==
  /\ \/ proc[b] = "serving" /\ UNCHANGED proc
     \/ /\ proc[b] = "resubmit"
        /\ j \in CheckJobs
        /\ proc' = [proc EXCEPT ![b] = "sweeping"]
  /\ ClaimJobWithLocks(j, b)
  /\ runner' = [runner EXCEPT ![j] = b]
  /\ worker' = [worker EXCEPT ![j] = "working"]
  /\ UNCHANGED <<cancelReq, past, stale, leaseRow, outcome, cancelCall>>

\* renewLease: one tick.  No running row of ours: the job's context is
\* cancelled and run() will not write a status.  A matching row only moves
\* lease_until, which nothing reads.
RenewLease(j) ==
  /\ worker[j] = "working"
  /\ ~(status[j] = "running" /\ owner[j] = runner[j])
  /\ worker' = [worker EXCEPT ![j] = "leaseLost"]
  /\ UNCHANGED <<rowVars, procVars, runner, outcome, cancelCall>>

\* Handle.Checkpoint: the Runner passes its point of no return.
Checkpoint(j) ==
  /\ worker[j] \in {"working", "leaseLost"}
  /\ j \in Cancellable
  /\ ~past[j]
  /\ past' = [past EXCEPT ![j] = TRUE]
  /\ UNCHANGED <<status, owner, cancelReq, lock, procVars, workerVars, cancelCall>>

\* The Runner returns.  It reports a cancellation only where it reads
\* cancel_requested_at, at a boundary before the point of no return.
RunnerReturns(j, o) ==
  /\ worker[j] = "working"
  /\ o = "cancelled" => cancelReq[j] /\ ~past[j]
  /\ IF proc[runner[j]] = "halted"
     THEN worker' = [worker EXCEPT ![j] = "gone"] /\ UNCHANGED outcome
     ELSE /\ worker' = [worker EXCEPT ![j] = "finishing"]
          /\ outcome' = [outcome EXCEPT ![j] = o]
  /\ UNCHANGED <<rowVars, procVars, runner, cancelCall>>

\* The Runner returns after the lease was lost: no terminal status is written.
Abandon(j) ==
  /\ worker[j] = "leaseLost"
  /\ worker' = [worker EXCEPT ![j] = "gone"]
  /\ UNCHANGED <<rowVars, procVars, runner, outcome, cancelCall>>

\* The Finish transaction, some time after run() last looked at the lease.
Finish(j) ==
  /\ worker[j] = "finishing"
  /\ FinishJob(j, outcome[j])
  /\ worker' = [worker EXCEPT ![j] = "gone"]
  /\ UNCHANGED <<cancelReq, past, procVars, runner, outcome, cancelCall>>

\* OnFinish or the commit fails and the transaction rolls back: the row stays
\* running with its locks, and the goroutine that renewed it is gone.
FinishFails(j) ==
  /\ worker[j] = "finishing"
  /\ j \in MayFailFinish
  /\ worker' = [worker EXCEPT ![j] = "gone"]
  /\ UNCHANGED <<rowVars, procVars, runner, outcome, cancelCall>>

\* Engine.Cancel reads the row and asks the kind's policy ...
CancelRead(b, j) ==
  /\ proc[b] = "serving"
  /\ status[j] = "running"
  /\ j \in Cancellable
  /\ ~past[j]
  /\ cancelCall' = cancelCall \cup {<<b, j>>}
  /\ UNCHANGED <<rowVars, procVars, workerVars>>

\* ... and then sets cancel_requested_at, whatever the row has become.
RequestJobCancel(b, j) ==
  /\ <<b, j>> \in cancelCall
  /\ cancelCall' = cancelCall \ {<<b, j>>}
  /\ cancelReq' = IF status[j] = "pruned" THEN cancelReq
                                          ELSE [cancelReq EXCEPT ![j] = TRUE]
  /\ UNCHANGED <<status, owner, past, lock, procVars, workerVars>>

-----------------------------------------------------------------------------
ProcNext(b) ==
  \/ Acquire(b)
  \/ RetentionSweep(b)
  \/ SweepRead(b)
  \/ \E j \in Jobs : SweepOne(b, j)
  \/ SweepDone(b)
  \/ RenewDaemon(b)
  \/ Shutdown(b)
  \/ DrainDeadline(b)
  \/ Exit(b)
  \/ Crash(b)

JobNext(j) ==
  \/ \E b \in Boots : Submit(b, j)
  \/ RenewLease(j)
  \/ Checkpoint(j)
  \/ \E o \in Terminal : RunnerReturns(j, o)
  \/ Abandon(j)
  \/ Finish(j)
  \/ FinishFails(j)
  \/ \E b \in Boots : CancelRead(b, j)
  \/ \E b \in Boots : RequestJobCancel(b, j)

Next ==
  \/ \E b \in Boots : ProcNext(b)
  \/ LeaseExpires
  \/ \E j \in Jobs : JobNext(j)

Spec == Init /\ [][Next]_vars

\* A Runner returns (its container calls and waits carry timeouts), and run()
\* goes on to the Finish transaction.  Nothing obliges anyone to submit, to
\* cancel, to stop the daemon or to start another.
Fairness ==
  \A j \in Jobs :
    /\ WF_vars(\E o \in Terminal : RunnerReturns(j, o))
    /\ WF_vars(Finish(j))

FairSpec == Spec /\ Fairness

-----------------------------------------------------------------------------
(* Properties. *)

\* job_locks and job_runs agree whatever processes, crashes and rollbacks do: a
\* held key names a running job that claimed it, and a running job holds every
\* key it claimed (all of them or none, never a leftover).
LocksMatchRows ==
  /\ \A k \in Keys : lock[k] # NoJob =>
       status[lock[k]] = "running" /\ k \in KeysOf[lock[k]]
  /\ \A j \in Jobs : status[j] = "running" => \A k \in KeysOf[j] : lock[k] = j

\* One host: two Runners that share a lock key never work at the same time, the
\* exclusion the locks are there for (it is about goroutines, not about rows).
WorkExclusion ==
  \A i, j \in Jobs :
    (i # j /\ Active(i) /\ Active(j)) => KeysOf[i] \cap KeysOf[j] = {}

\* One host: a process that serves requests owns every running row; nothing a
\* dead process left keeps a lock.
RecoveryComplete ==
  \A b \in Boots, j \in Jobs :
    (proc[b] = "serving" /\ status[j] = "running") => owner[j] = b

\* terminal(): a status a job never leaves (only the retention sweep deletes it).
TerminalIsFinal ==
  [][\A j \in Jobs : status[j] \in Terminal => status'[j] \in {status[j], "pruned"}]_vars

\* StaleJobs: an owner that is not this boot names a process that no longer exists.
SweepClosesOnlyDeadJobs ==
  [][\A b \in Boots, j \in Jobs :
       SweepOne(b, j) => ~\E c \in Boots : Live(c) /\ owner[j] = c]_vars

\* One host: once some process serves for good, every running job reaches a
\* terminal status, those that earlier processes left behind included, unless
\* its own Finish transaction rolled back (its row then waits for a boot).
EveryJobEnds ==
  <>[](\E b \in Boots : proc[b] = "serving") =>
    \A j \in Jobs \ MayFailFinish : status[j] = "running" ~> status[j] \in Terminal

=============================================================================
